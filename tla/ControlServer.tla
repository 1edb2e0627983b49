---------------------------- MODULE ControlServer ----------------------------
(***************************************************************************)
(* The control server (apps/server/src/main.rs): one process that takes    *)
(* packets from one queue and handles them one at a time, the files it     *)
(* leaves, the peers it configures in the kernel, and the operator's       *)
(* commands, which run in other processes on the same state file.          *)
(*                                                                         *)
(* A handler decides and changes the memory of the daemon in one step.     *)
(* What it does outside the memory follows as a list of effects, each of   *)
(* them a step: an effect may fail, and the `?` behind it then drops the   *)
(* rest, and the process may die before any of them.                       *)
(***************************************************************************)
EXTENDS RateLimitJournal, FiniteSets

CONSTANTS Clients,      \* client ids, each with its WireGuard key
          LastHost,     \* addresses 2 .. LastHost of the subnet are leased
          SessionTtl,   \* SESSION_TTL_SECS
          Horizon,      \* TLC only: the last clock reading
          MaxSid,       \* TLC only: how many sessions are ever created
          AdminBudget   \* TLC only: how many operator commands are run

ASSUME ServerAssumption ==
    /\ LastHost \in Nat
    /\ SessionTtl \in Nat \ {0}
    /\ Horizon \in Nat /\ MaxSid \in Nat /\ AdminBudget \in Nat

VARIABLES
    now,        \* unix_now(), which does not run backwards here
    up,         \* the daemon runs
    journal,    \* ServerRuntime.journal
    sessions,   \* ServerRuntime.sessions, the values of the map
    lastSid,    \* session ids are fresh: they are numbered
    stateFile,  \* the journal on disk
    shape,      \* how the last write of the state file left it
    runtime,    \* the snapshot in the runtime file
    kernel,     \* the tunnel address the kernel routes to each client's key
    todo,       \* the effects that the packet in hand still has to have
    lease,      \* the lease they are about: {} or {session}
    refusal,    \* the refusal they announce: {} or {[ip, until, locked]}
    admin,      \* an operator command between its load and its save
    adminRuns,  \* how many operator commands were started
    programmed, \* history: the sessions whose peer the kernel accepted
    announced,  \* history: the refusals that clients were told of
    aborted,    \* history: the last handler left its list unfinished
    spoiled     \* history: the journal on disk lost what a client was told

memory  == <<journal, sessions, lastSid>>
disk    == <<stateFile, shape, runtime>>
job     == <<todo, lease, refusal>>
command == <<admin, adminRuns>>
history == <<programmed, announced, aborted, spoiled>>
vars == <<now, up, memory, disk, kernel, job, command, history>>

Hosts == 2 .. LastHost

NoHost == 0

Session == [sid : Nat, client : Clients, remote : IPs, host : Hosts, expires : Nat]

Refusal == [ip : IPs, until : Nat, locked : BOOLEAN]

Effects == {"peer", "unpeer", "save", "send", "persist"}

Sids(S) == {s.sid : s \in S}

Snapshot(S, locked) == [sessions |-> Sids(S), lockedDown |-> locked]

\* The files are as a first run creates them.
Init ==
    /\ now = 1
    /\ up = FALSE
    /\ journal = EmptyJournal
    /\ sessions = {}
    /\ lastSid = 0
    /\ stateFile = EmptyJournal
    /\ shape = "whole"
    /\ runtime = Snapshot({}, FALSE)
    /\ kernel = [c \in Clients |-> NoHost]
    /\ todo = <<>> /\ lease = {} /\ refusal = {}
    /\ admin = {} /\ adminRuns = 0
    /\ programmed = {} /\ announced = {}
    /\ aborted = FALSE /\ spoiled = FALSE

-----------------------------------------------------------------------------
(***************************************************************************)
(* Sessions.                                                               *)
(***************************************************************************)

\* Variant for the model checker: a session outlives its expiry by a second.
LiveUntilAfter(S, t) == {s \in S : s.expires >= t}

\* `cleanup_expired_sessions`
Live(S, t) == {s \in S : s.expires > t}

\* Variant for the model checker: the test of retain the wrong way round.
WithoutOthers(S, c) == {s \in S : s.client = c}

\* `remove_client_sessions`
Without(S, c) == {s \in S : s.client # c}

FreeHosts(S) == Hosts \ {s.host : s \in S}

\* Variant for the model checker: the server's own address is in the pool.
LowestFreeWithServer(S) ==
    CHOOSE h \in FreeHosts(S) \cup {1} : \A k \in FreeHosts(S) \cup {1} : h <= k

\* `allocate_client_ip`, when an address is free.
LowestFree(S) == CHOOSE h \in FreeHosts(S) : \A k \in FreeHosts(S) : h <= k

\* The session a status query is about: `refresh_session` up to its guards,
\* after its second clean-up.  No client id in the query matches any.
Queried(sid, ip, c) ==
    {s \in Live(sessions, now) : s.sid = sid /\ s.remote = ip /\ c \in {{}, {s.client}}}

\* `remove_session`: by session id, or the client's own when there is none.
Named(sid, ip, c) ==
    {s \in Live(sessions, now) : s.sid \in sid /\ s.remote = ip /\ s.client = c}

-----------------------------------------------------------------------------
(***************************************************************************)
(* Handlers.  A packet is taken when the one before it is done with.       *)
(***************************************************************************)

Receive == up /\ todo = <<>>

\* A handler leaves the sessions S and the effects list behind.
Answer(S, list) ==
    /\ sessions' = S
    /\ todo' = list
    /\ programmed' = programmed \cap Sids(S)
    /\ aborted' = FALSE
    /\ UNCHANGED <<now, up, disk, kernel, command, announced, spoiled>>

\* Variant for the model checker: an early return without a snapshot.
IgnoreSilently ==
    /\ Receive
    /\ Answer(Live(sessions, now), <<>>)
    /\ UNCHANGED <<journal, lastSid, lease, refusal>>

\* Another protocol version or server, a discovery during a lockdown, a
\* status query from outside without a session, a reply sent to the server.
Ignore ==
    /\ Receive
    /\ Answer(Live(sessions, now), <<"persist">>)
    /\ UNCHANGED <<journal, lastSid, lease, refusal>>

\* A discovery, or a status query that names no session of the client.
Inform ==
    /\ Receive
    /\ Answer(Live(sessions, now), <<"send", "persist">>)
    /\ UNCHANGED <<journal, lastSid, lease, refusal>>

StatusQuery(sid, ip, c) ==
    /\ Receive
    /\ \E s \in Queried(sid, ip, c) :
          Answer((Live(sessions, now) \ {s})
                     \cup {[s EXCEPT !.expires = now + SessionTtl]},
                 <<"send", "persist">>)
    /\ UNCHANGED <<journal, lastSid, lease, refusal>>

\* Variant for the model checker: the client's peer goes whichever session
\* the notice names.
DisconnectAnyway(sid, ip, c) ==
    /\ Receive
    /\ \E s \in {t \in Live(sessions, now) : t.client = c} :
          /\ Answer(Live(sessions, now) \ Named(sid, ip, c), <<"unpeer", "persist">>)
          /\ lease' = {s}
    /\ UNCHANGED <<journal, lastSid, refusal>>

\* A notice that matches no session is Ignore.
Disconnect(sid, ip, c) ==
    /\ Receive
    /\ \E s \in Named(sid, ip, c) :
          /\ Answer(Live(sessions, now) \ {s}, <<"unpeer", "persist">>)
          /\ lease' = {s}
    /\ UNCHANGED <<journal, lastSid, refusal>>

AuthDropped(ip) ==
    /\ Receive
    /\ Refused(journal, ip, now)
    /\ journal' = TrimRecent(journal, now)
    /\ Answer(Live(sessions, now), <<"save", "persist">>)
    /\ UNCHANGED <<lastSid, lease, refusal>>

\* The configured hash does not parse: verify_password errs.
AuthErrs(ip) ==
    /\ Receive
    /\ ~ Refused(journal, ip, now)
    /\ journal' = TrimRecent(journal, now)
    /\ sessions' = Live(sessions, now)
    /\ programmed' = programmed \cap Sids(sessions')
    /\ aborted' = TRUE
    /\ UNCHANGED <<now, up, disk, kernel, command, announced, spoiled>>
    /\ UNCHANGED <<lastSid, job>>

\* The answer to a failure: a cooldown it starts, or the lockdown.
RefusalOn(ip, before, after) ==
    [ip     |-> ip,
     until  |-> IF after.failures[ip].cooldownUntil # before.failures[ip].cooldownUntil
                THEN after.failures[ip].cooldownUntil ELSE NoCooldown,
     locked |-> after.lockdown]

\* Variant for the model checker: the answer leaves before it is on disk.
AuthRejectedSendsFirst(ip) ==
    LET after == RegisterFailure(TrimRecent(journal, now), ip, now)
    IN  /\ Receive
        /\ ~ Refused(journal, ip, now)
        /\ journal' = after
        /\ Answer(IF after.lockdown THEN {} ELSE Live(sessions, now),
                  <<"send", "save", "persist">>)
        /\ refusal' = {RefusalOn(ip, journal, after)}
        /\ UNCHANGED <<lastSid, lease>>

\* Variant for the model checker: a lockdown leaves the sessions alone.
AuthRejectedKeepsSessions(ip) ==
    LET after == RegisterFailure(TrimRecent(journal, now), ip, now)
    IN  /\ Receive
        /\ ~ Refused(journal, ip, now)
        /\ journal' = after
        /\ Answer(Live(sessions, now), <<"save", "send", "persist">>)
        /\ refusal' = {RefusalOn(ip, journal, after)}
        /\ UNCHANGED <<lastSid, lease>>

AuthRejected(ip) ==
    LET after == RegisterFailure(TrimRecent(journal, now), ip, now)
    IN  /\ Receive
        /\ ~ Refused(journal, ip, now)
        /\ journal' = after
        /\ Answer(IF after.lockdown THEN {} ELSE Live(sessions, now),
                  <<"save", "send", "persist">>)
        /\ refusal' = {RefusalOn(ip, journal, after)}
        /\ UNCHANGED <<lastSid, lease>>

AuthAccepted(ip, c) ==
    LET others == Without(Live(sessions, now), c)
        new == [sid |-> lastSid + 1, client |-> c, remote |-> ip,
                host |-> LowestFree(others), expires |-> now + SessionTtl]
    IN  /\ Receive
        /\ ~ Refused(journal, ip, now)
        /\ lastSid < MaxSid
        /\ FreeHosts(others) # {}
        /\ journal' = RegisterSuccess(TrimRecent(journal, now), ip)
        /\ Answer(others \cup {new}, <<"peer", "save", "send", "persist">>)
        /\ lease' = {new}
        /\ lastSid' = lastSid + 1
        /\ UNCHANGED refusal

\* issue_lease finds the subnet full, the client's old session already gone.
AuthNoAddress(ip, c) ==
    LET others == Without(Live(sessions, now), c)
    IN  /\ Receive
        /\ ~ Refused(journal, ip, now)
        /\ FreeHosts(others) = {}
        /\ journal' = RegisterSuccess(TrimRecent(journal, now), ip)
        /\ sessions' = others
        /\ programmed' = programmed \cap Sids(others)
        /\ aborted' = TRUE
        /\ UNCHANGED <<now, up, disk, kernel, command, announced, spoiled>>
        /\ UNCHANGED <<lastSid, job>>

Handle ==
    \/ Ignore
    \/ Inform
    \/ \E ip \in IPs : AuthDropped(ip) \/ AuthErrs(ip) \/ AuthRejected(ip)
    \/ \E ip \in IPs, c \in Clients :
          \/ AuthAccepted(ip, c)
          \/ AuthNoAddress(ip, c)
          \/ \E sid \in 0 .. lastSid :
                \/ StatusQuery(sid, ip, {})
                \/ StatusQuery(sid, ip, {c})
                \/ Disconnect({sid}, ip, c)
          \/ Disconnect(1 .. lastSid, ip, c)

-----------------------------------------------------------------------------
(***************************************************************************)
(* Effects.                                                                *)
(***************************************************************************)

Due(effect) == up /\ todo # <<>> /\ Head(todo) = effect

\* One address belongs to one key: the kernel takes it from any other peer
\* (AllowedIPs of WireGuard), and replaces what the key had.
Routed(host, c) ==
    [k \in Clients |-> IF k = c THEN host
                       ELSE IF kernel[k] = host THEN NoHost ELSE kernel[k]]

\* The peer artifact is written and the kernel is asked for the peer.  That
\* the kernel refuses is logged and nothing more.
ApplyPeer ==
    /\ Due("peer")
    /\ \E s \in lease :
          \/ /\ kernel' = Routed(s.host, s.client)
             /\ programmed' = programmed \cup {s.sid}
          \/ UNCHANGED <<kernel, programmed>>
    /\ todo' = Tail(todo)
    /\ lease' = {}
    /\ UNCHANGED <<now, up, memory, disk, refusal, command>>
    /\ UNCHANGED <<announced, aborted, spoiled>>

RemovePeer ==
    /\ Due("unpeer")
    /\ \E s \in lease :
          \/ kernel' = [kernel EXCEPT ![s.client] = NoHost]
          \/ UNCHANGED kernel
    /\ todo' = Tail(todo)
    /\ lease' = {}
    /\ UNCHANGED <<now, up, memory, disk, refusal, command, history>>

SaveJournal ==
    /\ Due("save")
    /\ stateFile' = journal
    /\ shape' = "whole"
    /\ todo' = Tail(todo)
    /\ UNCHANGED <<now, up, memory, runtime, kernel, lease, refusal, command, history>>

Send ==
    /\ Due("send")
    /\ announced' = announced \cup refusal
    /\ refusal' = {}
    /\ todo' = Tail(todo)
    /\ UNCHANGED <<now, up, memory, disk, kernel, lease, command>>
    /\ UNCHANGED <<programmed, aborted, spoiled>>

PersistRuntime ==
    /\ Due("persist")
    /\ runtime' = Snapshot(sessions, journal.lockdown)
    /\ todo' = Tail(todo)
    /\ UNCHANGED <<now, up, memory, stateFile, shape, kernel, lease, refusal, command, history>>

\* What is left of a journal when its file ends after one of the failures:
\* TOML keeps the lockdown for last.
Cuts(j) ==
    {[j EXCEPT !.recent = SubSeq(@, 1, n), !.lockdown = FALSE] : n \in 1 .. Len(j.recent)}

\* fs::write truncates the file first: a write that is cut short leaves
\* nothing that parses, or a part that does.
WriteCutShort ==
    /\ Due("save")
    /\ \/ shape' = "unreadable" /\ UNCHANGED stateFile
       \/ shape' = "cut" /\ stateFile' \in Cuts(journal)

\* An effect fails and the handler returns the error.
EffectFails ==
    /\ up /\ todo # <<>>
    /\ WriteCutShort \/ UNCHANGED <<stateFile, shape>>
    /\ todo' = <<>> /\ lease' = {} /\ refusal' = {}
    /\ aborted' = TRUE
    /\ UNCHANGED <<now, up, memory, runtime, kernel, command>>
    /\ UNCHANGED <<programmed, announced, spoiled>>

Effect ==
    \/ ApplyPeer \/ RemovePeer \/ SaveJournal \/ Send \/ PersistRuntime
    \/ EffectFails

-----------------------------------------------------------------------------
(***************************************************************************)
(* The process, the host and the operator.                                 *)
(***************************************************************************)

\* Ctrl-C, a kill, an error log that cannot be written: anywhere in a
\* handler or between two.
Stop ==
    /\ up
    /\ up' = FALSE
    /\ WriteCutShort \/ UNCHANGED <<stateFile, shape>>
    /\ journal' = EmptyJournal /\ sessions' = {}
    /\ todo' = <<>> /\ lease' = {} /\ refusal' = {}
    /\ programmed' = {}
    /\ aborted' = FALSE
    /\ UNCHANGED <<now, lastSid, runtime, kernel, command, announced, spoiled>>

\* A start that loads a part of the journal takes it for the whole.
Start ==
    /\ ~ up
    /\ shape # "unreadable"
    /\ up' = TRUE
    /\ journal' = stateFile
    /\ runtime' = Snapshot({}, stateFile.lockdown)
    /\ spoiled' = (spoiled \/ shape = "cut")
    /\ UNCHANGED <<now, sessions, lastSid, stateFile, shape, kernel, job, command>>
    /\ UNCHANGED <<programmed, announced, aborted>>

\* The peers are gone with the interface; they outlive the daemon.
Reboot ==
    /\ ~ up
    /\ \E c \in Clients : kernel[c] # NoHost
    /\ kernel' = [c \in Clients |-> NoHost]
    /\ UNCHANGED <<now, up, memory, disk, job, command, history>>

\* The operator deletes a state file that does not parse.
Repair ==
    /\ ~ up
    /\ shape = "unreadable"
    /\ stateFile' = EmptyJournal
    /\ shape' = "whole"
    /\ spoiled' = TRUE
    /\ UNCHANGED <<now, up, memory, runtime, kernel, job, command>>
    /\ UNCHANGED <<programmed, announced, aborted>>

\* What `unlock` and `unban` do to the copy of the journal they load.
Commands == {"unlock"} \X IPs \cup {"unban"} \X IPs

Commanded(j, what) ==
    IF what[1] = "unlock" THEN Unlock(j) ELSE Unban(j, what[2])

AdminLoads(what) ==
    /\ admin = {}
    /\ adminRuns < AdminBudget
    /\ shape # "unreadable"
    /\ what[1] = "unban" => what[2] \in stateFile.banned
    /\ admin' = {[what |-> what, copy |-> stateFile]}
    /\ adminRuns' = adminRuns + 1
    /\ UNCHANGED <<now, up, memory, disk, kernel, job, history>>

\* The whole copy is written: what the file got since the load is lost.
AdminSaves ==
    /\ \E a \in admin :
          /\ stateFile' = Commanded(a.copy, a.what)
          /\ spoiled' = (spoiled \/ stateFile # a.copy \/ shape # "whole"
                                 \/ stateFile'.lockdown # a.copy.lockdown)
    /\ shape' = "whole"
    /\ admin' = {}
    /\ UNCHANGED <<now, up, memory, runtime, kernel, job, adminRuns>>
    /\ UNCHANGED <<programmed, announced, aborted>>

Tick ==
    /\ now < Horizon
    /\ now' = now + 1
    /\ UNCHANGED <<up, memory, disk, kernel, job, command, history>>

Next ==
    \/ Handle \/ Effect
    \/ Stop \/ Start \/ Reboot \/ Repair
    \/ (\E what \in Commands : AdminLoads(what)) \/ AdminSaves
    \/ Tick

Spec == Init /\ [][Next]_vars

-----------------------------------------------------------------------------

(***************************************************************************)
(* Type invariant.                                                         *)
(***************************************************************************)
TypeOK ==
    /\ now \in Nat /\ up \in BOOLEAN
    /\ journal \in Journal /\ stateFile \in Journal
    /\ shape \in {"whole", "cut", "unreadable"}
    /\ sessions \subseteq Session /\ lastSid \in Nat
    /\ runtime \in [sessions : SUBSET Nat, lockedDown : BOOLEAN]
    /\ kernel \in [Clients -> Hosts \cup {NoHost}]
    /\ todo \in Seq(Effects) /\ lease \subseteq Session /\ refusal \subseteq Refusal
    /\ admin \subseteq [what : Commands, copy : Journal] /\ adminRuns \in Nat
    /\ programmed \subseteq Nat /\ announced \subseteq Refusal
    /\ aborted \in BOOLEAN /\ spoiled \in BOOLEAN

(***************************************************************************)
(* No two sessions share an address, no client has two sessions and no id  *)
(* is used twice, whatever expired, was replaced, disconnected or failed   *)
(* half-way in between.                                                    *)
(***************************************************************************)
LeasesExclusive ==
    \A s, t \in sessions :
        s.host = t.host \/ s.client = t.client \/ s.sid = t.sid => s = t

(***************************************************************************)
(* A locked server has no sessions: the failure that locks it clears them, *)
(* and no login, restart or operator command brings one back.              *)
(***************************************************************************)
LockdownNoSessions == journal.lockdown => sessions = {}

(***************************************************************************)
(* The peer of a live session stays routed to the address of its lease:    *)
(* neither another client's login nor a late disconnect of an older        *)
(* session of the same client takes the route away.                        *)
(***************************************************************************)
KernelFollowsLease ==
    \A s \in sessions : s.sid \in programmed => kernel[s.client] = s.host

(***************************************************************************)
(* The runtime file, which the dashboard shows, is that of the sessions    *)
(* whenever the daemon waits for a packet, unless the last one failed:     *)
(* every way out of the handler, the early returns too, writes it after    *)
(* the clean-up of expired sessions.                                       *)
(***************************************************************************)
RuntimeCurrent ==
    up /\ todo = <<>> /\ ~ aborted => runtime = Snapshot(sessions, journal.lockdown)

\* A refusal a client was told of, that still stands, is one of journal j.
Stands(v, j) ==
    /\ v.until > now => j.failures[v.ip].cooldownUntil >= v.until
    /\ v.locked => j.lockdown

(***************************************************************************)
(* A refusal outlives the daemon: once a client is told of a cooldown or a *)
(* lockdown, the journal in memory and the one on disk hold it, so that    *)
(* stopping and starting the daemon at any point does not lift it.  What   *)
(* can lift it is in spoiled: the operator, an operator's command that     *)
(* overwrites a newer file, a file cut short and then loaded or deleted.   *)
(***************************************************************************)
RefusalsHold ==
    ~ spoiled => \A v \in announced :
        /\ up => Stands(v, journal)
        /\ shape = "whole" => Stands(v, stateFile)

(***************************************************************************)
(* The addresses are handed out as LeasePool says.                         *)
(***************************************************************************)
HolderOf(h) == {s.client : s \in {t \in sessions : t.host = h}}

EndOf(h) ==
    LET held == {s \in sessions : s.host = h}
    IN  IF held = {} THEN 0 ELSE (CHOOSE s \in held : TRUE).expires

Pool == INSTANCE LeasePool WITH
            Ttl <- SessionTtl,
            owner <- [h \in Hosts |-> HolderOf(h)],
            until <- [h \in Hosts |-> EndOf(h)]

PoolSpec == Pool!Spec

=============================================================================
