-------------------------- MODULE ServerHostProofs --------------------------
(***************************************************************************)
(* Theorems about ServerHost, for any clients, addresses, sessions,        *)
(* programs and failures: who is routed, who stays out, what is down.      *)
(***************************************************************************)
EXTENDS ServerHost, WellFoundedInduction, FiniteSetTheorems, TLAPS

-----------------------------------------------------------------------------
(***************************************************************************)
(* The invariants.                                                         *)
(***************************************************************************)

\* A daemon that is down has nothing in memory, one that starts has no session.
Fresh == sessions = {} /\ lease = {}

DownIsEmpty ==
    /\ daemon = Nobody => Fresh /\ job = <<>>
    /\ job = <<"device">> => Fresh

\* Sessions differ in id, key and address; no id is ahead of the counter.
Exclusive ==
    /\ \A s, t \in sessions :
          s.sid = t.sid \/ s.key = t.key \/ s.host = t.host => s = t
    /\ \A s \in sessions : s.sid <= lastSid

\* What was granted is a living session's, and its file was written.
GrantsLive == \A g \in granted : \E s \in sessions : s.sid = g /\ s \in files

\* One session at most is in hand.  It lives and is about to be applied, with its
\* file behind it; or it ended, and nobody has its key or its address yet.
Arriving == lease \subseteq sessions /\ (job # <<"write", "apply">> => lease \subseteq files)

Leaving == \A s \in lease, t \in sessions : s.key # t.key /\ s.host # t.host

InHand ==
    /\ \A s, t \in lease : s = t
    /\ job # <<>> => Arriving \/ Leaving
    /\ job \in {<<"write", "apply">>, <<"apply">>} => Arriving
    /\ job \in {<<"unfile", "unapply">>, <<"unapply">>} => Leaving

SessionInv == DownIsEmpty /\ Exclusive /\ GrantsLive /\ InHand

\* On Linux nobody was granted anything without an interface.
NoLinkNoGrants == os = "linux" /\ ~ link.there => granted = {}

Routed ==
    link.there => \A s \in sessions :
                      s.sid \in granted /\ ~ Contested(s) => link.route[s.host] = s.key

\* systemd's daemon has configured the interface when it takes packets.
UnitServes ==
    daemon = "unit" /\ job # <<"device">> /\ ~ refused => link.there /\ link.set

\* Once the removal has stopped the service it stays stopped.
ServiceStopped ==
    os = "linux" /\ op.name = "remove" /\ op.steps # <<"disable", "deleteTable", "deleteLink">> =>
        ~ unit.on /\ daemon # "unit"

RoutedInv == NoLinkNoGrants /\ Routed /\ UnitServes /\ ServiceStopped

\* Nobody who is known or in hand counts as gone.
KnownNotGone ==
    /\ \A s \in sessions : s.key \notin gone
    /\ job # <<>> => \A s \in lease : s.key \notin gone

GoneInv == KnownNotGone /\ DepartedStayOut

\* How far a removal has come when all its steps did what they are for.
RemovalProgress ==
    os = "linux" /\ op.name = "remove" /\ op.ok /\ op.steps = <<"deleteLink">> =>
        "table" \notin opened

\* The same of a "stop" of the window.
StopProgress ==
    os = "windows" /\ op.name = "stop" /\ op.ok =>
        /\ Head(op.steps) # "kill" => daemon = Nobody
        /\ Head(op.steps) \notin {"kill", "deleteRules"} => "rules" \notin opened
        /\ Head(op.steps) \in {"deleteNetNat", "forget"} => ~ link.there
        /\ Head(op.steps) = "forget" => "netNat" \notin opened

Down ==
    stopped =>
        /\ op = NoOp /\ daemon = Nobody /\ ~ link.there
        /\ opened \cap {"table", "rules", "netNat"} = {}

DownInv == RemovalProgress /\ StopProgress /\ Down

-----------------------------------------------------------------------------
(***************************************************************************)
(* Types.                                                                  *)
(***************************************************************************)

LEMMA NobodyIsNoClient == Nobody \notin Clients
BY HostAssumption

LEMMA NoLinkTyped ==
    NoLink \in Link
BY DEF NoLink, Link, Route

\* A daemon that starts leaves it as it is that no program runs.
LEMMA NoOpAgain == [NoOp EXCEPT !.ok = TRUE] = NoOp
<1>1. ASSUME NEW n, NEW s, NEW k, NEW b
      PROVE  [[name |-> n, steps |-> s, ok |-> k] EXCEPT !.ok = b]
                 = [name |-> n, steps |-> s, ok |-> b]
  OBVIOUS
<1>2. \A k : [[name |-> "none", steps |-> <<>>, ok |-> k] EXCEPT !.ok = k]
                = [name |-> "none", steps |-> <<>>, ok |-> k]
  BY <1>1, Zenon
<1>3. PICK k : k = TRUE OBVIOUS
<1>4. NoOp = [name |-> "none", steps |-> <<>>, ok |-> k] BY <1>3, Zenon DEF NoOp
<1>5. [NoOp EXCEPT !.ok = k] = NoOp BY <1>2, <1>4, Zenon
<1>. QED BY <1>3, <1>5, Zenon

\* A program goes on to the rest of its list, or is done.
LEMMA WentOn ==
    ASSUME TypeOK, os' = os, NEW ok \in BOOLEAN, NEW step, Does(step), Went(ok)
    PROVE  /\ op \in [name : {"apply", "remove", "start", "stop"}, steps : Rests(os, op.name),
                      ok : BOOLEAN]
           /\ op # NoOp
           /\ \/ op' = NoOp /\ Tail(op.steps) = <<>>
              \/ /\ op' = [name |-> op.name, steps |-> Tail(op.steps), ok |-> op.ok /\ ok]
                 /\ Tail(op.steps) # <<>> /\ ~ stopped'
           /\ op' = NoOp \/ Running(op)'
           /\ stopped' \in BOOLEAN
           /\ stopped' => /\ op' = NoOp /\ Tail(op.steps) = <<>> /\ op.ok /\ ok
                          /\ op.name = (IF os = "linux" THEN "remove" ELSE "stop")
                          /\ daemon' # "hand"
<1> DEFINE rest == [op EXCEPT !.steps = Tail(@), !.ok = @ /\ ok]
<1>1. op # NoOp BY DEF Does, NoOp
<1>2. Running(op) BY <1>1 DEF TypeOK
<1>3. op \in [name : {"apply", "remove", "start", "stop"}, steps : Rests(os, op.name), ok : BOOLEAN]
      /\ op.steps # <<>>
  BY <1>2 DEF Running
<1>4. rest = [name |-> op.name, steps |-> Tail(op.steps), ok |-> op.ok /\ ok]
  <2>1. ASSUME NEW t, NEW b
        PROVE  [op EXCEPT !.steps = t, !.ok = b] = [name |-> op.name, steps |-> t, ok |-> b]
    <3>1. PICK n, s, k : op = [name |-> n, steps |-> s, ok |-> k]
      BY <1>3, Zenon
    <3>2. op.name = n BY <3>1
    <3>3. [op EXCEPT !.steps = t] = [name |-> n, steps |-> t, ok |-> k]
      BY <3>1
    <3>4. [[name |-> n, steps |-> t, ok |-> k] EXCEPT !.ok = b]
              = [name |-> n, steps |-> t, ok |-> b]
      OBVIOUS
    <3>. QED BY <3>2, <3>3, <3>4, Zenon
  <2>. QED BY <2>1, Zenon
<1>5. /\ rest.steps = Tail(op.steps) /\ rest.name = op.name /\ rest.ok = (op.ok /\ ok)
  BY <1>4
<1>6. /\ op' = IF rest.steps = <<>> THEN NoOp ELSE rest
      /\ stopped' = (rest.steps = <<>> /\ rest.ok /\ TakesDown(rest) /\ daemon' # "hand")
  BY DEF Went
<1>7. Tail(op.steps) \in Rests(os, op.name) \cup {<<>>}
  <2>1. os \in {"linux", "windows"} BY DEF TypeOK
  <2>2. CASE os = "linux"
    <3>1. CASE op.name = "remove"
      <4>1. Rests(os, op.name) = {<<"disable", "deleteTable", "deleteLink">>,
                                  <<"deleteTable", "deleteLink">>, <<"deleteLink">>}
        BY <3>1, <2>2, <1>3 DEF Rests
      <4>2. op.steps \in Rests(os, op.name) BY <1>3, Zenon
      <4>3. CASE op.steps = <<"disable", "deleteTable", "deleteLink">>
        <5>1. Tail(op.steps) = <<"deleteTable", "deleteLink">> BY <4>3
        <5>. QED BY <5>1, <4>1
      <4>4. CASE op.steps = <<"deleteTable", "deleteLink">>
        <5>1. Tail(op.steps) = <<"deleteLink">> BY <4>4
        <5>. QED BY <5>1, <4>1
      <4>5. CASE op.steps = <<"deleteLink">>
        <5>1. Tail(op.steps) = <<>> BY <4>5
        <5>. QED BY <5>1
      <4>. QED BY <4>1, <4>2, <4>3, <4>4, <4>5, Zenon
    <3>2. CASE op.name = "apply" BY <3>2, <2>2, <1>3 DEF Rests
    <3>3. CASE op.name \notin {"remove", "apply"}
      <4>1. Rests(os, op.name) = Seq({"systemctlStart", "systemctlStop"})
        BY <3>3, <2>2, <1>3 DEF Rests
      <4>. QED BY <4>1, <1>3
    <3>. QED BY <3>1, <3>2, <3>3
  <2>3. CASE os = "windows"
    <3>1. CASE op.name = "stop"
      <4>1. Rests(os, op.name) =
                {<<"kill", "deleteRules", "uninstall", "deleteNetNat", "forget">>,
                 <<"deleteRules", "uninstall", "deleteNetNat", "forget">>,
                 <<"uninstall", "deleteNetNat", "forget">>,
                 <<"deleteNetNat", "forget">>, <<"forget">>}
        BY <3>1, <2>3, <1>3 DEF Rests
      <4>2. op.steps \in Rests(os, op.name) BY <1>3, Zenon
      <4>3. CASE op.steps = <<"kill", "deleteRules", "uninstall", "deleteNetNat", "forget">>
        <5>1. Tail(op.steps) = <<"deleteRules", "uninstall", "deleteNetNat", "forget">>
          BY <4>3
        <5>. QED BY <5>1, <4>1
      <4>4. CASE op.steps = <<"deleteRules", "uninstall", "deleteNetNat", "forget">>
        <5>1. Tail(op.steps) = <<"uninstall", "deleteNetNat", "forget">>
          BY <4>4
        <5>. QED BY <5>1, <4>1
      <4>5. CASE op.steps = <<"uninstall", "deleteNetNat", "forget">>
        <5>1. Tail(op.steps) = <<"deleteNetNat", "forget">>
          BY <4>5
        <5>. QED BY <5>1, <4>1
      <4>6. CASE op.steps = <<"deleteNetNat", "forget">>
        <5>1. Tail(op.steps) = <<"forget">>
          BY <4>6
        <5>. QED BY <5>1, <4>1
      <4>7. CASE op.steps = <<"forget">>
        <5>1. Tail(op.steps) = <<>>
          BY <4>7
        <5>. QED BY <5>1
      <4>. QED BY <4>1, <4>2, <4>3, <4>4, <4>5, <4>6, <4>7, Zenon
    <3>2. CASE op.name # "stop"
      <4>1. Rests(os, op.name) = Seq({"kill", "deleteRules", "uninstall", "deleteNetNat", "forget",
                            "router", "netNat", "rules", "spawn", "savePid"})
        BY <3>2, <2>3, <1>3 DEF Rests
      <4>. QED BY <4>1, <1>3
    <3>. QED BY <3>1, <3>2
  <2>. QED BY <2>1, <2>2, <2>3
<1>8. \/ op' = NoOp /\ Tail(op.steps) = <<>>
      \/ op' = rest /\ Tail(op.steps) # <<>> /\ ~ stopped'
  BY <1>5, <1>6
<1>9. op' = rest /\ Tail(op.steps) # <<>> => Running(op)'
  BY <1>3, <1>4, <1>7, <1>8 DEF Running
<1>10. stopped' \in BOOLEAN BY <1>6
<1>11. stopped' => /\ op' = NoOp /\ Tail(op.steps) = <<>> /\ op.ok /\ ok
                   /\ op.name = (IF os = "linux" THEN "remove" ELSE "stop") /\ daemon' # "hand"
  BY <1>5, <1>6 DEF TakesDown
<1> HIDE DEF rest
<1>. QED BY <1>1, <1>3, <1>4, <1>8, <1>9, <1>10, <1>11

\* Which steps there are on which platform, and in which program.
LEMMA StepsOf ==
    ASSUME TypeOK, NEW step, Does(step)
    PROVE  /\ os = "linux" => step \in {"restart", "forward", "table", "masquerade", "tunnel",
                  "disable", "deleteTable", "deleteLink", "systemctlStart", "systemctlStop"}
           /\ os = "windows" => step \in {"kill", "deleteRules", "uninstall", "deleteNetNat",
                  "forget", "router", "netNat", "rules", "spawn", "savePid"}
           /\ os = "linux" /\ op.name = "remove" =>
                  step \in {"disable", "deleteTable", "deleteLink"}
           /\ os = "linux" /\ step \in {"disable", "deleteTable", "deleteLink"} =>
                  op.name = "remove"
           /\ os = "windows" /\ op.name = "stop" =>
                  step \in {"kill", "deleteRules", "uninstall", "deleteNetNat", "forget"}
<1>1. op # NoOp BY DEF Does, NoOp
<1>2. /\ op \in [name : {"apply", "remove", "start", "stop"}, steps : Rests(os, op.name), ok : BOOLEAN]
      /\ op.steps # <<>> /\ step = Head(op.steps)
  BY <1>1 DEF TypeOK, Running, Does
<1>3. CASE os = "linux"
  <2>1. CASE op.name = "remove" BY <2>1, <1>3, <1>2 DEF Rests
  <2>2. CASE op.name = "apply" BY <2>2, <1>3, <1>2 DEF Rests
  <2>3. CASE op.name \notin {"remove", "apply"}
    <3>1. Rests(os, op.name) = Seq({"systemctlStart", "systemctlStop"})
      BY <2>3, <1>3, <1>2 DEF Rests
    <3>. QED BY <3>1, <1>2, <1>3, <2>3
  <2>. QED BY <2>1, <2>2, <2>3
<1>4. CASE os = "windows"
  <2>1. CASE op.name = "stop" BY <2>1, <1>4, <1>2 DEF Rests
  <2>2. CASE op.name # "stop"
    <3>1. Rests(os, op.name) = Seq({"kill", "deleteRules", "uninstall", "deleteNetNat", "forget",
                            "router", "netNat", "rules", "spawn", "savePid"})
      BY <2>2, <1>4, <1>2 DEF Rests
    <3>. QED BY <3>1, <1>2, <1>4, <2>2
  <2>. QED BY <2>1, <2>2
<1>. QED BY <1>3, <1>4 DEF TypeOK

(***************************************************************************)
(* What each step does.                                                    *)
(***************************************************************************)

LEMMA LeastHost ==
    ASSUME NEW T \in SUBSET Nat, T # {}
    PROVE  \E m \in T : \A n \in T : m <= n
<1> DEFINE Below(m) == T \cap (0 .. m)
           Family == {Below(m) : m \in T}
<1>1. \A m \in T : Below(m) \in FiniteSubsetsOf(Nat)
  <2>1. ASSUME NEW m \in T PROVE Below(m) \in FiniteSubsetsOf(Nat)
    <3>1. IsFiniteSet(0 .. m) BY FS_Interval
    <3>2. IsFiniteSet(Below(m)) BY <3>1, FS_Subset
    <3>. QED BY <3>2 DEF FiniteSubsetsOf
  <2>. QED BY <2>1
<1>2. PICK A \in Family : \A B \in Family : ~ (<<B, A>> \in StrictSubsetOrdering(Nat))
  <2>1. Family \subseteq FiniteSubsetsOf(Nat) /\ Family # {} BY <1>1
  <2>. QED BY <2>1, FS_StrictSubsetOrderingWellFounded, WFMin
<1>3. PICK m \in T : A = Below(m) BY <1>2
<1>4. ASSUME NEW n \in T, n < m PROVE FALSE
  <2>1. Below(n) \in Family OBVIOUS
  <2>2. Below(n) \subseteq Below(m) /\ m \in Below(m) /\ m \notin Below(n) BY <1>4
  <2>3. <<Below(n), A>> \in StrictSubsetOrdering(Nat)
    BY <2>2, <1>3 DEF StrictSubsetOrdering
  <2>. QED BY <2>1, <2>3, <1>2
<1>. QED BY <1>4

\* A login creates a session that nobody's id, key or address clashes with.
LEMMA LoginMakes ==
    ASSUME TypeOK, NEW c \in Clients, Login(c)
    PROVE  \E s \in Session, others \in SUBSET sessions :
               /\ s.sid = lastSid + 1 /\ s.key = c
               /\ others = {t \in sessions : t.key # c}
               /\ \A t \in others : t.key # c /\ t.host # s.host
               /\ sessions' = others \cup {s} /\ lease' = {s}
               /\ granted' = granted \cap {t.sid : t \in others}
               /\ lastSid' = lastSid + 1 /\ job' = <<"write", "apply">> /\ gone' = gone \ {c}
               /\ Waits
               /\ UNCHANGED <<os, wg, daemon, files, link, opened, unit, pidFile, op, ops,
                              faults, refused, stopped>>
<1> DEFINE others == {t \in sessions : t.key # c}
           s == [sid |-> lastSid + 1, key |-> c, host |-> LowestFree(others)]
<1>1. PICK h \in FreeHosts(others) : \A k \in FreeHosts(others) : h <= k
  <2>1. FreeHosts(others) # {} BY DEF Login
  <2>2. FreeHosts(others) \in SUBSET Nat BY HostAssumption DEF FreeHosts
  <2>. QED BY <2>1, <2>2, LeastHost
<1>2. LowestFree(others) \in FreeHosts(others)
  BY <1>1 DEF LowestFree
<1>3. LowestFree(others) \in Hosts /\ \A t \in others : t.host # LowestFree(others)
  BY <1>2 DEF FreeHosts
<1>4. s \in Session
  <2>1. lastSid \in Nat /\ lastSid < MaxSid BY DEF TypeOK, Login
  <2>2. lastSid + 1 \in 1 .. MaxSid BY <2>1, HostAssumption
  <2>. QED BY <2>2, <1>3 DEF Session
<1>5. s.sid = lastSid + 1 /\ s.key = c /\ s.host = LowestFree(others)
  OBVIOUS
<1>6. /\ sessions' = others \cup {s} /\ lease' = {s}
      /\ granted' = granted \cap {t.sid : t \in others}
      /\ lastSid' = lastSid + 1 /\ job' = <<"write", "apply">> /\ gone' = gone \ {c}
      /\ Waits
      /\ UNCHANGED <<os, wg, daemon, files, link, opened, unit, pidFile, op, ops, faults,
                     refused, stopped>>
  BY Zenon DEF Login, host, counts
<1>7. others \in SUBSET sessions /\ \A t \in others : t.key # c
  OBVIOUS
<1> HIDE DEF others, s
<1>8. \A t \in others : t.host # s.host BY <1>3, <1>5
<1>. QED
  <2>1. others = {t \in sessions : t.key # c} BY DEF others
  <2>. QED BY <2>1, <1>4, <1>5, <1>6, <1>7, <1>8, Zenon

\* What the end of a process and a beginning do to the types.
LEMMA LinksTyped ==
    ASSUME TypeOK
    PROVE  /\ Created \in Link /\ Configured \in Link /\ Configured.there /\ Configured.set
           /\ Configured.route = Created.route /\ Created.there
           /\ link.there => Created = link
           /\ ~ link.there => Created.route = NoLink.route
           /\ \A route \in Route :
                 /\ [Created EXCEPT !.route = route] \in Link
                 /\ [Created EXCEPT !.route = route].route = route
                 /\ [Created EXCEPT !.route = route].there
                 /\ [Created EXCEPT !.route = route].set = Created.set
           /\ \A h \in Hosts : NoLink.route[h] = Nobody
           /\ NoLink.route \in Route
           /\ ~ NoLink.there
<1>1. NoLink \in Link /\ link \in Link BY NoLinkTyped DEF TypeOK
<1>2. [NoLink EXCEPT !.there = TRUE] \in Link /\ [NoLink EXCEPT !.there = TRUE].there
      /\ [NoLink EXCEPT !.there = TRUE].route = NoLink.route
  BY <1>1 DEF Link
<1>3. Created \in Link /\ Created.there BY <1>1, <1>2 DEF Created
<1>4. link.there => Created = link BY DEF Created
<1>5. ~ link.there => Created.route = NoLink.route BY <1>2 DEF Created
<1>6. Configured \in Link /\ Configured.there /\ Configured.set /\ Configured.route = Created.route
  BY <1>3 DEF Configured, Link
<1>7. ASSUME NEW route \in Route
      PROVE  /\ [Created EXCEPT !.route = route] \in Link
             /\ [Created EXCEPT !.route = route].route = route
             /\ [Created EXCEPT !.route = route].there
             /\ [Created EXCEPT !.route = route].set = Created.set
  BY <1>3 DEF Link
<1>8. /\ \A h \in Hosts : NoLink.route[h] = Nobody
      /\ NoLink.route \in Route /\ ~ NoLink.there
  BY DEF NoLink, Route
<1>. QED BY <1>3, <1>4, <1>5, <1>6, <1>7, <1>8, Zenon

\* A route as the interface, or the files, give it.
LEMMA RoutesTyped ==
    ASSUME NEW route \in Route, TypeOK
    PROVE  /\ \A s \in Session : AddPeer(route, s) \in Route
           /\ \A k : DropPeer(route, k) \in Route
BY DEF AddPeer, DropPeer, Session, Route

\* The profile gives each address to nobody, or to one of the files that name it.
LEMMA ProfilesTyped ==
    ASSUME TypeOK, NEW route \in Profiles
    PROVE  /\ route \in Route
           /\ \A h \in Hosts : \/ route[h] = Nobody
                               \/ \E f \in files : f.host = h /\ f.key = route[h]
           /\ \A s \in files :
                 (\A f \in files \ {s} : f.key # s.key /\ f.host # s.host)
                     => route[s.host] = s.key
<1>1. PICK order \in Orders : route = Profile(order) BY DEF Profiles
<1>2. files \subseteq Session BY DEF TypeOK
<1>3. ASSUME NEW h \in Hosts
      PROVE  route[h] = IF Lasting(order, h) = {} THEN Nobody
                        ELSE (CHOOSE f \in Lasting(order, h) : TRUE).key
  BY <1>1 DEF Profile
<1>4. ASSUME NEW h \in Hosts
      PROVE  \/ route[h] = Nobody /\ Lasting(order, h) = {}
             \/ \E f \in Lasting(order, h) : route[h] = f.key
  BY <1>3
<1>5. ASSUME NEW h \in Hosts, NEW f \in Lasting(order, h)
      PROVE  f \in files /\ f.host = h
  BY DEF Lasting
<1>6. ASSUME NEW h \in Hosts
      PROVE  route[h] = Nobody \/ \E f \in files : f.host = h /\ f.key = route[h]
  BY <1>4, <1>5
<1>7. \A h \in Hosts : route[h] \in Clients \cup {Nobody}
  BY <1>6, <1>2 DEF Session
<1>8. route = [h \in Hosts |-> route[h]] BY <1>1 DEF Profile
<1>9. ASSUME NEW s \in files, \A f \in files \ {s} : f.key # s.key /\ f.host # s.host
      PROVE  route[s.host] = s.key
  <2>1. s.host \in Hosts BY <1>2 DEF Session
  <2>2. s \in Lasting(order, s.host) BY <1>9 DEF Lasting
  <2>3. \A f \in Lasting(order, s.host) : f = s BY <1>5, <1>9, <2>1
  <2>. QED BY <1>4, <2>1, <2>2, <2>3
<1>. QED BY <1>6, <1>7, <1>8, <1>9 DEF Route

\* The job that Head takes a step of, and what is left of it.
LEMMA JobsOf ==
    ASSUME TypeOK, NEW step, Ready(step)
    PROVE  /\ daemon # Nobody /\ job # <<>>
           /\ step = "device" => os = "linux" /\ job = <<"device">> /\ Tail(job) = <<>>
           /\ step = "write" => job = <<"write", "apply">> /\ Tail(job) = <<"apply">>
           /\ step = "apply" => job = <<"apply">> /\ Tail(job) = <<>>
           /\ step = "unapply" => job = <<"unapply">> /\ Tail(job) = <<>>
           /\ step = "unfile" =>
                 os = "windows" /\ job = <<"unfile", "unapply">> /\ Tail(job) = <<"unapply">>
           /\ step = "uninstall" =>
                 os = "windows" /\ job = <<"uninstall", "install">> /\ Tail(job) = <<"install">>
           /\ step = "install" => os = "windows" /\ job = <<"install">> /\ Tail(job) = <<>>
<1>1. daemon # Nobody /\ job # <<>> /\ Head(job) = step /\ job \in Jobs(os)
  BY DEF TypeOK, Ready
<1>2. os \in {"linux", "windows"} BY DEF TypeOK
<1>3. \/ job = <<"write", "apply">> \/ job = <<"apply">> \/ job = <<"unapply">>
      \/ os = "linux" /\ job = <<"device">>
      \/ os = "windows" /\ \/ job = <<"unfile", "unapply">>
                           \/ job = <<"uninstall", "install">> \/ job = <<"install">>
  BY <1>1, <1>2, Zenon DEF Jobs
<1>4. CASE job = <<"write", "apply">>
  <2>1. Head(job) = "write" /\ Tail(job) = <<"apply">> BY <1>4
  <2>. QED BY <2>1, <1>1, <1>4
<1>5. CASE job = <<"apply">>
  <2>1. Head(job) = "apply" /\ Tail(job) = <<>> BY <1>5
  <2>. QED BY <2>1, <1>1, <1>5
<1>6. CASE job = <<"unapply">>
  <2>1. Head(job) = "unapply" /\ Tail(job) = <<>> BY <1>6
  <2>. QED BY <2>1, <1>1, <1>6
<1>7. CASE os = "linux" /\ job = <<"device">>
  <2>1. Head(job) = "device" /\ Tail(job) = <<>> BY <1>7
  <2>. QED BY <2>1, <1>1, <1>7
<1>8. CASE os = "windows" /\ job = <<"unfile", "unapply">>
  <2>1. Head(job) = "unfile" /\ Tail(job) = <<"unapply">> BY <1>8
  <2>. QED BY <2>1, <1>1, <1>8
<1>9. CASE os = "windows" /\ job = <<"uninstall", "install">>
  <2>1. Head(job) = "uninstall" /\ Tail(job) = <<"install">> BY <1>9
  <2>. QED BY <2>1, <1>1, <1>9
<1>10. CASE os = "windows" /\ job = <<"install">>
  <2>1. Head(job) = "install" /\ Tail(job) = <<>> BY <1>10
  <2>. QED BY <2>1, <1>1, <1>10
<1>. QED BY <1>3, <1>4, <1>5, <1>6, <1>7, <1>8, <1>9, <1>10, Zenon

LEMMA JobLists ==
    ASSUME NEW system \in {"linux", "windows"}
    PROVE  /\ <<>> \in Jobs(system) /\ <<"write", "apply">> \in Jobs(system)
           /\ <<"apply">> \in Jobs(system) /\ <<"unapply">> \in Jobs(system)
           /\ system = "linux" => <<"device">> \in Jobs(system)
           /\ system = "windows" => /\ <<"unfile", "unapply">> \in Jobs(system)
                                    /\ <<"uninstall", "install">> \in Jobs(system)
                                    /\ <<"install">> \in Jobs(system)
BY Zenon DEF Jobs

\* A job that builds the tunnel again.
LEMMA RebuildIs ==
    ASSUME Tail(job) = <<>>
    PROVE  Rebuild = <<"uninstall", "install">>
<1>1. <<"uninstall", "install">> \o <<>> = <<"uninstall", "install">> OBVIOUS
<1>. QED BY <1>1, Zenon DEF Rebuild

\* Ids and keys of the session in hand.
LEMMA HandTypes ==
    ASSUME TypeOK
    PROVE  /\ {s.sid : s \in lease \cap sessions} \subseteq Nat
           /\ {s.key : s \in lease \ sessions} \subseteq Clients
BY DEF TypeOK, Session

LEMMA DaemonFrame ==
    ASSUME TypeOK, UNCHANGED <<os, wg, daemon, opened, unit, pidFile, op, stopped>>,
           sessions' \subseteq Session, lastSid' \in Nat, job' \in Jobs(os),
           lease' \subseteq Session, files' \subseteq Session, link' \in Link,
           granted' \subseteq Nat, gone' \subseteq Clients, refused' \in BOOLEAN
    PROVE  TypeOK'
BY DEF TypeOK, Running

LEMMA DaemonTypes ==
    ASSUME TypeOK, DaemonStep
    PROVE  TypeOK'
<1>0. os \in {"linux", "windows"} BY DEF TypeOK
<1>1. ASSUME NEW c \in Clients, Login(c) PROVE TypeOK'
  <2>1. PICK s \in Session, others \in SUBSET sessions :
               /\ s.sid = lastSid + 1 /\ s.key = c
               /\ others = {t \in sessions : t.key # c}
               /\ \A t \in others : t.key # c /\ t.host # s.host
               /\ sessions' = others \cup {s} /\ lease' = {s}
               /\ granted' = granted \cap {t.sid : t \in others}
               /\ lastSid' = lastSid + 1 /\ job' = <<"write", "apply">> /\ gone' = gone \ {c}
               /\ Waits
               /\ UNCHANGED <<os, wg, daemon, files, link, opened, unit, pidFile, op, ops,
                              faults, refused, stopped>>
    BY <1>1, LoginMakes
  <2>2. job' \in Jobs(os) BY <2>1, <1>0, JobLists
  <2>3. /\ sessions' \subseteq Session /\ lease' \subseteq Session /\ lastSid' \in Nat
        /\ granted' \subseteq Nat /\ gone' \subseteq Clients
    <3>1. sessions \subseteq Session /\ lastSid \in Nat /\ granted \subseteq Nat /\ gone \subseteq Clients
      BY DEF TypeOK
    <3>2. lastSid' \in Nat BY <2>1, <3>1
    <3>3. granted' \subseteq Nat /\ gone' \subseteq Clients BY <2>1, <3>1
    <3>4. sessions' \subseteq Session
      <4>1. others \subseteq Session BY <2>1, <3>1
      <4>2. sessions' = others \cup {s} /\ s \in Session BY <2>1, Zenon
      <4>. QED BY <4>1, <4>2, Zenon
    <3>5. lease' \subseteq Session BY <2>1
    <3>. QED BY <3>2, <3>3, <3>4, <3>5
  <2>4. files' \subseteq Session /\ link' \in Link /\ refused' \in BOOLEAN
    BY <2>1 DEF TypeOK
  <2>. QED BY <2>1, <2>2, <2>3, <2>4, DaemonFrame
<1>2. ASSUME NEW s \in sessions, Disconnect(s) PROVE TypeOK'
  <2>1. job' \in Jobs(os) BY <1>2, <1>0, JobLists DEF Disconnect
  <2>2. UNCHANGED <<os, wg, daemon, lastSid, files, link, opened, unit, pidFile, op, gone,
                    refused, stopped>>
    BY <1>2, Zenon DEF Disconnect, host, counts
  <2>3. sessions' \subseteq Session /\ lease' \subseteq Session /\ granted' \subseteq Nat
    BY <1>2 DEF Disconnect, TypeOK
  <2>. QED BY <2>1, <2>2, <2>3, DaemonFrame DEF TypeOK
<1>3. ASSUME NEW S, Forget(S) PROVE TypeOK'
  <2>1. UNCHANGED <<os, wg, daemon, lastSid, job, lease, files, link, opened, unit, pidFile, op,
                    gone, refused, stopped>>
    BY <1>3, Zenon DEF Forget, host, counts
  <2>2. sessions' \subseteq Session /\ granted' \subseteq Nat
    BY <1>3 DEF Forget, TypeOK
  <2>. QED BY <2>1, <2>2, DaemonFrame DEF TypeOK
<1>4. CASE SetUpDevice
  <2>1. job' \in Jobs(os)
    BY <1>4, <1>0, JobLists, JobsOf DEF SetUpDevice, Passed, Fails
  <2>2. link' \in {link, Configured} BY <1>4 DEF SetUpDevice, Passed, Fails
  <2>3. /\ granted' \subseteq Nat /\ gone' \subseteq Clients /\ refused' \in BOOLEAN
    <3>1. granted \subseteq Nat /\ gone \subseteq Clients BY DEF TypeOK
    <3>2. \/ UNCHANGED <<granted, gone>>
          \/ /\ granted' = granted \cup {s.sid : s \in lease \cap sessions}
             /\ gone' = gone \cup {s.key : s \in lease \ sessions}
      BY <1>4, Zenon DEF SetUpDevice, Passed, Fails
    <3>3. refused' = TRUE \/ refused' = FALSE BY <1>4, Zenon DEF SetUpDevice
    <3>. QED BY <3>1, <3>2, <3>3, HandTypes
  <2>4. UNCHANGED <<os, wg, daemon, sessions, lastSid, lease, files, opened, unit, pidFile, op,
                    stopped>>
    BY <1>4 DEF SetUpDevice
  <2>5. link' \in Link
    BY <2>2, LinksTyped DEF TypeOK
  <2>. QED BY <2>1, <2>3, <2>4, <2>5, DaemonFrame DEF TypeOK
<1>5. CASE WriteFile
  <2>0. Tail(job) = <<"apply">> /\ os' = os BY <1>5, JobsOf DEF WriteFile
  <2>1. job' \in Jobs(os)
    <3>1. job' = Tail(job) \/ job' = <<>> BY <1>5, Zenon DEF WriteFile
    <3>2. <<>> \in Jobs(os) /\ <<"apply">> \in Jobs(os) BY <1>0, JobLists
    <3>. QED BY <3>1, <3>2, <2>0, Zenon
  <2>2. files' \subseteq Session BY <1>5 DEF WriteFile, TypeOK
  <2>3. UNCHANGED <<os, wg, daemon, sessions, lastSid, lease, link, opened, unit, pidFile, op,
                    granted, gone, refused, stopped>>
    BY <1>5 DEF WriteFile, history
  <2>. QED BY <2>1, <2>2, <2>3, DaemonFrame DEF TypeOK
<1>6. CASE Unfile
  <2>1. job' \in Jobs(os) BY <1>6, <1>0, JobLists, JobsOf DEF Unfile
  <2>2. files' \subseteq Session BY <1>6 DEF Unfile, TypeOK
  <2>3. UNCHANGED <<os, wg, daemon, sessions, lastSid, lease, link, opened, unit, pidFile, op,
                    granted, gone, refused, stopped>>
    BY <1>6 DEF Unfile, history
  <2>. QED BY <2>1, <2>2, <2>3, DaemonFrame DEF TypeOK
<1>7. CASE ApplyPeer \/ RemovePeer
  <2>0. Tail(job) = <<>> BY <1>7, JobsOf DEF ApplyPeer, RemovePeer
  <2>1. os' = os /\ job' \in {<<>>, IF os = "windows" THEN <<"uninstall", "install">> ELSE <<>>}
    BY <1>7, <2>0, RebuildIs DEF ApplyPeer, RemovePeer, Passed, Fails
  <2>2. job' \in Jobs(os) BY <2>1, <1>0, JobLists
  <2>3. link' \in Link
    <3>1. Created.route \in Route BY LinksTyped DEF Link
    <3>2. lease \subseteq Session /\ link \in Link
      BY DEF TypeOK
    <3>3. \/ link' = link
          \/ \E s \in lease : link' = [Created EXCEPT !.route = AddPeer(Created.route, s)]
          \/ \E s \in lease : link' = [Created EXCEPT !.route = DropPeer(Created.route, s.key)]
      BY <1>7 DEF ApplyPeer, RemovePeer, Passed, Fails
    <3>4. /\ \A s \in lease : AddPeer(Created.route, s) \in Route
          /\ \A s \in lease : DropPeer(Created.route, s.key) \in Route
      BY <3>1, <3>2, RoutesTyped
    <3>5. \A route \in Route :
              [Created EXCEPT !.route = route] \in
                  Link
      BY LinksTyped
    <3>. QED BY <3>2, <3>3, <3>4, <3>5, Zenon
  <2>4. granted' \subseteq Nat /\ gone' \subseteq Clients
    BY <1>7 DEF ApplyPeer, RemovePeer, Passed, Fails, TypeOK, Session
  <2>5. UNCHANGED <<os, wg, daemon, sessions, lastSid, lease, files, opened, unit, pidFile, op,
                    refused, stopped>>
    BY <1>7 DEF ApplyPeer, RemovePeer
  <2>. QED BY <2>2, <2>3, <2>4, <2>5, DaemonFrame DEF TypeOK
<1>8. CASE Uninstall
  <2>1. job' \in Jobs(os) BY <1>8, <1>0, JobLists, JobsOf DEF Uninstall
  <2>2. link' \in {link, NoLink} BY <1>8 DEF Uninstall
  <2>3. UNCHANGED <<os, wg, daemon, sessions, lastSid, lease, files, opened, unit, pidFile, op,
                    granted, gone, refused, stopped>>
    BY <1>8 DEF Uninstall, history
  <2>. QED BY <2>1, <2>2, <2>3, NoLinkTyped, DaemonFrame DEF TypeOK
<1>9. CASE Install
  <2>1. job' \in Jobs(os)
    BY <1>9, <1>0, JobLists, JobsOf DEF Install, Passed, Fails
  <2>2. link' = link \/ \E route \in Profiles :
                            link' = [there |-> TRUE, set |-> TRUE, route |-> route]
    BY <1>9 DEF Install, Passed, Fails
  <2>3. link' \in Link
    <3>1. \A route \in Profiles : route \in Route
      BY ProfilesTyped
    <3>2. link \in Link
      BY DEF TypeOK
    <3>3. \A route \in Route : [there |-> TRUE, set |-> TRUE, route |-> route] \in Link
      BY DEF Link
    <3>. QED BY <2>2, <3>1, <3>2, <3>3, Zenon
  <2>4. granted' \subseteq Nat /\ gone' \subseteq Clients
    BY <1>9 DEF Install, Passed, Fails, TypeOK, Session
  <2>5. UNCHANGED <<os, wg, daemon, sessions, lastSid, lease, files, opened, unit, pidFile, op,
                    refused, stopped>>
    BY <1>9 DEF Install
  <2>. QED BY <2>1, <2>3, <2>4, <2>5, DaemonFrame DEF TypeOK
<1>. QED BY <1>1, <1>2, <1>3, <1>4, <1>5, <1>6, <1>7, <1>8, <1>9 DEF DaemonStep

\* What a step of the firewall, done or failed, leaves open.
Closing(step, ok) ==
    /\ step \in {"deleteTable", "deleteRules", "deleteNetNat"} => opened' \subseteq opened
    /\ step = "deleteTable" /\ ok => "table" \notin opened'
    /\ step = "deleteRules" /\ ok => "rules" \notin opened'
    /\ step = "deleteNetNat" /\ ok => "netNat" \notin opened'

\* A command of the firewall is a step of its program, and opens or closes one
\* thing of its platform.
LEMMA OpensAndCloses ==
    ASSUME TypeOK, OpenOrClose
    PROVE  /\ UNCHANGED <<os, wg, daemon, sessions, lastSid, job, lease, files, link, unit,
                          pidFile, granted, gone, refused>>
           /\ \E step : \E ok \in BOOLEAN :
                 Does(step) /\ Went(ok) /\ opened' \subseteq Openings(os) /\ Closing(step, ok)
                 /\ step \notin {"kill", "uninstall", "forget", "disable", "deleteLink"}
<1>1. UNCHANGED <<os, wg, daemon, sessions, lastSid, job, lease, files, link, unit, pidFile,
                  granted, gone, refused>>
  BY Zenon DEF OpenOrClose, process
<1> DEFINE Goal == \E step : \E ok \in BOOLEAN :
               Does(step) /\ Went(ok) /\ opened' \subseteq Openings(os) /\ Closing(step, ok)
               /\ step \notin {"kill", "uninstall", "forget", "disable", "deleteLink"}
           Names == Openings(os)
<1> SUFFICES Goal BY <1>1
<1>2. opened \subseteq Names /\ os \in {"linux", "windows"} BY DEF TypeOK
<1>3. ASSUME NEW step, NEW now, NEW else, Does(step), Command(now, else),
             step \notin {"kill", "uninstall", "forget", "disable", "deleteLink"},
             now \subseteq Names, else \subseteq Names,
             step \in {"deleteTable", "deleteRules", "deleteNetNat"} =>
                 now \subseteq opened /\ else \subseteq opened,
             step = "deleteTable" => "table" \notin now,
             step = "deleteRules" => "rules" \notin now,
             step = "deleteNetNat" => "netNat" \notin now
      PROVE  Goal
  <2>1. \/ opened' = now /\ Went(TRUE)
        \/ opened' = else /\ Went(FALSE)
    BY <1>3, Zenon DEF Command
  <2>2. CASE opened' = now /\ Went(TRUE)
    <3>1. Closing(step, TRUE) BY <2>2, <1>3 DEF Closing
    <3>. QED BY <3>1, <2>2, <1>3, Zenon
  <2>3. CASE opened' = else /\ Went(FALSE)
    <3>1. Closing(step, FALSE) BY <2>3, <1>3 DEF Closing
    <3>. QED BY <3>1, <2>3, <1>3, Zenon
  <2>. QED BY <2>1, <2>2, <2>3
<1>4. \A step : Does(step) =>
          /\ os = "linux" => step \in {"restart", "forward", "table", "masquerade", "tunnel",
                  "disable", "deleteTable", "deleteLink", "systemctlStart", "systemctlStop"}
          /\ os = "windows" => step \in {"kill", "deleteRules", "uninstall", "deleteNetNat",
                  "forget", "router", "netNat", "rules", "spawn", "savePid"}
  BY StepsOf
<1> HIDE DEF Goal
<1>5. CASE Forward
  <2>1. Does("forward") /\ Command(opened \cup {"forward"}, opened) BY <1>5 DEF Forward
  <2>2. opened \cup {"forward"} \subseteq Names BY <2>1, <1>2, <1>4 DEF Openings
  <2>. QED BY <2>1, <2>2, <1>2, <1>3
<1>6. CASE Table
  <2>1. Does("table") /\ Command(opened \cup {"table"}, opened \ {"table"}) BY <1>6 DEF Table
  <2>2. opened \cup {"table"} \subseteq Names /\ opened \ {"table"} \subseteq Names
    BY <2>1, <1>2, <1>4 DEF Openings
  <2>. QED BY <2>1, <2>2, <1>2, <1>3
<1>7. CASE Masquerade
  <2>1. Does("masquerade") BY <1>7 DEF Masquerade
  <2>2. /\ opened \cup {"masquerade"} \subseteq Names /\ opened \ {"masquerade"} \subseteq Names
        /\ (opened \ {"masquerade"}) \cup {"iptables"} \subseteq Names
    BY <2>1, <1>2, <1>4 DEF Openings
  <2>3. CASE Command(opened \cup {"masquerade"}, opened \ {"masquerade"})
    BY <2>1, <2>2, <2>3, <1>2, <1>3
  <2>4. CASE opened' = (opened \ {"masquerade"}) \cup {"iptables"} /\ Went(TRUE)
    <3>1. Closing("masquerade", TRUE) BY DEF Closing
    <3>2. "masquerade" \notin {"kill", "uninstall", "forget", "disable", "deleteLink"} OBVIOUS
    <3>3. opened' \subseteq Names /\ TRUE \in BOOLEAN /\ Went(TRUE) BY <2>2, <2>4
    <3>. QED BY <2>1, <3>1, <3>2, <3>3, Zenon DEF Goal
  <2>. QED BY <2>3, <2>4, <1>7, Zenon DEF Masquerade
<1>8. CASE DeleteTable
  <2>1. Does("deleteTable") /\ Command(opened \ {"table"}, opened) BY <1>8 DEF DeleteTable
  <2>. QED BY <2>1, <1>2, <1>3
<1>9. CASE Router
  <2>1. Does("router") /\ Command(opened \cup {"router"}, opened) BY <1>9 DEF Router
  <2>2. opened \cup {"router"} \subseteq Names BY <2>1, <1>2, <1>4 DEF Openings
  <2>. QED BY <2>1, <2>2, <1>2, <1>3
<1>10. CASE NetNat
  <2>1. Does("netNat") /\ Command(opened \cup {"netNat"}, opened) BY <1>10 DEF NetNat
  <2>2. opened \cup {"netNat"} \subseteq Names BY <2>1, <1>2, <1>4 DEF Openings
  <2>. QED BY <2>1, <2>2, <1>2, <1>3
<1>11. CASE DeleteNetNat
  <2>1. Does("deleteNetNat") /\ Command(opened \ {"netNat"}, opened)
    BY <1>11 DEF DeleteNetNat
  <2>. QED BY <2>1, <1>2, <1>3
<1>12. CASE Rules
  <2>1. Does("rules") /\ Command(opened \cup {"rules"}, opened \ {"rules"}) BY <1>12 DEF Rules
  <2>2. opened \cup {"rules"} \subseteq Names /\ opened \ {"rules"} \subseteq Names
    BY <2>1, <1>2, <1>4 DEF Openings
  <2>. QED BY <2>1, <2>2, <1>2, <1>3
<1>13. CASE DeleteRules
  <2>1. Does("deleteRules") /\ Command(opened \ {"rules"}, opened) BY <1>13 DEF DeleteRules
  <2>. QED BY <2>1, <1>2, <1>3
<1>. QED
  BY <1>5, <1>6, <1>7, <1>8, <1>9, <1>10, <1>11, <1>12, <1>13 DEF OpenOrClose

\* What others may do to the daemon: nothing, end it, or start it.
DaemonAfter ==
    \/ UNCHANGED <<daemon, sessions, job, lease, granted>>
    \/ Ended
    \/ /\ daemon = Nobody /\ daemon' # Nobody
       /\ job' = StartWork /\ UNCHANGED <<sessions, lease, granted>>

\* What they may do to the interface.
LinkAfter ==
    \/ UNCHANGED <<link, refused>>
    \/ os = "linux" /\ link' = Configured /\ refused' = FALSE
    \/ /\ link' = NoLink /\ refused' = refused
       /\ os = "linux" => granted' = {} /\ (Does("deleteLink") \/ Ended)

\* The frame of every step that is not the daemon's.
WorldFrame ==
    /\ UNCHANGED <<os, wg, lastSid, files, gone>>
    /\ \/ DaemonAfter
       \/ /\ UNCHANGED <<daemon, sessions, job, lease>>
          /\ os = "linux" /\ granted' = {} /\ link' = NoLink
    /\ LinkAfter

LEMMA WorldTypes ==
    ASSUME TypeOK, WorldFrame, opened' \subseteq Openings(os),
           unit' \in [on : BOOLEAN, boot : BOOLEAN],
           os = "windows" => unit' = [on |-> FALSE, boot |-> FALSE],
           daemon' \in {Nobody, "hand"} \cup (IF os = "linux" THEN {"unit"} ELSE {"window"}),
           pidFile' \in {"none", "its", "stale"}, op' = NoOp \/ Running(op)',
           stopped' \in BOOLEAN
    PROVE  TypeOK'
<1>0. os \in {"linux", "windows"} /\ opened \subseteq Openings(os) BY DEF TypeOK
<1>1. /\ sessions' \subseteq Session /\ lease' \subseteq Session
      /\ granted' \subseteq Nat
  <2>1. /\ sessions \subseteq Session /\ lease \subseteq Session /\ granted \subseteq Nat
    BY DEF TypeOK
  <2>. QED BY <2>1 DEF WorldFrame, DaemonAfter, Ended
<1>2. job' \in Jobs(os)
  <2>1. job \in Jobs(os) /\ <<>> \in Jobs(os) BY <1>0, JobLists DEF TypeOK
  <2>2. StartWork \in Jobs(os)
    <3>1. CASE os = "linux"
      <4>1. StartWork = <<"device">> BY <3>1 DEF StartWork
      <4>. QED BY <4>1, <3>1, JobLists
    <3>2. CASE os = "windows"
      <4>1. StartWork = <<"uninstall", "install">> BY <3>2 DEF StartWork
      <4>. QED BY <4>1, <3>2, JobLists
    <3>. QED BY <3>1, <3>2, <1>0
  <2>3. job' = job \/ job' = <<>> \/ job' = StartWork
    BY Zenon DEF WorldFrame, DaemonAfter, Ended
  <2>. QED BY <2>1, <2>2, <2>3, Zenon
<1>3. link' \in Link /\ refused' \in BOOLEAN
  <2>1. link \in Link /\ Configured \in Link /\ NoLink \in Link /\ refused \in BOOLEAN
    BY LinksTyped, NoLinkTyped DEF TypeOK
  <2>2. (link' = link /\ refused' = refused) \/ (link' = Configured /\ refused' = FALSE)
        \/ (link' = NoLink /\ refused' = refused)
    BY Zenon DEF WorldFrame, LinkAfter
  <2>3. FALSE \in BOOLEAN OBVIOUS
  <2>. QED BY <2>1, <2>2, <2>3, Zenon
<1>4. lastSid' \in Nat /\ files' \subseteq Session /\ gone' \subseteq Clients
      /\ os' \in {"linux", "windows"} /\ wg' \in BOOLEAN /\ os' = os
  <2>1. lastSid \in Nat /\ files \subseteq Session /\ gone \subseteq Clients /\ wg \in BOOLEAN
    BY DEF TypeOK
  <2>2. UNCHANGED <<os, wg, lastSid, files, gone>> BY Zenon DEF WorldFrame
  <2>. QED BY <2>1, <2>2, <1>0, Zenon
<1>. QED BY <1>1, <1>2, <1>3, <1>4 DEF TypeOK

\* A step of a program on the host.
LEMMA ProgramFrame ==
    ASSUME TypeOK, ProgramStep
    PROVE  WorldFrame /\ TypeOK'
<1> DEFINE Frame == UNCHANGED <<os, wg, lastSid, files, gone>>
           DaemonPart == \/ DaemonAfter
                         \/ /\ UNCHANGED <<daemon, sessions, job, lease>>
                            /\ os = "linux" /\ granted' = {} /\ link' = NoLink
           DaemonTyped == \/ daemon' = daemon \/ daemon' = Nobody
                          \/ os = "windows" /\ daemon' = "window"
           Goal == WorldFrame /\ TypeOK'
<1> SUFFICES Goal OBVIOUS
<1>0. os \in {"linux", "windows"} /\ opened \subseteq Openings(os) BY DEF TypeOK
<1>00. ASSUME Frame, DaemonPart, LinkAfter, opened' \subseteq Openings(os),
              unit' \in [on : BOOLEAN, boot : BOOLEAN],
              os = "windows" => unit' = [on |-> FALSE, boot |-> FALSE],
              pidFile' \in {"none", "its", "stale"}, op' = NoOp \/ Running(op)',
              DaemonTyped,
              stopped' \in BOOLEAN
       PROVE  Goal
  <2>1. daemon' \in {Nobody, "hand"} \cup (IF os = "linux" THEN {"unit"} ELSE {"window"})
    BY <1>00 DEF TypeOK
  <2>2. WorldFrame BY <1>00, Zenon DEF WorldFrame
  <2>3. TypeOK' BY <2>1, <2>2, <1>00, WorldTypes
  <2>. QED BY <2>2, <2>3
<1>01. UNCHANGED <<daemon, sessions, job, lease, granted>> => DaemonPart
  BY Zenon DEF DaemonAfter
<1>02. UNCHANGED <<link, refused>> => LinkAfter BY Zenon DEF LinkAfter
<1>03. /\ unit \in [on : BOOLEAN, boot : BOOLEAN]
       /\ os = "windows" => unit = [on |-> FALSE, boot |-> FALSE]
       /\ pidFile \in {"none", "its", "stale"}
  BY DEF TypeOK
<1>04. ASSUME NEW ok \in BOOLEAN, NEW step, Does(step), Went(ok), os' = os
       PROVE  (op' = NoOp \/ Running(op)') /\ stopped' \in BOOLEAN
  BY <1>04, WentOn
<1>05. ASSUME NEW step, Does(step)
       PROVE  /\ step \in {"restart", "disable", "systemctlStart", "systemctlStop", "tunnel",
                           "deleteLink"} => os = "linux"
              /\ step \in {"kill", "forget", "spawn", "savePid", "uninstall"} => os = "windows"
  BY <1>05, <1>0, StepsOf
<1> HIDE DEF Frame, DaemonPart, DaemonTyped, Goal
<1>1. ASSUME NEW name \in {"apply", "remove", "start", "stop"}, Begin(name) PROVE Goal
  <2>1. UNCHANGED <<os, wg, process, host, faults, granted, gone, refused>> /\ stopped' = FALSE
        /\ op' = [name |-> name, steps |-> Steps(os, name), ok |-> TRUE]
    BY <1>1, Zenon DEF Begin
  <2>2. UNCHANGED <<daemon, sessions, lastSid, job, lease, files, link, opened, unit, pidFile>>
    BY <2>1, Zenon DEF process, host
  <2>3. Steps(os, name) \in Rests(os, name) /\ Steps(os, name) # <<>>
    <3>1. CASE os = "linux"
      <4>1. CASE name = "apply" BY <4>1, <3>1 DEF Steps, Rests
      <4>2. CASE name = "remove"
        <5>1. Steps(os, name) = <<"disable", "deleteTable", "deleteLink">>
          BY <4>2, <3>1 DEF Steps
        <5>2. Steps(os, name) \in Rests(os, name)
          BY <5>1, <4>2, <3>1, Zenon DEF Rests
        <5>. QED BY <5>1, <5>2
      <4>3. CASE name = "start" BY <4>3, <3>1 DEF Steps, Rests
      <4>4. CASE name = "stop" BY <4>4, <3>1 DEF Steps, Rests
      <4>. QED BY <4>1, <4>2, <4>3, <4>4
    <3>2. CASE os = "windows"
      <4> DEFINE All == {"kill", "deleteRules", "uninstall", "deleteNetNat", "forget",
                         "router", "netNat", "rules", "spawn", "savePid"}
      <4>0. name # "stop" => Rests(os, name) = Seq(All) BY <3>2 DEF Rests
      <4>1. CASE name = "apply"
        <5>1. Steps(os, name) = <<"router", "netNat", "rules">>
          BY <4>1, <3>2 DEF Steps, SetUp
        <5>2. <<"router", "netNat", "rules">> \in Seq(All) /\ <<"router", "netNat", "rules">> # <<>>
          OBVIOUS
        <5>. QED BY <5>1, <5>2, <4>0, <4>1, Zenon
      <4>2. CASE name = "remove"
        <5>1. Steps(os, name) = <<"deleteRules", "uninstall", "deleteNetNat">>
          BY <4>2, <3>2 DEF Steps
        <5>2. /\ <<"deleteRules", "uninstall", "deleteNetNat">> \in Seq(All)
              /\ <<"deleteRules", "uninstall", "deleteNetNat">> # <<>>
          OBVIOUS
        <5>. QED BY <5>1, <5>2, <4>0, <4>2, Zenon
      <4>3. CASE name = "start"
        <5>1. Steps(os, name) = Taking \o SetUp \o <<"spawn", "savePid">>
          BY <4>3, <3>2 DEF Steps
        <5>2. Taking \o SetUp \o <<"spawn", "savePid">> \in Seq(All)
              /\ Taking \o SetUp \o <<"spawn", "savePid">> # <<>>
          BY DEF Taking, SetUp
        <5>. QED BY <5>1, <5>2, <4>0, <4>3, Zenon
      <4>4. CASE name = "stop"
        <5>1. Steps(os, name) = <<"kill", "deleteRules", "uninstall", "deleteNetNat", "forget">>
          BY <4>4, <3>2 DEF Steps, Taking
        <5>2. Steps(os, name) \in Rests(os, name)
          BY <5>1, <4>4, <3>2, Zenon DEF Rests
        <5>. QED BY <5>1, <5>2
      <4>. QED BY <4>1, <4>2, <4>3, <4>4
    <3>. QED BY <3>1, <3>2, <1>0
  <2>4. Running(op)' BY <2>1, <2>3 DEF Running
  <2>5. Frame /\ DaemonPart /\ LinkAfter
    BY <2>1, <2>2, <1>01, <1>02, Zenon DEF Frame
  <2>6. stopped' \in BOOLEAN BY <2>1
  <2>9. DaemonTyped BY <2>2, Zenon DEF DaemonTyped
  <2>. QED BY <2>2, <2>4, <2>5, <2>6, <1>0, <1>00, <1>03, <2>9
<1>2. CASE OpenOrClose
  <2>1. /\ UNCHANGED <<os, wg, daemon, sessions, lastSid, job, lease, files, link, unit,
                       pidFile, granted, gone, refused>>
        /\ opened' \subseteq Openings(os)
        /\ (op' = NoOp \/ Running(op)') /\ stopped' \in BOOLEAN
    BY <1>2, OpensAndCloses, <1>04
  <2>2. Frame /\ DaemonPart /\ LinkAfter BY <2>1, <1>01, <1>02, Zenon DEF Frame
  <2>9. DaemonTyped BY <2>1, Zenon DEF DaemonTyped
  <2>. QED BY <2>1, <2>2, <1>00, <1>03, <2>9
<1>3. CASE Tunnel
  <2>1. /\ UNCHANGED <<os, wg, process, files, opened, unit, pidFile, ops, gone>>
        /\ Does("tunnel") /\ granted' = granted
        /\ \/ link' = Configured /\ refused' = FALSE /\ Went(TRUE)
           \/ UNCHANGED <<link, refused>> /\ Went(FALSE)
    BY <1>3, Zenon DEF Tunnel
  <2>2. UNCHANGED <<daemon, sessions, lastSid, job, lease>> BY <2>1, Zenon DEF process
  <2>3. (op' = NoOp \/ Running(op)') /\ stopped' \in BOOLEAN /\ os = "linux"
    BY <2>1, <1>04, <1>05
  <2>4. Frame /\ DaemonPart /\ LinkAfter
    BY <2>1, <2>2, <2>3, <1>01, Zenon DEF Frame, LinkAfter
  <2>9. DaemonTyped BY <2>2, Zenon DEF DaemonTyped
  <2>. QED BY <2>1, <2>3, <2>4, <1>0, <1>00, <1>03, <2>9
<1>4. CASE TakeLink
  <2>1. /\ UNCHANGED <<os, wg, process, files, opened, unit, pidFile, ops, gone, refused>>
        /\ Does("deleteLink") \/ Does("uninstall")
        /\ \/ /\ link' = NoLink /\ Went(TRUE)
              /\ granted' = IF os = "linux" THEN {} ELSE granted
           \/ UNCHANGED <<link, granted>> /\ Went(FALSE)
    BY <1>4, Zenon DEF TakeLink
  <2>2. UNCHANGED <<daemon, sessions, lastSid, job, lease>> BY <2>1, Zenon DEF process
  <2>3. (op' = NoOp \/ Running(op)') /\ stopped' \in BOOLEAN
    BY <2>1, <1>04
  <2>4. os = "linux" => Does("deleteLink") BY <2>1, <1>05
  <2>5. DaemonPart
    <3>1. granted' = granted \/ (os = "linux" /\ granted' = {} /\ link' = NoLink)
      BY <2>1
    <3>. QED BY <3>1, <2>2, <1>01, Zenon DEF DaemonPart
  <2>6. LinkAfter BY <2>1, <2>4 DEF LinkAfter
  <2>7. Frame BY <2>1, <2>2, Zenon DEF Frame
  <2>9. DaemonTyped BY <2>2, Zenon DEF DaemonTyped
  <2>. QED BY <2>1, <2>3, <2>5, <2>6, <2>7, <1>0, <1>00, <1>03, <2>9
<1>5. ASSUME NEW step \in {"restart", "disable", "systemctlStart", "systemctlStop"}, Does(step),
             NEW now, NEW ends, Systemctl(now, ends), now \in [on : BOOLEAN, boot : BOOLEAN]
      PROVE  Goal
  <2>1. /\ unit' = now /\ Went(TRUE) /\ (Ended \/ Same)
        /\ UNCHANGED <<os, wg, lastSid, files, link, opened, pidFile, ops, gone, refused>>
    BY <1>5, Zenon DEF Systemctl
  <2>2. (op' = NoOp \/ Running(op)') /\ stopped' \in BOOLEAN /\ os = "linux"
    BY <2>1, <1>5, <1>04, <1>05
  <2>3. DaemonPart
    BY <2>1, <1>01, Zenon DEF DaemonPart, DaemonAfter, Same
  <2>4. Frame /\ LinkAfter BY <2>1, <1>02, Zenon DEF Frame
  <2>9. DaemonTyped BY <2>1, Zenon DEF DaemonTyped, Same, Ended
  <2>. QED BY <2>1, <2>2, <2>3, <2>4, <1>5, <1>0, <1>00, <1>03, <2>9
<1>6. CASE Restart \/ Disable \/ StartUnit \/ StopUnit
  <2>1. \A b \in BOOLEAN, d \in BOOLEAN : [on |-> b, boot |-> d] \in [on : BOOLEAN, boot : BOOLEAN]
    OBVIOUS
  <2>2. \A b \in BOOLEAN : [unit EXCEPT !.on = b] \in [on : BOOLEAN, boot : BOOLEAN]
    BY <1>03
  <2>. QED BY <1>5, <1>6, <2>1, <2>2 DEF Restart, Disable, StartUnit, StopUnit
<1>7. CASE Kill
  <2>1. /\ Does("kill") /\ (Ended \/ Same) /\ pidFile' = NoFileOf(pidFile)
        /\ Went(daemon' = Nobody)
        /\ UNCHANGED <<os, wg, lastSid, files, link, opened, unit, ops, gone, refused>>
    BY <1>7, Zenon DEF Kill
  <2>2. (daemon' = Nobody) \in BOOLEAN OBVIOUS
  <2>3. (op' = NoOp \/ Running(op)') /\ stopped' \in BOOLEAN BY <2>1, <2>2, <1>04
  <2>4. DaemonPart
    BY <2>1, <1>01, Zenon DEF DaemonPart, DaemonAfter, Same
  <2>5. Frame /\ LinkAfter BY <2>1, <1>02, Zenon DEF Frame
  <2>6. pidFile' \in {"none", "its", "stale"} BY <2>1, <1>03 DEF NoFileOf
  <2>9. DaemonTyped BY <2>1, Zenon DEF DaemonTyped, Same, Ended
  <2>. QED BY <2>1, <2>3, <2>4, <2>5, <2>6, <1>0, <1>00, <1>03, <2>9
<1>8. CASE ForgetPid \/ SavePid
  <2>1. /\ Same /\ Went(TRUE) /\ pidFile' \in {"none", "its", "stale"}
        /\ Does("forget") \/ Does("savePid")
        /\ UNCHANGED <<os, wg, lastSid, files, link, opened, unit, ops, gone, refused>>
    BY <1>8 DEF ForgetPid, SavePid
  <2>2. (op' = NoOp \/ Running(op)') /\ stopped' \in BOOLEAN BY <2>1, <1>04
  <2>3. DaemonPart BY <2>1, <1>01, Zenon DEF Same
  <2>4. Frame /\ LinkAfter BY <2>1, <1>02, Zenon DEF Frame
  <2>9. DaemonTyped BY <2>1, Zenon DEF DaemonTyped, Same, Ended
  <2>. QED BY <2>1, <2>2, <2>3, <2>4, <1>0, <1>00, <1>03, <2>9
<1>9. CASE Spawn
  <2>1. /\ Does("spawn") /\ ((daemon = Nobody /\ Begun("window")) \/ Same) /\ Went(TRUE)
        /\ UNCHANGED <<os, wg, lastSid, host, ops, gone, refused>>
    BY <1>9, Zenon DEF Spawn
  <2>2. UNCHANGED <<files, link, opened, unit, pidFile>> BY <2>1, Zenon DEF host
  <2>3. (op' = NoOp \/ Running(op)') /\ stopped' \in BOOLEAN /\ os = "windows"
    BY <2>1, <1>04, <1>05
  <2>4. DaemonPart
    <3>1. "window" # Nobody BY DEF Nobody
    <3>. QED BY <2>1, <3>1, <1>01, Zenon DEF DaemonPart, DaemonAfter, Same, Begun
  <2>5. Frame /\ LinkAfter BY <2>1, <2>2, <1>02, Zenon DEF Frame
  <2>9. DaemonTyped BY <2>1, <2>3, Zenon DEF DaemonTyped, Same, Begun
  <2>. QED BY <2>1, <2>2, <2>3, <2>4, <2>5, <1>0, <1>00, <1>03, <2>9
<1>10. CASE ProgramDies
  <2>1. op' = NoOp /\ UNCHANGED <<os, wg, process, host, ops, history>>
    BY <1>10, Zenon DEF ProgramDies
  <2>2. UNCHANGED <<daemon, sessions, lastSid, job, lease, files, link, opened, unit, pidFile,
                    granted, gone, refused, stopped>>
    BY <2>1, Zenon DEF process, host, history
  <2>3. Frame /\ DaemonPart /\ LinkAfter BY <2>1, <2>2, <1>01, <1>02, Zenon DEF Frame
  <2>4. stopped' \in BOOLEAN BY <2>2 DEF TypeOK
  <2>9. DaemonTyped BY <2>2, Zenon DEF DaemonTyped
  <2>. QED BY <2>1, <2>2, <2>3, <2>4, <1>0, <1>00, <1>03, <2>9
<1>. QED
  BY <1>1, <1>2, <1>3, <1>4, <1>6, <1>7, <1>8, <1>9, <1>10 DEF ProgramStep

\* A start, an end or a restart of the host.
LifeStep == StartDaemon \/ DaemonDies \/ Reboot

LEMMA LifeFrame ==
    ASSUME TypeOK, LifeStep
    PROVE  WorldFrame /\ TypeOK'
<1>0. /\ os \in {"linux", "windows"} /\ opened \subseteq Openings(os)
      /\ unit \in [on : BOOLEAN, boot : BOOLEAN]
      /\ os = "windows" => unit = [on |-> FALSE, boot |-> FALSE]
      /\ pidFile \in {"none", "its", "stale"} /\ (op = NoOp \/ Running(op))
      /\ daemon \in {Nobody, "hand"} \cup (IF os = "linux" THEN {"unit"} ELSE {"window"})
      /\ stopped \in BOOLEAN
  BY DEF TypeOK
<1>1. NoFileOf(pidFile) \in {"none", "its", "stale"} BY <1>0 DEF NoFileOf
<1>2. CASE StartDaemon
  <2>1. PICK who \in {"hand", "unit"} : (who = "unit" => unit.on) /\ Begun(who)
    BY <1>2 DEF StartDaemon
  <2>2. /\ daemon = Nobody /\ stopped' = FALSE /\ op' = [op EXCEPT !.ok = (op = NoOp)]
        /\ UNCHANGED <<os, wg, lastSid, host, counts, gone, refused>>
    BY <1>2, Zenon DEF StartDaemon
  <2>3. UNCHANGED <<files, link, opened, unit, pidFile>> BY <2>2, Zenon DEF host
  <2>4. who # Nobody BY DEF Nobody
  <2>5. DaemonAfter BY <2>1, <2>2, <2>4, Zenon DEF DaemonAfter, Begun
  <2>6. WorldFrame BY <2>2, <2>3, <2>5, Zenon DEF WorldFrame, LinkAfter
  <2>7. daemon' \in {Nobody, "hand"} \cup (IF os = "linux" THEN {"unit"} ELSE {"window"})
    BY <2>1, <1>0 DEF Begun
  <2>8. op' = NoOp \/ Running(op)'
    <3>1. CASE op = NoOp
      <4>1. [NoOp EXCEPT !.ok = TRUE] = NoOp BY NoOpAgain
      <4>2. (op = NoOp) = TRUE BY <3>1
      <4>. QED BY <4>1, <4>2, <3>1, <2>2, Zenon
    <3>2. CASE op # NoOp
      <4>1. op \in [name : {"apply", "remove", "start", "stop"}, steps : Rests(os, op.name),
                    ok : BOOLEAN] /\ op.steps # <<>>
        BY <3>2, <1>0 DEF Running
      <4>2. op' = [op EXCEPT !.ok = FALSE]
        <5>1. (op = NoOp) = FALSE BY <3>2
        <5>. QED BY <5>1, <2>2, Zenon
      <4>3. op' \in [name : {"apply", "remove", "start", "stop"}, steps : Rests(os, op.name),
                     ok : BOOLEAN] /\ op'.steps = op.steps /\ op'.name = op.name
        BY <4>1, <4>2
      <4>. QED BY <4>1, <4>3, <2>2 DEF Running
    <3>. QED BY <3>1, <3>2
  <2>9. stopped' \in BOOLEAN BY <2>2
  <2>. QED BY <2>3, <2>6, <2>7, <2>8, <2>9, <1>0, WorldTypes
<1>3. CASE DaemonDies
  <2>1. /\ Ended /\ pidFile' = NoFileOf(pidFile)
        /\ UNCHANGED <<os, wg, lastSid, files, link, opened, unit, op, counts, gone, refused,
                       stopped>>
    BY <1>3, Zenon DEF DaemonDies
  <2>2. WorldFrame BY <2>1, Zenon DEF WorldFrame, LinkAfter, DaemonAfter
  <2>3. op' = NoOp \/ Running(op)' BY <2>1, <1>0 DEF Running
  <2>. QED BY <2>1, <2>2, <2>3, <1>0, <1>1, WorldTypes DEF Ended
<1>4. CASE Reboot
  <2>1. /\ Ended /\ pidFile' = NoFileOf(pidFile) /\ unit' = [unit EXCEPT !.on = unit.boot]
        /\ op' = NoOp /\ stopped' = FALSE
        /\ IF os = "linux" THEN link' = NoLink /\ opened' = {} ELSE UNCHANGED <<link, opened>>
        /\ UNCHANGED <<os, wg, lastSid, files, ops, gone, refused>>
    BY <1>4, Zenon DEF Reboot
  <2>2. WorldFrame
    <3>1. granted' = {} BY <2>1 DEF Ended
    <3>2. link' = link \/ (link' = NoLink /\ os = "linux") BY <2>1
    <3>. QED BY <2>1, <3>1, <3>2, Zenon DEF WorldFrame, LinkAfter, DaemonAfter
  <2>3. opened' \subseteq Openings(os) BY <2>1, <1>0
  <2>4. /\ unit' \in [on : BOOLEAN, boot : BOOLEAN]
        /\ os = "windows" => unit' = [on |-> FALSE, boot |-> FALSE]
    <3>1. PICK o \in BOOLEAN, b \in BOOLEAN : unit = [on |-> o, boot |-> b]
      BY <1>0
    <3>2. unit.boot = b /\ [unit EXCEPT !.on = b] = [on |-> b, boot |-> b] BY <3>1
    <3>3. unit' = [on |-> b, boot |-> b] BY <2>1, <3>2, Zenon
    <3>4. [on |-> b, boot |-> b] \in [on : BOOLEAN, boot : BOOLEAN] OBVIOUS
    <3>5. os = "windows" => unit' = [on |-> FALSE, boot |-> FALSE]
      <4>1. CASE os = "windows"
        <5>1. unit = [on |-> FALSE, boot |-> FALSE] BY <1>0, <4>1
        <5>2. unit.boot = FALSE BY <5>1
        <5>. QED BY <5>2, <3>2, <3>3, Zenon
      <4>. QED BY <4>1
    <3>. QED BY <3>3, <3>4, <3>5, Zenon
  <2>5. stopped' \in BOOLEAN /\ daemon' = Nobody BY <2>1 DEF Ended
  <2>. QED BY <2>1, <2>2, <2>3, <2>4, <2>5, <1>0, <1>1, WorldTypes
<1>. QED BY <1>2, <1>3, <1>4 DEF LifeStep

\* Every step is the daemon's or the world's.
LEMMA StepKinds ==
    ASSUME Next
    PROVE  DaemonStep \/ LifeStep \/ ProgramStep
BY Zenon DEF Next, LifeStep

LEMMA InitTyped ==
    ASSUME Init
    PROVE  TypeOK
<1>1. <<>> \in Jobs(os) BY JobLists DEF Init
<1>2. [on |-> FALSE, boot |-> FALSE] \in [on : BOOLEAN, boot : BOOLEAN] OBVIOUS
<1>. QED BY <1>1, <1>2, NoLinkTyped DEF Init, TypeOK

(***************************************************************************)
(* The interface, the files, the daemon's memory and the programs keep     *)
(* their types, and no platform ever has what belongs to the other.        *)
(***************************************************************************)
THEOREM HostTypeCorrect == Spec => []TypeOK
<1>1. Init => TypeOK BY InitTyped
<1>2. TypeOK /\ [Next]_vars => TypeOK'
  <2> SUFFICES ASSUME TypeOK, [Next]_vars PROVE TypeOK' OBVIOUS
  <2>1. CASE Next BY <2>1, StepKinds, DaemonTypes, LifeFrame, ProgramFrame
  <2>2. CASE UNCHANGED vars
    BY <2>2 DEF vars, process, host, counts, history, TypeOK, Running
  <2>. QED BY <2>1, <2>2
<1>. QED BY <1>1, <1>2, PTL DEF Spec

\* The lists that a daemon may have to do are different.
LEMMA JobsDiffer ==
    /\ <<>> # <<"write", "apply">> /\ <<>> # <<"apply">>
    /\ <<>> # <<"unapply">> /\ <<>> # <<"device">>
    /\ <<>> # <<"unfile", "unapply">> /\ <<>> # <<"uninstall", "install">>
    /\ <<>> # <<"install">>
    /\ <<"write", "apply">> # <<"apply">> /\ <<"write", "apply">> # <<"unapply">>
    /\ <<"write", "apply">> # <<"device">> /\ <<"write", "apply">> # <<"unfile", "unapply">>
    /\ <<"write", "apply">> # <<"uninstall", "install">> /\ <<"write", "apply">> # <<"install">>
    /\ <<"apply">> # <<"unapply">> /\ <<"apply">> # <<"device">>
    /\ <<"apply">> # <<"unfile", "unapply">> /\ <<"apply">> # <<"uninstall", "install">>
    /\ <<"apply">> # <<"install">>
    /\ <<"unapply">> # <<"device">> /\ <<"unapply">> # <<"unfile", "unapply">>
    /\ <<"unapply">> # <<"uninstall", "install">> /\ <<"unapply">> # <<"install">>
    /\ <<"device">> # <<"unfile", "unapply">> /\ <<"device">> # <<"uninstall", "install">>
    /\ <<"device">> # <<"install">>
    /\ <<"unfile", "unapply">> # <<"uninstall", "install">> /\ <<"unfile", "unapply">> # <<"install">>
    /\ <<"uninstall", "install">> # <<"install">>
OBVIOUS

-----------------------------------------------------------------------------
(***************************************************************************)
(* Sessions, what was granted, and the session in hand.                    *)
(***************************************************************************)

\* A step of a job that leaves sessions and lease alone.
LEMMA JobStepKeeps ==
    ASSUME TypeOK, SessionInv, UNCHANGED <<daemon, sessions, lastSid, lease>>,
           daemon # Nobody, job' # <<"device">>,
           job' # <<>> => (Arriving \/ Leaving)',
           job' \in {<<"write", "apply">>, <<"apply">>} => Arriving',
           job' \in {<<"unfile", "unapply">>, <<"unapply">>} => Leaving',
           \A g \in granted' : \E s \in sessions : s.sid = g /\ s \in files'
    PROVE  SessionInv'
BY DEF SessionInv, DownIsEmpty, Exclusive, GrantsLive, InHand

LEMMA DaemonSessions ==
    ASSUME TypeOK, SessionInv, DaemonStep
    PROVE  SessionInv'
<1>0. /\ daemon = Nobody => Fresh /\ job = <<>>
      /\ job = <<"device">> => Fresh
      /\ \A s, t \in sessions :
            s.sid = t.sid \/ s.key = t.key \/ s.host = t.host => s = t
      /\ \A s \in sessions : s.sid <= lastSid
      /\ \A g \in granted : \E s \in sessions : s.sid = g /\ s \in files
      /\ job # <<>> => Arriving \/ Leaving
      /\ job \in {<<"write", "apply">>, <<"apply">>} => Arriving
      /\ job \in {<<"unfile", "unapply">>, <<"unapply">>} => Leaving
      /\ \A s, t \in lease : s = t
  BY Zenon DEF SessionInv, DownIsEmpty, Exclusive, GrantsLive, InHand
<1>00. \A s \in sessions : s \in Session /\ s.sid \in Nat
  BY DEF TypeOK, Session
<1>1. ASSUME NEW c \in Clients, Login(c) PROVE SessionInv'
  <2>1. PICK s \in Session, others \in SUBSET sessions :
               /\ s.sid = lastSid + 1 /\ s.key = c
               /\ others = {t \in sessions : t.key # c}
               /\ \A t \in others : t.key # c /\ t.host # s.host
               /\ sessions' = others \cup {s} /\ lease' = {s}
               /\ granted' = granted \cap {t.sid : t \in others}
               /\ lastSid' = lastSid + 1 /\ job' = <<"write", "apply">> /\ gone' = gone \ {c}
               /\ Waits
               /\ UNCHANGED <<os, wg, daemon, files, link, opened, unit, pidFile, op, ops,
                              faults, refused, stopped>>
    BY <1>1, LoginMakes
  <2>2. lastSid \in Nat BY DEF TypeOK
  <2>3. \A t \in others : t \in sessions /\ t.sid \in Nat /\ t.sid <= lastSid /\ t.sid # s.sid
    BY <2>1, <2>2, <1>0, <1>00
  <2>4. DownIsEmpty'
    <3>1. daemon' # Nobody BY <2>1 DEF Waits
    <3>2. job' # <<"device">> BY <2>1, JobsDiffer
    <3>. QED BY <3>1, <3>2 DEF DownIsEmpty
  <2>5. Exclusive'
    <3>1. \A t \in sessions' : t = s \/ t \in others BY <2>1
    <3>2. \A t \in sessions' : t.sid <= lastSid'
      BY <3>1, <2>1, <2>2, <2>3
    <3>3. \A t, u \in sessions' :
              t.sid = u.sid \/ t.key = u.key \/ t.host = u.host => t = u
      BY <3>1, <2>1, <2>3, <1>0
    <3>. QED BY <3>2, <3>3 DEF Exclusive
  <2>6. GrantsLive'
    <3>1. ASSUME NEW g \in granted' PROVE \E u \in sessions' : u.sid = g /\ u \in files'
      <4>1. PICK t \in others : t.sid = g BY <2>1
      <4>2. PICK u \in sessions : u.sid = g /\ u \in files BY <2>1, <1>0
      <4>3. u = t BY <4>1, <4>2, <1>0
      <4>. QED BY <4>1, <4>2, <4>3, <2>1
    <3>. QED BY <3>1 DEF GrantsLive
  <2>7. Arriving' BY <2>1 DEF Arriving
  <2>8. InHand' BY <2>1, <2>7, JobsDiffer DEF InHand
  <2>. QED BY <2>4, <2>5, <2>6, <2>8 DEF SessionInv
<1>2. ASSUME NEW s \in sessions, Disconnect(s) PROVE SessionInv'
  <2>1. /\ Waits /\ sessions' = sessions \ {s} /\ granted' = granted \ {s.sid} /\ lease' = {s}
        /\ job' = IF os = "windows" THEN <<"unfile", "unapply">> ELSE <<"unapply">>
        /\ UNCHANGED <<daemon, lastSid, files>>
    BY <1>2, Zenon DEF Disconnect, host
  <2>2. job' # <<"device">> /\ job' # <<"write", "apply">> /\ job' # <<"apply">>
    BY <2>1, JobsDiffer
  <2>3. DownIsEmpty' BY <2>1, <2>2 DEF DownIsEmpty, Waits
  <2>4. Exclusive' BY <2>1, <1>0 DEF Exclusive
  <2>5. GrantsLive' BY <2>1, <1>0 DEF GrantsLive
  <2>6. Leaving' BY <2>1, <1>0 DEF Leaving
  <2>7. InHand' BY <2>1, <2>2, <2>6 DEF InHand
  <2>. QED BY <2>3, <2>4, <2>5, <2>7 DEF SessionInv
<1>3. ASSUME NEW S \in SUBSET sessions, Forget(S) PROVE SessionInv'
  <2>1. /\ Waits /\ sessions' = sessions \ S /\ granted' = granted \ {s.sid : s \in S}
        /\ UNCHANGED <<daemon, lastSid, files, job, lease>>
    BY <1>3, Zenon DEF Forget, host
  <2>2. job' = <<>> BY <2>1 DEF Waits
  <2>3. DownIsEmpty' BY <2>1, <2>2, JobsDiffer DEF DownIsEmpty, Waits
  <2>4. Exclusive' BY <2>1, <1>0 DEF Exclusive
  <2>5. GrantsLive' BY <2>1, <1>0 DEF GrantsLive
  <2>6. InHand' BY <2>1, <2>2, <1>0, JobsDiffer DEF InHand
  <2>. QED BY <2>3, <2>4, <2>5, <2>6 DEF SessionInv
<1>4. CASE SetUpDevice
  <2>1. /\ daemon # Nobody /\ job = <<"device">> /\ Tail(job) = <<>>
    BY <1>4, JobsOf DEF SetUpDevice
  <2>2. /\ job' = <<>> /\ UNCHANGED <<daemon, sessions, lastSid, lease, files>>
    BY <1>4, <2>1, Zenon DEF SetUpDevice, Passed, Fails
  <2>3. granted' = granted \cup {s.sid : s \in lease \cap sessions} \/ granted' = granted
    BY <1>4, Zenon DEF SetUpDevice, Passed, Fails
  <2>4. granted' = granted BY <2>1, <2>3, <1>0 DEF Fresh
  <2>. QED BY <2>1, <2>2, <2>4, <1>0, JobsDiffer, JobStepKeeps
<1>5. CASE WriteFile
  <2>1. /\ daemon # Nobody /\ job = <<"write", "apply">> /\ Tail(job) = <<"apply">>
    BY <1>5, JobsOf DEF WriteFile
  <2>2. /\ UNCHANGED <<daemon, sessions, lastSid, lease, granted>>
        /\ \/ files' = files \cup lease /\ job' = <<"apply">>
           \/ files' = files /\ job' = <<>>
    BY <1>5, <2>1, Zenon DEF WriteFile, history
  <2>3. Arriving BY <2>1, <1>0
  <2>4. \A g \in granted' : \E s \in sessions : s.sid = g /\ s \in files'
    BY <2>2, <1>0
  <2>5. job' # <<>> => Arriving' BY <2>2, <2>3 DEF Arriving
  <2>. QED BY <2>1, <2>2, <2>4, <2>5, JobsDiffer, JobStepKeeps
<1>6. CASE Unfile
  <2>1. /\ daemon # Nobody /\ job = <<"unfile", "unapply">> /\ Tail(job) = <<"unapply">>
    BY <1>6, JobsOf DEF Unfile
  <2>2. /\ UNCHANGED <<daemon, sessions, lastSid, lease, granted>> /\ job' = <<"unapply">>
        /\ files' = files \ lease \/ files' = files
    BY <1>6, <2>1, Zenon DEF Unfile, history
  <2>3. Leaving BY <2>1, <1>0
  <2>4. \A g \in granted' : \E s \in sessions : s.sid = g /\ s \in files'
    <3>1. \A s \in sessions : s \notin lease BY <2>3 DEF Leaving
    <3>. QED BY <3>1, <2>2, <1>0
  <2>5. Leaving' BY <2>2, <2>3 DEF Leaving
  <2>. QED BY <2>1, <2>2, <2>4, <2>5, JobsDiffer, JobStepKeeps
<1>7. CASE ApplyPeer
  <2>1. /\ daemon # Nobody /\ job = <<"apply">> /\ Tail(job) = <<>>
    BY <1>7, JobsOf DEF ApplyPeer
  <2>2. /\ UNCHANGED <<daemon, sessions, lastSid, lease, files>>
        /\ \/ job' = <<>> /\ granted' = granted \cup {s.sid : s \in lease \cap sessions}
           \/ granted' = granted /\ (job' = <<>> \/ job' = <<"uninstall", "install">>)
    BY <1>7, <2>1, RebuildIs DEF ApplyPeer, Passed, Fails
  <2>3. Arriving BY <2>1, <1>0
  <2>4. lease \subseteq sessions /\ lease \subseteq files
    BY <2>1, <2>3, JobsDiffer DEF Arriving
  <2>5. \A g \in granted' : \E s \in sessions : s.sid = g /\ s \in files'
    BY <2>2, <2>4, <1>0
  <2>6. Arriving' BY <2>2, <2>4 DEF Arriving
  <2>. QED BY <2>1, <2>2, <2>5, <2>6, JobsDiffer, JobStepKeeps
<1>8. CASE RemovePeer
  <2>1. /\ daemon # Nobody /\ job = <<"unapply">> /\ Tail(job) = <<>>
    BY <1>8, JobsOf DEF RemovePeer
  <2>2. /\ UNCHANGED <<daemon, sessions, lastSid, lease, files>>
        /\ \/ job' = <<>> /\ granted' = granted \cup {s.sid : s \in lease \cap sessions}
           \/ granted' = granted /\ (job' = <<>> \/ job' = <<"uninstall", "install">>)
    BY <1>8, <2>1, RebuildIs DEF RemovePeer, Passed, Fails
  <2>3. Leaving BY <2>1, <1>0
  <2>4. lease \cap sessions = {} BY <2>3 DEF Leaving
  <2>5. granted' = granted BY <2>2, <2>4
  <2>6. Leaving' BY <2>2, <2>3 DEF Leaving
  <2>. QED BY <2>1, <2>2, <2>5, <2>6, <1>0, JobsDiffer, JobStepKeeps
<1>9. CASE Uninstall
  <2>1. /\ daemon # Nobody /\ job = <<"uninstall", "install">> /\ Tail(job) = <<"install">>
    BY <1>9, JobsOf DEF Uninstall
  <2>2. UNCHANGED <<daemon, sessions, lastSid, lease, files, granted>> /\ job' = <<"install">>
    BY <1>9, <2>1, Zenon DEF Uninstall, history
  <2>3. Arriving \/ Leaving BY <2>1, <1>0, JobsDiffer
  <2>4. (Arriving \/ Leaving)' BY <2>1, <2>2, <2>3, JobsDiffer DEF Arriving, Leaving
  <2>. QED BY <2>1, <2>2, <2>4, <1>0, JobsDiffer, JobStepKeeps
<1>10. CASE Install
  <2>1. /\ daemon # Nobody /\ job = <<"install">> /\ Tail(job) = <<>>
    BY <1>10, JobsOf DEF Install
  <2>2. /\ UNCHANGED <<daemon, sessions, lastSid, lease, files>> /\ job' = <<>>
        /\ \/ granted' = granted \cup {s.sid : s \in lease \cap sessions}
           \/ granted' = granted
    BY <1>10, <2>1, Zenon DEF Install, Passed, Fails
  <2>3. Arriving \/ Leaving BY <2>1, <1>0, JobsDiffer
  <2>4. lease \cap sessions \subseteq files
    BY <2>1, <2>3, JobsDiffer DEF Arriving, Leaving
  <2>5. \A g \in granted' : \E s \in sessions : s.sid = g /\ s \in files'
    BY <2>2, <2>4, <1>0
  <2>. QED BY <2>1, <2>2, <2>5, JobsDiffer, JobStepKeeps
<1>. QED
  BY <1>1, <1>2, <1>3, <1>4, <1>5, <1>6, <1>7, <1>8, <1>9, <1>10 DEF DaemonStep

LEMMA WorldSessions ==
    ASSUME TypeOK, SessionInv, WorldFrame
    PROVE  SessionInv'
<1>1. files' = files /\ lastSid' = lastSid BY DEF WorldFrame
<1>2. CASE UNCHANGED <<daemon, sessions, job, lease>> /\ (granted' = granted \/ granted' = {})
  BY <1>1, <1>2
     DEF SessionInv, DownIsEmpty, Fresh, Exclusive, GrantsLive, InHand, Arriving, Leaving
<1>3. CASE Ended
  <2>1. job' = <<>> /\ sessions' = {} /\ granted' = {} /\ lease' = {} BY <1>3 DEF Ended
  <2>. QED
    BY <2>1, JobsDiffer DEF SessionInv, DownIsEmpty, Fresh, Exclusive, GrantsLive, InHand
<1>4. CASE daemon = Nobody /\ daemon' # Nobody /\ job' = StartWork
           /\ UNCHANGED <<sessions, lease, granted>>
  <2>1. sessions = {} /\ lease = {} BY <1>4 DEF SessionInv, DownIsEmpty, Fresh
  <2>2. granted = {} BY <2>1 DEF SessionInv, GrantsLive
  <2>3. Arriving' /\ Leaving' BY <2>1, <1>4 DEF Arriving, Leaving
  <2>. QED
    BY <2>1, <2>2, <2>3, <1>4 DEF SessionInv, DownIsEmpty, Fresh, Exclusive, GrantsLive, InHand
<1>. QED BY <1>2, <1>3, <1>4, Zenon DEF WorldFrame, DaemonAfter

LEMMA SessionsKept ==
    ASSUME TypeOK, SessionInv, [Next]_vars
    PROVE  SessionInv'
<1>1. CASE Next
  BY <1>1, StepKinds, DaemonSessions, LifeFrame, ProgramFrame, WorldSessions
<1>2. CASE UNCHANGED vars
  BY <1>2 DEF vars, process, host, counts, history, SessionInv, DownIsEmpty, Fresh, Exclusive,
              GrantsLive, InHand, Arriving, Leaving
<1>. QED BY <1>1, <1>2

-----------------------------------------------------------------------------
(***************************************************************************)
(* Who was let in is routed.                                               *)
(***************************************************************************)

\* What the daemon's own steps leave alone.
LEMMA DaemonKeeps ==
    ASSUME DaemonStep
    PROVE  UNCHANGED <<os, wg, daemon, opened, unit, pidFile, op, stopped>> /\ daemon # Nobody
BY Zenon DEF DaemonStep, Login, Disconnect, Forget, SetUpDevice, WriteFile, Unfile, ApplyPeer,
             RemovePeer, Uninstall, Install, host, counts, history, Waits, Ready

\* A step that changes no route, and grants nothing.
LEMMA RoutesUntouched ==
    ASSUME Routed, UNCHANGED <<os, link>>, granted' \subseteq granted,
           \A s \in sessions' : s.sid \in granted' =>
               s \in sessions /\ (Contested(s) => Contested(s)')
    PROVE  Routed'
BY DEF Routed

\* A file that goes contested nobody who lives.
LEMMA ContestStays ==
    ASSUME NEW s, files' = files \/ (\A f \in files \ files' : f.key # s.key /\ f.host # s.host),
           os' = os, Contested(s)
    PROVE  Contested(s)'
<1>1. os = "windows" /\ \E f \in files \ {s} : f.key = s.key \/ f.host = s.host
  BY DEF Contested
<1>2. PICK f \in files \ {s} : f.key = s.key \/ f.host = s.host BY <1>1
<1>3. f \in files' BY <1>2
<1>. QED BY <1>1, <1>2, <1>3 DEF Contested

LEMMA DaemonRouted ==
    ASSUME TypeOK, SessionInv, RoutedInv, DaemonStep
    PROVE  Routed' /\ NoLinkNoGrants'
<1>0. /\ daemon = Nobody => Fresh /\ job = <<>>
      /\ job = <<"device">> => Fresh
      /\ \A s, t \in sessions :
            s.sid = t.sid \/ s.key = t.key \/ s.host = t.host => s = t
      /\ \A s \in sessions : s.sid <= lastSid
      /\ \A g \in granted : \E s \in sessions : s.sid = g /\ s \in files
      /\ job # <<>> => Arriving \/ Leaving
      /\ job \in {<<"write", "apply">>, <<"apply">>} => Arriving
      /\ job \in {<<"unfile", "unapply">>, <<"unapply">>} => Leaving
      /\ \A s, t \in lease : s = t
  BY Zenon DEF SessionInv, DownIsEmpty, Exclusive, GrantsLive, InHand
<1>00. \A s \in sessions : s \in Session /\ s.sid \in Nat /\ s.host \in Hosts /\ s.key \in Clients
  BY DEF TypeOK, Session
<1>01. /\ os = "linux" /\ ~ link.there => granted = {}
       /\ Routed
  BY DEF RoutedInv, NoLinkNoGrants
<1>02. os' = os BY DaemonKeeps
<1>1. ASSUME NEW c \in Clients, Login(c) PROVE Routed' /\ NoLinkNoGrants'
  <2>1. PICK s \in Session, others \in SUBSET sessions :
               /\ s.sid = lastSid + 1 /\ s.key = c
               /\ others = {t \in sessions : t.key # c}
               /\ \A t \in others : t.key # c /\ t.host # s.host
               /\ sessions' = others \cup {s} /\ lease' = {s}
               /\ granted' = granted \cap {t.sid : t \in others}
               /\ lastSid' = lastSid + 1 /\ job' = <<"write", "apply">> /\ gone' = gone \ {c}
               /\ Waits
               /\ UNCHANGED <<os, wg, daemon, files, link, opened, unit, pidFile, op, ops,
                              faults, refused, stopped>>
    BY <1>1, LoginMakes
  <2>2. lastSid \in Nat BY DEF TypeOK
  <2>3. \A t \in others : t \in sessions /\ t.sid \in Nat /\ t.sid <= lastSid /\ t.sid # s.sid
    BY <2>1, <2>2, <1>0, <1>00
  <2>4. \A t \in sessions' : t.sid \in granted' => t \in sessions
    BY <2>1, <2>3
  <2>5. \A t : Contested(t) => Contested(t)' BY <2>1, ContestStays
  <2>6. granted' \subseteq granted /\ UNCHANGED <<os, link>> BY <2>1
  <2>7. Routed' BY <2>4, <2>5, <2>6, <1>01, RoutesUntouched
  <2>. QED BY <2>6, <2>7, <1>01 DEF NoLinkNoGrants
<1>2. ASSUME NEW S, sessions' = sessions \ S, granted' \subseteq granted,
             UNCHANGED <<os, link, files>>
      PROVE  Routed' /\ NoLinkNoGrants'
  <2>1. \A t : Contested(t) => Contested(t)' BY <1>2, ContestStays
  <2>2. Routed' BY <2>1, <1>2, <1>01, RoutesUntouched
  <2>. QED BY <1>2, <2>2, <1>01 DEF NoLinkNoGrants
<1>3. ASSUME NEW s \in sessions, Disconnect(s) PROVE Routed' /\ NoLinkNoGrants'
  <2>1. /\ sessions' = sessions \ {s} /\ granted' = granted \ {s.sid}
        /\ UNCHANGED <<os, link, files>>
    BY <1>3, Zenon DEF Disconnect, host
  <2>2. granted' \subseteq granted BY <2>1
  <2>. QED BY <2>1, <2>2, <1>2
<1>4. ASSUME NEW S \in SUBSET sessions, Forget(S) PROVE Routed' /\ NoLinkNoGrants'
  <2>1. /\ sessions' = sessions \ S /\ granted' = granted \ {s.sid : s \in S}
        /\ UNCHANGED <<os, link, files>>
    BY <1>4, Zenon DEF Forget, host
  <2>2. granted' \subseteq granted BY <2>1
  <2>. QED BY <2>1, <2>2, <1>2
<1>5. CASE SetUpDevice
  <2>1. /\ os = "linux" /\ job = <<"device">> BY <1>5, JobsOf DEF SetUpDevice
  <2>2. sessions = {} /\ lease = {} BY <2>1, <1>0 DEF Fresh
  <2>3. granted = {} BY <2>2, <1>0
  <2>4. sessions' = sessions /\ (granted' = granted \cup {s.sid : s \in lease \cap sessions}
                                  \/ granted' = granted)
    BY <1>5, Zenon DEF SetUpDevice, Passed, Fails
  <2>5. sessions' = {} /\ granted' = {} BY <2>2, <2>3, <2>4
  <2>. QED BY <2>5 DEF Routed, NoLinkNoGrants
<1>6. CASE WriteFile
  <2>1. /\ UNCHANGED <<os, sessions, link, granted>> /\ files \subseteq files'
    BY <1>6 DEF WriteFile, history
  <2>2. \A t : Contested(t) => Contested(t)' BY <2>1, ContestStays
  <2>3. Routed' BY <2>1, <2>2, <1>01, RoutesUntouched
  <2>. QED BY <2>1, <2>3, <1>01 DEF NoLinkNoGrants
<1>7. CASE Unfile
  <2>1. job = <<"unfile", "unapply">> BY <1>7, JobsOf DEF Unfile
  <2>2. Leaving BY <2>1, <1>0
  <2>3. /\ UNCHANGED <<os, sessions, link, granted>>
        /\ files' = files \ lease \/ files' = files
    BY <1>7, Zenon DEF Unfile, history
  <2>4. ASSUME NEW t \in sessions, Contested(t) PROVE Contested(t)'
    <3>1. \A f \in lease : f.key # t.key /\ f.host # t.host BY <2>2 DEF Leaving
    <3>2. files' = files \/ \A f \in files \ files' : f.key # t.key /\ f.host # t.host
      BY <2>3, <3>1
    <3>. QED BY <2>3, <2>4, <3>2, ContestStays
  <2>5. Routed' BY <2>3, <2>4, <1>01, RoutesUntouched
  <2>. QED BY <2>3, <2>5, <1>01 DEF NoLinkNoGrants
<1>8. CASE ApplyPeer
  <2>1. /\ daemon # Nobody /\ job = <<"apply">> /\ Tail(job) = <<>>
    BY <1>8, JobsOf DEF ApplyPeer
  <2>2. Arriving BY <2>1, <1>0
  <2>3. PICK s \in lease :
          \/ /\ Live /\ Passed([Created EXCEPT !.route = AddPeer(Created.route, s)])
          \/ Fails(IF os = "windows" THEN Rebuild ELSE Tail(job))
    BY <1>8 DEF ApplyPeer
  <2>4. UNCHANGED <<os, sessions, lease, files>> BY <1>8 DEF ApplyPeer
  <2>5. s \in sessions BY <2>2 DEF Arriving
  <2>6. CASE Fails(IF os = "windows" THEN Rebuild ELSE Tail(job))
    <3>1. UNCHANGED <<link, granted>> BY <2>6 DEF Fails
    <3>2. sessions' = sessions \ {} /\ granted' \subseteq granted BY <2>4, <3>1
    <3>. QED BY <3>1, <3>2, <2>4, <1>2
  <2>7. CASE Live /\ Passed([Created EXCEPT !.route = AddPeer(Created.route, s)])
    <3> DEFINE new == AddPeer(Created.route, s)
    <3>1. new \in Route BY <2>5, <1>00, LinksTyped, RoutesTyped DEF Link
    <3>2. /\ link' = [Created EXCEPT !.route = new]
          /\ granted' = granted \cup {t.sid : t \in lease \cap sessions}
      BY <2>7, Zenon DEF Passed
    <3>3. link'.route = new /\ link'.there BY <3>1, <3>2, LinksTyped
    <3>4. \A h \in Hosts : new[h] = IF h = s.host THEN s.key
                                    ELSE IF Created.route[h] = s.key THEN Nobody
                                    ELSE Created.route[h]
      BY DEF AddPeer
    <3> HIDE DEF new
    <3>5. ASSUME NEW t \in sessions, t.sid \in granted', ~ Contested(t)'
          PROVE  link'.route[t.host] = t.key
      <4>1. CASE t = s BY <4>1, <3>3, <3>4, <1>00
      <4>2. CASE t # s
        <5>1. t.host # s.host /\ t.key # s.key /\ t.sid # s.sid BY <4>2, <2>5, <1>0
        <5>2. t.sid \in granted
          <6>1. \A u \in lease : u = s BY <1>0
          <6>. QED BY <6>1, <5>1, <3>2, <3>5
        <5>3. ~ Contested(t) BY <3>5, <2>4, ContestStays
        <5>4. link.there BY <5>2, <2>7, <1>01, <1>02 DEF Live, TypeOK
        <5>5. link.route[t.host] = t.key BY <5>2, <5>3, <5>4, <1>01 DEF Routed
        <5>6. Created.route[t.host] = t.key BY <5>4, <5>5, LinksTyped
        <5>. QED BY <5>1, <5>6, <3>3, <3>4, <1>00
      <4>. QED BY <4>1, <4>2
    <3>. QED BY <3>3, <3>5, <2>4 DEF Routed, NoLinkNoGrants
  <2>. QED BY <2>3, <2>6, <2>7
<1>9. CASE RemovePeer
  <2>1. /\ daemon # Nobody /\ job = <<"unapply">> /\ Tail(job) = <<>>
    BY <1>9, JobsOf DEF RemovePeer
  <2>2. Leaving BY <2>1, <1>0
  <2>3. PICK s \in lease :
          \/ /\ Live /\ Passed([Created EXCEPT !.route = DropPeer(Created.route, s.key)])
          \/ Fails(IF os = "windows" THEN Rebuild ELSE Tail(job))
    BY <1>9 DEF RemovePeer
  <2>4. UNCHANGED <<os, sessions, lease, files>> BY <1>9 DEF RemovePeer
  <2>5. \A t \in sessions : t.key # s.key BY <2>2 DEF Leaving
  <2>6. CASE Fails(IF os = "windows" THEN Rebuild ELSE Tail(job))
    <3>1. UNCHANGED <<link, granted>> BY <2>6 DEF Fails
    <3>2. sessions' = sessions \ {} /\ granted' \subseteq granted BY <2>4, <3>1
    <3>. QED BY <3>1, <3>2, <2>4, <1>2
  <2>7. CASE Live /\ Passed([Created EXCEPT !.route = DropPeer(Created.route, s.key)])
    <3> DEFINE new == DropPeer(Created.route, s.key)
    <3>1. new \in Route
      <4>1. Created.route \in Route BY LinksTyped DEF Link
      <4>. QED BY <4>1, RoutesTyped
    <3>2. /\ link' = [Created EXCEPT !.route = new]
          /\ granted' = granted \cup {t.sid : t \in lease \cap sessions}
      BY <2>7, Zenon DEF Passed
    <3>3. link'.route = new /\ link'.there BY <3>1, <3>2, LinksTyped
    <3>4. \A h \in Hosts : new[h] = IF Created.route[h] = s.key THEN Nobody
                                    ELSE Created.route[h]
      BY DEF DropPeer
    <3> HIDE DEF new
    <3>5. granted' = granted
      <4>1. lease \cap sessions = {} BY <2>2 DEF Leaving
      <4>. QED BY <4>1, <3>2
    <3>6. ASSUME NEW t \in sessions, t.sid \in granted', ~ Contested(t)'
          PROVE  link'.route[t.host] = t.key
      <4>1. t.sid \in granted BY <3>5, <3>6
      <4>2. ~ Contested(t) BY <3>6, <2>4, ContestStays
      <4>3. link.there BY <4>1, <2>7, <1>01 DEF Live, TypeOK
      <4>4. link.route[t.host] = t.key BY <4>1, <4>2, <4>3, <1>01 DEF Routed
      <4>5. Created.route[t.host] = t.key BY <4>3, <4>4, LinksTyped
      <4>. QED BY <4>5, <2>5, <3>3, <3>4, <1>00
    <3>. QED BY <3>3, <3>6, <2>4 DEF Routed, NoLinkNoGrants
  <2>. QED BY <2>3, <2>6, <2>7
<1>10. CASE Uninstall
  <2>1. os = "windows" BY <1>10, JobsOf DEF Uninstall
  <2>2. UNCHANGED <<os, sessions, files, granted>> /\ (link' = NoLink \/ link' = link)
    BY <1>10, Zenon DEF Uninstall, history
  <2>3. CASE link' = NoLink
    BY <2>1, <2>2, <2>3, LinksTyped DEF Routed, NoLinkNoGrants
  <2>4. CASE link' = link
    <3>1. sessions' = sessions \ {} /\ granted' \subseteq granted BY <2>2
    <3>. QED BY <3>1, <2>2, <2>4, <1>2
  <2>. QED BY <2>2, <2>3, <2>4
<1>11. CASE Install
  <2>1. /\ daemon # Nobody /\ job = <<"install">> /\ os = "windows"
    BY <1>11, JobsOf DEF Install
  <2>2. UNCHANGED <<os, sessions, lease, files>> BY <1>11 DEF Install
  <2>3. lease \cap sessions \subseteq files
    <3>1. Arriving \/ Leaving BY <2>1, <1>0, JobsDiffer
    <3>. QED BY <2>1, <3>1, JobsDiffer DEF Arriving, Leaving
  <2>4. CASE UNCHANGED <<link, granted>>
    <3>1. sessions' = sessions \ {} /\ granted' \subseteq granted BY <2>2, <2>4
    <3>. QED BY <3>1, <2>2, <2>4, <1>2
  <2>5. ASSUME NEW route \in Profiles,
               Passed([there |-> TRUE, set |-> TRUE, route |-> route])
        PROVE  Routed' /\ NoLinkNoGrants'
    <3>1. /\ link' = [there |-> TRUE, set |-> TRUE, route |-> route]
          /\ granted' = granted \cup {t.sid : t \in lease \cap sessions}
      BY <2>5, Zenon DEF Passed
    <3>2. link'.route = route BY <3>1
    <3>3. ASSUME NEW t \in sessions, t.sid \in granted', ~ Contested(t)'
          PROVE  link'.route[t.host] = t.key
      <4>1. t \in files
        <5>1. CASE t.sid \in granted
          <6>1. PICK u \in sessions : u.sid = t.sid /\ u \in files BY <5>1, <1>0
          <6>. QED BY <6>1, <1>0
        <5>2. CASE t.sid \notin granted
          <6>1. PICK u \in lease \cap sessions : u.sid = t.sid BY <5>2, <3>1, <3>3
          <6>2. u = t BY <6>1, <1>0
          <6>. QED BY <6>1, <6>2, <2>3
        <5>. QED BY <5>1, <5>2
      <4>2. \A f \in files \ {t} : f.key # t.key /\ f.host # t.host
        BY <3>3, <2>1, <2>2 DEF Contested
      <4>. QED BY <4>1, <4>2, <3>2, ProfilesTyped
    <3>. QED BY <3>3, <2>1, <2>2 DEF Routed, NoLinkNoGrants
  <2>. QED BY <1>11, <2>4, <2>5, Zenon DEF Install, Fails
<1>. QED
  BY <1>1, <1>3, <1>4, <1>5, <1>6, <1>7, <1>8, <1>9, <1>10, <1>11 DEF DaemonStep

\* The list of a removal, and of a "stop" of the window.
LEMMA RemovalIs ==
    ASSUME TypeOK, os = "linux", op.name = "remove"
    PROVE  /\ op \in [name : {"apply", "remove", "start", "stop"}, steps : Rests(os, op.name),
                      ok : BOOLEAN]
           /\ \/ /\ op.steps = <<"disable", "deleteTable", "deleteLink">>
                 /\ Head(op.steps) = "disable" /\ Tail(op.steps) = <<"deleteTable", "deleteLink">>
              \/ /\ op.steps = <<"deleteTable", "deleteLink">>
                 /\ Head(op.steps) = "deleteTable" /\ Tail(op.steps) = <<"deleteLink">>
              \/ /\ op.steps = <<"deleteLink">>
                 /\ Head(op.steps) = "deleteLink" /\ Tail(op.steps) = <<>>
<1>1. op # NoOp BY DEF NoOp
<1>2. op \in [name : {"apply", "remove", "start", "stop"}, steps : Rests(os, op.name), ok : BOOLEAN]
  BY <1>1 DEF TypeOK, Running
<1>3. op.steps \in {<<"disable", "deleteTable", "deleteLink">>,
                    <<"deleteTable", "deleteLink">>, <<"deleteLink">>}
  BY <1>2 DEF Rests
<1>4. CASE op.steps = <<"disable", "deleteTable", "deleteLink">> BY <1>2, <1>4
<1>5. CASE op.steps = <<"deleteTable", "deleteLink">> BY <1>2, <1>5
<1>6. CASE op.steps = <<"deleteLink">> BY <1>2, <1>6
<1>. QED BY <1>3, <1>4, <1>5, <1>6, Zenon

LEMMA WorldRouted ==
    ASSUME TypeOK, SessionInv, RoutedInv, WorldFrame
    PROVE  Routed' /\ NoLinkNoGrants'
<1>1. /\ Routed /\ (os = "linux" /\ ~ link.there => granted = {})
      /\ UNCHANGED <<os, files>>
  BY DEF RoutedInv, NoLinkNoGrants, WorldFrame
<1>2. /\ sessions' = sessions \/ sessions' = {}
      /\ granted' = granted \/ granted' = {}
  BY Zenon DEF WorldFrame, DaemonAfter, Ended
<1>3. \A t : Contested(t) => Contested(t)' BY <1>1, ContestStays
<1>4. CASE link' = link
  <2>1. /\ granted' \subseteq granted /\ UNCHANGED <<os, link>>
        /\ \A s \in sessions' : s.sid \in granted' =>
               s \in sessions /\ (Contested(s) => Contested(s)')
    BY <1>1, <1>2, <1>3, <1>4
  <2>2. Routed' BY <2>1, <1>1, RoutesUntouched
  <2>. QED BY <2>1, <2>2, <1>1 DEF NoLinkNoGrants
<1>5. CASE os = "linux" /\ link' = Configured
  <2>1. link'.there BY <1>5, LinksTyped
  <2>2. ASSUME NEW s \in sessions', s.sid \in granted', ~ Contested(s)'
        PROVE  link'.route[s.host] = s.key
    <3>1. s \in sessions /\ s.sid \in granted /\ ~ Contested(s) BY <2>2, <1>2, <1>3
    <3>2. link.there BY <3>1, <1>1, <1>5
    <3>3. link.route[s.host] = s.key BY <3>1, <3>2, <1>1 DEF Routed
    <3>4. link'.route = link.route BY <3>2, <1>5, LinksTyped
    <3>. QED BY <3>3, <3>4
  <2>. QED BY <2>1, <2>2 DEF Routed, NoLinkNoGrants
<1>6. CASE link' = NoLink /\ (os = "linux" => granted' = {})
  <2>1. ~ link'.there BY <1>6, LinksTyped
  <2>. QED BY <2>1, <1>1, <1>6 DEF Routed, NoLinkNoGrants
<1>. QED BY <1>4, <1>5, <1>6, Zenon DEF WorldFrame, LinkAfter

LEMMA UnitIsLinux ==
    ASSUME TypeOK, daemon = "unit"
    PROVE  os = "linux"
<1>1. os = "windows" => daemon \in {Nobody, "hand"} \cup {"window"} BY DEF TypeOK
<1>. QED BY <1>1 DEF TypeOK, Nobody

LEMMA DaemonServes ==
    ASSUME TypeOK, UnitServes, DaemonStep
    PROVE  UnitServes'
<1> SUFFICES ASSUME daemon' = "unit", job' # <<"device">>, ~ refused'
             PROVE  (link.there /\ link.set)'
  BY DEF UnitServes
<1>1. daemon = "unit" /\ os = "linux" BY DaemonKeeps, UnitIsLinux
<1>2. job # <<"device">> /\ ~ refused => link.there /\ link.set BY <1>1 DEF UnitServes
<1>3. ASSUME UNCHANGED <<link, refused>>, job # <<"device">> PROVE (link.there /\ link.set)'
  BY <1>2, <1>3
<1>4. ASSUME NEW step, Ready(step), step \in {"write", "apply", "unapply", "unfile"}
      PROVE  job # <<"device">>
  BY <1>4, JobsOf, JobsDiffer
<1>5. ASSUME Waits PROVE job # <<"device">>
  <2>1. job = <<>> BY <1>5 DEF Waits
  <2>. QED BY <2>1, JobsDiffer
<1>6. CASE \E c \in Clients : Login(c)
  <2>1. Waits /\ UNCHANGED <<link, refused>> BY <1>6, Zenon DEF Login, host
  <2>. QED BY <2>1, <1>3, <1>5
<1>7. CASE \E s \in sessions : Disconnect(s)
  <2>1. Waits /\ UNCHANGED <<link, refused>> BY <1>7, Zenon DEF Disconnect, host
  <2>. QED BY <2>1, <1>3, <1>5
<1>8. ASSUME NEW S, Forget(S) PROVE (link.there /\ link.set)'
  <2>1. Waits /\ UNCHANGED <<link, refused>> BY <1>8, Zenon DEF Forget, host
  <2>. QED BY <2>1, <1>3, <1>5
<1>9. CASE SetUpDevice
  <2>1. link' = Configured \/ refused' = TRUE
    BY <1>9, Zenon DEF SetUpDevice, Passed
  <2>. QED BY <2>1, LinksTyped
<1>10. CASE WriteFile \/ Unfile
  <2>1. UNCHANGED <<link, refused>> /\ (Ready("write") \/ Ready("unfile"))
    BY <1>10, Zenon DEF WriteFile, Unfile, history
  <2>. QED BY <2>1, <1>3, <1>4
<1>11. CASE ApplyPeer \/ RemovePeer
  <2>1. Ready("apply") \/ Ready("unapply") BY <1>11, Zenon DEF ApplyPeer, RemovePeer
  <2>2. job # <<"device">> BY <2>1, <1>4
  <2>3. refused' = refused BY <1>11, Zenon DEF ApplyPeer, RemovePeer
  <2>4. link.there /\ link.set BY <2>2, <2>3, <1>2
  <2>5. Created = link BY <2>4, LinksTyped
  <2>6. \/ link' = link
        \/ \E s \in lease : link' = [Created EXCEPT !.route = AddPeer(Created.route, s)]
        \/ \E s \in lease : link' = [Created EXCEPT !.route = DropPeer(Created.route, s.key)]
    BY <1>11 DEF ApplyPeer, RemovePeer, Passed, Fails
  <2>7. \E route \in Route : link' = [Created EXCEPT !.route = route]
    <3>1. Created.route \in Route BY LinksTyped DEF Link
    <3>2. \A s \in lease : /\ AddPeer(Created.route, s) \in Route
                           /\ DropPeer(Created.route, s.key) \in Route
      BY <3>1, RoutesTyped DEF TypeOK
    <3>3. CASE link' = link
      <4>1. Created \in Link BY LinksTyped
      <4>2. [Created EXCEPT !.route = Created.route] = Created BY <4>1 DEF Link
      <4>. QED BY <3>1, <3>3, <4>2, <2>5
    <3>. QED BY <2>6, <3>2, <3>3, Zenon
  <2>8. link'.there /\ link'.set = Created.set BY <2>7, LinksTyped
  <2>. QED BY <2>4, <2>5, <2>8
<1>12. CASE Uninstall \/ Install
  <2>1. os = "windows" BY <1>12, JobsOf DEF Uninstall, Install
  <2>. QED BY <2>1, <1>1
<1>. QED BY <1>6, <1>7, <1>8, <1>9, <1>10, <1>11, <1>12, Zenon DEF DaemonStep

LEMMA WorldServes ==
    ASSUME TypeOK, TypeOK', UnitServes, ServiceStopped, WorldFrame
    PROVE  UnitServes'
<1> SUFFICES ASSUME daemon' = "unit", job' # <<"device">>, ~ refused'
             PROVE  (link.there /\ link.set)'
  BY DEF UnitServes
<1>2. "unit" # Nobody BY DEF Nobody
<1>1. os' = "linux" /\ os' = os
  <2>1. os' = os /\ os \in {"linux", "windows"} BY DEF WorldFrame, TypeOK
  <2>2. os' = "windows" => daemon' \in {Nobody, "hand"} \cup {"window"} BY DEF TypeOK
  <2>. QED BY <2>1, <2>2, <1>2
<1>3. ~ Ended BY <1>2 DEF Ended
<1>4. StartWork = <<"device">> BY <1>1 DEF StartWork
<1>5. daemon = "unit" /\ job' = job
  BY <1>3, <1>4, Zenon DEF WorldFrame, DaemonAfter
<1>6. CASE UNCHANGED <<link, refused>> BY <1>5, <1>6 DEF UnitServes
<1>7. CASE link' = Configured BY <1>7, LinksTyped
<1>8. CASE link' = NoLink
  <2>1. CASE Does("deleteLink")
    <3>1. op.name = "remove" BY <2>1, <1>1, StepsOf
    <3>2. op.steps # <<"disable", "deleteTable", "deleteLink">>
      <4>1. Head(op.steps) = "deleteLink" BY <2>1 DEF Does
      <4>. QED BY <4>1
    <3>. QED BY <3>1, <3>2, <1>1, <1>5 DEF ServiceStopped
  <2>2. CASE UNCHANGED <<link, refused>> BY <2>2, <1>6
  <2>3. CASE link' = Configured BY <2>3, <1>7
  <2>. QED BY <2>1, <2>2, <2>3, <1>1, <1>3, Zenon DEF WorldFrame, LinkAfter
<1>. QED BY <1>6, <1>7, <1>8, Zenon DEF WorldFrame, LinkAfter

LEMMA ServiceStaysStopped ==
    ASSUME TypeOK, ServiceStopped, [Next]_vars
    PROVE  ServiceStopped'
<1> DEFINE Full == <<"disable", "deleteTable", "deleteLink">>
<1>0. NoOp.name = "none" BY DEF NoOp
<1>1. CASE UNCHANGED vars
  BY <1>1 DEF vars, process, host, counts, history, ServiceStopped
<1>2. CASE DaemonStep
  <2>1. UNCHANGED <<os, daemon, unit, op>> BY <1>2, DaemonKeeps
  <2>. QED BY <2>1 DEF ServiceStopped
<1>3. CASE op' = NoOp
  BY <1>3, <1>0 DEF ServiceStopped
<1>4. CASE StartDaemon
  <2>1. PICK who \in {"hand", "unit"} : (who = "unit" => unit.on) /\ daemon' = who
    BY <1>4, Zenon DEF StartDaemon, Begun
  <2>2. op' = [op EXCEPT !.ok = (op = NoOp)] /\ UNCHANGED <<os, unit>>
    BY <1>4, Zenon DEF StartDaemon, host
  <2>3. op = NoOp \/ op \in [name : {"apply", "remove", "start", "stop"},
                             steps : Rests(os, op.name), ok : BOOLEAN]
    BY DEF TypeOK, Running
  <2>4. op'.name = op.name /\ op'.steps = op.steps
    <3>1. CASE op = NoOp
      <4>1. ASSUME NEW n, NEW s, NEW k, NEW b
            PROVE  [[name |-> n, steps |-> s, ok |-> k] EXCEPT !.ok = b]
                       = [name |-> n, steps |-> s, ok |-> b]
        OBVIOUS
      <4>2. op = [name |-> "none", steps |-> <<>>, ok |-> TRUE] BY <3>1 DEF NoOp
      <4>3. op' = [name |-> "none", steps |-> <<>>, ok |-> (op = NoOp)]
        BY <2>2, <4>1, <4>2, Zenon
      <4>. QED BY <4>2, <4>3
    <3>2. CASE op \in [name : {"apply", "remove", "start", "stop"},
                       steps : Rests(os, op.name), ok : BOOLEAN]
      BY <3>2, <2>2
    <3>. QED BY <2>3, <3>1, <3>2
  <2>. QED BY <2>1, <2>2, <2>4 DEF ServiceStopped
<1>5. CASE DaemonDies
  <2>1. UNCHANGED <<os, unit, op>> /\ daemon' = Nobody BY <1>5, Zenon DEF DaemonDies, Ended
  <2>. QED BY <2>1 DEF ServiceStopped, Nobody
<1>6. CASE Reboot BY <1>6, <1>3, Zenon DEF Reboot
<1>7. ASSUME NEW name \in {"apply", "remove", "start", "stop"}, Begin(name)
      PROVE  ServiceStopped'
  <2>1. op' = [name |-> name, steps |-> Steps(os, name), ok |-> TRUE] /\ os' = os
    BY <1>7, Zenon DEF Begin
  <2>2. os = "linux" /\ name = "remove" => Steps(os, name) = Full BY DEF Steps
  <2>3. op'.name = name /\ op'.steps = Steps(os, name) BY <2>1
  <2>. QED BY <2>1, <2>2, <2>3 DEF ServiceStopped
<1>8. CASE ProgramDies BY <1>8, <1>3, Zenon DEF ProgramDies
<1>9. ASSUME NEW step, NEW ok \in BOOLEAN, Does(step), Went(ok), os' = os,
             os = "linux" /\ op.name = "remove" /\ step # "disable" => UNCHANGED <<unit, daemon>>,
             step = "disable" => ~ unit'.on /\ daemon' # "unit"
      PROVE  ServiceStopped'
  <2>1. CASE op' = NoOp BY <2>1, <1>3
  <2>2. CASE op'.name = op.name /\ os = "linux" /\ op.name = "remove"
    <3>1. Head(op.steps) = step BY <1>9 DEF Does
    <3>2. CASE step = "disable" BY <3>2, <1>9 DEF ServiceStopped
    <3>3. CASE step # "disable"
      <4>1. op.steps # Full BY <3>1, <3>3
      <4>2. ~ unit.on /\ daemon # "unit" BY <4>1, <2>2 DEF ServiceStopped
      <4>. QED BY <4>2, <3>3, <2>2, <1>9 DEF ServiceStopped
    <3>. QED BY <3>2, <3>3
  <2>3. CASE op'.name = op.name /\ ~ (os = "linux" /\ op.name = "remove")
    BY <2>3, <1>9 DEF ServiceStopped
  <2>4. op' = NoOp \/ op'.name = op.name BY <1>9, WentOn
  <2>. QED BY <2>1, <2>2, <2>3, <2>4
<1>10. ASSUME NEW step, Does(step), os = "linux", op.name = "remove"
       PROVE  step \in {"disable", "deleteTable", "deleteLink"}
  BY <1>10, StepsOf
<1>11. CASE OpenOrClose
  <2>1. \E step : \E ok \in BOOLEAN : Does(step) /\ Went(ok) /\ step # "disable"
    <3>1. \E step : \E ok \in BOOLEAN : Does(step) /\ Went(ok)
              /\ step \notin {"kill", "uninstall", "forget", "disable", "deleteLink"}
      BY <1>11, OpensAndCloses
    <3>. QED BY <3>1
  <2>2. UNCHANGED <<os, daemon, unit>> BY <1>11, OpensAndCloses
  <2>. QED BY <2>1, <2>2, <1>9
<1>12. CASE Tunnel \/ TakeLink \/ ProgramDies
  <2>1. \/ op' = NoOp
        \/ \E step : \E ok \in BOOLEAN : step # "disable" /\ Does(step) /\ Went(ok)
    <3>1. /\ "tunnel" # "disable" /\ "deleteLink" # "disable" /\ "uninstall" # "disable"
          /\ TRUE \in BOOLEAN /\ FALSE \in BOOLEAN
      OBVIOUS
    <3>. QED BY <1>12, <3>1, Zenon DEF Tunnel, TakeLink, ProgramDies
  <2>2. UNCHANGED <<os, daemon, unit>>
    BY <1>12, Zenon DEF Tunnel, TakeLink, ProgramDies, process, host
  <2>. QED BY <2>1, <2>2, <1>3, <1>9
<1>13. CASE Disable
  <2>1. /\ Does("disable") /\ Went(TRUE) /\ os' = os /\ unit' = [on |-> FALSE, boot |-> FALSE]
        /\ IF daemon = "unit" THEN Ended ELSE Same
    BY <1>13, Zenon DEF Disable, Systemctl
  <2>2. daemon' # "unit" BY <2>1 DEF Ended, Same, Nobody
  <2>3. ~ unit'.on BY <2>1
  <2>. QED BY <2>1, <2>2, <2>3, <1>9
<1>14. CASE Restart \/ StartUnit \/ StopUnit
  <2>1. PICK step \in {"restart", "systemctlStart", "systemctlStop"} :
            Does(step) /\ Went(TRUE) /\ os' = os
    BY <1>14, Zenon DEF Restart, StartUnit, StopUnit, Systemctl
  <2>. QED BY <2>1, <1>9, <1>10
<1>15. CASE Kill \/ ForgetPid \/ Spawn \/ SavePid
  <2>1. PICK step \in {"kill", "forget", "spawn", "savePid"} :
            Does(step) /\ os' = os /\ \E ok \in BOOLEAN : Went(ok)
    <3>1. (daemon' = Nobody) \in BOOLEAN /\ TRUE \in BOOLEAN OBVIOUS
    <3>2. Kill => Does("kill") /\ os' = os /\ \E ok \in BOOLEAN : Went(ok)
      BY <3>1 DEF Kill
    <3>. QED BY <1>15, <3>1, <3>2, Zenon DEF ForgetPid, Spawn, SavePid
  <2>. QED BY <2>1, <1>9, <1>10
<1>. QED
  BY <1>1, <1>2, <1>4, <1>5, <1>6, <1>7, <1>11, <1>12, <1>13, <1>14, <1>15, StepKinds, Zenon
     DEF LifeStep, ProgramStep

(***************************************************************************)
(* The address of a session whose peer was applied stays its client's key  *)
(* as long as it lives, through every way the interface is updated, gone   *)
(* or built again; and systemd's daemon serves a configured interface.     *)
(***************************************************************************)
THEOREM SessionsAreRouted == Spec => []SessionsRouted
<1> DEFINE Inv == TypeOK /\ SessionInv /\ RoutedInv
<1>1. Init => Inv
  <2> SUFFICES ASSUME Init PROVE SessionInv /\ RoutedInv
    BY InitTyped
  <2>1. SessionInv
    BY JobsDiffer DEF Init, SessionInv, DownIsEmpty, Fresh, Exclusive, GrantsLive, InHand
  <2>2. RoutedInv
    BY LinksTyped, NoLinkTyped
       DEF Init, RoutedInv, NoLinkNoGrants, Routed, UnitServes, ServiceStopped, NoOp, NoLink, Nobody
  <2>. QED BY <2>1, <2>2
<1>2. Inv /\ [Next]_vars => Inv'
  <2> SUFFICES ASSUME TypeOK, SessionInv, RoutedInv, [Next]_vars
               PROVE  TypeOK' /\ SessionInv' /\ RoutedInv'
    OBVIOUS
  <2>1. CASE Next
    <3>1. TypeOK' BY <2>1, StepKinds, DaemonTypes, LifeFrame, ProgramFrame
    <3>2. SessionInv' /\ ServiceStopped' BY SessionsKept, ServiceStaysStopped DEF RoutedInv
    <3>3. CASE DaemonStep
      BY <3>1, <3>2, <3>3, DaemonRouted, DaemonServes DEF RoutedInv
    <3>4. CASE LifeStep \/ ProgramStep
      <4>1. WorldFrame BY <3>4, LifeFrame, ProgramFrame
      <4>2. Routed' /\ NoLinkNoGrants' BY <4>1, WorldRouted
      <4>3. UnitServes' BY <4>1, <3>1, WorldServes DEF RoutedInv
      <4>. QED BY <3>1, <3>2, <4>2, <4>3 DEF RoutedInv
    <3>. QED BY <2>1, <3>3, <3>4, StepKinds
  <2>2. CASE UNCHANGED vars
    <3>1. TypeOK'
      BY <2>2 DEF vars, process, host, counts, history, TypeOK, Running
    <3>2. SessionInv' BY SessionsKept
    <3>3. RoutedInv'
      BY <2>2 DEF vars, process, host, counts, history, RoutedInv, NoLinkNoGrants, Routed,
                  UnitServes, ServiceStopped, Contested
    <3>. QED BY <3>1, <3>2, <3>3
  <2>. QED BY <2>1, <2>2
<1>3. Inv => SessionsRouted
  <2> SUFFICES ASSUME TypeOK, SessionInv, RoutedInv PROVE SessionsRouted OBVIOUS
  <2>1. granted # {} => job # <<"device">>
    BY DEF SessionInv, DownIsEmpty, Fresh, GrantsLive
  <2>. QED BY <2>1 DEF RoutedInv, Routed, UnitServes, SessionsRouted
<1>. QED BY <1>1, <1>2, <1>3, PTL DEF Spec

-----------------------------------------------------------------------------
(***************************************************************************)
(* Who left is out.                                                        *)
(***************************************************************************)

\* Nobody is let in by a step that only takes addresses away.
LEMMA OutStaysOut ==
    ASSUME TypeOK, DepartedStayOut, os' = os, gone' \subseteq gone,
           \A f \in files \ files' : f.key \notin gone',
           \A h \in Hosts : link'.route[h] = Nobody \/ link'.route[h] = link.route[h]
    PROVE  DepartedStayOut'
<1> SUFFICES ASSUME NEW c \in gone', \A f \in files' : os = "windows" => f.key # c
             PROVE  \A h \in Hosts : link'.route[h] # c
  BY DEF DepartedStayOut
<1>1. c # Nobody BY NobodyIsNoClient DEF TypeOK
<1>2. \A f \in files : os = "windows" => f.key # c OBVIOUS
<1>3. \A h \in Hosts : link.route[h] # c BY <1>2 DEF DepartedStayOut
<1>. QED BY <1>1, <1>3

\* What an interface that is there, or is made, knows of who left.
LEMMA CreatedKnows ==
    ASSUME TypeOK
    PROVE  \A h \in Hosts : Created.route[h] = Nobody \/ Created.route[h] = link.route[h]
BY LinksTyped

LEMMA DaemonGone ==
    ASSUME TypeOK, SessionInv, GoneInv, DaemonStep
    PROVE  GoneInv'
<1>0. /\ job = <<"device">> => Fresh
      /\ job # <<>> => Arriving \/ Leaving
      /\ job \in {<<"write", "apply">>, <<"apply">>} => Arriving
      /\ job \in {<<"unfile", "unapply">>, <<"unapply">>} => Leaving
      /\ \A s, t \in lease : s = t
  BY Zenon DEF SessionInv, DownIsEmpty, Exclusive, GrantsLive, InHand
<1>00. /\ \A s \in sessions : s.key \notin gone
       /\ job # <<>> => \A s \in lease : s.key \notin gone
       /\ DepartedStayOut
  BY Zenon DEF GoneInv, KnownNotGone
<1>01. /\ os' = os /\ gone \subseteq Clients /\ Nobody \notin Clients
  BY DaemonKeeps, NobodyIsNoClient DEF TypeOK
<1>02. lease \subseteq Session /\ \A s \in lease : s.host \in Hosts /\ s.key \in Clients
  BY DEF TypeOK, Session
<1>1. ASSUME NEW c \in Clients, Login(c) PROVE GoneInv'
  <2>1. PICK s \in Session, others \in SUBSET sessions :
               /\ s.sid = lastSid + 1 /\ s.key = c
               /\ others = {t \in sessions : t.key # c}
               /\ \A t \in others : t.key # c /\ t.host # s.host
               /\ sessions' = others \cup {s} /\ lease' = {s}
               /\ granted' = granted \cap {t.sid : t \in others}
               /\ lastSid' = lastSid + 1 /\ job' = <<"write", "apply">> /\ gone' = gone \ {c}
               /\ Waits
               /\ UNCHANGED <<os, wg, daemon, files, link, opened, unit, pidFile, op, ops,
                              faults, refused, stopped>>
    BY <1>1, LoginMakes
  <2>2. gone' \subseteq gone /\ UNCHANGED <<os, files, link>> BY <2>1
  <2>3. DepartedStayOut' BY <2>2, <1>00, OutStaysOut
  <2>4. \A t \in sessions' : t.key \notin gone' BY <2>1, <1>00
  <2>5. \A t \in lease' : t.key \notin gone' BY <2>1
  <2>. QED BY <2>3, <2>4, <2>5 DEF GoneInv, KnownNotGone
<1>2. ASSUME NEW s \in sessions, Disconnect(s) PROVE GoneInv'
  <2>1. /\ sessions' = sessions \ {s} /\ lease' = {s} /\ UNCHANGED <<files, link, gone>>
    BY <1>2, Zenon DEF Disconnect, host
  <2>2. DepartedStayOut' BY <2>1, <1>00, <1>01, OutStaysOut
  <2>. QED BY <2>1, <2>2, <1>00 DEF GoneInv, KnownNotGone
<1>3. ASSUME NEW S, Forget(S) PROVE GoneInv'
  <2>1. /\ sessions' = sessions \ S /\ UNCHANGED <<lease, job, files, link, gone>>
    BY <1>3, Zenon DEF Forget, host
  <2>2. DepartedStayOut' BY <2>1, <1>00, <1>01, OutStaysOut
  <2>. QED BY <2>1, <2>2, <1>00 DEF GoneInv, KnownNotGone
<1>4. ASSUME UNCHANGED <<sessions, lease, gone>>, job # <<>>,
             \A f \in files \ files' : f.key \notin gone',
             \A h \in Hosts : link'.route[h] = Nobody \/ link'.route[h] = link.route[h]
      PROVE  GoneInv'
  <2>1. DepartedStayOut' BY <1>4, <1>00, <1>01, OutStaysOut
  <2>. QED BY <2>1, <1>4, <1>00 DEF GoneInv, KnownNotGone
<1>5. CASE SetUpDevice
  <2>1. job = <<"device">> /\ job # <<>> BY <1>5, JobsOf DEF SetUpDevice
  <2>2. sessions = {} /\ lease = {} BY <2>1, <1>0 DEF Fresh
  <2>3. /\ UNCHANGED <<sessions, lease, files>> /\ (link' = link \/ link' = Configured)
        /\ gone' = gone \cup {s.key : s \in lease \ sessions} \/ gone' = gone
    BY <1>5, Zenon DEF SetUpDevice, Passed, Fails
  <2>4. gone' = gone BY <2>2, <2>3
  <2>5. \A h \in Hosts : link'.route[h] = Nobody \/ link'.route[h] = link.route[h]
    BY <2>3, LinksTyped, CreatedKnows
  <2>. QED BY <2>1, <2>3, <2>4, <2>5, <1>4
<1>6. CASE WriteFile \/ Unfile
  <2>1. job # <<>> BY <1>6 DEF WriteFile, Unfile, Ready
  <2>2. /\ UNCHANGED <<sessions, lease, gone, link>>
        /\ files' = files \cup lease \/ files' = files \ lease \/ files' = files
    BY <1>6, Zenon DEF WriteFile, Unfile, history
  <2>3. \A f \in files \ files' : f.key \notin gone' BY <2>1, <2>2, <1>00
  <2>. QED BY <2>1, <2>2, <2>3, <1>4
<1>7. CASE ApplyPeer
  <2>1. /\ job = <<"apply">> /\ job # <<>> /\ Tail(job) = <<>>
    BY <1>7, JobsOf DEF ApplyPeer
  <2>2. lease \subseteq sessions BY <2>1, <1>0 DEF Arriving
  <2>3. PICK s \in lease :
          \/ Passed([Created EXCEPT !.route = AddPeer(Created.route, s)])
          \/ Fails(IF os = "windows" THEN Rebuild ELSE Tail(job))
    BY <1>7 DEF ApplyPeer
  <2>4. UNCHANGED <<sessions, lease, files>> BY <1>7 DEF ApplyPeer
  <2>5. CASE Fails(IF os = "windows" THEN Rebuild ELSE Tail(job))
    <3>1. UNCHANGED <<link, gone>> BY <2>5 DEF Fails
    <3>. QED BY <3>1, <2>1, <2>4, <1>4
  <2>6. CASE Passed([Created EXCEPT !.route = AddPeer(Created.route, s)])
    <3> DEFINE new == AddPeer(Created.route, s)
    <3>1. new \in Route
      <4>1. Created.route \in Route BY LinksTyped DEF Link
      <4>. QED BY <4>1, <1>02, RoutesTyped
    <3>2. /\ link' = [Created EXCEPT !.route = new] /\ job' = <<>>
          /\ gone' = gone \cup {t.key : t \in lease \ sessions}
      BY <2>6, <2>1, Zenon DEF Passed
    <3>3. link'.route = new BY <3>1, <3>2, LinksTyped
    <3>4. gone' = gone
      <4>1. lease \ sessions = {} BY <2>2
      <4>. QED BY <4>1, <3>2
    <3>5. \A h \in Hosts : new[h] \in {s.key, Nobody, Created.route[h]}
      BY DEF AddPeer
    <3> HIDE DEF new
    <3>6. ASSUME NEW c \in gone', \A f \in files' : os = "windows" => f.key # c
          PROVE  \A h \in Hosts : link'.route[h] # c
      <4>1. c # Nobody /\ c # s.key BY <3>4, <2>1, <1>00, <1>01
      <4>2. \A h \in Hosts : link.route[h] # c BY <3>4, <3>6, <2>4, <1>00 DEF DepartedStayOut
      <4>3. \A h \in Hosts : Created.route[h] # c BY <4>1, <4>2, CreatedKnows
      <4>. QED BY <4>1, <4>3, <3>3, <3>5
    <3>7. DepartedStayOut' BY <3>6, <1>01 DEF DepartedStayOut
    <3>. QED BY <3>2, <3>4, <3>7, <2>4, <1>00 DEF GoneInv, KnownNotGone
  <2>. QED BY <2>3, <2>5, <2>6
<1>8. CASE RemovePeer
  <2>1. /\ job = <<"unapply">> /\ job # <<>> /\ Tail(job) = <<>>
    BY <1>8, JobsOf DEF RemovePeer
  <2>2. \A u \in lease, t \in sessions : u.key # t.key BY <2>1, <1>0 DEF Leaving
  <2>3. PICK s \in lease :
          \/ Passed([Created EXCEPT !.route = DropPeer(Created.route, s.key)])
          \/ Fails(IF os = "windows" THEN Rebuild ELSE Tail(job))
    BY <1>8 DEF RemovePeer
  <2>4. UNCHANGED <<sessions, lease, files>> BY <1>8 DEF RemovePeer
  <2>5. CASE Fails(IF os = "windows" THEN Rebuild ELSE Tail(job))
    <3>1. UNCHANGED <<link, gone>> BY <2>5 DEF Fails
    <3>. QED BY <3>1, <2>1, <2>4, <1>4
  <2>6. CASE Passed([Created EXCEPT !.route = DropPeer(Created.route, s.key)])
    <3> DEFINE new == DropPeer(Created.route, s.key)
    <3>1. new \in Route
      <4>1. Created.route \in Route BY LinksTyped DEF Link
      <4>. QED BY <4>1, RoutesTyped
    <3>2. /\ link' = [Created EXCEPT !.route = new] /\ job' = <<>>
          /\ gone' = gone \cup {t.key : t \in lease \ sessions}
      BY <2>6, <2>1, Zenon DEF Passed
    <3>3. link'.route = new BY <3>1, <3>2, LinksTyped
    <3>4. \A c \in gone' : c \in gone \/ c = s.key
      BY <3>2, <1>0
    <3>5. \A h \in Hosts : new[h] = IF Created.route[h] = s.key THEN Nobody
                                    ELSE Created.route[h]
      BY DEF DropPeer
    <3> HIDE DEF new
    <3>6. ASSUME NEW c \in gone', \A f \in files' : os = "windows" => f.key # c
          PROVE  \A h \in Hosts : link'.route[h] # c
      <4>1. c # Nobody BY <3>4, <1>01, <1>02
      <4>2. CASE c = s.key BY <4>1, <4>2, <3>3, <3>5
      <4>3. CASE c \in gone
        <5>1. \A h \in Hosts : link.route[h] # c BY <4>3, <3>6, <2>4, <1>00 DEF DepartedStayOut
        <5>2. \A h \in Hosts : Created.route[h] # c BY <4>1, <5>1, CreatedKnows
        <5>. QED BY <4>1, <5>2, <3>3, <3>5
      <4>. QED BY <4>2, <4>3, <3>4
    <3>7. DepartedStayOut' BY <3>6, <1>01 DEF DepartedStayOut
    <3>8. \A t \in sessions' : t.key \notin gone' BY <3>4, <2>2, <2>4, <1>00
    <3>. QED BY <3>2, <3>7, <3>8 DEF GoneInv, KnownNotGone
  <2>. QED BY <2>3, <2>5, <2>6
<1>9. CASE Uninstall
  <2>1. job # <<>> BY <1>9 DEF Uninstall, Ready
  <2>2. /\ UNCHANGED <<sessions, lease, gone, files>> /\ (link' = link \/ link' = NoLink)
    BY <1>9, Zenon DEF Uninstall, history
  <2>3. \A h \in Hosts : link'.route[h] = Nobody \/ link'.route[h] = link.route[h]
    BY <2>2, LinksTyped
  <2>. QED BY <2>1, <2>2, <2>3, <1>4
<1>10. CASE Install
  <2>1. /\ job # <<>> /\ job = <<"install">> /\ Tail(job) = <<>> /\ os = "windows"
    BY <1>10, JobsOf DEF Install
  <2>2. UNCHANGED <<sessions, lease, files>> BY <1>10 DEF Install
  <2>3. CASE UNCHANGED <<link, gone>> BY <2>1, <2>2, <2>3, <1>4
  <2>4. ASSUME NEW route \in Profiles,
               Passed([there |-> TRUE, set |-> TRUE, route |-> route])
        PROVE  GoneInv'
    <3>1. /\ link' = [there |-> TRUE, set |-> TRUE, route |-> route] /\ job' = <<>>
          /\ gone' = gone \cup {t.key : t \in lease \ sessions}
      BY <2>4, <2>1, Zenon DEF Passed
    <3>2. link'.route = route BY <3>1
    <3>3. gone' \subseteq Clients BY <3>1, <1>01, <1>02
    <3>4. DepartedStayOut' BY <3>2, <3>3, <2>1, <2>2, <1>01, ProfilesTyped DEF DepartedStayOut
    <3>5. \A t \in sessions, u \in lease \ sessions : t.key # u.key
      BY <2>1, <1>0 DEF Arriving, Leaving
    <3>6. \A t \in sessions' : t.key \notin gone' BY <3>1, <3>5, <2>2, <1>00
    <3>. QED BY <3>1, <3>4, <3>6 DEF GoneInv, KnownNotGone
  <2>. QED BY <1>10, <2>3, <2>4, Zenon DEF Install, Fails
<1>. QED
  BY <1>1, <1>2, <1>3, <1>5, <1>6, <1>7, <1>8, <1>9, <1>10, Zenon DEF DaemonStep

LEMMA WorldGone ==
    ASSUME TypeOK, SessionInv, GoneInv, WorldFrame
    PROVE  GoneInv'
<1>0. /\ \A s \in sessions : s.key \notin gone
      /\ job # <<>> => \A s \in lease : s.key \notin gone
      /\ DepartedStayOut
  BY Zenon DEF GoneInv, KnownNotGone
<1>1. UNCHANGED <<os, files, gone>> BY Zenon DEF WorldFrame
<1>2. \A h \in Hosts : link'.route[h] = Nobody \/ link'.route[h] = link.route[h]
  <2>1. link' = link \/ link' = Configured \/ link' = NoLink
    BY Zenon DEF WorldFrame, LinkAfter
  <2>. QED BY <2>1, LinksTyped, CreatedKnows
<1>3. DepartedStayOut' BY <1>0, <1>1, <1>2, OutStaysOut
<1>4. \/ UNCHANGED <<sessions, job, lease>>
      \/ sessions' = {} /\ lease' = {}
  BY DEF WorldFrame, DaemonAfter, Ended, SessionInv, DownIsEmpty, Fresh
<1>5. KnownNotGone' BY <1>0, <1>1, <1>4 DEF KnownNotGone
<1>. QED BY <1>3, <1>5 DEF GoneInv

(***************************************************************************)
(* A client whose peer was removed has no address at the interface, not    *)
(* even when it is built again, unless a file still names it.              *)
(***************************************************************************)
THEOREM DepartedAreOut == Spec => []DepartedStayOut
<1> DEFINE Inv == TypeOK /\ SessionInv /\ GoneInv
<1>1. Init => Inv
  <2> SUFFICES ASSUME Init PROVE SessionInv /\ GoneInv
    BY InitTyped
  <2>. QED
    BY JobsDiffer DEF Init, SessionInv, DownIsEmpty, Fresh, Exclusive, GrantsLive, InHand,
                      GoneInv, KnownNotGone, DepartedStayOut
<1>2. Inv /\ [Next]_vars => Inv'
  <2> SUFFICES ASSUME TypeOK, SessionInv, GoneInv, [Next]_vars
               PROVE  TypeOK' /\ SessionInv' /\ GoneInv'
    OBVIOUS
  <2>1. CASE Next
    <3>1. TypeOK' BY <2>1, StepKinds, DaemonTypes, LifeFrame, ProgramFrame
    <3>2. SessionInv' BY SessionsKept
    <3>3. GoneInv' BY <2>1, StepKinds, DaemonGone, LifeFrame, ProgramFrame, WorldGone
    <3>. QED BY <3>1, <3>2, <3>3
  <2>2. CASE UNCHANGED vars
    <3>1. TypeOK'
      BY <2>2 DEF vars, process, host, counts, history, TypeOK, Running
    <3>2. SessionInv' BY SessionsKept
    <3>3. GoneInv'
      BY <2>2 DEF vars, process, host, counts, history, GoneInv, KnownNotGone, DepartedStayOut
    <3>. QED BY <3>1, <3>2, <3>3
  <2>. QED BY <2>1, <2>2
<1>3. Inv => DepartedStayOut BY DEF GoneInv
<1>. QED BY <1>1, <1>2, <1>3, PTL DEF Spec

-----------------------------------------------------------------------------
(***************************************************************************)
(* What was stopped is down.                                               *)
(***************************************************************************)

\* What the steps of a removal or a stop leave, done or failed.
Effect(step, ok) ==
    /\ os' = os
    /\ step \in {"deleteTable", "deleteRules", "deleteNetNat"} =>
           UNCHANGED <<daemon, link>> /\ Closing(step, ok)
    /\ step \in {"deleteLink", "uninstall"} =>
           UNCHANGED <<daemon, opened>> /\ (ok => ~ link'.there)
    /\ step = "kill" => (ok => daemon' = Nobody)
    /\ step = "forget" => UNCHANGED <<daemon, link, opened>>

LEMMA StopIs ==
    ASSUME TypeOK, os = "windows", op.name = "stop"
    PROVE  /\ op \in [name : {"apply", "remove", "start", "stop"}, steps : Rests(os, op.name),
                      ok : BOOLEAN]
           /\ \/ /\ Head(op.steps) = "kill" /\ Tail(op.steps) # <<>>
                 /\ Head(Tail(op.steps)) = "deleteRules"
              \/ /\ Head(op.steps) = "deleteRules" /\ Tail(op.steps) # <<>>
                 /\ Head(Tail(op.steps)) = "uninstall"
              \/ /\ Head(op.steps) = "uninstall" /\ Tail(op.steps) # <<>>
                 /\ Head(Tail(op.steps)) = "deleteNetNat"
              \/ /\ Head(op.steps) = "deleteNetNat" /\ Tail(op.steps) # <<>>
                 /\ Head(Tail(op.steps)) = "forget"
              \/ Head(op.steps) = "forget" /\ Tail(op.steps) = <<>>
<1>1. op # NoOp BY DEF NoOp
<1>2. op \in [name : {"apply", "remove", "start", "stop"}, steps : Rests(os, op.name), ok : BOOLEAN]
  BY <1>1 DEF TypeOK, Running
<1>3. op.steps \in {<<"kill", "deleteRules", "uninstall", "deleteNetNat", "forget">>,
                    <<"deleteRules", "uninstall", "deleteNetNat", "forget">>,
                    <<"uninstall", "deleteNetNat", "forget">>,
                    <<"deleteNetNat", "forget">>, <<"forget">>}
  BY <1>2 DEF Rests
<1>4. CASE op.steps = <<"kill", "deleteRules", "uninstall", "deleteNetNat", "forget">>
  <2>1. /\ Head(op.steps) = "kill" /\ Tail(op.steps) # <<>>
        /\ Head(Tail(op.steps)) = "deleteRules"
    BY <1>4
  <2>. QED BY <1>2, <2>1
<1>5. CASE op.steps = <<"deleteRules", "uninstall", "deleteNetNat", "forget">>
  <2>1. /\ Head(op.steps) = "deleteRules" /\ Tail(op.steps) # <<>>
        /\ Head(Tail(op.steps)) = "uninstall"
    BY <1>5
  <2>. QED BY <1>2, <2>1
<1>6. CASE op.steps = <<"uninstall", "deleteNetNat", "forget">>
  <2>1. /\ Head(op.steps) = "uninstall" /\ Tail(op.steps) # <<>>
        /\ Head(Tail(op.steps)) = "deleteNetNat"
    BY <1>6
  <2>. QED BY <1>2, <2>1
<1>7. CASE op.steps = <<"deleteNetNat", "forget">>
  <2>1. /\ Head(op.steps) = "deleteNetNat" /\ Tail(op.steps) # <<>>
        /\ Head(Tail(op.steps)) = "forget"
    BY <1>7
  <2>. QED BY <1>2, <2>1
<1>8. CASE op.steps = <<"forget">>
  <2>1. Head(op.steps) = "forget" /\ Tail(op.steps) = <<>> BY <1>8
  <2>. QED BY <1>2, <2>1
<1>. QED BY <1>3, <1>4, <1>5, <1>6, <1>7, <1>8, Zenon

LEMMA ProgramWent ==
    ASSUME TypeOK, ProgramStep
    PROVE  \/ op' = NoOp /\ op # NoOp /\ stopped' = stopped
           \/ \E name \in {"apply", "remove", "start", "stop"} : Begin(name)
           \/ \E step : \E ok \in BOOLEAN : Does(step) /\ Went(ok) /\ Effect(step, ok)
<1> DEFINE Goal == \E step : \E ok \in BOOLEAN : Does(step) /\ Went(ok) /\ Effect(step, ok)
<1>0. TRUE \in BOOLEAN /\ FALSE \in BOOLEAN /\ (daemon' = Nobody) \in BOOLEAN OBVIOUS
<1>1. ASSUME NEW step \in {"restart", "disable", "systemctlStart", "systemctlStop", "spawn",
                           "savePid", "tunnel"},
             NEW ok \in BOOLEAN, Does(step), Went(ok), os' = os
      PROVE  Goal
  <2>1. Effect(step, ok) BY <1>1 DEF Effect
  <2>. QED BY <1>1, <2>1, Zenon
<1>2. CASE OpenOrClose
  <2>1. PICK step : \E ok \in BOOLEAN :
                 Does(step) /\ Went(ok) /\ opened' \subseteq Openings(os) /\ Closing(step, ok)
                 /\ step \notin {"kill", "uninstall", "forget", "disable", "deleteLink"}
    BY <1>2, OpensAndCloses
  <2>2. PICK ok \in BOOLEAN :
                 Does(step) /\ Went(ok) /\ Closing(step, ok)
                 /\ step \notin {"kill", "uninstall", "forget", "disable", "deleteLink"}
    BY <2>1
  <2>3. UNCHANGED <<os, daemon, link>> BY <1>2, OpensAndCloses
  <2>4. Effect(step, ok) BY <2>2, <2>3 DEF Effect
  <2>. QED BY <2>2, <2>4, Zenon
<1>3. CASE Tunnel
  <2>1. Does("tunnel") /\ (Went(TRUE) \/ Went(FALSE)) /\ os' = os
    BY <1>3, Zenon DEF Tunnel
  <2>. QED BY <2>1, <1>0, <1>1
<1>4. CASE TakeLink
  <2>1. UNCHANGED <<os, daemon, opened>> BY <1>4, Zenon DEF TakeLink, process
  <2>2. PICK step \in {"deleteLink", "uninstall"} : Does(step)
    BY <1>4, Zenon DEF TakeLink
  <2>3. (link' = NoLink /\ Went(TRUE)) \/ Went(FALSE)
    BY <1>4, Zenon DEF TakeLink
  <2>4. CASE link' = NoLink /\ Went(TRUE)
    <3>1. Effect(step, TRUE) BY <2>1, <2>2, <2>4, LinksTyped DEF Effect
    <3>. QED BY <2>2, <2>4, <3>1, <1>0, Zenon
  <2>5. CASE Went(FALSE)
    <3>1. Effect(step, FALSE) BY <2>1, <2>2 DEF Effect
    <3>. QED BY <2>2, <2>5, <3>1, <1>0, Zenon
  <2>. QED BY <2>3, <2>4, <2>5
<1>5. CASE Restart \/ Disable \/ StartUnit \/ StopUnit
  <2>1. PICK step \in {"restart", "disable", "systemctlStart", "systemctlStop"} :
            Does(step) /\ Went(TRUE) /\ os' = os
    BY <1>5, Zenon DEF Restart, Disable, StartUnit, StopUnit, Systemctl
  <2>. QED BY <2>1, <1>0, <1>1
<1>6. CASE Spawn \/ SavePid
  <2>1. PICK step \in {"spawn", "savePid"} : Does(step) /\ Went(TRUE) /\ os' = os
    BY <1>6, Zenon DEF Spawn, SavePid
  <2>. QED BY <2>1, <1>0, <1>1
<1>7. CASE Kill
  <2>1. Does("kill") /\ Went(daemon' = Nobody) /\ os' = os BY <1>7, Zenon DEF Kill
  <2>2. Effect("kill", daemon' = Nobody) BY <2>1 DEF Effect
  <2>. QED BY <2>1, <2>2, <1>0, Zenon
<1>8. CASE ForgetPid
  <2>1. Does("forget") /\ Went(TRUE) /\ UNCHANGED <<os, daemon, link, opened>>
    BY <1>8, Zenon DEF ForgetPid, Same
  <2>2. Effect("forget", TRUE) BY <2>1 DEF Effect
  <2>. QED BY <2>1, <2>2, <1>0, Zenon
<1>9. CASE ProgramDies
  BY <1>9, Zenon DEF ProgramDies, history
<1> HIDE DEF Goal
<1>10. (\E name \in {"apply", "remove", "start", "stop"} : Begin(name)) \/ OpenOrClose \/ Tunnel
       \/ TakeLink \/ (Restart \/ Disable \/ StartUnit \/ StopUnit) \/ Kill \/ ForgetPid
       \/ (Spawn \/ SavePid) \/ ProgramDies
  BY Zenon DEF ProgramStep
<1>. QED BY <1>2, <1>3, <1>4, <1>5, <1>6, <1>7, <1>8, <1>9, <1>10, Zenon

LEMMA DownAfterWent ==
    ASSUME TypeOK, TypeOK', ServiceStopped, DownInv,
           NEW step, NEW ok \in BOOLEAN, Does(step), Went(ok), Effect(step, ok)
    PROVE  DownInv'
<1>0. /\ os' = os /\ os \in {"linux", "windows"}
      /\ opened \subseteq Openings(os) /\ opened' \subseteq Openings(os)
  BY DEF Effect, TypeOK
<1>1. step = Head(op.steps) BY DEF Does
<1>2. \/ op' = NoOp /\ Tail(op.steps) = <<>>
      \/ /\ op' = [name |-> op.name, steps |-> Tail(op.steps), ok |-> op.ok /\ ok]
         /\ Tail(op.steps) # <<>> /\ ~ stopped'
  BY <1>0, WentOn
<1>3. stopped' => /\ op' = NoOp /\ Tail(op.steps) = <<>> /\ op.ok /\ ok
                  /\ op.name = (IF os = "linux" THEN "remove" ELSE "stop")
                  /\ daemon' # "hand"
  BY <1>0, WentOn
<1>4. NoOp.name = "none" BY DEF NoOp
<1>5. op' = NoOp \/ /\ op'.name = op.name /\ op'.steps = Tail(op.steps)
                    /\ op'.ok = (op.ok /\ ok) /\ Tail(op.steps) # <<>>
  <2>1. ASSUME op' = [name |-> op.name, steps |-> Tail(op.steps), ok |-> op.ok /\ ok]
        PROVE  op'.name = op.name /\ op'.steps = Tail(op.steps) /\ op'.ok = (op.ok /\ ok)
    BY ONLY <2>1
  <2>. QED BY <1>2, <2>1, Zenon
<1>6. RemovalProgress'
  <2> SUFFICES ASSUME os = "linux", op'.name = "remove", op'.ok, op'.steps = <<"deleteLink">>
               PROVE  "table" \notin opened'
    BY <1>0 DEF RemovalProgress
  <2>1. op.name = "remove" /\ Tail(op.steps) = <<"deleteLink">> /\ op.ok /\ ok
    BY <1>4, <1>5
  <2>2. step = "deleteTable"
    <3>1. <<"deleteTable", "deleteLink">> # <<"deleteLink">> /\ <<>> # <<"deleteLink">> OBVIOUS
    <3>. QED BY <2>1, <3>1, <1>1, RemovalIs
  <2>. QED BY <2>1, <2>2 DEF Effect, Closing
<1>7. StopProgress'
  <2> SUFFICES ASSUME os = "windows", op'.name = "stop", op'.ok
               PROVE  /\ Head(op'.steps) # "kill" => daemon' = Nobody
                      /\ Head(op'.steps) \notin {"kill", "deleteRules"} => "rules" \notin opened'
                      /\ Head(op'.steps) \in {"deleteNetNat", "forget"} => ~ link'.there
                      /\ Head(op'.steps) = "forget" => "netNat" \notin opened'
    BY <1>0 DEF StopProgress
  <2>1. op.name = "stop" /\ op.ok /\ ok /\ op'.steps = Tail(op.steps) /\ Tail(op.steps) # <<>>
    BY <1>4, <1>5
  <2>2. /\ Head(op.steps) # "kill" => daemon = Nobody
        /\ Head(op.steps) \notin {"kill", "deleteRules"} => "rules" \notin opened
        /\ Head(op.steps) \in {"deleteNetNat", "forget"} => ~ link.there
        /\ Head(op.steps) = "forget" => "netNat" \notin opened
    BY <2>1, Zenon DEF DownInv, StopProgress
  <2>3. CASE step = "kill" /\ Head(op'.steps) = "deleteRules"
    BY <2>1, <2>3 DEF Effect
  <2>4. CASE step = "deleteRules" /\ Head(op'.steps) = "uninstall"
    BY <2>1, <2>2, <2>4, <1>1 DEF Effect, Closing
  <2>5. CASE step = "uninstall" /\ Head(op'.steps) = "deleteNetNat"
    BY <2>1, <2>2, <2>5, <1>1 DEF Effect
  <2>6. CASE step = "deleteNetNat" /\ Head(op'.steps) = "forget"
    <3>1. daemon = Nobody /\ "rules" \notin opened /\ ~ link.there
      BY <2>2, <2>6, <1>1
    <3>2. UNCHANGED <<daemon, link>> /\ opened' \subseteq opened /\ "netNat" \notin opened'
      BY <2>1, <2>6 DEF Effect, Closing
    <3>. QED BY <3>1, <3>2
  <2>. QED BY <2>1, <2>3, <2>4, <2>5, <2>6, <1>1, StopIs, Zenon
<1>8. Down'
  <2> SUFFICES ASSUME stopped'
               PROVE  /\ op' = NoOp /\ daemon' = Nobody /\ ~ link'.there
                      /\ opened' \cap {"table", "rules", "netNat"} = {}
    BY DEF Down
  <2>1. CASE os = "linux"
    <3>1. op.name = "remove" /\ op.ok /\ ok /\ Tail(op.steps) = <<>> BY <1>3, <2>1
    <3>2. step = "deleteLink" /\ op.steps = <<"deleteLink">>
      <4>1. <<"deleteTable", "deleteLink">> # <<>> /\ <<"deleteLink">> # <<>> OBVIOUS
      <4>. QED BY <3>1, <4>1, <2>1, <1>1, RemovalIs
    <3>3. UNCHANGED <<daemon, opened>> /\ ~ link'.there BY <3>1, <3>2 DEF Effect
    <3>4. "table" \notin opened BY <3>1, <3>2, <2>1 DEF DownInv, RemovalProgress
    <3>5. "rules" \notin opened /\ "netNat" \notin opened BY <2>1, <1>0 DEF Openings
    <3>6. daemon' = Nobody
      <4>1. <<"deleteLink">> # <<"disable", "deleteTable", "deleteLink">> OBVIOUS
      <4>2. daemon # "unit" BY <4>1, <3>1, <3>2, <2>1 DEF ServiceStopped
      <4>3. daemon \in {Nobody, "hand", "unit"} BY <2>1 DEF TypeOK
      <4>4. daemon' # "hand" BY <1>3
      <4>. QED BY <4>2, <4>3, <4>4, <3>3
    <3>. QED BY <3>3, <3>4, <3>5, <3>6, <1>3
  <2>2. CASE os = "windows"
    <3>1. op.name = "stop" /\ op.ok /\ Tail(op.steps) = <<>> BY <1>3, <2>2
    <3>2. step = "forget" BY <3>1, <2>2, <1>1, StopIs
    <3>3. UNCHANGED <<daemon, link, opened>> BY <3>2 DEF Effect
    <3>4. daemon = Nobody /\ "rules" \notin opened /\ ~ link.there /\ "netNat" \notin opened
      BY <3>1, <3>2, <2>2, <1>1 DEF DownInv, StopProgress
    <3>5. "table" \notin opened BY <2>2, <1>0 DEF Openings
    <3>. QED BY <3>3, <3>4, <3>5, <1>3
  <2>. QED BY <2>1, <2>2, <1>0
<1>. QED BY <1>6, <1>7, <1>8 DEF DownInv

LEMMA DownKept ==
    ASSUME TypeOK, TypeOK', ServiceStopped, DownInv, [Next]_vars
    PROVE  DownInv'
<1>0. NoOp.name = "none" BY DEF NoOp
<1>1. CASE UNCHANGED vars
  BY <1>1 DEF vars, process, host, counts, history, DownInv, RemovalProgress, StopProgress, Down
<1>2. CASE DaemonStep
  <2>1. UNCHANGED <<os, daemon, opened, op, stopped>> /\ daemon # Nobody
    BY <1>2, DaemonKeeps
  <2>2. /\ ~ stopped
        /\ os = "windows" /\ op.name = "stop" /\ op.ok => Head(op.steps) = "kill"
    BY <2>1 DEF DownInv, Down, StopProgress
  <2>3. RemovalProgress' BY <2>1 DEF DownInv, RemovalProgress
  <2>4. StopProgress' BY <2>1, <2>2 DEF StopProgress
  <2>5. Down' BY <2>1, <2>2 DEF Down
  <2>. QED BY <2>3, <2>4, <2>5 DEF DownInv
<1>3. ASSUME op' = NoOp, ~ stopped' PROVE DownInv'
  BY <1>0, <1>3 DEF DownInv, RemovalProgress, StopProgress, Down
<1>4. CASE StartDaemon
  <2>1. op' = [op EXCEPT !.ok = (op = NoOp)] /\ ~ stopped'
    BY <1>4, Zenon DEF StartDaemon
  <2>2. CASE op = NoOp
    <3>1. ASSUME NEW n, NEW s, NEW k, NEW b
          PROVE  [[name |-> n, steps |-> s, ok |-> k] EXCEPT !.ok = b].name = n
      OBVIOUS
    <3>2. op = [name |-> "none", steps |-> <<>>, ok |-> TRUE] BY <2>2 DEF NoOp
    <3>3. op'.name = "none" BY <2>1, <3>1, <3>2, Zenon
    <3>. QED BY <2>1, <3>3 DEF DownInv, RemovalProgress, StopProgress, Down
  <2>3. CASE op # NoOp
    <3>1. op \in [name : {"apply", "remove", "start", "stop"}, steps : Rests(os, op.name),
                  ok : BOOLEAN]
      BY <2>3 DEF TypeOK, Running
    <3>2. (op = NoOp) = FALSE BY <2>3
    <3>3. op' = [op EXCEPT !.ok = FALSE] BY <2>1, <3>2, Zenon
    <3>4. ~ op'.ok BY <3>1, <3>3
    <3>. QED BY <2>1, <3>4 DEF DownInv, RemovalProgress, StopProgress, Down
  <2>. QED BY <2>2, <2>3
<1>5. CASE DaemonDies
  <2>1. UNCHANGED <<os, link, opened, op, stopped>> /\ daemon' = Nobody
    BY <1>5, Zenon DEF DaemonDies, Ended
  <2>. QED BY <2>1 DEF DownInv, RemovalProgress, StopProgress, Down
<1>6. CASE Reboot
  <2>1. op' = NoOp /\ ~ stopped' BY <1>6, Zenon DEF Reboot
  <2>. QED BY <2>1, <1>3
<1>7. ASSUME NEW name \in {"apply", "remove", "start", "stop"}, Begin(name)
      PROVE  DownInv'
  <2>1. /\ op' = [name |-> name, steps |-> Steps(os, name), ok |-> TRUE] /\ os' = os
        /\ ~ stopped'
    BY <1>7, Zenon DEF Begin
  <2>2. op'.name = name /\ op'.steps = Steps(os, name) BY <2>1
  <2>3. os = "linux" /\ name = "remove" =>
            Steps(os, name) = <<"disable", "deleteTable", "deleteLink">>
    BY DEF Steps
  <2>4. os = "windows" /\ name = "stop" => Head(Steps(os, name)) = "kill"
    <3>1. os = "windows" /\ name = "stop" =>
              Steps(os, name) = <<"kill", "deleteRules", "uninstall", "deleteNetNat", "forget">>
      BY DEF Steps, Taking
    <3>. QED BY <3>1
  <2>5. <<"disable", "deleteTable", "deleteLink">> # <<"deleteLink">> OBVIOUS
  <2>6. RemovalProgress' BY <2>1, <2>2, <2>3, <2>5 DEF RemovalProgress
  <2>7. StopProgress' BY <2>1, <2>2, <2>4 DEF StopProgress
  <2>8. Down' BY <2>1 DEF Down
  <2>. QED BY <2>6, <2>7, <2>8 DEF DownInv
<1>8. CASE op' = NoOp /\ op # NoOp /\ stopped' = stopped
  <2>1. ~ stopped' BY <1>8 DEF DownInv, Down
  <2>. QED BY <2>1, <1>8, <1>3
<1>9. CASE ProgramStep BY <1>7, <1>8, <1>9, ProgramWent, DownAfterWent
<1>. QED BY <1>1, <1>2, <1>4, <1>5, <1>6, <1>9, StepKinds DEF LifeStep

(***************************************************************************)
(* After a removal, or a "stop" of the window, of which every step did     *)
(* what it was for, the daemon, the interface and the open ports are gone, *)
(* until something is begun again.                                         *)
(***************************************************************************)
THEOREM StoppedIsReallyDown == Spec => []StoppedIsDown
<1> DEFINE Inv == TypeOK /\ ServiceStopped /\ DownInv
<1>1. Init => Inv
  <2> SUFFICES ASSUME Init PROVE ServiceStopped /\ DownInv
    BY InitTyped
  <2>1. op.name = "none" /\ ~ stopped BY DEF Init, NoOp
  <2>. QED BY <2>1 DEF ServiceStopped, DownInv, RemovalProgress, StopProgress, Down
<1>2. Inv /\ [Next]_vars => Inv'
  <2> SUFFICES ASSUME TypeOK, ServiceStopped, DownInv, [Next]_vars
               PROVE  TypeOK' /\ ServiceStopped' /\ DownInv'
    OBVIOUS
  <2>1. TypeOK'
    <3>1. CASE Next BY <3>1, StepKinds, DaemonTypes, LifeFrame, ProgramFrame
    <3>2. CASE UNCHANGED vars
      BY <3>2 DEF vars, process, host, counts, history, TypeOK, Running
    <3>. QED BY <3>1, <3>2
  <2>. QED BY <2>1, ServiceStaysStopped, DownKept
<1>3. Inv => StoppedIsDown
  <2>1. Nobody \notin {"window", "unit"} BY DEF Nobody
  <2>. QED BY <2>1 DEF DownInv, Down, StoppedIsDown
<1>. QED BY <1>1, <1>2, <1>3, PTL DEF Spec

=============================================================================
