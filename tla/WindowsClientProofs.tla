------------------------- MODULE WindowsClientProofs -------------------------
(***************************************************************************)
(* Theorems about WindowsClient, for any number of servers, workers and    *)
(* lives of the client: a Disconnect leaves nothing of what this client    *)
(* began, and the system's traffic is never led into a SOCKS server that a *)
(* handler has ended.                                                      *)
(***************************************************************************)
EXTENDS WindowsClient, SequenceTheorems, TLAPS

-----------------------------------------------------------------------------
(***************************************************************************)
(* The lists of steps.                                                     *)
(***************************************************************************)

\* What the handlers of each kind of connection are made of.
TorStart == {"torKill", "torSpawn"}

TorRoute == {"tunCancel", "tunSpawn", "tunWait", "routeOn", "routeOff"}

OutlineSteps == TorRoute \cup {"ssTake", "ssTell", "ssSpawn", "ssPort", "ssBypass", "ssStore",
                               "connected", "failed"}

WgSteps == {"wgTake", "wgClear", "wgParse", "wgOpen", "wgRoutes", "wgPump", "wgSettle",
            "connected", "failed"}

ServerSteps == WgSteps \cup {"svcUninstall", "svcInstall"}

PptpSteps == {"rasHangUp", "rasDial", "connected", "failed"}

EndSteps == {"tunCancel", "torKill", "wgTake", "wgClear", "rasHangUp", "ssTake", "ssTell",
             "svcUninstall", "done", "exit"}

OfEndpoint == {"wgClear", "wgOpen", "wgRoutes", "wgPump"}

Names == TorStart \cup OutlineSteps \cup ServerSteps \cup PptpSteps \cup EndSteps

StepRec == [step : Names \ OfEndpoint, of : Nat] \cup [step : OfEndpoint, of : Endpoints]

Has(list, A) == \E i \in 1 .. Len(list) : list[i].step \in A

Only(list, A) == \A i \in 1 .. Len(list) : list[i].step \in A

\* No step of Y but after one of X.
Guards(list, Y, X) ==
    \A i \in 1 .. Len(list) : list[i].step \in Y => \E j \in 1 .. i - 1 : list[j].step \in X

\* No step of B after one of A.
NoneAfter(list, A, B) ==
    \A i, j \in 1 .. Len(list) : i < j /\ list[i].step \in A => list[j].step \notin B

\* Whatever is done with Tor or with a server of Outline once its tunnel is up:
\* it would end that server, or lose that tunnel.
Risky == {"ssTell", "torKill", "ssSpawn", "ssPort", "ssBypass", "tunSpawn"}

TunOff == {"tunCancel", "ssTake"}

Ordered(list) ==
    /\ NoneAfter(list, {"tunSpawn"}, Risky)
    /\ NoneAfter(list, {"ssSpawn"}, {"ssSpawn", "ssTell", "ssTake"})
    /\ NoneAfter(list, {"ssStore"}, {"ssSpawn", "tunSpawn"})
    /\ NoneAfter(list, {"torSpawn"}, Names) /\ NoneAfter(list, {"wgSettle"}, Names)
    /\ Has(list, {"ssSpawn"}) => Has(list, {"ssStore"})
    /\ \A i, j \in 1 .. Len(list) :
          {list[i].step, list[j].step} \subseteq {"tunSpawn", "ssStore"} => list[i].of = list[j].of
    /\ \A i \in 1 .. Len(list) :
          list[i].step = "wgRoutes" => i < Len(list) /\ list[i + 1] = At("wgPump", list[i].of)

\* The lists of a connection of this kind, and the rest of one.
ListOf(kind, list) ==
    \/ Only(list, EndSteps) /\ (kind # "none" /\ list # <<>> => Has(list, {"exit"}))
    \/ kind = "tor" /\ Only(list, TorStart) /\ Has(list, {"torSpawn"})
    \/ kind = "tor" /\ Only(list, TorRoute)
    \/ kind = "wg" /\ Only(list, WgSteps)
    \/ kind = "outline" /\ Only(list, OutlineSteps)
    \/ kind = "server" /\ Only(list, ServerSteps)
    \/ kind = "pptp" /\ Only(list, PptpSteps)

-----------------------------------------------------------------------------
(***************************************************************************)
(* The invariant.                                                          *)
(***************************************************************************)
Connection == [kind : {"none", "tor", "wg", "outline", "server", "pptp"},
               phase : {"none", "Connecting", "Connected", "Error"}]

WorkersUpTo(n) == [kind : Kinds, id : 1 .. n, of : Nat \cup Endpoints]

Alone(X) == \A x, y \in X : x = y

Known == live \cup slot["tun"] \cup slot["pump"]

OwnTypes ==
    /\ bundled \in BOOLEAN /\ client \in {"up", "down"} /\ lives \in Nat
    /\ elevated \in BOOLEAN /\ apps \in BOOLEAN /\ route \in BOOLEAN
    /\ active \in Connection /\ job \in Seq(StepRec)
    /\ pins \subseteq Endpoints /\ astray \subseteq Endpoints \cup {"tor", "dialed", "service"}
    /\ dialed \in BOOLEAN /\ service \in BOOLEAN /\ mixed \in BOOLEAN /\ clean \in BOOLEAN

WorkerTypes ==
    /\ lastId \in Nat /\ told \subseteq 0 .. lastId
    /\ socks \in 0 .. lastId /\ tor \in 0 .. lastId
    /\ live \subseteq WorkersUpTo(lastId)
    /\ slot \in [Kinds -> SUBSET [kind : Kinds, id : Nat, of : Nat \cup Endpoints]]
    /\ \A k \in {"tun", "pump"} : slot[k] \subseteq {w \in WorkersUpTo(lastId) : w.kind = k}
    /\ \A w \in Known : w.kind = "pump" => w.of \in Endpoints

WinTypes == OwnTypes /\ WorkerTypes

\* No number is given twice, and there is one handle of a pump.
Numbers ==
    /\ \A v, w \in Known : v.id = w.id => v = w
    /\ \A w \in Known : w.id \notin {tor, socks}
    /\ Alone(slot["pump"])

Untold(kind) == {w \in live : w.kind = kind /\ w.id \notin told}

NoTun == Untold("tun") = {}
NoSs == Untold("ss") = {}
NoPump == Untold("pump") = {}

\* The handler's list.
JobInv(list) ==
    /\ ListOf(active.kind, list) /\ Ordered(list)
    /\ Has(list, {"done"}) => active.kind = "none"
    /\ clean => active.kind = "none"

\* Tor's session, until it is ended.
TorInv(list) ==
    /\ active.kind = "tor" => socks # 0 /\ (Has(list, {"exit"}) \/ socks \notin told)
    /\ Has(list, {"torSpawn"}) => tor # socks

\* The system's tunnel, and the one that is to come.
TunInv(list) ==
    /\ \A w \in Untold("tun") : w \in slot["tun"] /\ w.of \in 1 .. lastId /\ w.of \notin told
    /\ NoTun \/ Guards(list, Risky, TunOff)
    /\ NoTun \/ NoPump

ComingInv(list) ==
    \A i \in 1 .. Len(list) : list[i].step = "tunSpawn" =>
        /\ list[i].of # 0 /\ list[i].of \notin told
        /\ \A w \in slot["tun"] : w.id # list[i].of
        /\ Has(list, {"ssSpawn", "ssTell", "ssTake"}) => list[i].of = lastId + 1
        /\ ~ Has(list, {"ssSpawn"}) => list[i].of <= lastId

\* Outline's server, and the tunnel that leads to it.
TellsSoon(list) ==
    \/ Len(list) > 0 /\ list[1].step = "ssTell"
    \/ Len(list) > 1 /\ list[1].step = "tunCancel" /\ list[2].step = "ssTell"

SsInv(list) ==
    /\ \A h \in slot["ss"] : h.of = 0 => NoTun
    /\ \A i \in 1 .. Len(list) : list[i].step = "ssStore" =>
          \/ \A w \in Untold("tun") : w.of = list[i].of
          \/ Guards(list, {"ssStore"}, TunOff)
    /\ NoSs \/ slot["ss"] # {} \/ Has(list, {"ssStore"}) \/ TellsSoon(list)
    /\ slot["ss"] = {} \/ Guards(list, {"tunSpawn"}, {"ssTake"})

\* WireGuard's pump, and the routes to its endpoint.
PumpInv(list) ==
    /\ \A w \in live : w.kind = "pump" => w.id \in told \/ w \in slot["pump"]
    /\ \A w \in slot["pump"] \cap live : w.id \notin told
    /\ \A e \in pins \ astray :
          \/ \E w \in slot["pump"] \cap live : w.of = e
          \/ Len(list) > 0 /\ list[1] \in {At("wgClear", e), At("wgPump", e)}

\* What is there is the connection's, or ends before the list is done.
Belongs(list, there, kinds, ends) ==
    there => active.kind \in kinds \/ (Has(list, {"done"}) /\ Guards(list, {"done"}, ends))

Owned(list) ==
    /\ Belongs(list, ~ NoTun, {"tor", "outline"}, TunOff)
    /\ Belongs(list, ~ NoSs, {"outline"}, {"ssTell", "ssTake"})
    /\ Belongs(list, slot["ss"] # {}, {"outline"}, {"ssTake"})
    /\ Belongs(list, ~ NoPump, {"wg", "server"}, {"wgTake"})
    /\ Belongs(list, tor # 0 /\ "tor" \notin astray, {"tor"}, {"torKill"})
    /\ Belongs(list, dialed /\ "dialed" \notin astray, {"pptp"}, {"rasHangUp"})
    /\ Belongs(list, service /\ "service" \notin astray, {"server"}, {"svcUninstall"})
    /\ service /\ "service" \notin astray => elevated /\ client = "up"

Core(list) ==
    /\ JobInv(list) /\ TorInv(list) /\ TunInv(list) /\ ComingInv(list)
    /\ SsInv(list) /\ PumpInv(list) /\ Owned(list)

WinInv == WinTypes /\ Numbers /\ (mixed \/ Core(job))
-----------------------------------------------------------------------------
(***************************************************************************)
(* Lists and their rests.                                                  *)
(***************************************************************************)

LEMMA RestOfList ==
    ASSUME NEW T, NEW list \in Seq(T), list # <<>>
    PROVE  /\ Tail(list) \in Seq(T) /\ Len(list) \in Nat \ {0}
           /\ Head(list) = list[1] /\ list[1] \in T /\ Len(Tail(list)) = Len(list) - 1
           /\ \A i \in 1 .. Len(list) - 1 : Tail(list)[i] = list[i + 1]
BY HeadTailProperties

LEMMA JoinedLists ==
    ASSUME NEW T, NEW l \in Seq(T), NEW m \in Seq(T)
    PROVE  /\ l \o m \in Seq(T) /\ Len(l \o m) = Len(l) + Len(m)
           /\ Len(l) \in Nat /\ Len(m) \in Nat
           /\ \A i \in 1 .. Len(l) : (l \o m)[i] = l[i]
           /\ \A i \in 1 .. Len(m) : (l \o m)[Len(l) + i] = m[i]
BY ConcatProperties

\* A step of a joined list is of the one or of the other.
LEMMA Splits ==
    ASSUME NEW T, NEW l \in Seq(T), NEW m \in Seq(T), NEW i \in 1 .. Len(l \o m)
    PROVE  \/ i \in 1 .. Len(l) /\ (l \o m)[i] = l[i]
           \/ i - Len(l) \in 1 .. Len(m) /\ (l \o m)[i] = m[i - Len(l)]
<1>1. CASE i <= Len(l) BY <1>1, JoinedLists
<1>2. CASE ~ i <= Len(l)
  <2>1. i - Len(l) \in 1 .. Len(m) BY <1>2, JoinedLists
  <2>2. Len(l) + (i - Len(l)) = i BY <2>1, JoinedLists
  <2>. QED BY <2>1, <2>2, JoinedLists
<1>. QED BY <1>1, <1>2

LEMMA HasRest ==
    ASSUME NEW list \in Seq(StepRec), list # <<>>, NEW A
    PROVE  /\ Has(Tail(list), A) => Has(list, A)
           /\ Has(list, A) /\ Head(list).step \notin A => Has(Tail(list), A)
           /\ Head(list).step \in A => Has(list, A)
<1>1. /\ Len(list) \in Nat \ {0} /\ Head(list) = list[1] /\ Len(Tail(list)) = Len(list) - 1
      /\ \A i \in 1 .. Len(list) - 1 : Tail(list)[i] = list[i + 1]
  BY RestOfList
<1>2. ASSUME Has(Tail(list), A) PROVE Has(list, A)
  <2>1. PICK i \in 1 .. Len(list) - 1 : Tail(list)[i].step \in A BY <1>1, <1>2 DEF Has
  <2>2. i + 1 \in 1 .. Len(list) /\ list[i + 1].step \in A BY <1>1, <2>1
  <2>. QED BY <2>2 DEF Has
<1>3. ASSUME Has(list, A), Head(list).step \notin A PROVE Has(Tail(list), A)
  <2>1. PICK i \in 1 .. Len(list) : list[i].step \in A BY <1>3 DEF Has
  <2>2. i # 1 BY <1>1, <1>3, <2>1
  <2>3. i - 1 \in 1 .. Len(list) - 1 /\ i - 1 + 1 = i BY <1>1, <2>1, <2>2
  <2>4. Tail(list)[i - 1] = list[i] BY <1>1, <2>3
  <2>. QED BY <1>1, <2>1, <2>3, <2>4 DEF Has
<1>4. Head(list).step \in A => Has(list, A) BY <1>1 DEF Has
<1>. QED BY <1>2, <1>3, <1>4

LEMMA OnlyRest ==
    ASSUME NEW list \in Seq(StepRec), list # <<>>, NEW A, Only(list, A)
    PROVE  Only(Tail(list), A) /\ Head(list).step \in A
<1>1. /\ Len(list) \in Nat \ {0} /\ Head(list) = list[1] /\ Len(Tail(list)) = Len(list) - 1
      /\ \A i \in 1 .. Len(list) - 1 : Tail(list)[i] = list[i + 1]
  BY RestOfList
<1>2. \A i \in 1 .. Len(list) - 1 : i + 1 \in 1 .. Len(list) BY <1>1
<1>3. 1 \in 1 .. Len(list) BY <1>1
<1>. QED BY <1>1, <1>2, <1>3 DEF Only

\* Who comes first has nobody before it; who is no guard need not stay.
LEMMA GuardsRest ==
    ASSUME NEW list \in Seq(StepRec), list # <<>>, NEW Y, NEW X, Guards(list, Y, X)
    PROVE  /\ Head(list).step \notin Y
           /\ Head(list).step \notin X => Guards(Tail(list), Y, X)
<1>1. /\ Len(list) \in Nat \ {0} /\ Head(list) = list[1] /\ Len(Tail(list)) = Len(list) - 1
      /\ \A i \in 1 .. Len(list) - 1 : Tail(list)[i] = list[i + 1]
  BY RestOfList
<1>2. Head(list).step \notin Y
  <2>1. 1 \in 1 .. Len(list) /\ 1 .. 1 - 1 = {} BY <1>1
  <2>. QED BY <1>1, <2>1 DEF Guards
<1>3. ASSUME Head(list).step \notin X, NEW i \in 1 .. Len(list) - 1, Tail(list)[i].step \in Y
      PROVE  \E j \in 1 .. i - 1 : Tail(list)[j].step \in X
  <2>1. i + 1 \in 1 .. Len(list) /\ list[i + 1].step \in Y BY <1>1, <1>3
  <2>2. PICK j \in 1 .. i + 1 - 1 : list[j].step \in X BY <2>1 DEF Guards
  <2>3. j # 1 BY <1>1, <1>3, <2>2
  <2>4. j - 1 \in 1 .. i - 1 /\ j - 1 \in 1 .. Len(list) - 1 /\ j - 1 + 1 = j BY <1>1, <2>2, <2>3
  <2>5. Tail(list)[j - 1] = list[j] BY <1>1, <2>4
  <2>. QED BY <2>2, <2>4, <2>5
<1>. QED BY <1>1, <1>2, <1>3 DEF Guards

LEMMA NoneAfterRest ==
    ASSUME NEW list \in Seq(StepRec), list # <<>>, NEW A, NEW B, NoneAfter(list, A, B)
    PROVE  /\ NoneAfter(Tail(list), A, B)
           /\ Head(list).step \in A => ~ Has(Tail(list), B)
<1>1. /\ Len(list) \in Nat \ {0} /\ Head(list) = list[1] /\ Len(Tail(list)) = Len(list) - 1
      /\ \A i \in 1 .. Len(list) - 1 : Tail(list)[i] = list[i + 1]
  BY RestOfList
<1>2. \A i \in 1 .. Len(list) - 1 : i + 1 \in 1 .. Len(list) /\ 1 < i + 1 BY <1>1
<1>3. NoneAfter(Tail(list), A, B)
  <2> SUFFICES ASSUME NEW i \in 1 .. Len(list) - 1, NEW j \in 1 .. Len(list) - 1, i < j,
                      Tail(list)[i].step \in A, Tail(list)[j].step \in B
               PROVE  FALSE
    BY <1>1 DEF NoneAfter
  <2>1. i + 1 < j + 1 OBVIOUS
  <2>. QED BY <1>1, <1>2, <2>1 DEF NoneAfter
<1>4. ASSUME Head(list).step \in A, Has(Tail(list), B) PROVE FALSE
  <2>1. PICK i \in 1 .. Len(list) - 1 : Tail(list)[i].step \in B BY <1>1, <1>4 DEF Has
  <2>2. 1 \in 1 .. Len(list) BY <1>1
  <2>. QED BY <1>1, <1>2, <1>4, <2>1, <2>2 DEF NoneAfter
<1>. QED BY <1>3, <1>4

LEMMA OrderedRest ==
    ASSUME NEW list \in Seq(StepRec), list # <<>>, Ordered(list)
    PROVE  Ordered(Tail(list))
<1> DEFINE rest == Tail(list)
           n == Len(list)
<1>1. /\ n \in Nat \ {0} /\ Head(list) = list[1] /\ Len(rest) = n - 1
      /\ \A i \in 1 .. n - 1 : rest[i] = list[i + 1]
  BY RestOfList
<1>2. \A i \in 1 .. n - 1 : i + 1 \in 1 .. n BY <1>1
<1>3. Has(rest, {"ssSpawn"}) => Has(rest, {"ssStore"})
  <2> SUFFICES ASSUME Has(rest, {"ssSpawn"}) PROVE Has(rest, {"ssStore"}) OBVIOUS
  <2>1. Has(list, {"ssStore"}) BY HasRest DEF Ordered
  <2>2. Head(list).step \notin {"ssStore"}
    <3>1. Head(list).step \in {"ssStore"} => ~ Has(rest, {"ssSpawn", "tunSpawn"})
      BY NoneAfterRest DEF Ordered
    <3>. QED BY <3>1 DEF Has
  <2>. QED BY <2>1, <2>2, HasRest
<1>4. \A i, j \in 1 .. Len(rest) :
         {rest[i].step, rest[j].step} \subseteq {"tunSpawn", "ssStore"} => rest[i].of = rest[j].of
  BY <1>1, <1>2 DEF Ordered
<1>5. ASSUME NEW i \in 1 .. n - 1, rest[i].step = "wgRoutes"
      PROVE  i < n - 1 /\ rest[i + 1] = At("wgPump", rest[i].of)
  <2>1. i + 1 \in 1 .. n /\ list[i + 1].step = "wgRoutes" BY <1>1, <1>2, <1>5
  <2>2. i + 1 < n /\ list[i + 1 + 1] = At("wgPump", list[i + 1].of) BY <2>1 DEF Ordered
  <2>3. i + 1 \in 1 .. n - 1 /\ i < n - 1 BY <1>1, <2>2
  <2>. QED BY <1>1, <2>2, <2>3
<1>. QED BY <1>1, <1>3, <1>4, <1>5, NoneAfterRest DEF Ordered

-----------------------------------------------------------------------------
(***************************************************************************)
(* Lists that are put together.                                            *)
(***************************************************************************)

\* Steps that no order is asked of.
Plain == Names \ {"tunSpawn", "ssSpawn", "ssStore", "torSpawn", "wgRoutes", "wgSettle"}

LEMMA HasJoined ==
    ASSUME NEW l \in Seq(StepRec), NEW m \in Seq(StepRec), NEW A
    PROVE  Has(l \o m, A) <=> Has(l, A) \/ Has(m, A)
<1>1. ASSUME Has(l \o m, A) PROVE Has(l, A) \/ Has(m, A)
  BY <1>1, Splits DEF Has
<1>2. ASSUME Has(l, A) PROVE Has(l \o m, A)
  <2>1. PICK i \in 1 .. Len(l) : l[i].step \in A BY <1>2 DEF Has
  <2>2. i \in 1 .. Len(l \o m) /\ (l \o m)[i].step \in A BY <2>1, JoinedLists
  <2>. QED BY <2>2 DEF Has
<1>3. ASSUME Has(m, A) PROVE Has(l \o m, A)
  <2>1. PICK i \in 1 .. Len(m) : m[i].step \in A BY <1>3 DEF Has
  <2>2. Len(l) + i \in 1 .. Len(l \o m) /\ (l \o m)[Len(l) + i].step \in A BY <2>1, JoinedLists
  <2>. QED BY <2>2 DEF Has
<1>. QED BY <1>1, <1>2, <1>3

LEMMA OnlyJoined ==
    ASSUME NEW l \in Seq(StepRec), NEW m \in Seq(StepRec), NEW A, Only(l, A), Only(m, A)
    PROVE  Only(l \o m, A)
BY Splits DEF Only

LEMMA GuardsJoined ==
    ASSUME NEW l \in Seq(StepRec), NEW m \in Seq(StepRec), NEW Y, NEW X,
           Guards(l, Y, X), Has(l, X) \/ Guards(m, Y, X)
    PROVE  Guards(l \o m, Y, X)
<1> SUFFICES ASSUME NEW i \in 1 .. Len(l \o m), (l \o m)[i].step \in Y
             PROVE  \E j \in 1 .. i - 1 : (l \o m)[j].step \in X
  BY DEF Guards
<1>1. CASE i \in 1 .. Len(l) /\ (l \o m)[i] = l[i]
  <2>1. PICK j \in 1 .. i - 1 : l[j].step \in X BY <1>1 DEF Guards
  <2>2. j \in 1 .. Len(l) BY <1>1, <2>1, JoinedLists
  <2>. QED BY <2>1, <2>2, JoinedLists
<1>2. CASE i - Len(l) \in 1 .. Len(m) /\ (l \o m)[i] = m[i - Len(l)]
  <2>1. CASE Has(l, X)
    <3>1. PICK j \in 1 .. Len(l) : l[j].step \in X BY <2>1 DEF Has
    <3>2. j \in 1 .. i - 1 BY <1>2, <3>1, JoinedLists
    <3>3. (l \o m)[j] = l[j] BY <3>1, JoinedLists
    <3>. QED BY <3>1, <3>2, <3>3
  <2>2. CASE Guards(m, Y, X)
    <3>1. PICK j \in 1 .. i - Len(l) - 1 : m[j].step \in X BY <1>2, <2>2 DEF Guards
    <3>2. j \in 1 .. Len(m) /\ Len(l) + j \in 1 .. i - 1 BY <1>2, <3>1, JoinedLists
    <3>3. (l \o m)[Len(l) + j] = m[j] BY <3>2, JoinedLists
    <3>. QED BY <3>1, <3>2, <3>3
  <2>. QED BY <2>1, <2>2
<1>. QED BY <1>1, <1>2, Splits

LEMMA NoneAfterJoined ==
    ASSUME NEW l \in Seq(StepRec), NEW m \in Seq(StepRec), NEW A, NEW B,
           NoneAfter(m, A, B), ~ Has(l, A)
    PROVE  NoneAfter(l \o m, A, B)
<1> SUFFICES ASSUME NEW i \in 1 .. Len(l \o m), NEW j \in 1 .. Len(l \o m), i < j,
                    (l \o m)[i].step \in A, (l \o m)[j].step \in B
             PROVE  FALSE
  BY DEF NoneAfter
<1>1. Len(l) \in Nat /\ Len(l \o m) \in Nat BY JoinedLists
<1>2. i - Len(l) \in 1 .. Len(m) /\ (l \o m)[i] = m[i - Len(l)] BY Splits DEF Has
<1>3. ~ j \in 1 .. Len(l) BY <1>1, <1>2
<1>4. j - Len(l) \in 1 .. Len(m) /\ (l \o m)[j] = m[j - Len(l)] BY <1>3, Splits
<1>5. i - Len(l) < j - Len(l) BY <1>1
<1>. QED BY <1>2, <1>4, <1>5 DEF NoneAfter

LEMMA OrderedJoined ==
    ASSUME NEW l \in Seq(StepRec), NEW m \in Seq(StepRec), Only(l, Plain), Ordered(m)
    PROVE  Ordered(l \o m)
<1>1. \A i \in 1 .. Len(l) :
         l[i].step \notin {"tunSpawn", "ssSpawn", "ssStore", "torSpawn", "wgRoutes", "wgSettle"}
  BY DEF Only, Plain
<1>2. /\ ~ Has(l, {"tunSpawn"}) /\ ~ Has(l, {"ssSpawn"}) /\ ~ Has(l, {"ssStore"})
      /\ ~ Has(l, {"torSpawn"}) /\ ~ Has(l, {"wgSettle"})
  BY <1>1 DEF Has
<1>3. Has(l \o m, {"ssSpawn"}) => Has(l \o m, {"ssStore"})
  BY <1>2, HasJoined DEF Ordered
<1>4. ASSUME NEW i \in 1 .. Len(l \o m), NEW j \in 1 .. Len(l \o m),
             {(l \o m)[i].step, (l \o m)[j].step} \subseteq {"tunSpawn", "ssStore"}
      PROVE  (l \o m)[i].of = (l \o m)[j].of
  <2>1. i - Len(l) \in 1 .. Len(m) /\ (l \o m)[i] = m[i - Len(l)] BY <1>1, <1>4, Splits
  <2>2. j - Len(l) \in 1 .. Len(m) /\ (l \o m)[j] = m[j - Len(l)] BY <1>1, <1>4, Splits
  <2>. QED BY <1>4, <2>1, <2>2 DEF Ordered
<1>5. ASSUME NEW i \in 1 .. Len(l \o m), (l \o m)[i].step = "wgRoutes"
      PROVE  i < Len(l \o m) /\ (l \o m)[i + 1] = At("wgPump", (l \o m)[i].of)
  <2>1. i - Len(l) \in 1 .. Len(m) /\ (l \o m)[i] = m[i - Len(l)] BY <1>1, <1>5, Splits
  <2>2. i - Len(l) < Len(m) /\ m[i - Len(l) + 1] = At("wgPump", m[i - Len(l)].of)
    BY <1>5, <2>1 DEF Ordered
  <2>3. /\ Len(l) \in Nat /\ Len(m) \in Nat /\ Len(l \o m) = Len(l) + Len(m)
        /\ \A k \in 1 .. Len(m) : (l \o m)[Len(l) + k] = m[k]
    BY JoinedLists
  <2>4. i - Len(l) + 1 \in 1 .. Len(m) /\ Len(l) + (i - Len(l) + 1) = i + 1
    <3> DEFINE n == Len(l)
               p == Len(m)
    <3>1. n \in Nat /\ p \in Nat /\ i \in Int BY <2>3
    <3>2. i - n \in 1 .. p /\ i - n < p BY <2>1, <2>2
    <3> HIDE DEF n, p
    <3>3. i - n + 1 \in 1 .. p /\ n + (i - n + 1) = i + 1 BY <3>1, <3>2
    <3>. QED BY <3>3 DEF n, p
  <2>5. (l \o m)[i + 1] = m[i - Len(l) + 1] BY <2>3, <2>4
  <2>. QED BY <2>1, <2>2, <2>3, <2>4, <2>5
<1>. QED BY <1>2, <1>3, <1>4, <1>5, NoneAfterJoined DEF Ordered

LEMMA PlainOrdered ==
    ASSUME NEW l \in Seq(StepRec), Only(l, Plain)
    PROVE  Ordered(l)
<1>1. \A i \in 1 .. Len(l) :
         l[i].step \notin {"tunSpawn", "ssSpawn", "ssStore", "torSpawn", "wgRoutes", "wgSettle"}
  BY DEF Only, Plain
<1>. QED BY <1>1 DEF Ordered, NoneAfter, Has

\* Lists of a step or two.
LEMMA OneStep ==
    ASSUME NEW s \in StepRec
    PROVE  /\ <<s>> \in Seq(StepRec) /\ <<s>> # <<>> /\ Len(<<s>>) = 1 /\ <<s>>[1] = s
           /\ \A A : (Has(<<s>>, A) <=> s.step \in A) /\ (Only(<<s>>, A) <=> s.step \in A)
           /\ \A Y, X : Guards(<<s>>, Y, X) <=> s.step \notin Y
<1>1. /\ <<s>> \in Seq(StepRec) /\ Len(<<s>>) = 1 /\ <<s>>[1] = s /\ <<s>> # <<>> OBVIOUS
<1>2. 1 .. 1 = {1} /\ 1 .. 1 - 1 = {} OBVIOUS
<1>. QED BY <1>1, <1>2 DEF Has, Only, Guards

LEMMA TwoSteps ==
    ASSUME NEW s \in StepRec, NEW t \in StepRec
    PROVE  /\ <<s, t>> \in Seq(StepRec) /\ <<s, t>> # <<>> /\ Len(<<s, t>>) = 2
           /\ <<s, t>>[1] = s /\ <<s, t>>[2] = t
           /\ \A A : (Has(<<s, t>>, A) <=> s.step \in A \/ t.step \in A)
                     /\ (Only(<<s, t>>, A) <=> s.step \in A /\ t.step \in A)
           /\ \A Y, X : Guards(<<s, t>>, Y, X)
                        <=> s.step \notin Y /\ (t.step \in Y => s.step \in X)
<1>1. /\ <<s, t>> \in Seq(StepRec) /\ Len(<<s, t>>) = 2 /\ <<s, t>> # <<>>
      /\ <<s, t>>[1] = s /\ <<s, t>>[2] = t
  OBVIOUS
<1>2. 1 .. 2 = {1, 2} /\ 1 .. 1 - 1 = {} /\ 1 .. 2 - 1 = {1} OBVIOUS
<1>3. \A A : (Has(<<s, t>>, A) <=> s.step \in A \/ t.step \in A)
             /\ (Only(<<s, t>>, A) <=> s.step \in A /\ t.step \in A)
  BY <1>1, <1>2 DEF Has, Only
<1>4. \A Y, X : Guards(<<s, t>>, Y, X) <=> s.step \notin Y /\ (t.step \in Y => s.step \in X)
  BY <1>1, <1>2 DEF Guards
<1>. QED BY <1>1, <1>3, <1>4

LEMMA NoStep ==
    /\ <<>> \in Seq(StepRec) /\ Len(<<>>) = 0 /\ Ordered(<<>>)
    /\ \A A : ~ Has(<<>>, A) /\ Only(<<>>, A)
    /\ \A Y, X : Guards(<<>>, Y, X)
<1>1. <<>> \in Seq(StepRec) /\ Len(<<>>) = 0 /\ 1 .. 0 = {} OBVIOUS
<1>. QED BY <1>1 DEF Ordered, NoneAfter, Has, Only, Guards

\* A list after one step more.
LEMMA StepAndList ==
    ASSUME NEW s \in StepRec, NEW m \in Seq(StepRec)
    PROVE  /\ <<s>> \o m \in Seq(StepRec) /\ <<s>> \o m # <<>> /\ Len(<<s>> \o m) = Len(m) + 1
           /\ Len(m) \in Nat /\ (<<s>> \o m)[1] = s /\ (m # <<>> => (<<s>> \o m)[2] = m[1])
           /\ Head(<<s>> \o m) = s /\ Tail(<<s>> \o m) = m
<1>1. /\ <<s>> \in Seq(StepRec) /\ Len(<<s>>) = 1 /\ <<s>>[1] = s
  OBVIOUS
<1>2. /\ <<s>> \o m \in Seq(StepRec) /\ Len(<<s>> \o m) = 1 + Len(m) /\ Len(m) \in Nat
      /\ \A i \in 1 .. 1 : (<<s>> \o m)[i] = <<s>>[i]
      /\ \A i \in 1 .. Len(m) : (<<s>> \o m)[1 + i] = m[i]
  BY <1>1, JoinedLists
<1>3. (<<s>> \o m)[1] = s /\ <<s>> \o m # <<>> BY <1>1, <1>2
<1>4. m # <<>> => (<<s>> \o m)[2] = m[1]
  <2>1. m # <<>> => 1 \in 1 .. Len(m) BY RestOfList
  <2>. QED BY <1>2, <2>1
<1>5. Head(<<s>> \o m) = s /\ Tail(<<s>> \o m) = m
  OBVIOUS
<1>. QED BY <1>2, <1>3, <1>4, <1>5

LEMMA TwoAndList ==
    ASSUME NEW s \in StepRec, NEW t \in StepRec, NEW m \in Seq(StepRec)
    PROVE  /\ Len(<<s, t>> \o m) = Len(m) + 2 /\ Len(m) \in Nat
           /\ (<<s, t>> \o m)[1] = s /\ (<<s, t>> \o m)[2] = t
<1>1. <<s, t>> \in Seq(StepRec) /\ Len(<<s, t>>) = 2 /\ <<s, t>>[1] = s /\ <<s, t>>[2] = t
  OBVIOUS
<1>2. /\ Len(<<s, t>> \o m) = 2 + Len(m) /\ Len(m) \in Nat
      /\ \A i \in 1 .. 2 : (<<s, t>> \o m)[i] = <<s, t>>[i]
  BY <1>1, JoinedLists
<1>. QED BY <1>1, <1>2

\* The lists that the commands put together.
LEMMA ThreeAndOne ==
    ASSUME NEW a \in StepRec, NEW b \in StepRec, NEW c \in StepRec, NEW d \in StepRec,
           NEW list, list = <<a, b, c>> \o <<d>>
    PROVE  /\ list \in Seq(StepRec) /\ Len(list) = 4
           /\ list[1] = a /\ list[2] = b /\ list[3] = c /\ list[4] = d
<1>1. /\ <<a, b, c>> \in Seq(StepRec) /\ Len(<<a, b, c>>) = 3
      /\ <<a, b, c>>[1] = a /\ <<a, b, c>>[2] = b /\ <<a, b, c>>[3] = c
      /\ <<d>> \in Seq(StepRec) /\ Len(<<d>>) = 1 /\ <<d>>[1] = d
  OBVIOUS
<1>2. /\ list \in Seq(StepRec) /\ Len(list) = 3 + 1
      /\ \A i \in 1 .. 3 : list[i] = <<a, b, c>>[i]
      /\ \A i \in 1 .. 1 : list[3 + i] = <<d>>[i]
  BY <1>1, JoinedLists
<1>3. list[3 + 1] = d BY <1>1, <1>2
<1>. QED BY <1>1, <1>2, <1>3

LEMMA OneAndFour ==
    ASSUME NEW a \in StepRec, NEW b \in StepRec, NEW c \in StepRec, NEW d \in StepRec,
           NEW e \in StepRec, NEW list, list = <<a>> \o <<b, c, d, e>>
    PROVE  /\ list \in Seq(StepRec) /\ Len(list) = 5
           /\ list[1] = a /\ list[2] = b /\ list[3] = c /\ list[4] = d /\ list[5] = e
<1>1. /\ <<b, c, d, e>> \in Seq(StepRec) /\ Len(<<b, c, d, e>>) = 4
      /\ <<b, c, d, e>>[1] = b /\ <<b, c, d, e>>[2] = c
      /\ <<b, c, d, e>>[3] = d /\ <<b, c, d, e>>[4] = e
      /\ <<a>> \in Seq(StepRec) /\ Len(<<a>>) = 1 /\ <<a>>[1] = a
  OBVIOUS
<1>2. /\ list \in Seq(StepRec) /\ Len(list) = 1 + 4
      /\ \A i \in 1 .. 1 : list[i] = <<a>>[i]
      /\ \A i \in 1 .. 4 : list[1 + i] = <<b, c, d, e>>[i]
  BY <1>1, JoinedLists
<1>3. list[1 + 1] = b /\ list[1 + 2] = c /\ list[1 + 3] = d /\ list[1 + 4] = e BY <1>1, <1>2
<1>. QED BY <1>1, <1>2, <1>3

LEMMA TwoFourAndOne ==
    ASSUME NEW a \in StepRec, NEW b \in StepRec, NEW c \in StepRec, NEW d \in StepRec,
           NEW e \in StepRec, NEW f \in StepRec, NEW g \in StepRec,
           NEW list, list = <<a, b>> \o <<c, d, e, f>> \o <<g>>
    PROVE  /\ list \in Seq(StepRec) /\ Len(list) = 7
           /\ list[1] = a /\ list[2] = b /\ list[3] = c /\ list[4] = d /\ list[5] = e
           /\ list[6] = f /\ list[7] = g
<1> DEFINE six == <<a, b>> \o <<c, d, e, f>>
<1>1. /\ <<c, d, e, f>> \in Seq(StepRec) /\ Len(<<c, d, e, f>>) = 4
      /\ <<c, d, e, f>>[1] = c /\ <<c, d, e, f>>[2] = d
      /\ <<c, d, e, f>>[3] = e /\ <<c, d, e, f>>[4] = f
      /\ <<a, b>> \in Seq(StepRec) /\ Len(<<a, b>>) = 2 /\ <<a, b>>[1] = a /\ <<a, b>>[2] = b
      /\ <<g>> \in Seq(StepRec) /\ Len(<<g>>) = 1 /\ <<g>>[1] = g
  OBVIOUS
<1>2. /\ six \in Seq(StepRec) /\ Len(six) = 2 + 4
      /\ \A i \in 1 .. 2 : six[i] = <<a, b>>[i]
      /\ \A i \in 1 .. 4 : six[2 + i] = <<c, d, e, f>>[i]
  BY <1>1, JoinedLists
<1>3. six[2 + 1] = c /\ six[2 + 2] = d /\ six[2 + 3] = e /\ six[2 + 4] = f BY <1>1, <1>2
<1>4. /\ six \in Seq(StepRec) /\ Len(six) = 6 /\ six[1] = a /\ six[2] = b /\ six[3] = c
      /\ six[4] = d /\ six[5] = e /\ six[6] = f
  BY <1>1, <1>2, <1>3
<1>5. PICK m \in Seq(StepRec) : m = six BY <1>4
<1>6. list = m \o <<g>> BY <1>5
<1>7. /\ list \in Seq(StepRec) /\ Len(list) = Len(m) + 1
      /\ \A i \in 1 .. Len(m) : list[i] = m[i]
      /\ \A i \in 1 .. 1 : list[Len(m) + i] = <<g>>[i]
  BY <1>1, <1>6, JoinedLists
<1> HIDE DEF six
<1>8. Len(m) = 6 /\ list[6 + 1] = g BY <1>1, <1>4, <1>5, <1>7
<1>. QED BY <1>4, <1>5, <1>7, <1>8

LEMMA OutlineNine ==
    ASSUME NEW a \in StepRec, NEW b \in StepRec, NEW c \in StepRec, NEW d \in StepRec,
           NEW e \in StepRec, NEW f \in StepRec, NEW g \in StepRec, NEW h \in StepRec,
           NEW k \in StepRec,
           NEW list, list = <<a, b, c>> \o (<<d>> \o <<e, f, g>>) \o <<h, k>>
    PROVE  /\ list \in Seq(StepRec) /\ Len(list) = 9
           /\ list[1] = a /\ list[2] = b /\ list[3] = c /\ list[4] = d /\ list[5] = e
           /\ list[6] = f /\ list[7] = g /\ list[8] = h /\ list[9] = k
<1>1. /\ <<a, b, c>> \in Seq(StepRec) /\ Len(<<a, b, c>>) = 3
      /\ <<a, b, c>>[1] = a /\ <<a, b, c>>[2] = b /\ <<a, b, c>>[3] = c
      /\ <<e, f, g>> \in Seq(StepRec) /\ Len(<<e, f, g>>) = 3
      /\ <<e, f, g>>[1] = e /\ <<e, f, g>>[2] = f /\ <<e, f, g>>[3] = g
      /\ <<d>> \in Seq(StepRec) /\ Len(<<d>>) = 1 /\ <<d>>[1] = d
      /\ <<h, k>> \in Seq(StepRec) /\ Len(<<h, k>>) = 2 /\ <<h, k>>[1] = h /\ <<h, k>>[2] = k
  OBVIOUS
<1>2. PICK four \in Seq(StepRec) : four = <<d>> \o <<e, f, g>> BY <1>1, JoinedLists
<1>3. /\ Len(four) = 1 + 3
      /\ \A i \in 1 .. 1 : four[i] = <<d>>[i]
      /\ \A i \in 1 .. 3 : four[1 + i] = <<e, f, g>>[i]
  BY <1>1, <1>2, JoinedLists
<1>4. four[1 + 1] = e /\ four[1 + 2] = f /\ four[1 + 3] = g BY <1>1, <1>3
<1>5. Len(four) = 4 /\ four[1] = d /\ four[2] = e /\ four[3] = f /\ four[4] = g
  BY <1>1, <1>3, <1>4
<1>6. PICK seven \in Seq(StepRec) : seven = <<a, b, c>> \o four BY <1>1, JoinedLists
<1>7. /\ Len(seven) = 3 + 4
      /\ \A i \in 1 .. 3 : seven[i] = <<a, b, c>>[i]
      /\ \A i \in 1 .. 4 : seven[3 + i] = four[i]
  <2>1. /\ Len(<<a, b, c>> \o four) = Len(<<a, b, c>>) + Len(four)
        /\ \A i \in 1 .. Len(<<a, b, c>>) : (<<a, b, c>> \o four)[i] = <<a, b, c>>[i]
        /\ \A i \in 1 .. Len(four) : (<<a, b, c>> \o four)[Len(<<a, b, c>>) + i] = four[i]
    BY <1>1, JoinedLists
  <2>. QED BY <1>1, <1>5, <1>6, <2>1
<1>8. seven[3 + 1] = d /\ seven[3 + 2] = e /\ seven[3 + 3] = f /\ seven[3 + 4] = g
  BY <1>5, <1>7
<1>9. list = seven \o <<h, k>> BY <1>2, <1>6
<1>10. /\ list \in Seq(StepRec) /\ Len(list) = 7 + 2
       /\ \A i \in 1 .. 7 : list[i] = seven[i]
       /\ \A i \in 1 .. 2 : list[7 + i] = <<h, k>>[i]
  <2>1. /\ seven \o <<h, k>> \in Seq(StepRec)
        /\ Len(seven \o <<h, k>>) = Len(seven) + Len(<<h, k>>)
        /\ \A i \in 1 .. Len(seven) : (seven \o <<h, k>>)[i] = seven[i]
        /\ \A i \in 1 .. Len(<<h, k>>) : (seven \o <<h, k>>)[Len(seven) + i] = <<h, k>>[i]
    BY <1>1, JoinedLists
  <2>. QED BY <1>1, <1>7, <1>9, <2>1
<1>11. list[7 + 1] = h /\ list[7 + 2] = k BY <1>1, <1>10
<1>. QED BY <1>1, <1>7, <1>8, <1>10, <1>11

LEMMA OutlineFive ==
    ASSUME NEW a \in StepRec, NEW b \in StepRec, NEW c \in StepRec, NEW d \in StepRec,
           NEW e \in StepRec, NEW list, list = <<a, b, c>> \o <<>> \o <<d, e>>
    PROVE  /\ list \in Seq(StepRec) /\ Len(list) = 5
           /\ list[1] = a /\ list[2] = b /\ list[3] = c /\ list[4] = d /\ list[5] = e
<1>1. /\ <<a, b, c>> \in Seq(StepRec) /\ Len(<<a, b, c>>) = 3
      /\ <<a, b, c>>[1] = a /\ <<a, b, c>>[2] = b /\ <<a, b, c>>[3] = c
      /\ <<d, e>> \in Seq(StepRec) /\ Len(<<d, e>>) = 2 /\ <<d, e>>[1] = d /\ <<d, e>>[2] = e
  OBVIOUS
<1>2. <<a, b, c>> \o <<>> = <<a, b, c>> BY <1>1, ConcatEmptySeq
<1>3. list = <<a, b, c>> \o <<d, e>> BY <1>2
<1>4. /\ list \in Seq(StepRec) /\ Len(list) = 3 + 2
      /\ \A i \in 1 .. 3 : list[i] = <<a, b, c>>[i]
      /\ \A i \in 1 .. 2 : list[3 + i] = <<d, e>>[i]
  BY <1>1, <1>3, JoinedLists
<1>5. list[3 + 1] = d /\ list[3 + 2] = e BY <1>1, <1>4
<1>. QED BY <1>1, <1>4, <1>5

-----------------------------------------------------------------------------
(***************************************************************************)
(* What the invariant says of a list it says of the rest, unless the first *)
(* step is what it speaks of.                                              *)
(***************************************************************************)

\* A list that neither ends a connection nor quits.
LEMMA BeginsList ==
    ASSUME NEW list \in Seq(StepRec), list # <<>>, NEW kind, ListOf(kind, list),
           Head(list).step \notin EndSteps
    PROVE  /\ ~ Has(list, {"done"}) /\ ~ Has(list, {"exit"})
           /\ \/ kind = "tor" /\ Only(list, TorStart) /\ Has(list, {"torSpawn"})
              \/ kind = "tor" /\ Only(list, TorRoute)
              \/ kind = "wg" /\ Only(list, WgSteps)
              \/ kind = "outline" /\ Only(list, OutlineSteps)
              \/ kind = "server" /\ Only(list, ServerSteps)
              \/ kind = "pptp" /\ Only(list, PptpSteps)
<1>1. ~ Only(list, EndSteps) BY OnlyRest
<1>2. \/ kind = "tor" /\ Only(list, TorStart) /\ Has(list, {"torSpawn"})
      \/ kind = "tor" /\ Only(list, TorRoute)
      \/ kind = "wg" /\ Only(list, WgSteps)
      \/ kind = "outline" /\ Only(list, OutlineSteps)
      \/ kind = "server" /\ Only(list, ServerSteps)
      \/ kind = "pptp" /\ Only(list, PptpSteps)
  BY <1>1 DEF ListOf
<1>3. Only(list, TorStart \cup OutlineSteps \cup ServerSteps \cup PptpSteps)
  BY <1>2 DEF Only, TorStart, TorRoute, OutlineSteps, WgSteps, ServerSteps, PptpSteps
<1>4. ~ Has(list, {"done"}) /\ ~ Has(list, {"exit"})
  BY <1>3 DEF Only, Has, TorStart, TorRoute, OutlineSteps, WgSteps, ServerSteps, PptpSteps
<1>. QED BY <1>2, <1>4

\* A step that nothing comes after is the last.
LEMMA LastStep ==
    ASSUME NEW list \in Seq(StepRec), list # <<>>, NEW A, NoneAfter(list, A, Names),
           Head(list).step \in A
    PROVE  Tail(list) = <<>>
<1> DEFINE rest == Tail(list)
<1>1. rest \in Seq(StepRec) /\ ~ Has(rest, Names) BY RestOfList, NoneAfterRest
<1> HIDE DEF rest
<1>2. ASSUME rest # <<>> PROVE FALSE
  <2>1. Len(rest) \in Nat \ {0} /\ rest[1] \in StepRec BY <1>1, <1>2, RestOfList
  <2>2. 1 \in 1 .. Len(rest) BY <2>1
  <2>3. rest[1].step \in Names BY <2>1 DEF StepRec, OfEndpoint, Names, ServerSteps, WgSteps
  <2>. QED BY <1>1, <2>2, <2>3 DEF Has
<1>. QED BY <1>2 DEF rest

LEMMA ListOfRest ==
    ASSUME NEW list \in Seq(StepRec), list # <<>>, NEW kind, ListOf(kind, list), Ordered(list),
           Head(list).step # "exit"
    PROVE  ListOf(kind, Tail(list))
<1>1. Tail(list) \in Seq(StepRec) BY RestOfList
<1>2. CASE Only(list, EndSteps) /\ (kind # "none" /\ list # <<>> => Has(list, {"exit"}))
  <2>1. Only(Tail(list), EndSteps) BY <1>2, OnlyRest
  <2>2. kind # "none" => Has(Tail(list), {"exit"}) BY <1>2, HasRest
  <2>. QED BY <2>1, <2>2 DEF ListOf
<1>3. CASE kind = "tor" /\ Only(list, TorStart) /\ Has(list, {"torSpawn"})
  <2>1. Only(Tail(list), TorStart) BY <1>3, OnlyRest
  <2>2. CASE Head(list).step = "torSpawn"
    <3>1. Tail(list) = <<>> BY <2>2, LastStep DEF Ordered
    <3>. QED BY <3>1, NoStep DEF ListOf
  <2>3. CASE Head(list).step # "torSpawn"
    <3>1. Has(Tail(list), {"torSpawn"}) BY <1>3, <2>3, HasRest
    <3>. QED BY <1>3, <2>1, <3>1 DEF ListOf
  <2>. QED BY <2>2, <2>3
<1>4. CASE kind = "tor" /\ Only(list, TorRoute) BY <1>4, OnlyRest DEF ListOf
<1>5. CASE kind = "wg" /\ Only(list, WgSteps) BY <1>5, OnlyRest DEF ListOf
<1>6. CASE kind = "outline" /\ Only(list, OutlineSteps) BY <1>6, OnlyRest DEF ListOf
<1>7. CASE kind = "server" /\ Only(list, ServerSteps) BY <1>7, OnlyRest DEF ListOf
<1>8. CASE kind = "pptp" /\ Only(list, PptpSteps) BY <1>8, OnlyRest DEF ListOf
<1>. QED BY <1>2, <1>3, <1>4, <1>5, <1>6, <1>7, <1>8 DEF ListOf

LEMMA JobInvRest ==
    ASSUME NEW list \in Seq(StepRec), list # <<>>, JobInv(list), Head(list).step # "exit"
    PROVE  JobInv(Tail(list))
BY ListOfRest, OrderedRest, HasRest DEF JobInv

LEMMA TorInvRest ==
    ASSUME NEW list \in Seq(StepRec), list # <<>>, TorInv(list), Head(list).step # "exit"
    PROVE  TorInv(Tail(list))
BY HasRest DEF TorInv

LEMMA TunInvRest ==
    ASSUME NEW list \in Seq(StepRec), list # <<>>, TunInv(list), Head(list).step \notin TunOff
    PROVE  TunInv(Tail(list))
BY GuardsRest DEF TunInv

LEMMA ComingInvRest ==
    ASSUME NEW list \in Seq(StepRec), list # <<>>, ComingInv(list), Head(list).step # "ssSpawn"
    PROVE  ComingInv(Tail(list))
<1> SUFFICES ASSUME NEW i \in 1 .. Len(Tail(list)), Tail(list)[i].step = "tunSpawn"
             PROVE  LET of == Tail(list)[i].of IN
                    /\ of # 0 /\ of \notin told
                    /\ \A w \in slot["tun"] : w.id # of
                    /\ Has(Tail(list), {"ssSpawn", "ssTell", "ssTake"}) => of = lastId + 1
                    /\ ~ Has(Tail(list), {"ssSpawn"}) => of <= lastId
  BY DEF ComingInv
<1>1. i + 1 \in 1 .. Len(list) /\ list[i + 1] = Tail(list)[i] BY RestOfList
<1>2. list[i + 1].step = "tunSpawn" BY <1>1
<1>3. Has(Tail(list), {"ssSpawn", "ssTell", "ssTake"}) => Has(list, {"ssSpawn", "ssTell", "ssTake"})
  BY HasRest
<1>4. Has(list, {"ssSpawn"}) => Has(Tail(list), {"ssSpawn"}) BY HasRest
<1>. QED BY <1>1, <1>2, <1>3, <1>4 DEF ComingInv

LEMMA SsInvRest ==
    ASSUME NEW list \in Seq(StepRec), list # <<>>, SsInv(list),
           Head(list).step \notin {"tunCancel", "ssTake", "ssTell", "ssStore"}
    PROVE  SsInv(Tail(list))
<1>1. /\ Len(list) \in Nat \ {0} /\ Head(list) = list[1] /\ Len(Tail(list)) = Len(list) - 1
      /\ \A i \in 1 .. Len(list) - 1 : Tail(list)[i] = list[i + 1]
  BY RestOfList
<1>2. ASSUME NEW i \in 1 .. Len(Tail(list)), Tail(list)[i].step = "ssStore"
      PROVE  \/ \A w \in Untold("tun") : w.of = Tail(list)[i].of
             \/ Guards(Tail(list), {"ssStore"}, TunOff)
  <2>1. i + 1 \in 1 .. Len(list) /\ list[i + 1] = Tail(list)[i] BY <1>1
  <2>2. \/ \A w \in Untold("tun") : w.of = list[i + 1].of
        \/ Guards(list, {"ssStore"}, TunOff)
    BY <1>2, <2>1 DEF SsInv
  <2>3. Guards(list, {"ssStore"}, TunOff) => Guards(Tail(list), {"ssStore"}, TunOff)
    BY GuardsRest DEF TunOff
  <2>. QED BY <2>1, <2>2, <2>3
<1>3. ~ TellsSoon(list) BY <1>1 DEF TellsSoon
<1>4. NoSs \/ slot["ss"] # {} \/ Has(Tail(list), {"ssStore"}) BY <1>3, HasRest DEF SsInv
<1>5. slot["ss"] = {} \/ Guards(Tail(list), {"tunSpawn"}, {"ssTake"})
  BY GuardsRest DEF SsInv
<1>. QED BY <1>2, <1>4, <1>5 DEF SsInv

\* Between a route and its pump, or its clearing, there is no other step.
LEMMA PinsBefore ==
    ASSUME NEW list \in Seq(StepRec), list # <<>>, PumpInv(list), NEW e \in pins \ astray,
           Head(list) \notin {At("wgClear", e), At("wgPump", e)}
    PROVE  \E w \in slot["pump"] \cap live : w.of = e
BY RestOfList DEF PumpInv

LEMMA PumpInvRest ==
    ASSUME NEW list \in Seq(StepRec), list # <<>>, PumpInv(list),
           Head(list).step \notin {"wgClear", "wgPump"}
    PROVE  \A other : PumpInv(other)
<1>1. \A e : Head(list) \notin {At("wgClear", e), At("wgPump", e)} BY DEF At
<1>. QED BY <1>1, PinsBefore DEF PumpInv

LEMMA BelongsRest ==
    ASSUME NEW list \in Seq(StepRec), list # <<>>, NEW there \in BOOLEAN, NEW kinds, NEW ends,
           Belongs(list, there, kinds, ends), Head(list).step \notin ends
    PROVE  Belongs(Tail(list), there, kinds, ends)
<1>1. Guards(list, {"done"}, ends) => Head(list).step \notin {"done"} /\ Guards(Tail(list), {"done"}, ends)
  BY GuardsRest
<1>. QED BY <1>1, HasRest DEF Belongs

\* What ends it belongs to nobody any more when it is gone.
Endings == {"tunCancel", "ssTake", "ssTell", "wgTake", "torKill", "rasHangUp", "svcUninstall"}

LEMMA OwnedRest ==
    ASSUME NEW list \in Seq(StepRec), list # <<>>, Owned(list), Head(list).step \notin Endings
    PROVE  Owned(Tail(list))
BY BelongsRest DEF Owned, Endings, TunOff

\* The steps that change nothing that the invariant speaks of.
QuietSteps == {"tunWait", "routeOn", "routeOff", "connected", "failed", "ssPort", "ssBypass",
               "wgParse", "wgOpen", "wgSettle"}

LEMMA CoreRest ==
    ASSUME NEW list \in Seq(StepRec), list # <<>>, Core(list), Head(list).step \in QuietSteps
    PROVE  Core(Tail(list))
<1>1. Head(list).step \notin Endings \cup TunOff
                             \cup {"exit", "ssSpawn", "ssStore", "wgClear", "wgPump"}
  BY DEF QuietSteps, Endings, TunOff
<1>2. JobInv(Tail(list)) /\ TorInv(Tail(list)) BY <1>1, JobInvRest, TorInvRest DEF Core
<1>3. TunInv(Tail(list)) /\ ComingInv(Tail(list)) BY <1>1, TunInvRest, ComingInvRest DEF Core
<1>4. SsInv(Tail(list)) BY <1>1, SsInvRest DEF Core, Endings
<1>5. PumpInv(Tail(list)) BY <1>1, PumpInvRest DEF Core
<1>6. Owned(Tail(list)) BY <1>1, OwnedRest DEF Core
<1>. QED BY <1>2, <1>3, <1>4, <1>5, <1>6 DEF Core

\* A list that is given up leaves a short one.
Short == {"tunCancel", "ssTell", "failed", "connected", "routeOff", "wgClear"}

LEMMA CoreGivenUp ==
    ASSUME NEW list \in Seq(StepRec), list # <<>>, Core(list), Head(list).step \notin EndSteps,
           NEW short \in Seq(StepRec), Only(short, Short), ListOf(active.kind, short),
           NoTun \/ Guards(short, Risky, TunOff),
           NoSs \/ slot["ss"] # {} \/ TellsSoon(short),
           \A e \in pins \ astray :
              \/ \E w \in slot["pump"] \cap live : w.of = e
              \/ Len(short) > 0 /\ short[1] \in {At("wgClear", e), At("wgPump", e)}
    PROVE  Core(short)
<1>1. ~ Has(list, {"done"}) /\ ~ Has(list, {"exit"})
  BY BeginsList DEF Core, JobInv
<1>2. \A i \in 1 .. Len(short) : short[i].step \in Short BY DEF Only
<1>3. ~ Has(short, {"done"}) /\ ~ Has(short, {"torSpawn"}) BY <1>2 DEF Has, Short
<1>4. \A i \in 1 .. Len(short) : short[i].step \notin {"tunSpawn", "ssStore"} BY <1>2 DEF Short
<1>5. Only(short, Plain)
  BY <1>2 DEF Only, Plain, Short, Names, TorRoute, OutlineSteps, WgSteps, ServerSteps
<1>6. JobInv(short) BY <1>3, <1>5, PlainOrdered DEF Core, JobInv
<1>7. TorInv(short) BY <1>1, <1>3 DEF Core, TorInv
<1>8. TunInv(short) /\ ComingInv(short) BY <1>4 DEF Core, TunInv, ComingInv
<1>9. SsInv(short)
  <2>1. Guards(short, {"tunSpawn"}, {"ssTake"}) BY <1>4 DEF Guards
  <2>. QED BY <1>4, <2>1 DEF Core, SsInv
<1>10. PumpInv(short) BY DEF Core, PumpInv
<1>11. \A there \in BOOLEAN : \A kinds, ends :
          Belongs(list, there, kinds, ends) => Belongs(short, there, kinds, ends)
  BY <1>1 DEF Belongs
<1>12. Owned(short) BY <1>11 DEF Core, Owned
<1>. QED BY <1>6, <1>7, <1>8, <1>9, <1>10, <1>12 DEF Core

-----------------------------------------------------------------------------
(***************************************************************************)
(* Steps that only go on.                                                  *)
(***************************************************************************)
LEMMA CoreFrame ==
    ASSUME Core(job'), active'.kind = active.kind, elevated' = elevated, client' = client, socks' = socks,
           UNCHANGED <<workers, system, astray, clean>>
    PROVE  Core(job)'
BY DEF Core, JobInv, TorInv, TunInv, ComingInv, SsInv, PumpInv, Owned, Belongs, NoTun, NoSs, NoPump,
       Untold, workers, system

\* Which steps make which lists.
LEMMA ReadyList ==
    ASSUME WinTypes, NEW name, Ready(name)
    PROVE  /\ job \in Seq(StepRec) /\ job # <<>> /\ Head(job).step = name /\ Head(job) \in StepRec
           /\ Tail(job) \in Seq(StepRec)
           /\ \A steps \in Seq(StepRec) : steps \o Tail(job) \in Seq(StepRec)
           /\ <<>> \o Tail(job) = Tail(job)
<1>1. job \in Seq(StepRec) /\ job # <<>> /\ Head(job).step = name BY DEF WinTypes, OwnTypes, Ready
<1>2. Tail(job) \in Seq(StepRec) /\ Head(job) \in StepRec BY <1>1, RestOfList
<1>3. \A steps \in Seq(StepRec) : steps \o Tail(job) \in Seq(StepRec) BY <1>2, JoinedLists
<1>4. <<>> \o Tail(job) = Tail(job) BY <1>2
<1>. QED BY <1>1, <1>2, <1>3, <1>4

LEMMA StepRecs ==
    /\ \A name \in Names \ OfEndpoint : S(name) \in StepRec /\ S(name).step = name /\ S(name).of = 0
    /\ \A name \in Names \ OfEndpoint, n \in Nat :
          At(name, n) \in StepRec /\ At(name, n).step = name /\ At(name, n).of = n
    /\ \A name \in OfEndpoint, e \in Endpoints :
          At(name, e) \in StepRec /\ At(name, e).step = name /\ At(name, e).of = e
BY DEF StepRec, S, At

\* The steps that a list is given up for are steps.
LEMMA ShortSteps ==
    /\ \A name \in {"tunCancel", "ssTell", "failed", "connected", "routeOff"} :
          S(name) \in StepRec /\ S(name).step = name
    /\ \A e \in Endpoints : At("wgClear", e) \in StepRec /\ At("wgClear", e).step = "wgClear"
BY StepRecs DEF Names, OfEndpoint, TorRoute, OutlineSteps

LEMMA NotUpList == NotUp \in {<<>>, <<S("failed")>>}
BY DEF NotUp

\* Whose step it is.
LEMMA StepOfTunnel ==
    ASSUME NEW list \in Seq(StepRec), list # <<>>, NEW kind, ListOf(kind, list),
           Head(list).step \in {"tunSpawn", "tunWait"}
    PROVE  /\ kind \in {"tor", "outline"} /\ ~ Has(list, {"done"}) /\ ~ Has(list, {"exit"})
           /\ kind = "tor" => Only(list, TorRoute)
           /\ kind = "outline" => Only(list, OutlineSteps)
<1>1. Head(list).step \notin EndSteps \cup TorStart \cup WgSteps \cup ServerSteps \cup PptpSteps
  BY DEF EndSteps, TorStart, WgSteps, ServerSteps, PptpSteps
<1>. QED BY <1>1, BeginsList, OnlyRest

LEMMA StepOfOutline ==
    ASSUME NEW list \in Seq(StepRec), list # <<>>, NEW kind, ListOf(kind, list),
           Head(list).step \in {"ssSpawn", "ssPort", "ssBypass", "ssStore"}
    PROVE  /\ kind = "outline" /\ ~ Has(list, {"done"}) /\ ~ Has(list, {"exit"})
           /\ Only(list, OutlineSteps)
<1>1. Head(list).step \notin EndSteps \cup TorStart \cup TorRoute \cup WgSteps \cup ServerSteps \cup PptpSteps
  BY DEF EndSteps, TorStart, TorRoute, WgSteps, ServerSteps, PptpSteps
<1>. QED BY <1>1, BeginsList, OnlyRest

LEMMA StepOfWireGuard ==
    ASSUME NEW list \in Seq(StepRec), list # <<>>, NEW kind, ListOf(kind, list),
           Head(list).step \in {"wgParse", "wgOpen", "wgRoutes", "wgPump", "wgSettle"}
    PROVE  /\ kind \in {"wg", "server"} /\ ~ Has(list, {"done"}) /\ ~ Has(list, {"exit"})
           /\ Only(list, ServerSteps)
<1>1. Head(list).step \notin EndSteps \cup TorStart \cup TorRoute \cup OutlineSteps \cup PptpSteps
  BY DEF EndSteps, TorStart, TorRoute, OutlineSteps, PptpSteps
<1>2. Only(list, WgSteps) => Only(list, ServerSteps) BY DEF Only, ServerSteps
<1>. QED BY <1>1, <1>2, BeginsList, OnlyRest

\* What is left of a list of a tunnel, once the tunnel is given up.
LEMMA NoTunnelList ==
    ASSUME WinTypes, Core(job), NEW name \in {"tunSpawn", "tunWait"}, Ready(name)
    PROVE  /\ NoTunnel \in Seq(StepRec) /\ Only(NoTunnel, Short)
           /\ ListOf(active.kind, NoTunnel) /\ Only(NoTunnel, {"ssTell", "failed", "routeOff"})
           /\ ListOf(active.kind, <<S("tunCancel")>> \o NoTunnel)
           /\ NoSs \/ slot["ss"] # {} \/ (NoTunnel # <<>> /\ NoTunnel[1].step = "ssTell")
<1>1. /\ job \in Seq(StepRec) /\ job # <<>> /\ Head(job).step = name
  BY ReadyList
<1>2. ListOf(active.kind, job) BY DEF Core, JobInv
<1>3. /\ active.kind \in {"tor", "outline"}
      /\ active.kind = "tor" => ~ Has(job, {"ssStore"})
  BY <1>1, <1>2, StepOfTunnel DEF Only, Has, TorRoute
<1>4. ~ TellsSoon(job) BY <1>1, RestOfList DEF TellsSoon
<1>5. NoSs \/ slot["ss"] # {} \/ Has(job, {"ssStore"}) BY <1>4 DEF Core, SsInv
<1>6. Has(job, {"ssStore"}) <=> \E i \in DOMAIN job : job[i].step = "ssStore"
  BY <1>1 DEF Has
<1>7. /\ S("tunCancel") \in StepRec /\ S("ssTell") \in StepRec /\ S("failed") \in StepRec
      /\ S("routeOff") \in StepRec /\ S("tunCancel").step = "tunCancel"
      /\ S("ssTell").step = "ssTell" /\ S("failed").step = "failed" /\ S("routeOff").step = "routeOff"
  BY ShortSteps
<1>8. <<S("tunCancel")>> \in Seq(StepRec) /\ Only(<<S("tunCancel")>>, TorRoute)
      /\ Only(<<S("tunCancel")>>, OutlineSteps)
  BY <1>7, OneStep DEF TorRoute, OutlineSteps
<1>9. CASE Has(job, {"ssStore"})
  <2>1. NoTunnel = <<S("ssTell"), S("failed")>> BY <1>6, <1>9 DEF NoTunnel
  <2>2. /\ NoTunnel \in Seq(StepRec) /\ NoTunnel # <<>> /\ NoTunnel[1] = S("ssTell")
        /\ \A A : Only(NoTunnel, A) <=> "ssTell" \in A /\ "failed" \in A
    BY <1>7, <2>1, TwoSteps
  <2>3. Only(NoTunnel, OutlineSteps) BY <2>2 DEF OutlineSteps
  <2>4. Only(<<S("tunCancel")>> \o NoTunnel, OutlineSteps) BY <1>8, <2>2, <2>3, OnlyJoined
  <2>. QED BY <1>3, <1>7, <1>9, <2>2, <2>3, <2>4 DEF ListOf, Short
<1>10. CASE ~ Has(job, {"ssStore"})
  <2>1. NoTunnel = <<S("routeOff")>> BY <1>6, <1>10 DEF NoTunnel
  <2>2. /\ NoTunnel \in Seq(StepRec)
        /\ \A A : Only(NoTunnel, A) <=> "routeOff" \in A
    BY <1>7, <2>1, OneStep
  <2>3. Only(NoTunnel, TorRoute) /\ Only(NoTunnel, OutlineSteps) BY <2>2 DEF TorRoute, OutlineSteps
  <2>4. Only(<<S("tunCancel")>> \o NoTunnel, TorRoute) BY <1>8, <2>2, <2>3, OnlyJoined
  <2>5. Only(<<S("tunCancel")>> \o NoTunnel, OutlineSteps) BY <1>8, <2>2, <2>3, OnlyJoined
  <2>. QED BY <1>3, <1>5, <1>10, <2>2, <2>3, <2>4, <2>5 DEF ListOf, Short
<1>. QED BY <1>9, <1>10

\* The way out of a tunnel that did not come up.
LEMMA CoreNoTunnel ==
    ASSUME WinTypes, Core(job), NEW name \in {"tunSpawn", "tunWait"}, Ready(name)
    PROVE  /\ Core(<<S("tunCancel")>> \o NoTunnel)
           /\ name = "tunSpawn" => Core(NoTunnel)
<1> DEFINE cancel == <<S("tunCancel")>>
           off == NoTunnel
           both == cancel \o off
<1>1. /\ job \in Seq(StepRec) /\ job # <<>> /\ Head(job).step = name
  BY ReadyList
<1>2. /\ off \in Seq(StepRec) /\ Only(off, Short) /\ ListOf(active.kind, off)
      /\ Only(off, {"ssTell", "failed", "routeOff"}) /\ ListOf(active.kind, both)
      /\ NoSs \/ slot["ss"] # {} \/ (off # <<>> /\ off[1].step = "ssTell")
  BY NoTunnelList
<1>3. /\ cancel \in Seq(StepRec) /\ Len(cancel) = 1 /\ Only(cancel, Short) /\ Has(cancel, TunOff)
      /\ cancel[1].step = "tunCancel" /\ Guards(cancel, Risky, TunOff)
  BY ShortSteps, OneStep DEF Short, TunOff, Risky
<1> HIDE DEF cancel, off
<1>4. both \in Seq(StepRec) /\ Only(both, Short) /\ Guards(both, Risky, TunOff)
  BY <1>2, <1>3, JoinedLists, OnlyJoined, GuardsJoined
<1>5. off # <<>> => Len(off) \in Nat \ {0} BY <1>2, RestOfList
<1>6. off # <<>> /\ off[1].step = "ssTell" => TellsSoon(off) /\ TellsSoon(both)
  <2> SUFFICES ASSUME off # <<>>, off[1].step = "ssTell" PROVE TellsSoon(off) /\ TellsSoon(both)
    OBVIOUS
  <2>1. both[1].step = "tunCancel" /\ both[2] = off[1] /\ Len(both) = Len(off) + 1
    BY <1>2, ShortSteps, StepAndList DEF cancel
  <2>. QED BY <1>5, <2>1 DEF TellsSoon
<1>7. \A e \in pins \ astray : \E w \in slot["pump"] \cap live : w.of = e
  BY <1>1, PinsBefore DEF Core, At
<1>8. Head(job).step \notin EndSteps BY <1>1 DEF EndSteps
<1>9. Core(both) BY <1>1, <1>2, <1>4, <1>6, <1>7, <1>8, CoreGivenUp
<1>10. ASSUME name = "tunSpawn" PROVE Core(off)
  <2>1. NoTun BY <1>1, <1>10, GuardsRest DEF Core, TunInv, Risky
  <2>. QED BY <1>1, <1>2, <1>6, <1>7, <1>8, <2>1, CoreGivenUp
<1>. QED BY <1>9, <1>10 DEF cancel, off

LEMMA CoreNoOutline ==
    ASSUME WinTypes, Core(job), NEW name \in {"ssPort", "ssBypass"}, Ready(name)
    PROVE  Core(<<S("ssTell"), S("failed")>>)
<1> DEFINE off == <<S("ssTell"), S("failed")>>
<1>1. /\ job \in Seq(StepRec) /\ job # <<>> /\ Head(job).step = name
  BY ReadyList
<1>2. /\ off \in Seq(StepRec) /\ Len(off) = 2 /\ off[1].step = "ssTell"
      /\ \A A : Only(off, A) <=> "ssTell" \in A /\ "failed" \in A
  BY ShortSteps, TwoSteps
<1> HIDE DEF off
<1>3. active.kind = "outline" BY <1>1, StepOfOutline DEF Core, JobInv
<1>4. ListOf(active.kind, off) BY <1>2, <1>3 DEF ListOf, OutlineSteps
<1>5. TellsSoon(off) /\ Only(off, Short) BY <1>2 DEF TellsSoon, Short
<1>6. NoTun BY <1>1, GuardsRest DEF Core, TunInv, Risky
<1>7. \A e \in pins \ astray : \E w \in slot["pump"] \cap live : w.of = e
  BY <1>1, PinsBefore DEF Core, At
<1>8. Head(job).step \notin EndSteps BY <1>1 DEF EndSteps
<1>9. Core(off) BY <1>1, <1>2, <1>4, <1>5, <1>6, <1>7, <1>8, CoreGivenUp
<1>. QED BY <1>9 DEF off

LEMMA CoreNotUp ==
    ASSUME WinTypes, Core(job), NEW name \in {"wgParse", "wgOpen", "wgPump"}, Ready(name)
    PROVE  /\ name = "wgParse" => Core(NotUp) /\ NotUp \in Seq(StepRec)
           /\ name # "wgParse" => /\ Core(<<At("wgClear", Of)>> \o NotUp)
                                  /\ <<At("wgClear", Of)>> \o NotUp \in Seq(StepRec)
<1>1. /\ job \in Seq(StepRec) /\ job # <<>> /\ Head(job).step = name /\ Head(job) \in StepRec
  BY ReadyList
<1>2. active.kind \in {"wg", "server"} /\ Only(job, ServerSteps)
  BY <1>1, StepOfWireGuard DEF Core, JobInv
<1>3. /\ NotUp \in Seq(StepRec) /\ Only(NotUp, {"failed"}) /\ Guards(NotUp, Risky, TunOff)
  <2>1. CASE NotUp = <<>> BY <2>1, NoStep
  <2>2. CASE NotUp = <<S("failed")>>
    <3>1. S("failed") \in StepRec /\ S("failed").step = "failed" BY ShortSteps
    <3>. QED BY <2>2, <3>1, OneStep DEF Risky
  <2>. QED BY <2>1, <2>2, NotUpList
<1>4. NoSs \/ slot["ss"] # {}
  <2>1. ~ TellsSoon(job) BY <1>1, RestOfList DEF TellsSoon
  <2>2. ~ Has(job, {"ssStore"}) BY <1>2 DEF Only, Has, ServerSteps, WgSteps
  <2>. QED BY <2>1, <2>2 DEF Core, SsInv
<1>5. Head(job).step \notin EndSteps BY <1>1 DEF EndSteps
<1>6. ASSUME name = "wgParse" PROVE Core(NotUp)
  <2>1. \A e \in pins \ astray : \E w \in slot["pump"] \cap live : w.of = e
    BY <1>1, <1>6, PinsBefore DEF Core, At
  <2>2. ListOf(active.kind, NotUp)
    BY <1>2, <1>3 DEF ListOf, WgSteps, ServerSteps, Only
  <2>3. Only(NotUp, Short) BY <1>3 DEF Only, Short
  <2>. QED BY <1>1, <1>3, <1>4, <1>5, <2>1, <2>2, <2>3, CoreGivenUp
<1>7. ASSUME name # "wgParse" PROVE Core(<<At("wgClear", Of)>> \o NotUp)
                                    /\ <<At("wgClear", Of)>> \o NotUp \in Seq(StepRec)
  <2>1. Of \in Endpoints BY <1>1, <1>7 DEF StepRec, OfEndpoint, Of
  <2>2. At("wgClear", Of) \in StepRec /\ At("wgClear", Of).step = "wgClear"
    BY <2>1, ShortSteps
  <2> DEFINE off == <<At("wgClear", Of)>> \o NotUp
  <2>3. /\ off \in Seq(StepRec) /\ Len(off) = Len(NotUp) + 1 /\ Len(NotUp) \in Nat
        /\ off[1] = At("wgClear", Of)
    BY <1>3, <2>2, StepAndList
  <2>4. Only(off, {"wgClear", "failed"}) /\ Guards(off, Risky, TunOff)
    <3>1. /\ <<At("wgClear", Of)>> \in Seq(StepRec)
          /\ Only(<<At("wgClear", Of)>>, {"wgClear", "failed"})
          /\ Guards(<<At("wgClear", Of)>>, Risky, TunOff)
      BY <2>2, OneStep DEF Risky
    <3>2. Only(NotUp, {"wgClear", "failed"}) BY <1>3 DEF Only
    <3>. QED BY <1>3, <3>1, <3>2, OnlyJoined, GuardsJoined
  <2> HIDE DEF off
  <2>5. Only(off, Short) /\ Only(off, WgSteps) /\ Only(off, ServerSteps)
    BY <2>4 DEF Only, Short, WgSteps, ServerSteps
  <2>6. ListOf(active.kind, off) BY <1>2, <2>5 DEF ListOf
  <2>7. \A e \in pins \ astray :
           \/ \E w \in slot["pump"] \cap live : w.of = e
           \/ Len(off) > 0 /\ off[1] \in {At("wgClear", e), At("wgPump", e)}
    <3> SUFFICES ASSUME NEW e \in pins \ astray,
                        ~ \E w \in slot["pump"] \cap live : w.of = e
                 PROVE  Len(off) > 0 /\ off[1] = At("wgClear", e)
      OBVIOUS
    <3>1. Head(job) \in {At("wgClear", e), At("wgPump", e)} BY <1>1, PinsBefore DEF Core
    <3>2. Of = e BY <3>1 DEF At, Of
    <3>. QED BY <2>3, <3>2
  <2>8. Core(off) BY <1>1, <1>4, <1>5, <2>3, <2>4, <2>5, <2>6, <2>7, CoreGivenUp
  <2>. QED BY <2>3, <2>8 DEF off
<1>. QED BY <1>3, <1>6, <1>7

\* It runs or it does not: either is shown.
LEMMA CoreSettled ==
    ASSUME WinTypes, Core(job), Ready("wgSettle"), NEW name \in {"connected", "failed"}
    PROVE  <<S(name)>> \o Tail(job) = <<S(name)>> /\ Core(<<S(name)>>)
<1>1. /\ job \in Seq(StepRec) /\ job # <<>> /\ Head(job).step = "wgSettle"
  BY ReadyList
<1>2. Tail(job) = <<>> BY <1>1, LastStep DEF Core, JobInv, Ordered
<1>3. <<S(name)>> \o Tail(job) = <<S(name)>>
  <2>1. S(name) \in StepRec BY ShortSteps
  <2>2. <<S(name)>> \in Seq(StepRec) BY <2>1
  <2>. QED BY <1>2, <2>2, ConcatEmptySeq
<1>4. active.kind \in {"wg", "server"} /\ Only(job, ServerSteps)
  BY <1>1, StepOfWireGuard DEF Core, JobInv
<1>5. /\ <<S(name)>> \in Seq(StepRec) /\ Only(<<S(name)>>, Short) /\ Only(<<S(name)>>, WgSteps)
      /\ Only(<<S(name)>>, ServerSteps) /\ Guards(<<S(name)>>, Risky, TunOff)
  BY ShortSteps, OneStep DEF Risky, Short, WgSteps, ServerSteps
<1>6. NoSs \/ slot["ss"] # {}
  <2>1. ~ TellsSoon(job) BY <1>1, RestOfList DEF TellsSoon
  <2>2. ~ Has(job, {"ssStore"}) BY <1>4 DEF Only, Has, ServerSteps, WgSteps
  <2>. QED BY <2>1, <2>2 DEF Core, SsInv
<1>7. \A e \in pins \ astray : \E w \in slot["pump"] \cap live : w.of = e
  BY <1>1, PinsBefore DEF Core, At
<1>8. Head(job).step \notin EndSteps BY <1>1 DEF EndSteps
<1>9. ListOf(active.kind, <<S(name)>>) BY <1>4, <1>5 DEF ListOf
<1>10. Core(<<S(name)>>) BY <1>1, <1>5, <1>6, <1>7, <1>8, <1>9, CoreGivenUp
<1>. QED BY <1>3, <1>10

LEMMA CoreGoesOn ==
    ASSUME WinTypes, Core(job), NEW name \in QuietSteps, Ready(name)
    PROVE  Core(<<>> \o Tail(job))
BY ReadyList, CoreRest

LEMMA CoreQuiet ==
    ASSUME WinTypes, Core(job),
           \/ tunWait \/ routeSet \/ connected \/ failed \/ ssPort \/ ssBypass
           \/ wgParse \/ wgOpen \/ wgSettle
    PROVE  Core(job)'
<1>1. active \in Connection BY DEF WinTypes, OwnTypes
<1>2. /\ \A phase : [active EXCEPT !.phase = phase].kind = active.kind
  BY <1>1 DEF Connection
<1>3. /\ active'.kind = active.kind /\ elevated' = elevated /\ client' = client /\ socks' = socks
      /\ UNCHANGED <<workers, system, astray, clean>>
  BY <1>2 DEF tunWait, routeSet, connected, failed, ssPort, ssBypass, wgParse, wgOpen, wgSettle,
              process, history
<1>4. \A name \in QuietSteps : Ready(name) => Core(<<>> \o Tail(job)) BY CoreGoesOn
<1>5. /\ "tunWait" \in QuietSteps /\ "routeOn" \in QuietSteps /\ "routeOff" \in QuietSteps
      /\ "connected" \in QuietSteps /\ "failed" \in QuietSteps /\ "ssPort" \in QuietSteps
      /\ "ssBypass" \in QuietSteps /\ "wgParse" \in QuietSteps /\ "wgOpen" \in QuietSteps
  BY DEF QuietSteps
<1>6. CASE tunWait
  <2>1. Ready("tunWait") BY <1>6 DEF tunWait
  <2>2. job' \in {<<>> \o Tail(job), <<S("tunCancel")>> \o NoTunnel}
    BY <1>6 DEF tunWait, Then, Fails
  <2>3. Core(job') BY <1>4, <1>5, <2>1, <2>2, CoreNoTunnel
  <2>. QED BY <1>3, <2>3, CoreFrame
<1>7. CASE routeSet \/ connected \/ failed
  <2>1. job' = <<>> \o Tail(job)
        /\ (Ready("routeOn") \/ Ready("routeOff") \/ Ready("connected") \/ Ready("failed"))
    BY <1>7 DEF routeSet, connected, failed, Then
  <2>2. Core(job') BY <1>4, <1>5, <2>1
  <2>. QED BY <1>3, <2>2, CoreFrame
<1>8. CASE ssPort \/ ssBypass
  <2>1. /\ job' \in {<<>> \o Tail(job), <<S("ssTell"), S("failed")>>}
        /\ Ready("ssPort") \/ Ready("ssBypass")
    BY <1>8 DEF ssPort, ssBypass, Then, Fails
  <2>2. Core(job') BY <1>4, <1>5, <2>1, CoreNoOutline
  <2>. QED BY <1>3, <2>2, CoreFrame
<1>9. CASE wgParse
  <2>1. Ready("wgParse") /\ job' \in {<<>> \o Tail(job), NotUp}
    BY <1>9 DEF wgParse, Then, Fails
  <2>2. Core(job') BY <1>4, <1>5, <2>1, CoreNotUp
  <2>. QED BY <1>3, <2>2, CoreFrame
<1>10. CASE wgOpen
  <2>1. Ready("wgOpen") /\ job' \in {<<>> \o Tail(job), <<At("wgClear", Of)>> \o NotUp}
    BY <1>10 DEF wgOpen, Then, Fails
  <2>2. Core(job') BY <1>4, <1>5, <2>1, CoreNotUp
  <2>. QED BY <1>3, <2>2, CoreFrame
<1>11. CASE wgSettle
  <2>1. Ready("wgSettle")
        /\ job' \in {<<S("connected")>> \o Tail(job), <<S("failed")>> \o Tail(job)}
    BY <1>11 DEF wgSettle, Then
  <2>2. Core(job') BY <2>1, CoreSettled
  <2>. QED BY <1>3, <2>2, CoreFrame
<1>. QED BY <1>6, <1>7, <1>8, <1>9, <1>10, <1>11

-----------------------------------------------------------------------------
(***************************************************************************)
(* The workers and their numbers.                                          *)
(***************************************************************************)
SomeHandles == [Kinds -> SUBSET [kind : Kinds, id : Nat, of : Nat \cup Endpoints]]

\* Workers and handles go, and more were told to end.
LEMMA WorkersGo ==
    ASSUME WorkerTypes, Numbers, lastId' = lastId, told' \subseteq 0 .. lastId, live' \subseteq live,
           slot' \in SomeHandles, slot'["tun"] \subseteq slot["tun"],
           slot'["pump"] \subseteq slot["pump"], tor' \in {tor, socks, 0}, socks' \in {socks, 0}
    PROVE  WorkerTypes' /\ Numbers'
<1>1. lastId' \in Nat /\ told' \subseteq 0 .. lastId' /\ socks' \in 0 .. lastId' /\ tor' \in 0 .. lastId'
  BY DEF WorkerTypes
<1>2. live' \subseteq WorkersUpTo(lastId')
      /\ \A k \in {"tun", "pump"} : slot'[k] \subseteq {w \in WorkersUpTo(lastId') : w.kind = k}
  BY DEF WorkerTypes
<1>3. Known' \subseteq Known BY DEF Known
<1>4. WorkerTypes' BY <1>1, <1>2, <1>3 DEF WorkerTypes, SomeHandles
<1>5. \A w \in Known : w.id \in 1 .. lastId
  BY DEF WorkerTypes, Known, WorkersUpTo
<1>6. \A w \in Known : w.id # 0 BY <1>5
<1>7. Numbers' BY <1>3, <1>6 DEF Numbers, Alone
<1>. QED BY <1>4, <1>7

LEMMA WorkersStay ==
    ASSUME WorkerTypes, Numbers, UNCHANGED <<workers, tor, socks>>
    PROVE  WorkerTypes' /\ Numbers'
BY DEF workers, WorkerTypes, Numbers, Known

\* Another number is given out; whoever has it is new.
LEMMA NumberIsNew ==
    ASSUME WorkerTypes
    PROVE  /\ lastId + 1 \in Nat /\ lastId + 1 \in 1 .. lastId + 1 /\ lastId + 1 # 0
           /\ lastId + 1 \notin told /\ lastId + 1 # tor /\ lastId + 1 # socks
           /\ \A w \in Known : w.id \in Nat /\ w.id # lastId + 1 /\ w.id # 0 /\ w.id <= lastId
           /\ WorkersUpTo(lastId) \subseteq WorkersUpTo(lastId + 1)
           /\ 0 .. lastId \subseteq 0 .. lastId + 1
<1>1. lastId \in Nat /\ told \subseteq 0 .. lastId /\ socks \in 0 .. lastId /\ tor \in 0 .. lastId
  BY DEF WorkerTypes
<1>2. Known \subseteq WorkersUpTo(lastId) BY DEF WorkerTypes, Known
<1>3. 1 .. lastId \subseteq 1 .. lastId + 1 BY <1>1
<1>4. \A w \in Known : w.id \in 1 .. lastId BY <1>2 DEF WorkersUpTo
<1>5. WorkersUpTo(lastId) \subseteq WorkersUpTo(lastId + 1) BY <1>3 DEF WorkersUpTo
<1>6. \A w \in Known : w.id \in Nat /\ w.id # lastId + 1 /\ w.id # 0 /\ w.id <= lastId BY <1>1, <1>4
<1>. QED BY <1>1, <1>5, <1>6

LEMMA WorkerComes ==
    ASSUME WorkerTypes, Numbers, NEW kind \in Kinds, NEW of \in Nat \cup Endpoints,
           kind = "pump" => of \in Endpoints,
           lastId' = lastId + 1, live' = live \cup {Worker(kind, lastId + 1, of)},
           IF kind = "ss" THEN slot' = slot
           ELSE slot' = [slot EXCEPT ![kind] = {Worker(kind, lastId + 1, of)}],
           UNCHANGED <<told, tor, socks>>
    PROVE  WorkerTypes' /\ Numbers'
<1> DEFINE new == Worker(kind, lastId + 1, of)
<1>1. /\ lastId + 1 \in Nat /\ lastId + 1 \in 1 .. lastId + 1 /\ lastId + 1 # 0
      /\ lastId + 1 \notin told /\ lastId + 1 # tor /\ lastId + 1 # socks
      /\ \A w \in Known : w.id # lastId + 1
      /\ WorkersUpTo(lastId) \subseteq WorkersUpTo(lastId + 1)
      /\ 0 .. lastId \subseteq 0 .. lastId + 1
  BY NumberIsNew
<1>2. /\ new \in WorkersUpTo(lastId + 1) /\ new.kind = kind /\ new.id = lastId + 1 /\ new.of = of
      /\ new \in [kind : Kinds, id : Nat, of : Nat \cup Endpoints]
  BY <1>1 DEF Worker, WorkersUpTo
<1> HIDE DEF new
<1>3. slot \in SomeHandles BY DEF WorkerTypes, SomeHandles
<1>4. /\ slot' \in SomeHandles
      /\ \A k \in Kinds : slot'[k] = slot[k] \/ (k = kind /\ kind # "ss" /\ slot'[k] = {new})
  BY <1>2, <1>3 DEF SomeHandles, Kinds, new
<1>5. Known' \subseteq Known \cup {new} BY <1>4 DEF Known, Kinds, new
<1>6. live' \subseteq WorkersUpTo(lastId') BY <1>1, <1>2 DEF WorkerTypes, new
<1>7. \A k \in {"tun", "pump"} : slot'[k] \subseteq {w \in WorkersUpTo(lastId') : w.kind = k}
  BY <1>1, <1>2, <1>4 DEF WorkerTypes, Kinds
<1>8. \A w \in Known' : w.kind = "pump" => w.of \in Endpoints
  BY <1>2, <1>5 DEF WorkerTypes
<1>9. WorkerTypes' BY <1>1, <1>4, <1>6, <1>7, <1>8 DEF WorkerTypes, SomeHandles
<1>10. \A w \in Known' : w.id \notin {tor', socks'} BY <1>1, <1>2, <1>5 DEF Numbers
<1>11. \A v, w \in Known' : v.id = w.id => v = w BY <1>1, <1>2, <1>5 DEF Numbers
<1>12. Alone(slot'["pump"]) BY <1>4 DEF Numbers, Alone, Kinds
<1>13. Numbers' BY <1>10, <1>11, <1>12 DEF Numbers
<1>. QED BY <1>9, <1>13

\* A session of Tor has a number too.
LEMMA SessionComes ==
    ASSUME WorkerTypes, Numbers, lastId' = lastId + 1, socks' = lastId + 1,
           UNCHANGED <<live, told, slot, tor>>
    PROVE  WorkerTypes' /\ Numbers'
<1>1. /\ lastId + 1 \in Nat /\ lastId + 1 \in 1 .. lastId + 1
      /\ \A w \in Known : w.id # lastId + 1
      /\ WorkersUpTo(lastId) \subseteq WorkersUpTo(lastId + 1)
      /\ 0 .. lastId \subseteq 0 .. lastId + 1 /\ lastId + 1 \in 0 .. lastId + 1
  BY NumberIsNew
<1>2. Known' = Known BY DEF Known
<1>3. WorkerTypes' BY <1>1, <1>2 DEF WorkerTypes
<1>4. Numbers' BY <1>1, <1>2 DEF Numbers
<1>. QED BY <1>3, <1>4

-----------------------------------------------------------------------------
(***************************************************************************)
(* The types of what the steps leave.                                      *)
(***************************************************************************)
LEMMA StepNames ==
    /\ \A name \in {"tunCancel", "tunWait", "ssTell", "failed", "connected", "routeOn", "routeOff",
                    "ssTake", "ssSpawn", "ssBypass", "wgTake", "wgParse", "wgSettle", "svcUninstall",
                    "svcInstall", "rasHangUp", "rasDial", "torKill", "torSpawn", "done", "exit"} :
          S(name) \in StepRec /\ S(name).step = name
    /\ \A name \in {"tunSpawn", "ssPort", "ssStore"}, n \in Nat :
          At(name, n) \in StepRec /\ At(name, n).step = name /\ At(name, n).of = n
    /\ \A name \in OfEndpoint, e \in Endpoints :
          At(name, e) \in StepRec /\ At(name, e).step = name /\ At(name, e).of = e
<1>1. {"tunCancel", "tunWait", "ssTell", "failed", "connected", "routeOn", "routeOff",
       "ssTake", "ssSpawn", "ssBypass", "wgTake", "wgParse", "wgSettle", "svcUninstall",
       "svcInstall", "rasHangUp", "rasDial", "torKill", "torSpawn", "done", "exit",
       "tunSpawn", "ssPort", "ssStore"} \subseteq Names \ OfEndpoint
  BY DEF Names, OfEndpoint, TorStart, TorRoute, OutlineSteps, WgSteps, ServerSteps, PptpSteps, EndSteps
<1>. QED BY <1>1, StepRecs

\* The lists that a step puts before the rest, or instead of it.
LEMMA ShortLists ==
    /\ <<>> \in Seq(StepRec) /\ NoTunnel \in Seq(StepRec) /\ NotUp \in Seq(StepRec)
    /\ <<S("tunCancel")>> \in Seq(StepRec) /\ <<S("failed")>> \in Seq(StepRec)
    /\ <<S("connected")>> \in Seq(StepRec) /\ <<S("ssTell")>> \in Seq(StepRec)
    /\ <<S("ssTell"), S("failed")>> \in Seq(StepRec) /\ <<S("tunCancel"), S("ssTell")>> \in Seq(StepRec)
    /\ <<S("tunCancel")>> \o NoTunnel \in Seq(StepRec)
    /\ \A e \in Endpoints : /\ <<At("wgClear", e)>> \in Seq(StepRec)
                            /\ <<At("wgClear", e)>> \o NotUp \in Seq(StepRec)
<1>1. /\ S("tunCancel") \in StepRec /\ S("ssTell") \in StepRec /\ S("failed") \in StepRec
      /\ S("routeOff") \in StepRec /\ S("connected") \in StepRec
      /\ \A e \in Endpoints : At("wgClear", e) \in StepRec
  BY StepNames DEF OfEndpoint
<1>2. /\ <<S("tunCancel")>> \in Seq(StepRec) /\ <<S("failed")>> \in Seq(StepRec)
      /\ <<S("connected")>> \in Seq(StepRec) /\ <<S("ssTell")>> \in Seq(StepRec)
      /\ <<S("routeOff")>> \in Seq(StepRec)
      /\ <<S("ssTell"), S("failed")>> \in Seq(StepRec) /\ <<S("tunCancel"), S("ssTell")>> \in Seq(StepRec)
      /\ \A e \in Endpoints : <<At("wgClear", e)>> \in Seq(StepRec)
  BY <1>1
<1>3. NoTunnel \in Seq(StepRec) BY <1>2 DEF NoTunnel
<1>4. NotUp \in Seq(StepRec) BY <1>2, NotUpList, NoStep
<1>. QED BY <1>2, <1>3, <1>4, JoinedLists, NoStep

\* What a step speaks of.
LEMMA StepOf ==
    ASSUME WinTypes, NEW name, Ready(name)
    PROVE  /\ name \in OfEndpoint => Of \in Endpoints
           /\ name \notin OfEndpoint => Of \in Nat
BY ReadyList DEF StepRec, Of

LEMMA JobTyped ==
    ASSUME WinTypes, Step
    PROVE  job' \in Seq(StepRec)
<1>1. \A name : Ready(name) => \A steps \in Seq(StepRec) : steps \o Tail(job) \in Seq(StepRec)
  BY ReadyList
<1>2. ASSUME NEW name, NEW steps \in Seq(StepRec), Ready(name), Then(steps) \/ Fails(steps)
      PROVE  job' \in Seq(StepRec)
  BY <1>1, <1>2 DEF Then, Fails
<1>3. CASE tunCancel BY <1>2, <1>3, ShortLists DEF tunCancel
<1>4. CASE tunSpawn BY <1>2, <1>4, ShortLists DEF tunSpawn
<1>5. CASE tunWait BY <1>2, <1>5, ShortLists DEF tunWait
<1>6. CASE routeSet \/ connected \/ failed BY <1>2, <1>6, ShortLists DEF routeSet, connected, failed
<1>7. CASE ssTake BY <1>2, <1>7, ShortLists DEF ssTake
<1>8. CASE ssTell \/ ssSpawn \/ ssStore BY <1>2, <1>8, ShortLists DEF ssTell, ssSpawn, ssStore
<1>9. CASE ssPort \/ ssBypass BY <1>2, <1>9, ShortLists DEF ssPort, ssBypass
<1>10. CASE wgTake
  <2>1. slot["pump"] \cap live \subseteq Known BY DEF Known
  <2>2. \A w \in slot["pump"] \cap live : w.of \in Endpoints
    BY <2>1 DEF WinTypes, WorkerTypes
  <2>3. PICK steps \in Seq(StepRec) : Then(steps) BY <1>10, <2>2, ShortLists DEF wgTake
  <2>. QED BY <1>2, <1>10, <2>3 DEF wgTake
<1>11. CASE wgClear \/ wgRoutes BY <1>2, <1>11, ShortLists DEF wgClear, wgRoutes
<1>12. CASE wgParse BY <1>2, <1>12, ShortLists DEF wgParse
<1>13. CASE wgOpen
  <2>1. Of \in Endpoints BY <1>13, StepOf DEF wgOpen, OfEndpoint
  <2>. QED BY <1>2, <1>13, <2>1, ShortLists DEF wgOpen
<1>14. CASE wgPump
  <2>1. Of \in Endpoints BY <1>14, StepOf DEF wgPump, OfEndpoint
  <2>. QED BY <1>2, <1>14, <2>1, ShortLists DEF wgPump
<1>15. CASE wgSettle
  <2>1. Then(<<S("connected")>>) \/ Then(<<S("failed")>>) BY <1>15 DEF wgSettle
  <2>. QED BY <1>2, <1>15, <2>1, ShortLists DEF wgSettle
<1>16. CASE svcUninstall \/ svcInstall \/ rasHangUp
  BY <1>2, <1>16, ShortLists DEF svcUninstall, svcInstall, rasHangUp
<1>17. CASE rasDial BY <1>2, <1>17, ShortLists DEF rasDial
<1>18. CASE torKill \/ torSpawn \/ done BY <1>2, <1>18, ShortLists DEF torKill, torSpawn, done
<1>19. CASE exit BY <1>19, ShortLists DEF exit, Gone
<1>. QED BY <1>3, <1>4, <1>5, <1>6, <1>7, <1>8, <1>9, <1>10, <1>11, <1>12, <1>13, <1>14, <1>15,
            <1>16, <1>17, <1>18, <1>19 DEF Step

LEMMA GoneTypes ==
    ASSUME WinTypes, Numbers, Gone, client' \in {"up", "down"}, elevated' \in BOOLEAN, lives' \in Nat
    PROVE  WinTypes' /\ Numbers'
<1>1. OwnTypes'
  <2>1. active' \in Connection /\ job' \in Seq(StepRec) BY ShortLists DEF Gone, None, Connection
  <2>. QED BY <2>1 DEF WinTypes, OwnTypes, Gone, system
<1>2. slot' \in SomeHandles /\ slot'["tun"] = {} /\ slot'["pump"] = {}
  BY DEF Gone, NoHandles, SomeHandles, Kinds
<1>3. WorkerTypes' /\ Numbers'
  BY <1>2, WorkersGo DEF WinTypes, WorkerTypes, Gone, system
<1>. QED BY <1>1, <1>3 DEF WinTypes

LEMMA StepOwnTypes ==
    ASSUME WinTypes, Step, ~ exit
    PROVE  OwnTypes'
<1>1. job' \in Seq(StepRec) BY JobTyped
<1>2. active' \in Connection
  <2>1. active \in Connection BY DEF WinTypes, OwnTypes
  <2>2. \A phase \in {"Connected", "Error"} : [active EXCEPT !.phase = phase] \in Connection
    BY <2>1 DEF Connection
  <2>3. active' \in {active, [active EXCEPT !.phase = "Connected"], [active EXCEPT !.phase = "Error"]}
    BY DEF Step, tunCancel, tunSpawn, tunWait, routeSet, connected, failed, ssTake, ssTell, ssSpawn,
           ssPort, ssBypass, ssStore, wgTake, wgClear, wgParse, wgOpen, wgRoutes, wgPump, wgSettle,
           svcUninstall, svcInstall, rasHangUp, rasDial, torKill, torSpawn, done
  <2>. QED BY <2>1, <2>2, <2>3
<1>3. route' \in BOOLEAN /\ UNCHANGED process
  <2>1. CASE routeSet
    <3>1. Ready("routeOn") \in BOOLEAN BY DEF Ready
    <3>. QED BY <2>1, <3>1 DEF routeSet
  <2>2. CASE ~ routeSet
    BY <2>2 DEF WinTypes, OwnTypes, process, Step, tunCancel, tunSpawn, tunWait, connected, failed, ssTake, ssTell, ssSpawn, ssPort,
           ssBypass, ssStore, wgTake, wgClear, wgParse, wgOpen, wgRoutes, wgPump, wgSettle,
           svcUninstall, svcInstall, rasHangUp, rasDial, torKill, torSpawn, done
  <2>. QED BY <2>1, <2>2
<1>4. pins' \subseteq Endpoints
  <2>1. CASE wgRoutes
    <3>1. Of \in Endpoints BY <2>1, StepOf DEF wgRoutes, OfEndpoint
    <3>. QED BY <2>1, <3>1 DEF wgRoutes, WinTypes, OwnTypes
  <2>2. CASE wgClear BY <2>2 DEF wgClear, WinTypes, OwnTypes
  <2>3. CASE ~ wgRoutes /\ ~ wgClear
    <3>1. pins' = pins
      BY <2>3 DEF Step, tunCancel, tunSpawn, tunWait, routeSet, connected, failed, ssTake, ssTell,
           ssSpawn, ssPort, ssBypass, ssStore, wgTake, wgParse, wgOpen, wgPump, wgSettle,
           svcUninstall, svcInstall, rasHangUp, rasDial, torKill, torSpawn, done, system
    <3>. QED BY <3>1 DEF WinTypes, OwnTypes
  <2>. QED BY <2>1, <2>2, <2>3
<1>5. dialed' \in BOOLEAN /\ service' \in BOOLEAN
  BY DEF WinTypes, OwnTypes, Step, tunCancel, tunSpawn, tunWait, routeSet, connected, failed, ssTake,
         ssTell, ssSpawn, ssPort, ssBypass, ssStore, wgTake, wgClear, wgParse, wgOpen, wgRoutes,
         wgPump, wgSettle, svcUninstall, svcInstall, rasHangUp, rasDial, torKill, torSpawn, done,
         system
<1>6. mixed' = mixed /\ clean' \in BOOLEAN
  BY DEF WinTypes, OwnTypes, Step, tunCancel, tunSpawn, tunWait, routeSet, connected, failed, ssTake,
         ssTell, ssSpawn, ssPort, ssBypass, ssStore, wgTake, wgClear, wgParse, wgOpen, wgRoutes,
         wgPump, wgSettle, svcUninstall, svcInstall, rasHangUp, rasDial, torKill, torSpawn, done,
         history
<1>7. astray' \subseteq Endpoints \cup {"tor", "dialed", "service"}
  <2>1. \E x : astray' \in {astray, astray \ {x}}
    BY DEF Step, tunCancel, tunSpawn, tunWait, routeSet, connected, failed, ssTake,
           ssTell, ssSpawn, ssPort, ssBypass, ssStore, wgTake, wgClear, wgParse, wgOpen, wgRoutes,
           wgPump, wgSettle, svcUninstall, svcInstall, rasHangUp, rasDial, torKill, torSpawn, done,
           history
  <2>. QED BY <2>1 DEF WinTypes, OwnTypes
<1>. QED BY <1>1, <1>2, <1>3, <1>4, <1>5, <1>6, <1>7 DEF WinTypes, OwnTypes, process

LEMMA StepWorkerTypes ==
    ASSUME WinTypes, Numbers, Step, ~ exit
    PROVE  WorkerTypes' /\ Numbers'
<1>1. WorkerTypes /\ slot \in SomeHandles /\ lastId \in Nat /\ told \subseteq 0 .. lastId
      /\ live \subseteq WorkersUpTo(lastId) /\ tor \in 0 .. lastId
  BY DEF WinTypes, WorkerTypes, SomeHandles
<1>2. /\ \A w \in live : w.id \in 0 .. lastId
      /\ \A w \in slot["tun"] : w.id \in 0 .. lastId
  <2>1. live \cup slot["tun"] \subseteq WorkersUpTo(lastId) BY DEF WinTypes, WorkerTypes
  <2>. QED BY <1>1, <2>1 DEF WorkersUpTo
<1>3. \A k \in Kinds : /\ [slot EXCEPT ![k] = {}] \in SomeHandles
                       /\ \A o \in Kinds : [slot EXCEPT ![k] = {}][o] \subseteq slot[o]
  BY <1>1 DEF SomeHandles
<1>4. "tun" \in Kinds /\ "ss" \in Kinds /\ "pump" \in Kinds BY DEF Kinds
<1>5. ASSUME UNCHANGED <<lastId, live, tor, socks>>, told' \subseteq 0 .. lastId,
             slot' = slot \/ (\E k \in Kinds : slot' = [slot EXCEPT ![k] = {}])
      PROVE  WorkerTypes' /\ Numbers'
  BY <1>1, <1>3, <1>4, <1>5, WorkersGo
<1>6. CASE tunCancel
  <2>1. told' \subseteq 0 .. lastId BY <1>1, <1>2, <1>6 DEF tunCancel
  <2>. QED BY <1>4, <1>5, <1>6, <2>1 DEF tunCancel, system
<1>7. CASE tunSpawn
  <2>1. CASE elevated
    <3>1. Of \in Nat BY <1>7, StepOf DEF tunSpawn, OfEndpoint
    <3>. QED BY <1>1, <1>4, <1>7, <2>1, <3>1, WorkerComes DEF tunSpawn, system
  <2>2. CASE ~ elevated BY <1>1, <1>7, <2>2, WorkersStay DEF tunSpawn, workers, system
  <2>. QED BY <2>1, <2>2
<1>8. CASE \/ tunWait \/ routeSet \/ connected \/ failed \/ ssPort \/ ssBypass
           \/ wgParse \/ wgOpen \/ wgSettle
  BY <1>1, <1>8, WorkersStay
     DEF tunWait, routeSet, connected, failed, ssPort, ssBypass, wgParse, wgOpen, wgSettle, system
<1>9. CASE \/ wgClear \/ wgRoutes \/ svcUninstall \/ svcInstall \/ rasHangUp \/ rasDial \/ done
  BY <1>1, <1>9, WorkersStay
     DEF wgClear, wgRoutes, svcUninstall, svcInstall, rasHangUp, rasDial, done, system
<1>10. CASE ssTake BY <1>1, <1>4, <1>5, <1>10 DEF ssTake, system
<1>11. CASE ssTell
  <2>1. told' \subseteq 0 .. lastId BY <1>1, <1>2, <1>11 DEF ssTell
  <2>. QED BY <1>5, <1>11, <2>1 DEF ssTell, system
<1>12. CASE ssSpawn
  BY <1>1, <1>4, <1>12, WorkerComes DEF ssSpawn, system
<1>13. CASE ssStore
  <2>1. Of \in Nat BY <1>13, StepOf DEF ssStore, OfEndpoint
  <2> DEFINE h == Worker("ss", Of, IF \E w \in slot["tun"] : w.of = Of THEN Of ELSE 0)
  <2>2. h \in [kind : Kinds, id : Nat, of : Nat \cup Endpoints]
    BY <1>4, <2>1 DEF Worker
  <2> HIDE DEF h
  <2>3. slot' = [slot EXCEPT !["ss"] = {h}] BY <1>13 DEF ssStore, h
  <2>4. slot' \in SomeHandles /\ slot'["tun"] = slot["tun"] /\ slot'["pump"] = slot["pump"]
    BY <1>1, <1>4, <2>2, <2>3 DEF SomeHandles
  <2>. QED BY <1>1, <1>13, <2>4, WorkersGo DEF ssStore, system
<1>14. CASE wgTake
  <2>1. told' \subseteq 0 .. lastId BY <1>1, <1>2, <1>14 DEF wgTake
  <2>. QED BY <1>4, <1>5, <1>14, <2>1 DEF wgTake, system
<1>15. CASE wgPump
  <2>1. Of \in Endpoints BY <1>15, StepOf DEF wgPump, OfEndpoint
  <2>2. CASE lastId' = lastId
    BY <1>1, <1>15, <2>2, WorkersStay DEF wgPump, workers, system
  <2>3. CASE lastId' # lastId
    BY <1>1, <1>4, <1>15, <2>1, <2>3, WorkerComes DEF wgPump, system
  <2>. QED BY <2>2, <2>3
<1>16. CASE torKill
  BY <1>1, <1>16, WorkersGo DEF torKill
<1>17. CASE torSpawn
  BY <1>1, <1>17, WorkersGo DEF torSpawn, workers
<1>. QED BY <1>6, <1>7, <1>8, <1>9, <1>10, <1>11, <1>12, <1>13, <1>14, <1>15, <1>16, <1>17 DEF Step

-----------------------------------------------------------------------------
(***************************************************************************)
(* Steps that leave another list, workers or system.                       *)
(***************************************************************************)
LEMMA BelongsOn ==
    ASSUME NEW list \in Seq(StepRec), list # <<>>, NEW front \in Seq(StepRec), ~ Has(front, {"done"}),
           NEW there \in BOOLEAN, NEW kinds, NEW ends, Belongs(list, there, kinds, ends),
           Head(list).step \notin ends \/ Has(front, ends)
    PROVE  Belongs(front \o Tail(list), there, kinds, ends)
<1> SUFFICES ASSUME there, active.kind \notin kinds
             PROVE  Has(front \o Tail(list), {"done"}) /\ Guards(front \o Tail(list), {"done"}, ends)
  BY DEF Belongs
<1>1. Has(list, {"done"}) /\ Guards(list, {"done"}, ends) BY DEF Belongs
<1>2. Tail(list) \in Seq(StepRec) BY RestOfList
<1>3. Has(Tail(list), {"done"}) BY <1>1, HasRest, GuardsRest
<1>4. Guards(front, {"done"}, ends) BY DEF Guards, Has
<1>5. Has(front, ends) \/ Guards(Tail(list), {"done"}, ends) BY <1>1, GuardsRest
<1>6. Has(front \o Tail(list), {"done"}) BY <1>2, <1>3, HasJoined
<1>7. Guards(front \o Tail(list), {"done"}, ends) BY <1>2, <1>4, <1>5, GuardsJoined
<1>. QED BY <1>6, <1>7

\* What was there and is there after the step was not what the step ends; what
\* is new is the connection's.
LEMMA OwnedOn ==
    ASSUME job \in Seq(StepRec), job # <<>>, Owned(job), NEW front \in Seq(StepRec),
           ~ Has(front, {"done"}), job' = front \o Tail(job), active'.kind = active.kind,
           ~ NoTun' => \/ active.kind \in {"tor", "outline"}
                       \/ ~ NoTun /\ (Head(job).step \notin TunOff \/ Has(front, TunOff)),
           ~ NoSs' => \/ active.kind = "outline"
                      \/ ~ NoSs /\ (Head(job).step \notin {"ssTell", "ssTake"}
                                    \/ Has(front, {"ssTell", "ssTake"})),
           slot'["ss"] # {} => \/ active.kind = "outline"
                               \/ slot["ss"] # {} /\ Head(job).step # "ssTake",
           ~ NoPump' => \/ active.kind \in {"wg", "server"}
                        \/ ~ NoPump /\ Head(job).step # "wgTake",
           tor' # 0 /\ "tor" \notin astray' =>
              active.kind = "tor" \/ (tor # 0 /\ "tor" \notin astray /\ Head(job).step # "torKill"),
           dialed' /\ "dialed" \notin astray' =>
              active.kind = "pptp" \/ (dialed /\ "dialed" \notin astray /\ Head(job).step # "rasHangUp"),
           service' /\ "service" \notin astray' =>
              /\ elevated' /\ client' = "up"
              /\ \/ active.kind = "server"
                 \/ service /\ "service" \notin astray /\ Head(job).step # "svcUninstall"
    PROVE  Owned(job)'
<1> DEFINE next == front \o Tail(job)
<1>1. \A there \in BOOLEAN : \A kinds, ends :
         Belongs(job, there, kinds, ends) /\ (Head(job).step \notin ends \/ Has(front, ends))
            => Belongs(next, there, kinds, ends)
  BY BelongsOn
<1> HIDE DEF next
<1>2. ~ NoTun' => \/ active.kind \in {"tor", "outline"}
                  \/ Has(next, {"done"}) /\ Guards(next, {"done"}, TunOff)
  <2>1. Belongs(job, ~ NoTun, {"tor", "outline"}, TunOff) BY DEF Owned
  <2>2. (~ NoTun) \in BOOLEAN BY DEF NoTun
  <2>3. Head(job).step \notin TunOff \/ Has(front, TunOff)
           => Belongs(next, ~ NoTun, {"tor", "outline"}, TunOff)
    BY <1>1, <2>1, <2>2
  <2>. QED BY <2>3 DEF Belongs
<1>3. ~ NoSs' => \/ active.kind \in {"outline"}
                 \/ Has(next, {"done"}) /\ Guards(next, {"done"}, {"ssTell", "ssTake"})
  <2>1. Belongs(job, ~ NoSs, {"outline"}, {"ssTell", "ssTake"}) BY DEF Owned
  <2>2. (~ NoSs) \in BOOLEAN BY DEF NoSs
  <2>3. Head(job).step \notin {"ssTell", "ssTake"} \/ Has(front, {"ssTell", "ssTake"})
           => Belongs(next, ~ NoSs, {"outline"}, {"ssTell", "ssTake"})
    BY <1>1, <2>1, <2>2
  <2>. QED BY <2>3 DEF Belongs
<1>4. slot'["ss"] # {} => \/ active.kind \in {"outline"}
                          \/ Has(next, {"done"}) /\ Guards(next, {"done"}, {"ssTake"})
  <2>1. Belongs(job, slot["ss"] # {}, {"outline"}, {"ssTake"}) BY DEF Owned
  <2>2. (slot["ss"] # {}) \in BOOLEAN OBVIOUS
  <2>3. Head(job).step \notin {"ssTake"} => Belongs(next, slot["ss"] # {}, {"outline"}, {"ssTake"})
    BY <1>1, <2>1, <2>2
  <2>. QED BY <2>3 DEF Belongs
<1>5. ~ NoPump' => \/ active.kind \in {"wg", "server"}
                   \/ Has(next, {"done"}) /\ Guards(next, {"done"}, {"wgTake"})
  <2>1. Belongs(job, ~ NoPump, {"wg", "server"}, {"wgTake"}) BY DEF Owned
  <2>2. (~ NoPump) \in BOOLEAN BY DEF NoPump
  <2>3. Head(job).step \notin {"wgTake"} => Belongs(next, ~ NoPump, {"wg", "server"}, {"wgTake"})
    BY <1>1, <2>1, <2>2
  <2>. QED BY <2>3 DEF Belongs
<1>6. tor' # 0 /\ "tor" \notin astray' =>
         \/ active.kind \in {"tor"}
         \/ Has(next, {"done"}) /\ Guards(next, {"done"}, {"torKill"})
  <2>1. Belongs(job, tor # 0 /\ "tor" \notin astray, {"tor"}, {"torKill"}) BY DEF Owned
  <2>2. (tor # 0 /\ "tor" \notin astray) \in BOOLEAN OBVIOUS
  <2>3. Head(job).step \notin {"torKill"}
           => Belongs(next, tor # 0 /\ "tor" \notin astray, {"tor"}, {"torKill"})
    BY <1>1, <2>1, <2>2
  <2>. QED BY <2>3 DEF Belongs
<1>7. dialed' /\ "dialed" \notin astray' =>
         \/ active.kind \in {"pptp"}
         \/ Has(next, {"done"}) /\ Guards(next, {"done"}, {"rasHangUp"})
  <2>1. Belongs(job, dialed /\ "dialed" \notin astray, {"pptp"}, {"rasHangUp"}) BY DEF Owned
  <2>2. (dialed /\ "dialed" \notin astray) \in BOOLEAN OBVIOUS
  <2>3. Head(job).step \notin {"rasHangUp"}
           => Belongs(next, dialed /\ "dialed" \notin astray, {"pptp"}, {"rasHangUp"})
    BY <1>1, <2>1, <2>2
  <2>. QED BY <2>3 DEF Belongs
<1>8. service' /\ "service" \notin astray' =>
         \/ active.kind \in {"server"}
         \/ Has(next, {"done"}) /\ Guards(next, {"done"}, {"svcUninstall"})
  <2>1. Belongs(job, service /\ "service" \notin astray, {"server"}, {"svcUninstall"}) BY DEF Owned
  <2>2. (service /\ "service" \notin astray) \in BOOLEAN OBVIOUS
  <2>3. Head(job).step \notin {"svcUninstall"}
           => Belongs(next, service /\ "service" \notin astray, {"server"}, {"svcUninstall"})
    BY <1>1, <2>1, <2>2
  <2>. QED BY <2>3 DEF Belongs
<1>9. job' = next BY DEF next
<1>. QED BY <1>2, <1>3, <1>4, <1>5, <1>6, <1>7, <1>8, <1>9 DEF Owned, Belongs

\* Who was told to end stays so, and nobody comes.
LEMMA MoreTold ==
    ASSUME told \subseteq told', live' \subseteq live
    PROVE  /\ \A kind : Untold(kind)' \subseteq Untold(kind)
           /\ (NoTun => NoTun') /\ (NoSs => NoSs') /\ (NoPump => NoPump')
BY DEF Untold, NoTun, NoSs, NoPump

\* A step after which the list goes on.
LEMMA NextOfList ==
    ASSUME WinTypes, Core(job), NEW name, Ready(name), Then(<<>>)
    PROVE  /\ job \in Seq(StepRec) /\ job # <<>> /\ Head(job).step = name
           /\ job' = Tail(job) /\ Tail(job) \in Seq(StepRec) /\ job' = <<>> \o Tail(job)
           /\ <<>> \in Seq(StepRec) /\ ~ Has(<<>>, {"done"})
           /\ name # "exit" => JobInv(Tail(job)) /\ TorInv(Tail(job))
           /\ name \notin TunOff => TunInv(Tail(job))
           /\ name # "ssSpawn" => ComingInv(Tail(job))
           /\ name \notin {"tunCancel", "ssTake", "ssTell", "ssStore"} => SsInv(Tail(job))
           /\ name \notin {"wgClear", "wgPump"} => PumpInv(Tail(job))
           /\ name \notin Endings => Owned(Tail(job))
<1>1. /\ job \in Seq(StepRec) /\ job # <<>> /\ Head(job).step = name
      /\ Tail(job) \in Seq(StepRec) /\ <<>> \o Tail(job) = Tail(job)
  BY ReadyList
<1>2. job' = Tail(job) /\ job' = <<>> \o Tail(job) BY <1>1 DEF Then
<1>3. <<>> \in Seq(StepRec) /\ ~ Has(<<>>, {"done"}) BY NoStep
<1>4. name # "exit" => JobInv(Tail(job)) /\ TorInv(Tail(job))
  BY <1>1, JobInvRest, TorInvRest DEF Core
<1>5. name \notin TunOff => TunInv(Tail(job)) BY <1>1, TunInvRest DEF Core
<1>6. name # "ssSpawn" => ComingInv(Tail(job)) BY <1>1, ComingInvRest DEF Core
<1>7. name \notin {"tunCancel", "ssTake", "ssTell", "ssStore"} => SsInv(Tail(job))
  BY <1>1, SsInvRest DEF Core
<1>8. name \notin {"wgClear", "wgPump"} => PumpInv(Tail(job)) BY <1>1, PumpInvRest DEF Core
<1>9. name \notin Endings => Owned(Tail(job)) BY <1>1, OwnedRest DEF Core
<1>. QED BY <1>1, <1>2, <1>3, <1>4, <1>5, <1>6, <1>7, <1>8, <1>9

\* The tunnel is told to end: it is none of anybody's steps any more.
LEMMA CoreTunCancel ==
    ASSUME WinTypes, Numbers, Core(job), tunCancel
    PROVE  Core(job)'
<1> DEFINE rest == Tail(job)
<1>1. Ready("tunCancel") /\ Then(<<>>) BY DEF tunCancel
<1>2. /\ job \in Seq(StepRec) /\ job # <<>> /\ Head(job).step = "tunCancel"
      /\ job' = rest /\ rest \in Seq(StepRec) /\ job' = <<>> \o rest
      /\ <<>> \in Seq(StepRec) /\ ~ Has(<<>>, {"done"})
      /\ JobInv(rest) /\ TorInv(rest) /\ ComingInv(rest) /\ PumpInv(rest)
  BY <1>1, NextOfList DEF TunOff
<1>3. /\ told' = told \cup {w.id : w \in slot["tun"]} /\ live' = live /\ lastId' = lastId
      /\ UNCHANGED <<process, active, route, socks, lastId, live, system, history>>
  BY DEF tunCancel
<1>4. slot'["tun"] = {} /\ slot'["ss"] = slot["ss"] /\ slot'["pump"] = slot["pump"]
  BY DEF tunCancel, WinTypes, WorkerTypes, Kinds
<1> HIDE DEF rest
<1>5. NoTun'
  <2>1. \A w \in Untold("tun") : w \in slot["tun"] BY DEF Core, TunInv
  <2>. QED BY <1>3, <2>1 DEF NoTun, Untold
<1>6. /\ \A kind : Untold(kind)' \subseteq Untold(kind)
      /\ (NoSs => NoSs') /\ (NoPump => NoPump')
  BY <1>3, MoreTold
<1>7. JobInv(job)' BY <1>2, <1>3 DEF JobInv, history
<1>8. TorInv(job)'
  <2>1. \A w \in slot["tun"] : w.id # socks BY DEF Numbers, Known
  <2>. QED BY <1>2, <1>3, <2>1 DEF TorInv, system
<1>9. TunInv(job)' BY <1>5 DEF TunInv, NoTun
<1>10. ComingInv(job)' BY <1>2, <1>3, <1>4 DEF ComingInv
<1>11. SsInv(job)'
  <2>1. NoSs \/ slot["ss"] # {} \/ Has(rest, {"ssStore"}) \/ TellsSoon(rest)
    <3>1. TellsSoon(job) => TellsSoon(rest)
      <4>1. /\ Len(job) \in Nat \ {0} /\ Head(job) = job[1] /\ Len(rest) = Len(job) - 1
            /\ \A i \in 1 .. Len(job) - 1 : rest[i] = job[i + 1]
        BY <1>2, RestOfList DEF rest
      <4>2. Len(job) > 1 => 1 \in 1 .. Len(job) - 1 BY <4>1
      <4>. QED BY <1>2, <4>1, <4>2 DEF TellsSoon
    <3>2. Has(job, {"ssStore"}) => Has(rest, {"ssStore"}) BY <1>2, HasRest DEF rest
    <3>. QED BY <3>1, <3>2 DEF Core, SsInv
  <2>2. slot["ss"] = {} \/ Guards(rest, {"tunSpawn"}, {"ssTake"})
    BY <1>2, GuardsRest DEF Core, SsInv, rest
  <2>. QED BY <1>2, <1>4, <1>5, <1>6, <2>1, <2>2 DEF SsInv, NoTun
<1>12. PumpInv(job)'
  <2>1. \A w \in slot["pump"] \cap live : w.id \notin told'
    <3> SUFFICES ASSUME NEW w \in slot["pump"] \cap live, NEW v \in slot["tun"], v.id = w.id
                 PROVE  FALSE
      BY <1>2, <1>3 DEF PumpInv
    <3>1. w = v BY DEF Numbers, Known
    <3>. QED BY <3>1 DEF WinTypes, WorkerTypes
  <2>2. \A e \in pins \ astray : \E w \in slot["pump"] \cap live : w.of = e
    BY <1>2, PinsBefore DEF Core, At
  <2>. QED BY <1>2, <1>3, <1>4, <2>1, <2>2 DEF PumpInv, system, history
<1>13. Owned(job)'
  BY <1>2, <1>3, <1>4, <1>5, <1>6, OwnedOn DEF Core, system, history, process, Owned, rest
<1>. QED BY <1>7, <1>8, <1>9, <1>10, <1>11, <1>12, <1>13 DEF Core

LEMMA CoreTunSpawn ==
    ASSUME WinTypes, Numbers, Core(job), tunSpawn
    PROVE  Core(job)'
<1> DEFINE rest == Tail(job)
           new == Worker("tun", lastId + 1, Of)
<1>1. Ready("tunSpawn") /\ UNCHANGED <<process, active, route, socks, told, system, history>>
  BY DEF tunSpawn
<1>2. CASE ~ elevated
  <2>1. job' = NoTunnel /\ UNCHANGED <<lastId, live, slot>> BY <1>2 DEF tunSpawn, Fails
  <2>2. Core(job') BY <1>1, <2>1, CoreNoTunnel
  <2>. QED BY <1>1, <2>1, <2>2, CoreFrame DEF process, workers, history
<1>3. CASE elevated
  <2>1. Then(<<>>) /\ lastId' = lastId + 1 /\ live' = live \cup {new}
        /\ slot' = [slot EXCEPT !["tun"] = {new}]
    BY <1>3 DEF tunSpawn
  <2>2. /\ job \in Seq(StepRec) /\ job # <<>> /\ Head(job).step = "tunSpawn"
        /\ job' = rest /\ rest \in Seq(StepRec) /\ job' = <<>> \o rest
        /\ <<>> \in Seq(StepRec) /\ ~ Has(<<>>, {"done"})
        /\ JobInv(rest) /\ TorInv(rest) /\ SsInv(rest) /\ PumpInv(rest)
    BY <1>1, <2>1, NextOfList DEF TunOff
  <2>3. new.kind = "tun" /\ new.id = lastId + 1 /\ new.of = Of BY DEF Worker
  <2>4. slot'["tun"] = {new} /\ slot'["ss"] = slot["ss"] /\ slot'["pump"] = slot["pump"]
    BY <2>1 DEF WinTypes, WorkerTypes, Kinds
  <2>5. /\ lastId \in Nat /\ lastId + 1 \notin told /\ 1 .. lastId \subseteq 1 .. lastId + 1
        /\ \A w \in Known : w.id # lastId + 1
    BY NumberIsNew DEF WinTypes, WorkerTypes
  <2>6. /\ Head(job) = job[1] /\ 1 \in 1 .. Len(job) /\ Len(rest) = Len(job) - 1
        /\ Len(job) \in Nat
        /\ \A i \in 1 .. Len(job) - 1 : rest[i] = job[i + 1] /\ i + 1 \in 1 .. Len(job)
    BY <2>2, RestOfList
  <2>7. ~ Has(rest, Risky) BY <2>2, NoneAfterRest DEF Core, JobInv, Ordered
  <2>8. /\ active.kind \in {"tor", "outline"} /\ ~ Has(job, {"done"})
    BY <2>2, StepOfTunnel DEF Core, JobInv
  <2> HIDE DEF rest, new
  <2>9. Of \in 1 .. lastId /\ Of \notin told
    <3>1. Of # 0 /\ Of \notin told /\ (~ Has(job, {"ssSpawn"}) => Of <= lastId)
      BY <2>2, <2>6 DEF Core, ComingInv, Of
    <3>2. ~ Has(rest, {"ssSpawn"}) BY <2>7 DEF Has, Risky
    <3>3. ~ Has(job, {"ssSpawn"}) BY <2>2, <3>2, HasRest DEF rest
    <3>4. Of \in Nat BY <1>1, StepOf DEF OfEndpoint
    <3>. QED BY <2>5, <3>1, <3>3, <3>4
  <2>10. NoTun BY <2>2, GuardsRest DEF Core, TunInv, Risky
  <2>11. NoPump
    <3>1. Belongs(job, ~ NoPump, {"wg", "server"}, {"wgTake"}) BY DEF Core, Owned
    <3>. QED BY <2>8, <3>1 DEF Belongs
  <2>12. Untold("tun")' = {new} /\ Untold("ss")' = Untold("ss") /\ Untold("pump")' = Untold("pump")
    BY <1>1, <2>1, <2>3, <2>5, <2>10 DEF Untold, NoTun
  <2>13. (NoSs => NoSs') /\ (NoPump => NoPump') /\ (NoPump' => NoPump) /\ (NoSs' => NoSs)
    BY <2>12 DEF NoSs, NoPump
  <2>14. JobInv(job)' BY <1>1, <2>2 DEF JobInv, history
  <2>15. TorInv(job)' BY <1>1, <2>2 DEF TorInv, system
  <2>16. TunInv(job)'
    <3>1. Guards(rest, Risky, TunOff) BY <2>7 DEF Guards, Has
    <3>2. new \in slot'["tun"] /\ new.of \in 1 .. lastId' /\ new.of \notin told'
      BY <1>1, <2>1, <2>3, <2>4, <2>5, <2>9
    <3>. QED BY <2>2, <2>11, <2>12, <2>13, <3>1, <3>2 DEF TunInv
  <2>17. ComingInv(job)' BY <2>2, <2>7 DEF ComingInv, Has, Risky
  <2>18. SsInv(job)'
    <3>1. slot["ss"] = {}
      <4>1. ~ Guards(job, {"tunSpawn"}, {"ssTake"}) BY <2>2, GuardsRest
      <4>. QED BY <4>1 DEF Core, SsInv
    <3>2. ASSUME NEW i \in 1 .. Len(rest), rest[i].step = "ssStore" PROVE new.of = rest[i].of
      <4>1. \A p, q \in 1 .. Len(job) :
               {job[p].step, job[q].step} \subseteq {"tunSpawn", "ssStore"} => job[p].of = job[q].of
        BY DEF Core, JobInv, Ordered
      <4>2. i + 1 \in 1 .. Len(job) /\ job[i + 1].step = "ssStore" /\ job[i + 1] = rest[i]
        BY <2>6, <3>2
      <4>3. job[1].step = "tunSpawn" BY <2>2, <2>6
      <4>4. job[1].of = rest[i].of BY <2>6, <4>1, <4>2, <4>3
      <4>. QED BY <2>3, <2>6, <4>4 DEF Of
    <3>. QED BY <2>2, <2>4, <2>12, <2>13, <3>1, <3>2 DEF SsInv
  <2>19. PumpInv(job)'
    <3>1. slot'["pump"] \cap live' = slot["pump"] \cap live
      BY <2>1, <2>3, <2>4, <2>5 DEF Known
    <3>. QED BY <1>1, <2>1, <2>2, <2>3, <2>4, <3>1 DEF PumpInv, system, history
  <2>20. Owned(job)'
    BY <1>1, <2>2, <2>4, <2>8, <2>13, OwnedOn DEF Core, system, history, process, Owned, rest
  <2>. QED BY <2>14, <2>15, <2>16, <2>17, <2>18, <2>19, <2>20 DEF Core
<1>. QED BY <1>2, <1>3

\* Two steps put others before the rest.
LEMMA JobInvOn ==
    ASSUME NEW list \in Seq(StepRec), list # <<>>, JobInv(list), NEW front \in Seq(StepRec),
           Only(front, EndSteps), ~ Has(front, {"done"}),
           \/ Head(list).step = "ssTake" /\ Only(front, OutlineSteps)
           \/ Head(list).step = "wgTake" /\ Only(front, WgSteps)
    PROVE  JobInv(front \o Tail(list))
<1> DEFINE rest == Tail(list)
           next == front \o rest
<1>1. rest \in Seq(StepRec) /\ JobInv(rest) BY RestOfList, JobInvRest
<1> HIDE DEF rest
<1>2. \A A : Only(front, A) /\ Only(rest, A) => Only(next, A) BY <1>1, OnlyJoined
<1>3. \A A : Has(next, A) <=> Has(front, A) \/ Has(rest, A) BY <1>1, HasJoined
<1>4. \A A : Only(list, A) => Only(rest, A) /\ Head(list).step \in A BY OnlyRest DEF rest
<1>5. Ordered(next)
  <2>1. Only(front, Plain) BY DEF Only, EndSteps, Plain, Names
  <2>. QED BY <1>1, <2>1, OrderedJoined DEF JobInv
<1>6. ListOf(active.kind, next)
  <2>1. CASE Only(list, EndSteps) /\ (active.kind # "none" /\ list # <<>> => Has(list, {"exit"}))
    <3>1. Only(next, EndSteps) BY <1>2, <1>4, <2>1
    <3>2. active.kind # "none" => Has(rest, {"exit"}) BY <2>1, HasRest DEF rest
    <3>. QED BY <1>3, <3>1, <3>2 DEF ListOf
  <2>2. CASE active.kind = "tor" /\ (Only(list, TorStart) \/ Only(list, TorRoute))
    BY <1>4, <2>2 DEF TorStart, TorRoute
  <2>3. CASE active.kind = "outline" /\ Only(list, OutlineSteps)
    <3>1. Only(front, OutlineSteps) BY <1>4, <2>3 DEF OutlineSteps, TorRoute
    <3>. QED BY <1>2, <1>4, <2>3, <3>1 DEF ListOf
  <2>4. CASE active.kind = "wg" /\ Only(list, WgSteps)
    <3>1. Only(front, WgSteps) BY <1>4, <2>4 DEF WgSteps
    <3>. QED BY <1>2, <1>4, <2>4, <3>1 DEF ListOf
  <2>5. CASE active.kind = "server" /\ Only(list, ServerSteps)
    <3>1. Head(list).step # "ssTake" BY <1>4, <2>5 DEF ServerSteps, WgSteps
    <3>2. Only(front, ServerSteps) BY <3>1 DEF Only, ServerSteps
    <3>. QED BY <1>2, <1>4, <2>5, <3>2 DEF ListOf
  <2>6. CASE active.kind = "pptp" /\ Only(list, PptpSteps) BY <1>4, <2>6 DEF PptpSteps
  <2>. QED BY <2>1, <2>2, <2>3, <2>4, <2>5, <2>6 DEF JobInv, ListOf
<1>7. Has(next, {"done"}) => active.kind = "none" BY <1>1, <1>3 DEF JobInv
<1>. QED BY <1>5, <1>6, <1>7 DEF JobInv, rest

\* What stop_outline does, by what it finds.
LEMMA SsTakeFront ==
    ASSUME WinTypes, Core(job), ssTake
    PROVE  \E front \in Seq(StepRec) :
              /\ job' = front \o Tail(job) /\ Only(front, {"tunCancel", "ssTell"})
              /\ slot["ss"] = {} => front = <<S("tunCancel")>>
              /\ slot["ss"] # {} => TellsSoon(front) /\ TellsSoon(front \o Tail(job))
              /\ NoTun \/ (Has(front, TunOff) /\ Guards(front, Risky \cup {"ssStore"}, TunOff))
<1>1. Tail(job) \in Seq(StepRec) BY ReadyList DEF ssTake
<1>2. /\ S("tunCancel") \in StepRec /\ S("ssTell") \in StepRec
      /\ S("tunCancel").step = "tunCancel" /\ S("ssTell").step = "ssTell"
  BY StepNames
<1>3. CASE slot["ss"] = {}
  <2>1. job' = <<S("tunCancel")>> \o Tail(job) BY <1>3 DEF ssTake, Then
  <2>2. /\ <<S("tunCancel")>> \in Seq(StepRec) /\ Only(<<S("tunCancel")>>, {"tunCancel", "ssTell"})
        /\ Has(<<S("tunCancel")>>, TunOff)
        /\ Guards(<<S("tunCancel")>>, Risky \cup {"ssStore"}, TunOff)
    BY <1>2, OneStep DEF TunOff, Risky
  <2>. QED BY <1>3, <2>1, <2>2
<1>4. CASE \E w \in slot["ss"] : w.of # 0
  <2> DEFINE two == <<S("tunCancel"), S("ssTell")>>
  <2>1. job' = two \o Tail(job) BY <1>4 DEF ssTake, Then
  <2>2. /\ two \in Seq(StepRec) /\ Len(two) = 2 /\ two[1] = S("tunCancel") /\ two[2] = S("ssTell")
        /\ Only(two, {"tunCancel", "ssTell"}) /\ Has(two, TunOff)
        /\ Guards(two, Risky \cup {"ssStore"}, TunOff)
    BY <1>2, TwoSteps DEF TunOff, Risky
  <2>3. /\ Len(two \o Tail(job)) = Len(Tail(job)) + 2 /\ Len(Tail(job)) \in Nat
        /\ (two \o Tail(job))[1] = S("tunCancel") /\ (two \o Tail(job))[2] = S("ssTell")
    BY <1>1, <1>2, TwoAndList
  <2> HIDE DEF two
  <2>4. TellsSoon(two) /\ TellsSoon(two \o Tail(job)) BY <1>2, <2>2, <2>3 DEF TellsSoon
  <2>. QED BY <1>4, <2>1, <2>2, <2>4
<1>5. CASE slot["ss"] # {} /\ ~ \E w \in slot["ss"] : w.of # 0
  <2> DEFINE one == <<S("ssTell")>>
  <2>1. job' = one \o Tail(job) BY <1>5 DEF ssTake, Then
  <2>2. /\ one \in Seq(StepRec) /\ Len(one) = 1 /\ one[1] = S("ssTell")
        /\ Only(one, {"tunCancel", "ssTell"})
    BY <1>2, OneStep
  <2>3. (one \o Tail(job))[1] = S("ssTell") /\ Len(one \o Tail(job)) > 0
    BY <1>1, <1>2, StepAndList
  <2> HIDE DEF one
  <2>4. TellsSoon(one) /\ TellsSoon(one \o Tail(job)) BY <1>2, <2>2, <2>3 DEF TellsSoon
  <2>5. NoTun BY <1>5 DEF Core, SsInv
  <2>6. /\ one \in Seq(StepRec) /\ job' = one \o Tail(job) /\ Only(one, {"tunCancel", "ssTell"})
        /\ slot["ss"] = {} => one = <<S("tunCancel")>>
        /\ slot["ss"] # {} => TellsSoon(one) /\ TellsSoon(one \o Tail(job))
        /\ NoTun \/ (Has(one, TunOff) /\ Guards(one, Risky \cup {"ssStore"}, TunOff))
    BY <1>5, <2>1, <2>2, <2>4, <2>5
  <2>. QED BY <2>6
<1>. QED BY <1>3, <1>4, <1>5

LEMMA CoreSsTake ==
    ASSUME WinTypes, Numbers, Core(job), ssTake
    PROVE  Core(job)'
<1> DEFINE rest == Tail(job)
<1>1. /\ job \in Seq(StepRec) /\ job # <<>> /\ Head(job).step = "ssTake" /\ rest \in Seq(StepRec)
  BY ReadyList DEF ssTake
<1>2. UNCHANGED <<process, active, route, socks, lastId, live, told, system, history>>
      /\ slot' = [slot EXCEPT !["ss"] = {}]
  BY DEF ssTake
<1>3. slot'["tun"] = slot["tun"] /\ slot'["ss"] = {} /\ slot'["pump"] = slot["pump"]
  BY <1>2 DEF WinTypes, WorkerTypes, Kinds
<1>4. PICK front \in Seq(StepRec) :
         /\ job' = front \o rest /\ Only(front, {"tunCancel", "ssTell"})
         /\ slot["ss"] = {} => front = <<S("tunCancel")>>
         /\ slot["ss"] # {} => TellsSoon(front) /\ TellsSoon(front \o rest)
         /\ NoTun \/ (Has(front, TunOff) /\ Guards(front, Risky \cup {"ssStore"}, TunOff))
  BY SsTakeFront
<1>5. /\ JobInv(rest) /\ TorInv(rest) /\ ComingInv(rest) /\ PumpInv(rest)
  BY <1>1, JobInvRest, TorInvRest, ComingInvRest, PumpInvRest DEF Core
<1>6. JobInv(front \o rest)
  <2>1. Only(front, EndSteps) /\ Only(front, OutlineSteps)
    BY <1>4 DEF Only, EndSteps, OutlineSteps, TorRoute
  <2>2. ~ Has(front, {"done"}) BY <1>4 DEF Only, Has
  <2>. QED BY <1>1, <2>1, <2>2, JobInvOn DEF Core
<1>7. Has(job, {"ssTake"}) BY <1>1, HasRest
<1> HIDE DEF rest
<1>8. \A A : Has(front \o rest, A) <=> Has(front, A) \/ Has(rest, A) BY <1>1, <1>4, HasJoined
<1>9. \A i \in 1 .. Len(front \o rest) : (front \o rest)[i].step \notin {"tunCancel", "ssTell"} =>
         \E j \in 1 .. Len(rest) : (front \o rest)[i] = rest[j]
  BY <1>1, <1>4, Splits DEF Only
<1>10. /\ ~ Has(front, {"exit"}) /\ ~ Has(front, {"done"}) /\ ~ Has(front, {"torSpawn"})
       /\ ~ Has(front, {"ssSpawn"})
  BY <1>4 DEF Only, Has
<1>11. UNCHANGED <<NoTun, NoSs, NoPump>> /\ Untold("tun")' = Untold("tun")
  BY <1>2 DEF NoTun, NoSs, NoPump, Untold
<1>12. JobInv(job)' BY <1>2, <1>4, <1>6 DEF JobInv, history
<1>13. TorInv(job)' BY <1>2, <1>4, <1>5, <1>8, <1>10 DEF TorInv, system
<1>14. TunInv(job)'
  <2>1. NoTun \/ Guards(front \o rest, Risky, TunOff)
    <3>1. Guards(front, Risky \cup {"ssStore"}, TunOff) => Guards(front, Risky, TunOff) BY DEF Guards
    <3>. QED BY <1>1, <1>4, <3>1, GuardsJoined
  <2>. QED BY <1>2, <1>3, <1>4, <1>11, <2>1 DEF TunInv, Core
<1>15. ComingInv(job)'
  <2> SUFFICES ASSUME NEW i \in 1 .. Len(front \o rest), (front \o rest)[i].step = "tunSpawn"
               PROVE  LET of == (front \o rest)[i].of IN
                      /\ of # 0 /\ of \notin told /\ (\A w \in slot["tun"] : w.id # of)
                      /\ of = lastId + 1 /\ Has(front \o rest, {"ssSpawn"})
    BY <1>2, <1>3, <1>4 DEF ComingInv
  <2>1. PICK j \in 1 .. Len(rest) : (front \o rest)[i] = rest[j] BY <1>9
  <2>2. j + 1 \in 1 .. Len(job) /\ job[j + 1] = rest[j]
    BY <1>1, <2>1, RestOfList DEF rest
  <2> DEFINE of == job[j + 1].of
  <2>3. /\ of # 0 /\ of \notin told /\ (\A w \in slot["tun"] : w.id # of)
        /\ Has(job, {"ssSpawn", "ssTell", "ssTake"}) => of = lastId + 1
        /\ ~ Has(job, {"ssSpawn"}) => of <= lastId
    BY <2>1, <2>2 DEF Core, ComingInv
  <2>4. Has(job, {"ssSpawn", "ssTell", "ssTake"}) BY <1>7 DEF Has
  <2>5. Has(job, {"ssSpawn"}) BY <2>3, <2>4 DEF WinTypes, WorkerTypes
  <2>6. Has(rest, {"ssSpawn"}) BY <1>1, <2>5, HasRest DEF rest
  <2>. QED BY <1>8, <2>1, <2>2, <2>3, <2>4, <2>6
<1>16. SsInv(job)'
  <2>1. ASSUME NEW i \in 1 .. Len(front \o rest), (front \o rest)[i].step = "ssStore"
        PROVE  \/ \A w \in Untold("tun") : w.of = (front \o rest)[i].of
               \/ Guards(front \o rest, {"ssStore"}, TunOff)
    <3>1. CASE NoTun BY <3>1 DEF NoTun
    <3>2. CASE Has(front, TunOff) /\ Guards(front, Risky \cup {"ssStore"}, TunOff)
      <4>1. Guards(front, {"ssStore"}, TunOff) BY <3>2 DEF Guards
      <4>2. Guards(front \o rest, {"ssStore"}, TunOff) BY <1>1, <3>2, <4>1, GuardsJoined
      <4>. QED BY <4>2
    <3>. QED BY <1>4, <3>1, <3>2
  <2>2. NoSs \/ Has(front \o rest, {"ssStore"}) \/ TellsSoon(front \o rest)
    <3>1. CASE slot["ss"] # {} BY <1>4, <3>1
    <3>2. CASE slot["ss"] = {}
      <4>1. ~ TellsSoon(job) BY <1>1, RestOfList DEF TellsSoon
      <4>2. NoSs \/ Has(job, {"ssStore"}) BY <3>2, <4>1 DEF Core, SsInv
      <4>3. Has(job, {"ssStore"}) => Has(rest, {"ssStore"}) BY <1>1, HasRest DEF rest
      <4>. QED BY <1>8, <4>2, <4>3
    <3>. QED BY <3>1, <3>2
  <2>. QED BY <1>3, <1>4, <1>11, <2>1, <2>2 DEF SsInv
<1>17. PumpInv(job)'
  <2>1. PumpInv(front \o rest) BY <1>1, PumpInvRest DEF Core
  <2>. QED BY <1>2, <1>3, <1>4, <2>1 DEF PumpInv, system, history
<1>18. Owned(job)'
  <2>1. ~ NoTun => Has(front, TunOff) BY <1>4
  <2>2. ~ NoSs => active.kind = "outline" \/ Has(front, {"ssTell", "ssTake"})
    <3>1. CASE slot["ss"] # {}
      <4>1. Has(front, {"ssTell", "ssTake"})
        <5>1. TellsSoon(front) /\ Len(front) \in Nat BY <1>4, <3>1, JoinedLists
        <5>. QED BY <5>1 DEF TellsSoon, Has
      <4>. QED BY <4>1
    <3>2. CASE slot["ss"] = {}
      <4> SUFFICES ASSUME ~ NoSs PROVE active.kind = "outline" OBVIOUS
      <4>1. ~ TellsSoon(job) BY <1>1, RestOfList DEF TellsSoon
      <4>2. Has(job, {"ssStore"}) BY <3>2, <4>1 DEF Core, SsInv
      <4>3. \A A : Only(job, A) => "ssStore" \in A BY <4>2 DEF Has, Only
      <4>4. ListOf(active.kind, job) BY DEF Core, JobInv
      <4>. QED BY <4>3, <4>4 DEF ListOf, EndSteps, TorStart, TorRoute, WgSteps, ServerSteps, PptpSteps
    <3>. QED BY <3>1, <3>2
  <2>. QED BY <1>1, <1>2, <1>3, <1>4, <1>10, <1>11, <2>1, <2>2, OwnedOn
       DEF Core, system, history, process, Owned, rest
<1>. QED BY <1>12, <1>13, <1>14, <1>15, <1>16, <1>17, <1>18 DEF Core

\* Shadowsocks is told to end: no tunnel leads to it, and none that is to come.
LEMMA CoreSsTell ==
    ASSUME WinTypes, Numbers, Core(job), ssTell
    PROVE  Core(job)'
<1> DEFINE rest == Tail(job)
<1>1. Ready("ssTell") /\ Then(<<>>) BY DEF ssTell
<1>2. /\ job \in Seq(StepRec) /\ job # <<>> /\ Head(job).step = "ssTell"
      /\ job' = rest /\ rest \in Seq(StepRec) /\ job' = <<>> \o rest
      /\ <<>> \in Seq(StepRec) /\ ~ Has(<<>>, {"done"})
      /\ JobInv(rest) /\ TorInv(rest) /\ ComingInv(rest) /\ PumpInv(rest)
  BY <1>1, NextOfList DEF TunOff
<1>3. /\ told' = told \cup {w.id : w \in {v \in live : v.kind = "ss"}}
      /\ UNCHANGED <<process, active, route, socks, lastId, live, slot, system, history>>
  BY DEF ssTell
<1>4. Has(job, {"ssSpawn", "ssTell", "ssTake"}) BY <1>2, HasRest
<1> HIDE DEF rest
<1>5. NoTun /\ NoSs'
  <2>1. NoTun BY <1>2, GuardsRest DEF Core, TunInv, Risky
  <2>2. NoSs' BY <1>3 DEF NoSs, Untold
  <2>. QED BY <2>1, <2>2
<1>6. /\ \A kind : Untold(kind)' \subseteq Untold(kind)
      /\ (NoTun => NoTun') /\ (NoPump => NoPump')
  BY <1>3, MoreTold
<1>7. JobInv(job)' BY <1>2, <1>3 DEF JobInv, history
<1>8. TorInv(job)'
  <2>1. \A w \in live : w.id # socks BY DEF Numbers, Known
  <2>. QED BY <1>2, <1>3, <2>1 DEF TorInv, system
<1>9. TunInv(job)' BY <1>5, <1>6 DEF TunInv, NoTun
<1>10. ComingInv(job)'
  <2>1. \A w \in live : w.id # lastId + 1
    BY NumberIsNew DEF Known, WinTypes
  <2> SUFFICES ASSUME NEW i \in 1 .. Len(rest), rest[i].step = "tunSpawn"
               PROVE  rest[i].of = lastId + 1
    BY <1>2, <1>3, <2>1 DEF ComingInv
  <2>2. i + 1 \in 1 .. Len(job) /\ job[i + 1] = rest[i] BY <1>2, RestOfList DEF rest
  <2>. QED BY <1>4, <2>2 DEF Core, ComingInv
<1>11. SsInv(job)'
  <2>1. slot["ss"] = {} \/ Guards(rest, {"tunSpawn"}, {"ssTake"})
    BY <1>2, GuardsRest DEF Core, SsInv, rest
  <2>. QED BY <1>2, <1>3, <1>5, <1>6, <2>1 DEF SsInv, NoTun
<1>12. PumpInv(job)'
  <2>1. \A w \in slot["pump"] \cap live : w.id \notin told'
    <3> SUFFICES ASSUME NEW w \in slot["pump"] \cap live, NEW v \in live, v.kind = "ss", v.id = w.id
                 PROVE  FALSE
      BY <1>2, <1>3 DEF PumpInv
    <3>1. w = v BY DEF Numbers, Known
    <3>. QED BY <3>1 DEF WinTypes, WorkerTypes
  <2>2. \A e \in pins \ astray : \E w \in slot["pump"] \cap live : w.of = e
    BY <1>2, PinsBefore DEF Core, At
  <2>. QED BY <1>2, <1>3, <2>1, <2>2 DEF PumpInv, system, history
<1>13. Owned(job)'
  <2>1. NoTun' BY <1>5, <1>6
  <2>2. Owned(job) BY DEF Core
  <2>. QED BY <1>2, <1>3, <1>5, <1>6, <2>1, <2>2, OwnedOn DEF system, history, process, Owned, rest
<1>. QED BY <1>7, <1>8, <1>9, <1>10, <1>11, <1>12, <1>13 DEF Core

LEMMA CoreSsSpawn ==
    ASSUME WinTypes, Numbers, Core(job), ssSpawn
    PROVE  Core(job)'
<1> DEFINE rest == Tail(job)
           new == Worker("ss", lastId + 1, 0)
<1>1. Ready("ssSpawn") /\ Then(<<>>) BY DEF ssSpawn
<1>2. /\ job \in Seq(StepRec) /\ job # <<>> /\ Head(job).step = "ssSpawn"
      /\ job' = rest /\ rest \in Seq(StepRec) /\ job' = <<>> \o rest
      /\ <<>> \in Seq(StepRec) /\ ~ Has(<<>>, {"done"})
      /\ JobInv(rest) /\ TorInv(rest) /\ TunInv(rest) /\ SsInv(rest) /\ PumpInv(rest)
  BY <1>1, NextOfList DEF TunOff
<1>3. /\ lastId' = lastId + 1 /\ live' = live \cup {new}
      /\ UNCHANGED <<process, active, route, socks, told, slot, system, history>>
  BY DEF ssSpawn
<1>4. new.kind = "ss" /\ new.id = lastId + 1 BY DEF Worker
<1>5. /\ lastId \in Nat /\ lastId + 1 \notin told
      /\ \A w \in Known : w.id # lastId + 1
  BY NumberIsNew DEF WinTypes, WorkerTypes
<1> HIDE DEF rest, new
<1>6. NoTun BY <1>2, GuardsRest DEF Core, TunInv, Risky
<1>7. Untold("tun")' = Untold("tun") /\ Untold("pump")' = Untold("pump")
  BY <1>3, <1>4 DEF Untold
<1>8. NoTun' /\ (NoPump <=> NoPump') BY <1>6, <1>7 DEF NoTun, NoPump
<1>9. active.kind = "outline" BY <1>2, StepOfOutline DEF Core, JobInv
<1>10. JobInv(job)' BY <1>2, <1>3 DEF JobInv, history
<1>11. TorInv(job)' BY <1>2, <1>3 DEF TorInv, system
<1>12. TunInv(job)' BY <1>8 DEF TunInv, NoTun
<1>13. ComingInv(job)'
  <2>1. ~ Has(rest, {"ssSpawn", "ssTell", "ssTake"})
    BY <1>2, NoneAfterRest DEF Core, JobInv, Ordered, rest
  <2>2. Has(job, {"ssSpawn", "ssTell", "ssTake"}) BY <1>2, HasRest
  <2> SUFFICES ASSUME NEW i \in 1 .. Len(rest), rest[i].step = "tunSpawn"
               PROVE  /\ rest[i].of # 0 /\ rest[i].of \notin told /\ rest[i].of = lastId + 1
                      /\ \A w \in slot["tun"] : w.id # rest[i].of
    BY <1>2, <1>3, <1>5, <2>1 DEF ComingInv
  <2>3. i + 1 \in 1 .. Len(job) /\ job[i + 1] = rest[i] BY <1>2, RestOfList DEF rest
  <2>. QED BY <2>2, <2>3 DEF Core, ComingInv
<1>14. SsInv(job)'
  <2>1. Has(rest, {"ssStore"})
    <3>1. Has(job, {"ssStore"}) BY <1>2, HasRest DEF Core, JobInv, Ordered
    <3>. QED BY <1>2, <3>1, HasRest DEF rest
  <2>. QED BY <1>2, <1>3, <1>7, <1>8, <2>1 DEF SsInv
<1>15. PumpInv(job)'
  <2>1. slot["pump"] \cap live' = slot["pump"] \cap live
    BY <1>3, <1>4, <1>5 DEF Known
  <2>. QED BY <1>2, <1>3, <1>4, <2>1 DEF PumpInv, system, history
<1>16. Owned(job)'
  <2>1. Owned(job) BY DEF Core
  <2>. QED BY <1>2, <1>3, <1>8, <1>9, <2>1, OwnedOn DEF system, history, process, Owned, rest
<1>. QED BY <1>10, <1>11, <1>12, <1>13, <1>14, <1>15, <1>16 DEF Core

\* The handle knows of the tunnel that leads to its Shadowsocks.
LEMMA CoreSsStore ==
    ASSUME WinTypes, Numbers, Core(job), ssStore
    PROVE  Core(job)'
<1> DEFINE rest == Tail(job)
           h == Worker("ss", Of, IF \E w \in slot["tun"] : w.of = Of THEN Of ELSE 0)
<1>1. Ready("ssStore") /\ Then(<<>>) BY DEF ssStore
<1>2. /\ job \in Seq(StepRec) /\ job # <<>> /\ Head(job).step = "ssStore"
      /\ job' = rest /\ rest \in Seq(StepRec) /\ job' = <<>> \o rest
      /\ <<>> \in Seq(StepRec) /\ ~ Has(<<>>, {"done"})
      /\ JobInv(rest) /\ TorInv(rest) /\ TunInv(rest) /\ ComingInv(rest) /\ PumpInv(rest)
  BY <1>1, NextOfList DEF TunOff
<1>3. /\ slot' = [slot EXCEPT !["ss"] = {h}]
      /\ UNCHANGED <<process, active, route, socks, lastId, live, told, system, history>>
  BY DEF ssStore
<1>4. h.of = IF \E w \in slot["tun"] : w.of = Of THEN Of ELSE 0 BY DEF Worker
<1> HIDE DEF h
<1>5. slot'["tun"] = slot["tun"] /\ slot'["ss"] = {h} /\ slot'["pump"] = slot["pump"]
  BY <1>3 DEF WinTypes, WorkerTypes, Kinds
<1>6. active.kind = "outline" BY <1>2, StepOfOutline DEF Core, JobInv
<1>7. UNCHANGED <<NoTun, NoSs, NoPump>> /\ Untold("tun")' = Untold("tun")
  BY <1>3 DEF NoTun, NoSs, NoPump, Untold
<1>8. /\ Head(job) = job[1] /\ 1 \in 1 .. Len(job) /\ Len(rest) = Len(job) - 1 /\ Len(job) \in Nat
      /\ \A i \in 1 .. Len(job) - 1 : rest[i] = job[i + 1] /\ i + 1 \in 1 .. Len(job)
  BY <1>2, RestOfList
<1> HIDE DEF rest
<1>9. h.of = 0 => NoTun
  <2> SUFFICES ASSUME NEW w \in Untold("tun") PROVE h.of # 0 BY DEF NoTun
  <2>1. ~ Guards(job, {"ssStore"}, TunOff) BY <1>2, GuardsRest
  <2>2. w.of = Of BY <1>2, <1>8, <2>1 DEF Core, SsInv, Of
  <2>3. w \in slot["tun"] /\ w.of # 0
    BY DEF Core, TunInv, WinTypes, WorkerTypes
  <2>. QED BY <1>4, <2>2, <2>3
<1>10. JobInv(job)' BY <1>2, <1>3 DEF JobInv, history
<1>11. TorInv(job)' BY <1>2, <1>3 DEF TorInv, system
<1>12. TunInv(job)' BY <1>2, <1>3, <1>5, <1>7 DEF TunInv
<1>13. ComingInv(job)' BY <1>2, <1>3, <1>5 DEF ComingInv
<1>14. SsInv(job)'
  <2>1. ASSUME NEW i \in 1 .. Len(rest), rest[i].step = "ssStore"
        PROVE  \A w \in Untold("tun") : w.of = rest[i].of
    <3>1. job[i + 1].of = job[1].of BY <1>2, <1>8, <2>1 DEF Core, JobInv, Ordered
    <3>2. ~ Guards(job, {"ssStore"}, TunOff) BY <1>2, GuardsRest
    <3>3. \A w \in Untold("tun") : w.of = job[1].of BY <1>2, <1>8, <3>2 DEF Core, SsInv
    <3>. QED BY <1>8, <2>1, <3>1, <3>3
  <2>2. Guards(rest, {"tunSpawn"}, {"ssTake"})
    <3>1. ~ Has(rest, {"ssSpawn", "tunSpawn"})
      BY <1>2, NoneAfterRest DEF Core, JobInv, Ordered, rest
    <3>. QED BY <3>1 DEF Guards, Has
  <2>. QED BY <1>2, <1>5, <1>7, <1>9, <2>1, <2>2 DEF SsInv
<1>15. PumpInv(job)' BY <1>2, <1>3, <1>5 DEF PumpInv, system, history
<1>16. Owned(job)'
  <2>1. Owned(job) BY DEF Core
  <2>. QED BY <1>2, <1>3, <1>5, <1>6, <1>7, <2>1, OwnedOn
       DEF system, history, process, Owned, rest, TunOff
<1>. QED BY <1>10, <1>11, <1>12, <1>13, <1>14, <1>15, <1>16 DEF Core

\* A list with a step of WireGuard's makes no tunnel of another kind.
LEMMA ListOfWireGuard ==
    ASSUME NEW list \in Seq(StepRec), list # <<>>, NEW kind, ListOf(kind, list),
           Head(list).step \in {"wgTake", "torKill", "svcUninstall", "rasHangUp"}
    PROVE  \A i \in 1 .. Len(list) : list[i].step \notin {"tunSpawn", "ssStore", "ssSpawn"}
<1>1. Head(list).step \notin TorRoute \cup OutlineSteps BY DEF TorRoute, OutlineSteps
<1>2. ~ Only(list, TorRoute) /\ ~ Only(list, OutlineSteps) BY <1>1, OnlyRest
<1>. QED BY <1>2 DEF ListOf, Only, EndSteps, TorStart, WgSteps, ServerSteps, PptpSteps

LEMMA CoreWgTake ==
    ASSUME WinTypes, Numbers, Core(job), wgTake
    PROVE  Core(job)'
<1> DEFINE rest == Tail(job)
           running == slot["pump"] \cap live
           next == job'
<1>1. /\ job \in Seq(StepRec) /\ job # <<>> /\ Head(job).step = "wgTake" /\ rest \in Seq(StepRec)
      /\ <<>> \o rest = rest
  BY ReadyList DEF wgTake
<1>2. /\ told' = told \cup {w.id : w \in running} /\ slot' = [slot EXCEPT !["pump"] = {}]
      /\ UNCHANGED <<process, active, route, socks, lastId, live, system, history>>
  BY DEF wgTake
<1>3. slot'["tun"] = slot["tun"] /\ slot'["ss"] = slot["ss"] /\ slot'["pump"] = {}
  BY <1>2 DEF WinTypes, WorkerTypes, Kinds
<1>4. \A w \in running : w.of \in Endpoints BY DEF WinTypes, WorkerTypes, Known
<1>5. \A e \in Endpoints : /\ At("wgClear", e) \in StepRec /\ At("wgClear", e).step = "wgClear"
                           /\ <<At("wgClear", e)>> \in Seq(StepRec)
  BY StepNames, ShortLists DEF OfEndpoint
<1>6. PICK front \in Seq(StepRec) :
         /\ job' = front \o rest /\ Only(front, {"wgClear"})
         /\ \A w \in running : job'[1] = At("wgClear", w.of) /\ Len(job') > 0
  <2>1. CASE running = {}
    <3>1. job' = <<>> \o rest BY <2>1 DEF wgTake, Then
    <3>. QED BY <2>1, <3>1, NoStep
  <2>2. CASE running # {}
    <3>1. PICK w \in running : job' = <<At("wgClear", w.of)>> \o rest
      BY <2>2 DEF wgTake, Then
    <3>2. \A v \in running : v = w BY DEF Numbers, Alone
    <3>3. job'[1] = At("wgClear", w.of) /\ Len(job') > 0
      BY <1>1, <1>4, <1>5, <3>1, StepAndList
    <3>4. Only(<<At("wgClear", w.of)>>, {"wgClear"}) BY <1>4, <1>5, OneStep
    <3>5. <<At("wgClear", w.of)>> \in Seq(StepRec) BY <1>4, <1>5
    <3>. QED BY <3>1, <3>2, <3>3, <3>4, <3>5
  <2>. QED BY <2>1, <2>2
<1>7. \A i \in 1 .. Len(job) : job[i].step \notin {"tunSpawn", "ssStore", "ssSpawn"}
  BY <1>1, ListOfWireGuard DEF Core, JobInv
<1>8. JobInv(rest) /\ TorInv(rest) /\ TunInv(rest)
  BY <1>1, JobInvRest, TorInvRest, TunInvRest DEF Core, TunOff
<1>9. JobInv(front \o rest)
  <2>1. Only(front, EndSteps) /\ Only(front, WgSteps) /\ ~ Has(front, {"done"})
    BY <1>6 DEF Only, Has, EndSteps, WgSteps
  <2>. QED BY <1>1, <2>1, JobInvOn DEF Core
<1>10. /\ ~ Has(front, {"exit"}) /\ ~ Has(front, {"done"}) /\ ~ Has(front, {"torSpawn"})
       /\ Guards(front, Risky, TunOff)
  BY <1>6 DEF Only, Has, Guards, Risky
<1>11. \A A : Has(front \o rest, A) <=> Has(front, A) \/ Has(rest, A) BY <1>1, HasJoined
<1>12. \A i \in 1 .. Len(front \o rest) :
          (front \o rest)[i].step \notin {"tunSpawn", "ssStore", "ssSpawn"}
  <2>1. \A i \in 1 .. Len(rest) : rest[i].step \notin {"tunSpawn", "ssStore", "ssSpawn"}
    <3>1. \A i \in 1 .. Len(rest) : i + 1 \in 1 .. Len(job) /\ rest[i] = job[i + 1]
      BY <1>1, RestOfList
    <3>. QED BY <1>7, <3>1
  <2>2. \A i \in 1 .. Len(front) : front[i].step = "wgClear" BY <1>6 DEF Only
  <2> SUFFICES ASSUME NEW i \in 1 .. Len(front \o rest)
               PROVE  (front \o rest)[i].step \notin {"tunSpawn", "ssStore", "ssSpawn"}
    OBVIOUS
  <2>3. \/ i \in 1 .. Len(front) /\ (front \o rest)[i] = front[i]
        \/ i - Len(front) \in 1 .. Len(rest) /\ (front \o rest)[i] = rest[i - Len(front)]
    BY <1>1, Splits
  <2>. QED BY <2>1, <2>2, <2>3
<1> HIDE DEF rest
<1>13. /\ \A kind : Untold(kind)' \subseteq Untold(kind)
       /\ (NoTun => NoTun') /\ (NoSs => NoSs')
  BY <1>2, MoreTold
<1>14. NoPump'
  <2>1. \A w \in live : w.kind = "pump" => w.id \in told' BY <1>2 DEF Core, PumpInv
  <2>. QED BY <1>2, <2>1 DEF NoPump, Untold
<1>15. NoTun \/ told' = told
  <2>1. \A w \in running : w \in Untold("pump") BY DEF Core, PumpInv, Untold, WinTypes, WorkerTypes
  <2>. QED BY <1>2, <2>1 DEF Core, TunInv, NoPump
<1>16. JobInv(job)' BY <1>2, <1>6, <1>9 DEF JobInv, history
<1>17. TorInv(job)'
  <2>1. \A w \in running : w.id # socks BY DEF Numbers, Known
  <2>. QED BY <1>2, <1>6, <1>8, <1>10, <1>11, <2>1 DEF TorInv, system
<1>18. TunInv(job)'
  <2>1. CASE NoTun BY <1>13, <2>1 DEF TunInv, NoTun
  <2>2. CASE told' = told
    <3>1. Guards(rest, Risky, TunOff) => Guards(front \o rest, Risky, TunOff)
      BY <1>1, <1>10, GuardsJoined
    <3>. QED BY <1>2, <1>3, <1>6, <1>8, <1>13, <1>14, <2>2, <3>1 DEF TunInv
  <2>. QED BY <1>15, <2>1, <2>2
<1>19. ComingInv(job)' BY <1>6, <1>12 DEF ComingInv
<1>20. SsInv(job)'
  <2>1. ~ TellsSoon(job) BY <1>1, RestOfList DEF TellsSoon
  <2>2. NoSs \/ slot["ss"] # {} BY <1>7, <2>1 DEF Core, SsInv, Has
  <2>3. Guards(front \o rest, {"tunSpawn"}, {"ssTake"}) BY <1>12 DEF Guards
  <2>. QED BY <1>3, <1>6, <1>12, <1>13, <2>2, <2>3 DEF Core, SsInv
<1>21. PumpInv(job)'
  <2>1. \A e \in pins \ astray : \E w \in running : w.of = e
    BY <1>1, PinsBefore DEF Core, At
  <2>2. \A w \in live : w.kind = "pump" => w.id \in told' BY <1>2 DEF Core, PumpInv
  <2>. QED BY <1>2, <1>3, <1>6, <2>1, <2>2 DEF PumpInv, system, history
<1>22. Owned(job)'
  <2>1. Owned(job) BY DEF Core
  <2>. QED BY <1>1, <1>2, <1>3, <1>6, <1>10, <1>13, <1>14, <2>1, OwnedOn
       DEF system, history, process, Owned, rest, TunOff
<1>. QED BY <1>16, <1>17, <1>18, <1>19, <1>20, <1>21, <1>22 DEF Core

\* What is said of the workers, when none comes or goes or is told to end.
LEMMA WorkersKept ==
    ASSUME NEW list, UNCHANGED workers, active'.kind = active.kind, UNCHANGED <<socks, tor, clean>>,
           job' = list
    PROVE  /\ JobInv(list) => JobInv(job)'
           /\ TorInv(list) => TorInv(job)'
           /\ TunInv(list) => TunInv(job)'
           /\ ComingInv(list) => ComingInv(job)'
           /\ SsInv(list) => SsInv(job)'
BY DEF workers, JobInv, TorInv, TunInv, ComingInv, SsInv, NoTun, NoSs, NoPump, Untold

LEMMA UntoldKept ==
    ASSUME UNCHANGED workers
    PROVE  UNCHANGED <<NoTun, NoSs, NoPump>> /\ slot'["ss"] = slot["ss"]
BY DEF workers, NoTun, NoSs, NoPump, Untold

LEMMA CoreWgRoutes ==
    ASSUME WinTypes, Numbers, Core(job), wgRoutes \/ wgClear
    PROVE  Core(job)'
<1> DEFINE rest == Tail(job)
<1>1. Then(<<>>) /\ (Ready("wgRoutes") \/ Ready("wgClear"))
  BY DEF wgRoutes, wgClear
<1>2. /\ job \in Seq(StepRec) /\ job # <<>> /\ Head(job).step \in {"wgRoutes", "wgClear"}
      /\ job' = rest /\ rest \in Seq(StepRec) /\ job' = <<>> \o rest
      /\ <<>> \in Seq(StepRec) /\ ~ Has(<<>>, {"done"})
      /\ JobInv(rest) /\ TorInv(rest) /\ TunInv(rest) /\ ComingInv(rest) /\ SsInv(rest)
      /\ Owned(rest)
  BY <1>1, NextOfList DEF TunOff, Endings
<1>3. /\ UNCHANGED <<process, active, route, socks, workers, tor, dialed, service, mixed, clean>>
      /\ Of \in Endpoints
  BY <1>1, StepOf DEF wgRoutes, wgClear, history, OfEndpoint
<1>4. JobInv(job)' /\ TorInv(job)' /\ TunInv(job)' /\ ComingInv(job)' /\ SsInv(job)'
  BY <1>2, <1>3, WorkersKept
<1>5. /\ "tor" \in astray' <=> "tor" \in astray
      /\ "dialed" \in astray' <=> "dialed" \in astray
      /\ "service" \in astray' <=> "service" \in astray
  BY <1>3, WindowsAssumption DEF wgRoutes, wgClear, history
<1>6. Owned(job)'
  <2>1. UNCHANGED <<NoTun, NoSs, NoPump>> /\ slot'["ss"] = slot["ss"] BY <1>3, UntoldKept
  <2>. QED BY <1>2, <1>3, <1>5, <2>1 DEF Owned, Belongs, process
<1>7. PumpInv(job)'
  <2>1. /\ Head(job) = job[1] /\ 1 \in 1 .. Len(job) /\ Len(rest) = Len(job) - 1 /\ Len(job) \in Nat
        /\ \A i \in 1 .. Len(job) - 1 : rest[i] = job[i + 1]
    BY <1>2, RestOfList
  <2>2. \A e \in pins \ astray :
           \/ \E w \in slot["pump"] \cap live : w.of = e
           \/ Head(job) = At("wgClear", e)
    <3>1. \A e \in pins \ astray :
             Head(job) \in {At("wgClear", e), At("wgPump", e)} \/ \E w \in slot["pump"] \cap live : w.of = e
      BY <1>2, PinsBefore DEF Core
    <3>2. \A e : Head(job) # At("wgPump", e) BY <1>2 DEF At
    <3>. QED BY <3>1, <3>2
  <2> HIDE DEF rest
  <2>3. \A e \in pins' \ astray' :
           \/ \E w \in slot["pump"] \cap live : w.of = e
           \/ Len(rest) > 0 /\ rest[1] = At("wgPump", e)
    <3>1. CASE wgClear
      <4>1. \A e : Head(job) = At("wgClear", e) => e = Of BY DEF At, Of
      <4>. QED BY <2>2, <3>1, <4>1 DEF wgClear
    <3>2. CASE wgRoutes
      <4>1. job[1].step = "wgRoutes" BY <2>1, <3>2 DEF wgRoutes, Ready
      <4>2. 1 < Len(job) /\ job[1 + 1] = At("wgPump", job[1].of)
        BY <2>1, <4>1 DEF Core, JobInv, Ordered
      <4>3. Len(rest) > 0 /\ rest[1] = At("wgPump", Of) BY <2>1, <4>2 DEF Of
      <4>4. \A e : Head(job) # At("wgClear", e) BY <2>1, <4>1 DEF At
      <4>. QED BY <2>2, <3>2, <4>3, <4>4 DEF wgRoutes, history
    <3>. QED BY <3>1, <3>2
  <2>. QED BY <1>2, <1>3, <2>3 DEF Core, PumpInv, workers
<1>. QED BY <1>4, <1>6, <1>7 DEF Core

LEMMA CoreWgPump ==
    ASSUME WinTypes, Numbers, Core(job), wgPump
    PROVE  Core(job)'
<1> DEFINE rest == Tail(job)
           new == Worker("pump", lastId + 1, Of)
<1>1. Ready("wgPump") /\ UNCHANGED <<process, active, route, socks, told, system, history>>
  BY DEF wgPump
<1>2. CASE Fails(<<At("wgClear", Of)>> \o NotUp) /\ UNCHANGED <<lastId, live, slot>>
  <2>1. Core(job') BY <1>1, <1>2, CoreNotUp DEF Fails
  <2>. QED BY <1>1, <1>2, <2>1, CoreFrame DEF process, workers, history
<1>3. CASE /\ \A w \in live : w.kind # "pump"
           /\ lastId' = lastId + 1 /\ live' = live \cup {new}
           /\ slot' = [slot EXCEPT !["pump"] = {new}] /\ Then(<<>>)
  <2>1. /\ job \in Seq(StepRec) /\ job # <<>> /\ Head(job).step = "wgPump"
        /\ job' = rest /\ rest \in Seq(StepRec) /\ job' = <<>> \o rest
        /\ <<>> \in Seq(StepRec) /\ ~ Has(<<>>, {"done"})
        /\ JobInv(rest) /\ TorInv(rest) /\ TunInv(rest) /\ SsInv(rest)
    BY <1>1, <1>3, NextOfList DEF TunOff
  <2>2. new.kind = "pump" /\ new.id = lastId + 1 /\ new.of = Of BY DEF Worker
  <2>3. slot'["pump"] = {new} /\ slot'["ss"] = slot["ss"] /\ slot'["tun"] = slot["tun"]
    BY <1>3 DEF WinTypes, WorkerTypes, Kinds
  <2>4. lastId \in Nat /\ lastId + 1 \notin told BY NumberIsNew DEF WinTypes, WorkerTypes
  <2>5. active.kind \in {"wg", "server"} /\ ~ Has(job, {"done"}) /\ Only(job, ServerSteps)
    BY <2>1, StepOfWireGuard DEF Core, JobInv
  <2>6. \A i \in 1 .. Len(rest) : rest[i].step \notin {"tunSpawn"}
    <3>1. Only(rest, ServerSteps) BY <2>1, <2>5, OnlyRest
    <3>. QED BY <3>1 DEF Only, ServerSteps, WgSteps
  <2>7. \A e \in pins \ astray : e = Of
    <3>1. \A e \in pins \ astray : Head(job) \in {At("wgClear", e), At("wgPump", e)}
      <4>1. slot["pump"] \cap live = {} BY <1>3 DEF WinTypes, WorkerTypes
      <4>. QED BY <2>1, <4>1, PinsBefore DEF Core
    <3>2. \A e : Head(job) # At("wgClear", e) BY <2>1 DEF At
    <3>3. \A e : Head(job) = At("wgPump", e) => e = Of BY DEF At, Of
    <3>. QED BY <3>1, <3>2, <3>3
  <2> HIDE DEF rest, new
  <2>8. NoTun
    <3>1. Belongs(job, ~ NoTun, {"tor", "outline"}, TunOff) BY DEF Core, Owned
    <3>. QED BY <2>5, <3>1 DEF Belongs
  <2>9. Untold("tun")' = Untold("tun") /\ Untold("ss")' = Untold("ss")
    BY <1>1, <1>3, <2>2 DEF Untold
  <2>10. NoTun' /\ (NoSs <=> NoSs') BY <2>8, <2>9 DEF NoTun, NoSs
  <2>11. JobInv(job)' BY <1>1, <2>1 DEF JobInv, history
  <2>12. TorInv(job)' BY <1>1, <2>1 DEF TorInv, system
  <2>13. TunInv(job)' BY <2>10 DEF TunInv, NoTun
  <2>14. ComingInv(job)' BY <2>1, <2>6 DEF ComingInv
  <2>15. SsInv(job)' BY <2>1, <2>3, <2>9, <2>10 DEF SsInv
  <2>16. PumpInv(job)'
    <3>1. slot'["pump"] \cap live' = {new} BY <1>3, <2>3
    <3>2. \A w \in live' : w.kind = "pump" => w \in slot'["pump"] BY <1>3, <2>3
    <3>3. \A e \in pins' \ astray' : new.of = e BY <1>1, <2>2, <2>7 DEF system, history
    <3>4. new.id \notin told' BY <1>1, <2>2, <2>4
    <3>. QED BY <3>1, <3>2, <3>3, <3>4 DEF PumpInv
  <2>17. Owned(job)'
    <3>1. Owned(job) BY DEF Core
    <3>. QED BY <1>1, <2>1, <2>3, <2>5, <2>10, <3>1, OwnedOn
         DEF system, history, process, Owned, rest
  <2>. QED BY <2>11, <2>12, <2>13, <2>14, <2>15, <2>16, <2>17 DEF Core
<1>. QED BY <1>2, <1>3 DEF wgPump

\* Whose step it is, and what cannot be there.
LEMMA StepOfOthers ==
    ASSUME NEW list \in Seq(StepRec), list # <<>>, NEW kind, ListOf(kind, list),
           Head(list).step \in {"svcInstall", "rasDial", "torSpawn"}
    PROVE  /\ Head(list).step = "svcInstall" => kind = "server"
           /\ Head(list).step = "rasDial" => kind = "pptp" /\ Only(list, PptpSteps)
           /\ Head(list).step = "torSpawn" => kind = "tor"
<1>1. Head(list).step \notin EndSteps \cup TorRoute \cup OutlineSteps \cup WgSteps
  BY DEF EndSteps, TorRoute, OutlineSteps, WgSteps
<1>2. /\ Head(list).step = "svcInstall" => Head(list).step \notin TorStart \cup PptpSteps
      /\ Head(list).step = "rasDial" => Head(list).step \notin TorStart \cup ServerSteps
      /\ Head(list).step = "torSpawn" => Head(list).step \notin PptpSteps \cup ServerSteps
  BY DEF TorStart, PptpSteps, ServerSteps, WgSteps
<1>. QED BY <1>1, <1>2, BeginsList, OnlyRest

\* What is said of the routes does not speak of what else is astray.
LEMMA PinsKept ==
    ASSUME WinTypes, UNCHANGED workers, pins' = pins, NEW x \in {"tor", "dialed", "service"},
           astray' = astray \/ astray' = astray \ {x}, PumpInv(job')
    PROVE  PumpInv(job)'
<1>1. pins' \ astray' = pins \ astray BY WindowsAssumption DEF WinTypes, OwnTypes
<1>. QED BY <1>1 DEF PumpInv, workers

LEMMA CoreSystem ==
    ASSUME WinTypes, Numbers, Core(job), svcUninstall \/ svcInstall \/ rasHangUp \/ done
    PROVE  Core(job)'
<1> DEFINE rest == Tail(job)
<1>1. /\ Then(<<>>)
      /\ Ready("svcUninstall") \/ Ready("svcInstall") \/ Ready("rasHangUp") \/ Ready("done")
  BY DEF svcUninstall, svcInstall, rasHangUp, done
<1>2. /\ job \in Seq(StepRec) /\ job # <<>>
      /\ job' = rest /\ rest \in Seq(StepRec) /\ job' = <<>> \o rest
      /\ <<>> \in Seq(StepRec) /\ ~ Has(<<>>, {"done"})
      /\ JobInv(rest) /\ TorInv(rest) /\ TunInv(rest) /\ ComingInv(rest) /\ SsInv(rest)
      /\ PumpInv(rest)
  BY <1>1, NextOfList DEF TunOff
<1>3. /\ UNCHANGED <<process, active, route, socks, workers, tor, pins, mixed>>
      /\ NoTun' = NoTun /\ NoSs' = NoSs /\ NoPump' = NoPump /\ slot'["ss"] = slot["ss"]
  BY UntoldKept DEF svcUninstall, svcInstall, rasHangUp, done, history, system
<1>4. TorInv(job)' /\ TunInv(job)' /\ ComingInv(job)' /\ SsInv(job)'
  BY <1>2, <1>3 DEF workers, TorInv, TunInv, ComingInv, SsInv, NoTun, NoSs, NoPump, Untold
<1>5. PumpInv(job)'
  BY <1>2, <1>3, PinsKept DEF svcUninstall, svcInstall, rasHangUp, done, history
<1>6. JobInv(job)'
  <2>1. clean' => active.kind = "none"
    <3>1. CASE done
      <4>1. Has(job, {"done"}) BY <3>1, ReadyList, HasRest DEF done
      <4>. QED BY <4>1 DEF Core, JobInv
    <3>2. CASE ~ done
      BY <3>2 DEF svcUninstall, svcInstall, rasHangUp, history, Core, JobInv
    <3>. QED BY <3>1, <3>2
  <2>. QED BY <1>2, <1>3, <2>1 DEF JobInv
<1>7. Owned(job) /\ (service /\ "service" \notin astray => elevated /\ client = "up")
  BY DEF Core, Owned
<1> HIDE DEF rest
<1>8. Owned(job)'
  <2>1. CASE svcUninstall
    <3>1. Head(job).step = "svcUninstall" BY <2>1, ReadyList DEF svcUninstall
    <3>2. /\ dialed' = dialed /\ ("dialed" \in astray' <=> "dialed" \in astray)
          /\ ("tor" \in astray' <=> "tor" \in astray) /\ ~ (service' /\ "service" \notin astray')
      BY <1>7, <2>1 DEF svcUninstall
    <3>. QED BY <1>2, <1>3, <1>7, <3>1, <3>2, OwnedOn DEF rest, TunOff
  <2>2. CASE svcInstall
    <3>1. Head(job).step = "svcInstall" BY <2>2, ReadyList DEF svcInstall
    <3>2. active.kind = "server" BY <1>2, <3>1, StepOfOthers DEF Core, JobInv
    <3>3. /\ dialed' = dialed /\ astray' = astray /\ (service' => elevated \/ service)
      BY <2>2 DEF svcInstall, history
    <3>4. service' /\ "service" \notin astray' => elevated' /\ client' = "up"
      BY <1>3, <1>7, <2>2, <3>3 DEF process, svcInstall, Ready
    <3>. QED BY <1>2, <1>3, <1>7, <3>1, <3>2, <3>3, <3>4, OwnedOn DEF rest, TunOff
  <2>3. CASE rasHangUp
    <3>1. Head(job).step = "rasHangUp" BY <2>3, ReadyList DEF rasHangUp
    <3>2. /\ ~ dialed' /\ service' = service /\ ("service" \in astray' <=> "service" \in astray)
          /\ ("tor" \in astray' <=> "tor" \in astray) /\ elevated' = elevated
          /\ client' = client
      BY <2>3 DEF rasHangUp, process
    <3>. QED BY <1>2, <1>3, <1>7, <3>1, <3>2, OwnedOn DEF rest, TunOff
  <2>4. CASE done
    <3>1. Head(job).step = "done" BY <2>4, ReadyList DEF done
    <3>2. dialed' = dialed /\ service' = service /\ astray' = astray /\ elevated' = elevated
          /\ client' = client
      BY <2>4 DEF done, system, process
    <3>. QED BY <1>2, <1>3, <1>7, <3>1, <3>2, OwnedOn DEF rest, TunOff
  <2>. QED BY <2>1, <2>2, <2>3, <2>4
<1>. QED BY <1>4, <1>5, <1>6, <1>8 DEF Core

LEMMA CoreRasDial ==
    ASSUME WinTypes, Numbers, Core(job), rasDial
    PROVE  Core(job)'
<1>1. /\ UNCHANGED <<process, active, route, socks, workers, tor, pins, service, history>>
      /\ Ready("rasDial")
  BY DEF rasDial
<1>2. /\ job \in Seq(StepRec) /\ job # <<>> /\ Head(job).step = "rasDial"
      /\ <<>> \o Tail(job) = Tail(job)
  BY <1>1, ReadyList
<1>3. active.kind = "pptp" /\ Only(job, PptpSteps)
  BY <1>2, StepOfOthers DEF Core, JobInv
<1>4. Head(job).step \notin EndSteps BY <1>2 DEF EndSteps
<1>5. Core(job')
  <2>1. CASE Then(<<>>)
    <3>1. job' = Tail(job) BY <1>2, <2>1 DEF Then
    <3>2. /\ JobInv(job') /\ TorInv(job') /\ TunInv(job') /\ ComingInv(job') /\ SsInv(job')
          /\ PumpInv(job') /\ Owned(job)
      BY <1>1, <2>1, <3>1, NextOfList DEF TunOff, Core
    <3>3. Owned(Tail(job))
      <4>1. \A there \in BOOLEAN : \A kinds, ends :
               Belongs(job, there, kinds, ends) => (there => active.kind \in kinds)
        <5>1. ~ Has(job, {"done"}) BY <1>3 DEF Only, Has, PptpSteps
        <5>. QED BY <5>1 DEF Belongs
      <4>2. Head(job).step \notin Endings BY <1>2 DEF Endings
      <4>. QED BY <1>2, <3>2, <4>2, OwnedRest
    <3>. QED BY <3>1, <3>2, <3>3 DEF Core
  <2>2. CASE Fails(<<S("failed")>>)
    <3> DEFINE off == <<S("failed")>>
    <3>1. S("failed") \in StepRec /\ S("failed").step = "failed" BY StepNames
    <3>2. /\ off \in Seq(StepRec) /\ Only(off, Short) /\ Only(off, PptpSteps)
          /\ Guards(off, Risky, TunOff)
      BY <3>1, OneStep DEF Short, PptpSteps, Risky
    <3> HIDE DEF off
    <3>3. ListOf(active.kind, off) BY <1>3, <3>2 DEF ListOf
    <3>4. NoSs \/ slot["ss"] # {}
      <4>1. ~ TellsSoon(job) BY <1>2, RestOfList DEF TellsSoon
      <4>2. ~ Has(job, {"ssStore"}) BY <1>3 DEF Only, Has, PptpSteps
      <4>. QED BY <4>1, <4>2 DEF Core, SsInv
    <3>5. \A e \in pins \ astray : \E w \in slot["pump"] \cap live : w.of = e
      BY <1>2, PinsBefore DEF Core, At
    <3>6. Core(off) BY <1>2, <1>4, <3>2, <3>3, <3>4, <3>5, CoreGivenUp
    <3>. QED BY <2>2, <3>6 DEF Fails, off
  <2>. QED BY <2>1, <2>2 DEF rasDial
<1>6. JobInv(job)' /\ TorInv(job)' /\ TunInv(job)' /\ ComingInv(job)' /\ SsInv(job)'
  BY <1>1, <1>5, WorkersKept DEF Core, history
<1>7. PumpInv(job)' BY <1>1, <1>5 DEF Core, PumpInv, workers, history
<1>8. Owned(job)'
  <2>1. NoTun' = NoTun /\ NoSs' = NoSs /\ NoPump' = NoPump /\ slot'["ss"] = slot["ss"]
    BY <1>1, UntoldKept
  <2>. QED BY <1>1, <1>3, <1>5, <2>1 DEF Core, Owned, Belongs, process, history
<1>. QED BY <1>6, <1>7, <1>8 DEF Core

LEMMA CoreTorKill ==
    ASSUME WinTypes, Numbers, Core(job), torKill
    PROVE  Core(job)'
<1> DEFINE rest == Tail(job)
<1>1. Ready("torKill") /\ Then(<<>>) BY DEF torKill
<1>2. /\ job \in Seq(StepRec) /\ job # <<>> /\ Head(job).step = "torKill"
      /\ job' = rest /\ rest \in Seq(StepRec) /\ job' = <<>> \o rest
      /\ <<>> \in Seq(StepRec) /\ ~ Has(<<>>, {"done"})
      /\ JobInv(rest) /\ TorInv(rest) /\ SsInv(rest) /\ PumpInv(rest)
  BY <1>1, NextOfList DEF TunOff
<1>3. /\ tor' = 0 /\ astray' = astray \ {"tor"} /\ told' = told \cup {tor}
      /\ UNCHANGED <<process, active, route, socks, lastId, live, slot, pins, dialed, service,
                     mixed, clean>>
  BY DEF torKill
<1>4. ListOf(active.kind, job) BY DEF Core, JobInv
<1>5. \A i \in 1 .. Len(job) : job[i].step \notin {"tunSpawn", "ssStore", "ssSpawn"}
  BY <1>2, <1>4, ListOfWireGuard
<1>6. \A i \in 1 .. Len(rest) : rest[i].step \notin {"tunSpawn", "ssStore"}
  <2>1. \A i \in 1 .. Len(rest) : i + 1 \in 1 .. Len(job) /\ rest[i] = job[i + 1]
    BY <1>2, RestOfList
  <2>. QED BY <1>5, <2>1
<1>7. /\ Has(rest, {"torSpawn"}) => Has(job, {"torSpawn"})
      /\ Has(job, {"exit"}) => Has(rest, {"exit"})
  BY <1>2, HasRest
<1> HIDE DEF rest
<1>8. NoTun BY <1>2, GuardsRest DEF Core, TunInv, Risky
<1>9. NoTun' /\ (NoSs => NoSs') /\ (NoPump => NoPump') BY <1>3, <1>8, MoreTold
<1>10. JobInv(job)' BY <1>2, <1>3 DEF JobInv
<1>11. TorInv(job)'
  <2>1. active.kind = "tor" => Has(job, {"exit"}) \/ Has(job, {"torSpawn"})
    <3>1. CASE Only(job, EndSteps) /\ (active.kind # "none" /\ job # <<>> => Has(job, {"exit"}))
      BY <1>2, <3>1
    <3>2. CASE ~ (Only(job, EndSteps) /\ (active.kind # "none" /\ job # <<>> => Has(job, {"exit"})))
      <4>1. ~ Only(job, TorRoute) BY <1>2, OnlyRest DEF TorRoute
      <4>. QED BY <1>4, <3>2, <4>1 DEF ListOf
    <3>. QED BY <3>1, <3>2
  <2>2. Has(job, {"torSpawn"}) => active.kind = "tor"
    <3>1. Has(job, {"torSpawn"}) => \A A : Only(job, A) => "torSpawn" \in A BY DEF Has, Only
    <3>. QED BY <1>4, <3>1
         DEF ListOf, EndSteps, OutlineSteps, TorRoute, WgSteps, ServerSteps, PptpSteps
  <2>3. active.kind = "tor" => socks # 0 /\ (Has(job, {"exit"}) \/ socks \notin told')
    <3>1. Has(job, {"torSpawn"}) => tor # socks BY DEF Core, TorInv
    <3>. QED BY <1>3, <2>1, <3>1 DEF Core, TorInv
  <2>. QED BY <1>2, <1>3, <1>7, <2>2, <2>3 DEF TorInv
<1>12. TunInv(job)' BY <1>9 DEF TunInv, NoTun
<1>13. ComingInv(job)' BY <1>2, <1>6 DEF ComingInv
<1>14. SsInv(job)' BY <1>2, <1>3, <1>6, <1>9 DEF SsInv
<1>15. PumpInv(job)'
  <2>1. \A w \in slot["pump"] : w.id # tor BY DEF Numbers, Known
  <2>2. pins' \ astray' = pins \ astray BY <1>3, WindowsAssumption DEF WinTypes, OwnTypes
  <2>. QED BY <1>2, <1>3, <2>1, <2>2 DEF PumpInv
<1>16. Owned(job)'
  <2>1. Owned(job) BY DEF Core
  <2>2. service /\ "service" \notin astray => elevated' /\ client' = "up" BY <1>3 DEF Core, Owned, process
  <2>3. ("dialed" \in astray' <=> "dialed" \in astray) /\ ("service" \in astray' <=> "service" \in astray)
    BY <1>3
  <2>. QED BY <1>2, <1>3, <1>9, <2>1, <2>2, <2>3, OwnedOn DEF rest, TunOff
<1>. QED BY <1>10, <1>11, <1>12, <1>13, <1>14, <1>15, <1>16 DEF Core

LEMMA CoreTorSpawn ==
    ASSUME WinTypes, Numbers, Core(job), torSpawn
    PROVE  Core(job)'
<1> DEFINE rest == Tail(job)
<1>1. Ready("torSpawn") /\ Then(<<>>) BY DEF torSpawn
<1>2. /\ job \in Seq(StepRec) /\ job # <<>> /\ Head(job).step = "torSpawn"
      /\ job' = rest /\ rest \in Seq(StepRec) /\ job' = <<>> \o rest
      /\ <<>> \in Seq(StepRec) /\ ~ Has(<<>>, {"done"})
      /\ JobInv(rest) /\ TorInv(rest) /\ TunInv(rest) /\ ComingInv(rest) /\ SsInv(rest)
      /\ PumpInv(rest)
  BY <1>1, NextOfList DEF TunOff
<1>3. UNCHANGED <<process, active, route, socks, workers, pins, dialed, service, history>>
  BY DEF torSpawn
<1>4. rest = <<>> BY <1>2, LastStep DEF Core, JobInv, Ordered
<1>5. active.kind = "tor" BY <1>2, StepOfOthers DEF Core, JobInv
<1>6. ~ Has(rest, {"torSpawn"}) BY <1>4, NoStep
<1> HIDE DEF rest
<1>7. JobInv(job)' BY <1>2, <1>3 DEF JobInv, history
<1>8. TorInv(job)' BY <1>2, <1>3, <1>6 DEF TorInv, workers
<1>9. TunInv(job)' /\ ComingInv(job)' /\ SsInv(job)'
  BY <1>2, <1>3 DEF workers, TunInv, ComingInv, SsInv, NoTun, NoSs, NoPump, Untold
<1>10. PumpInv(job)' BY <1>2, <1>3 DEF PumpInv, workers, history
<1>11. Owned(job)'
  <2>1. Owned(job) BY DEF Core
  <2>2. service /\ "service" \notin astray => elevated' /\ client' = "up" BY <1>3 DEF Core, Owned, process
  <2>3. NoTun' = NoTun /\ NoSs' = NoSs /\ NoPump' = NoPump /\ slot'["ss"] = slot["ss"]
    BY <1>3, UntoldKept
  <2>. QED BY <1>2, <1>3, <1>5, <2>1, <2>2, <2>3, OwnedOn DEF rest, TunOff, history
<1>. QED BY <1>7, <1>8, <1>9, <1>10, <1>11 DEF Core

LEMMA CoreStep ==
    ASSUME WinTypes, Numbers, Core(job), Step, ~ exit
    PROVE  Core(job)'
BY CoreQuiet, CoreTunCancel, CoreTunSpawn, CoreSsTake, CoreSsTell, CoreSsSpawn, CoreSsStore, CoreWgTake,
   CoreWgRoutes, CoreWgPump, CoreSystem, CoreRasDial, CoreTorKill, CoreTorSpawn DEF Step

-----------------------------------------------------------------------------
(***************************************************************************)
(* What happens beside the handlers.                                       *)
(***************************************************************************)

\* A client that is gone has left everything to the next one.
LEMMA CoreGone ==
    ASSUME WinTypes, Gone
    PROVE  Core(job)'
<1>1. /\ active' = None /\ job' = <<>> /\ live' = {} /\ slot' = NoHandles /\ clean' = FALSE
      /\ UNCHANGED system
  BY DEF Gone
<1>2. NoTun' /\ NoSs' /\ NoPump' /\ (\A kind : Untold(kind)' = {})
  BY <1>1 DEF NoTun, NoSs, NoPump, Untold
<1>3. slot'["tun"] = {} /\ slot'["ss"] = {} /\ slot'["pump"] = {} BY <1>1 DEF NoHandles, Kinds
<1>4. active'.kind = "none" BY <1>1 DEF None
<1>5. /\ Len(job') = 0 /\ Ordered(job') /\ 1 .. 0 = {}
      /\ \A A : ~ Has(job', A) /\ Only(job', A)
      /\ \A Y, X : Guards(job', Y, X)
  BY <1>1, NoStep
<1>6. /\ pins' \subseteq astray' /\ (tor' # 0 => "tor" \in astray')
      /\ (dialed' => "dialed" \in astray') /\ (service' => "service" \in astray')
  BY DEF Gone, system
<1>7. JobInv(job)' BY <1>1, <1>4, <1>5 DEF JobInv, ListOf
<1>8. TorInv(job)' BY <1>4, <1>5 DEF TorInv
<1>9. TunInv(job)' BY <1>2 DEF TunInv
<1>10. ComingInv(job)' BY <1>5 DEF ComingInv
<1>11. SsInv(job)' BY <1>2, <1>3, <1>5 DEF SsInv
<1>12. PumpInv(job)' BY <1>1, <1>3, <1>6 DEF PumpInv
<1>13. Owned(job)' BY <1>2, <1>3, <1>6 DEF Owned, Belongs
<1>. QED BY <1>7, <1>8, <1>9, <1>10, <1>11, <1>12, <1>13 DEF Core

LEMMA TorSpawnKind ==
    ASSUME NEW list \in Seq(StepRec), NEW kind, ListOf(kind, list), Has(list, {"torSpawn"})
    PROVE  kind = "tor"
<1>1. \A A : Only(list, A) => "torSpawn" \in A BY DEF Has, Only
<1>. QED BY <1>1 DEF ListOf, EndSteps, OutlineSteps, TorRoute, WgSteps, ServerSteps, PptpSteps

LEMMA CoreWorkerEnds ==
    ASSUME WinTypes, Numbers, Core(job), NEW w, WorkerEnds(w)
    PROVE  Core(job)'
<1>1. /\ w \in live /\ live' = live \ {w}
      /\ UNCHANGED <<process, own, lastId, told, slot, system, mixed, clean>>
      /\ astray' = IF w.kind = "pump" /\ w.id \notin told THEN astray \cup {w.of} ELSE astray
  BY DEF WorkerEnds
<1>2. /\ \A kind : Untold(kind)' \subseteq Untold(kind)
      /\ (NoTun => NoTun') /\ (NoSs => NoSs') /\ (NoPump => NoPump')
  BY <1>1, MoreTold
<1>3. JobInv(job)' BY <1>1 DEF Core, JobInv, own
<1>4. TorInv(job)' BY <1>1 DEF Core, TorInv, own, system
<1>5. TunInv(job)' BY <1>1, <1>2 DEF Core, TunInv, own
<1>6. ComingInv(job)' BY <1>1 DEF Core, ComingInv, own
<1>7. SsInv(job)' BY <1>1, <1>2 DEF Core, SsInv, own
<1>8. PumpInv(job)'
  <2> SUFFICES ASSUME NEW e \in pins' \ astray'
               PROVE  \/ \E v \in slot["pump"] \cap live' : v.of = e
                      \/ Len(job) > 0 /\ job[1] \in {At("wgClear", e), At("wgPump", e)}
    BY <1>1 DEF Core, PumpInv, own
  <2>1. e \in pins \ astray BY <1>1 DEF system
  <2>2. ASSUME NEW v \in slot["pump"] \cap live, v.of = e PROVE v # w
    <3>1. v.kind = "pump" /\ v.id \notin told BY DEF WinTypes, WorkerTypes, Core, PumpInv
    <3>. QED BY <1>1, <2>2, <3>1
  <2>. QED BY <1>1, <2>1, <2>2 DEF Core, PumpInv
<1>9. Owned(job)'
  <2>1. w.kind = "pump" => w.of \in Endpoints BY <1>1 DEF WinTypes, WorkerTypes, Known
  <2>2. \A x \in {"tor", "dialed", "service"} : x \in astray' <=> x \in astray
    BY <1>1, <2>1, WindowsAssumption
  <2>3. /\ tor' = tor /\ dialed' = dialed /\ service' = service /\ elevated' = elevated
        /\ client' = client /\ slot' = slot /\ job' = job /\ active' = active
    BY <1>1 DEF system, process, own
  <2>. QED BY <1>2, <2>2, <2>3 DEF Core, Owned, Belongs
<1>. QED BY <1>3, <1>4, <1>5, <1>6, <1>7, <1>8, <1>9 DEF Core

LEMMA CoreBeside ==
    ASSUME WinTypes, Numbers, Core(job), TorDies \/ HungUp \/ Started
    PROVE  Core(job)'
<1>1. /\ UNCHANGED <<own, workers, pins, mixed, clean>>
      /\ NoTun' = NoTun /\ NoSs' = NoSs /\ NoPump' = NoPump /\ slot'["ss"] = slot["ss"]
  BY UntoldKept DEF TorDies, HungUp, Started, system, history
<1>2. JobInv(job)' /\ TunInv(job)' /\ ComingInv(job)' /\ SsInv(job)'
  BY <1>1 DEF workers, own, Core, JobInv, TunInv, ComingInv, SsInv, NoTun, NoSs, NoPump, Untold
<1>3. TorInv(job)'
  <2>1. tor' = tor \/ tor' = 0 BY DEF TorDies, HungUp, Started, system
  <2>2. Has(job, {"torSpawn"}) => active.kind = "tor"
    BY TorSpawnKind DEF Core, JobInv, WinTypes, OwnTypes
  <2>. QED BY <1>1, <2>1, <2>2 DEF Core, TorInv, own, workers
<1>4. PumpInv(job)'
  <2>1. pins' \ astray' = pins \ astray
    BY <1>1, WindowsAssumption DEF WinTypes, OwnTypes, TorDies, HungUp, Started, history
  <2>. QED BY <1>1, <2>1 DEF Core, PumpInv, own, workers
<1>5. Owned(job)'
  <2>1. Owned(job) BY DEF Core
  <2>2. job' = job /\ active' = active BY <1>1 DEF own
  <2>3. CASE TorDies
    BY <1>1, <2>1, <2>2, <2>3 DEF Owned, Belongs, TorDies, process
  <2>4. CASE HungUp
    BY <1>1, <2>1, <2>2, <2>4 DEF Owned, Belongs, HungUp, process
  <2>5. CASE Started
    BY <1>1, <2>1, <2>2, <2>5 DEF Owned, Belongs, Started, system, history
  <2>. QED BY <2>3, <2>4, <2>5
<1>. QED BY <1>2, <1>3, <1>4, <1>5 DEF Core

-----------------------------------------------------------------------------
(***************************************************************************)
(* The lists of the commands.                                              *)
(***************************************************************************)
LEMMA TorStartList ==
    LET list == <<S("torKill"), S("torSpawn")>>
    IN  /\ list \in Seq(StepRec) /\ ListOf("tor", list) /\ Ordered(list)
        /\ \A i \in 1 .. Len(list) : list[i].step \notin {"tunSpawn", "ssStore", "done", "exit"}
<1> DEFINE list == <<S("torKill"), S("torSpawn")>>
<1>1. /\ S("torKill") \in StepRec /\ S("torKill").step = "torKill"
      /\ S("torSpawn") \in StepRec /\ S("torSpawn").step = "torSpawn"
  BY StepNames
<1>2. /\ list \in Seq(StepRec) /\ Len(list) = 2 /\ list[1].step = "torKill"
      /\ list[2].step = "torSpawn"
      /\ \A A : Only(list, A) <=> "torKill" \in A /\ "torSpawn" \in A
      /\ \A A : Has(list, A) <=> "torKill" \in A \/ "torSpawn" \in A
  BY <1>1, TwoSteps
<1> HIDE DEF list
<1>3. 1 .. 2 = {1, 2} OBVIOUS
<1>4. Ordered(list) BY <1>2, <1>3 DEF Ordered, NoneAfter
<1>5. ListOf("tor", list) BY <1>2 DEF ListOf, TorStart
<1>6. \A i \in 1 .. Len(list) : list[i].step \notin {"tunSpawn", "ssStore", "done", "exit"}
  BY <1>2, <1>3
<1>. QED BY <1>2, <1>4, <1>5, <1>6 DEF list

LEMMA TorRouteList ==
    ASSUME NEW n \in Nat
    PROVE  LET list == SystemTunnel(n) \o <<S("routeOn")>>
           IN  /\ list \in Seq(StepRec) /\ ListOf("tor", list) /\ Ordered(list)
               /\ Guards(list, Risky, TunOff)
               /\ \A i \in 1 .. Len(list) : list[i].step \in TorRoute
               /\ \A i \in 1 .. Len(list) : list[i].step = "tunSpawn" => list[i].of = n
<1> DEFINE list == SystemTunnel(n) \o <<S("routeOn")>>
<1>1. /\ S("tunCancel") \in StepRec /\ S("tunCancel").step = "tunCancel"
      /\ At("tunSpawn", n) \in StepRec /\ At("tunSpawn", n).step = "tunSpawn"
      /\ At("tunSpawn", n).of = n
      /\ S("tunWait") \in StepRec /\ S("tunWait").step = "tunWait"
      /\ S("routeOn") \in StepRec /\ S("routeOn").step = "routeOn"
  BY StepNames
<1>2. list = <<S("tunCancel"), At("tunSpawn", n), S("tunWait")>> \o <<S("routeOn")>>
  BY DEF SystemTunnel
<1>3. /\ list \in Seq(StepRec) /\ Len(list) = 4 /\ list[1].step = "tunCancel"
      /\ list[2].step = "tunSpawn" /\ list[2].of = n /\ list[3].step = "tunWait"
      /\ list[4].step = "routeOn"
  <2> HIDE DEF list
  <2>1. /\ list \in Seq(StepRec) /\ Len(list) = 4
        /\ list[1] = S("tunCancel") /\ list[2] = At("tunSpawn", n)
        /\ list[3] = S("tunWait") /\ list[4] = S("routeOn")
    BY <1>1, <1>2, ThreeAndOne
  <2>. QED BY <1>1, <2>1
<1> HIDE DEF list
<1>4. 1 .. 4 = {1, 2, 3, 4} OBVIOUS
<1>5. \A i \in 1 .. 4 : /\ list[i].step \in {"tunCancel", "tunSpawn", "tunWait", "routeOn"}
                        /\ list[i].step = "tunSpawn" => i = 2
  BY <1>3, <1>4
<1>6. Ordered(list)
  <2>1. ~ Has(list, {"ssSpawn"}) BY <1>3, <1>5 DEF Has
  <2>2. NoneAfter(list, {"tunSpawn"}, Risky) BY <1>3, <1>4 DEF NoneAfter, Risky
  <2>3. /\ NoneAfter(list, {"ssSpawn"}, {"ssSpawn", "ssTell", "ssTake"})
        /\ NoneAfter(list, {"ssStore"}, {"ssSpawn", "tunSpawn"})
        /\ NoneAfter(list, {"torSpawn"}, Names) /\ NoneAfter(list, {"wgSettle"}, Names)
    BY <1>3, <1>5 DEF NoneAfter
  <2>4. \A i, j \in 1 .. Len(list) :
           {list[i].step, list[j].step} \subseteq {"tunSpawn", "ssStore"} => list[i].of = list[j].of
    BY <1>3, <1>5
  <2>. QED BY <1>3, <1>5, <2>1, <2>2, <2>3, <2>4 DEF Ordered
<1>7. Guards(list, Risky, TunOff)
  <2>1. \A i \in 1 .. 4 : list[i].step \in Risky => i = 2 BY <1>5 DEF Risky
  <2>2. 1 \in 1 .. 2 - 1 /\ list[1].step \in TunOff BY <1>3 DEF TunOff
  <2>. QED BY <1>3, <2>1, <2>2 DEF Guards
<1>8. \A i \in 1 .. Len(list) : list[i].step \in TorRoute BY <1>3, <1>5 DEF TorRoute
<1>9. ListOf("tor", list) BY <1>8 DEF ListOf, Only
<1>. QED BY <1>3, <1>5, <1>6, <1>7, <1>8, <1>9 DEF list

LEMMA WireGuardList ==
    ASSUME NEW e \in Endpoints
    PROVE  LET list == <<S("wgTake"), S("wgParse")>> \o Embedded(e) \o <<S("wgSettle")>>
           IN  /\ list \in Seq(StepRec) /\ ListOf("wg", list) /\ Ordered(list)
               /\ \A i \in 1 .. Len(list) : list[i].step \in WgSteps
<1> DEFINE list == <<S("wgTake"), S("wgParse")>> \o Embedded(e) \o <<S("wgSettle")>>
<1>1. /\ S("wgTake") \in StepRec /\ S("wgTake").step = "wgTake"
      /\ S("wgParse") \in StepRec /\ S("wgParse").step = "wgParse"
      /\ At("wgOpen", e) \in StepRec /\ At("wgOpen", e).step = "wgOpen"
      /\ At("wgRoutes", e) \in StepRec /\ At("wgRoutes", e).step = "wgRoutes"
      /\ At("wgRoutes", e).of = e
      /\ At("wgPump", e) \in StepRec /\ At("wgPump", e).step = "wgPump"
      /\ S("wgSettle") \in StepRec /\ S("wgSettle").step = "wgSettle"
  BY StepNames DEF OfEndpoint
<1>2. list = <<S("wgTake"), S("wgParse")>>
                \o <<S("wgTake"), At("wgOpen", e), At("wgRoutes", e), At("wgPump", e)>>
                \o <<S("wgSettle")>>
  BY DEF Embedded
<1> HIDE DEF list
<1>3. /\ list \in Seq(StepRec) /\ Len(list) = 7
      /\ list[1] = S("wgTake") /\ list[2] = S("wgParse") /\ list[3] = S("wgTake")
      /\ list[4] = At("wgOpen", e) /\ list[5] = At("wgRoutes", e) /\ list[6] = At("wgPump", e)
      /\ list[7] = S("wgSettle")
  BY <1>1, <1>2, TwoFourAndOne
<1>4. \A i \in 1 .. 7 : i \in {1, 2, 3, 4, 5, 6, 7} OBVIOUS
<1>5. \A i \in 1 .. 7 : /\ list[i].step \in {"wgTake", "wgParse", "wgOpen", "wgRoutes", "wgPump",
                                            "wgSettle"}
                        /\ list[i].step = "wgRoutes" => i = 5
                        /\ list[i].step = "wgSettle" => i = 7
  BY <1>1, <1>3, <1>4
<1>6. Ordered(list)
  <2>1. ~ Has(list, {"ssSpawn"}) BY <1>3, <1>5 DEF Has
  <2>2. /\ NoneAfter(list, {"ssSpawn"}, {"ssSpawn", "ssTell", "ssTake"})
        /\ NoneAfter(list, {"ssStore"}, {"ssSpawn", "tunSpawn"})
        /\ NoneAfter(list, {"torSpawn"}, Names) /\ NoneAfter(list, {"tunSpawn"}, Risky)
    BY <1>3, <1>5 DEF NoneAfter
  <2>3. NoneAfter(list, {"wgSettle"}, Names)
    <3>1. \A i, j \in 1 .. 7 : ~ (i < j /\ i = 7) OBVIOUS
    <3>. QED BY <1>3, <1>5, <3>1 DEF NoneAfter
  <2>4. \A i, j \in 1 .. Len(list) :
           {list[i].step, list[j].step} \subseteq {"tunSpawn", "ssStore"} => list[i].of = list[j].of
    BY <1>3, <1>5
  <2>5. \A i \in 1 .. Len(list) :
          list[i].step = "wgRoutes" => i < Len(list) /\ list[i + 1] = At("wgPump", list[i].of)
    BY <1>1, <1>3, <1>5
  <2>. QED BY <2>1, <2>2, <2>3, <2>4, <2>5 DEF Ordered
<1>7. \A i \in 1 .. Len(list) : list[i].step \in WgSteps BY <1>3, <1>5 DEF WgSteps
<1>8. ListOf("wg", list) BY <1>7 DEF ListOf, Only
<1>. QED BY <1>3, <1>6, <1>7, <1>8 DEF list

LEMMA ServerList ==
    ASSUME NEW e \in Endpoints
    PROVE  LET list == <<S("wgParse")>> \o Embedded(e)
           IN  /\ list \in Seq(StepRec) /\ ListOf("server", list) /\ Ordered(list)
               /\ \A i \in 1 .. Len(list) : list[i].step \in ServerSteps
<1> DEFINE list == <<S("wgParse")>> \o Embedded(e)
<1>1. /\ S("wgTake") \in StepRec /\ S("wgTake").step = "wgTake"
      /\ S("wgParse") \in StepRec /\ S("wgParse").step = "wgParse"
      /\ At("wgOpen", e) \in StepRec /\ At("wgOpen", e).step = "wgOpen"
      /\ At("wgRoutes", e) \in StepRec /\ At("wgRoutes", e).step = "wgRoutes"
      /\ At("wgRoutes", e).of = e
      /\ At("wgPump", e) \in StepRec /\ At("wgPump", e).step = "wgPump"
  BY StepNames DEF OfEndpoint
<1>2. list = <<S("wgParse")>>
                \o <<S("wgTake"), At("wgOpen", e), At("wgRoutes", e), At("wgPump", e)>>
  BY DEF Embedded
<1> HIDE DEF list
<1>3. /\ list \in Seq(StepRec) /\ Len(list) = 5
      /\ list[1] = S("wgParse") /\ list[2] = S("wgTake")
      /\ list[3] = At("wgOpen", e) /\ list[4] = At("wgRoutes", e) /\ list[5] = At("wgPump", e)
  BY <1>1, <1>2, OneAndFour
<1>4. \A i \in 1 .. 5 : i \in {1, 2, 3, 4, 5} OBVIOUS
<1>5. \A i \in 1 .. 5 : /\ list[i].step \in {"wgTake", "wgParse", "wgOpen", "wgRoutes", "wgPump"}
                        /\ list[i].step = "wgRoutes" => i = 4
  BY <1>1, <1>3, <1>4
<1>6. Ordered(list)
  <2>1. ~ Has(list, {"ssSpawn"}) BY <1>3, <1>5 DEF Has
  <2>2. /\ NoneAfter(list, {"ssSpawn"}, {"ssSpawn", "ssTell", "ssTake"})
        /\ NoneAfter(list, {"ssStore"}, {"ssSpawn", "tunSpawn"})
        /\ NoneAfter(list, {"torSpawn"}, Names) /\ NoneAfter(list, {"tunSpawn"}, Risky)
        /\ NoneAfter(list, {"wgSettle"}, Names)
    BY <1>3, <1>5 DEF NoneAfter
  <2>3. \A i, j \in 1 .. Len(list) :
           {list[i].step, list[j].step} \subseteq {"tunSpawn", "ssStore"} => list[i].of = list[j].of
    BY <1>3, <1>5
  <2>4. \A i \in 1 .. Len(list) :
          list[i].step = "wgRoutes" => i < Len(list) /\ list[i + 1] = At("wgPump", list[i].of)
    BY <1>1, <1>3, <1>5
  <2>. QED BY <2>1, <2>2, <2>3, <2>4 DEF Ordered
<1>7. \A i \in 1 .. Len(list) : list[i].step \in ServerSteps BY <1>3, <1>5 DEF ServerSteps, WgSteps
<1>8. ListOf("server", list) BY <1>7 DEF ListOf, Only
<1>. QED BY <1>3, <1>6, <1>7, <1>8 DEF list

\* With the system's tunnel and without it.
LEMMA OutlineList ==
    ASSUME NEW n \in Nat, NEW routing \in {"system", "socks"}
    PROVE  LET list == Outline(n, routing)
           IN  /\ list \in Seq(StepRec) /\ ListOf("outline", list) /\ Ordered(list)
               /\ \A i \in 1 .. Len(list) : list[i].step \in OutlineSteps
               /\ \A i \in 1 .. Len(list) : list[i].step = "tunSpawn" => list[i].of = n
               /\ Guards(list, Risky \cup {"ssStore", "tunSpawn"}, {"ssTake"})
               /\ Has(list, {"ssSpawn"})
<1> DEFINE list == Outline(n, routing)
<1>1. /\ S("ssTake") \in StepRec /\ S("ssTake").step = "ssTake"
      /\ S("ssSpawn") \in StepRec /\ S("ssSpawn").step = "ssSpawn"
      /\ At("ssPort", n) \in StepRec /\ At("ssPort", n).step = "ssPort"
      /\ S("ssBypass") \in StepRec /\ S("ssBypass").step = "ssBypass"
      /\ S("tunCancel") \in StepRec /\ S("tunCancel").step = "tunCancel"
      /\ At("tunSpawn", n) \in StepRec /\ At("tunSpawn", n).step = "tunSpawn"
      /\ At("tunSpawn", n).of = n
      /\ S("tunWait") \in StepRec /\ S("tunWait").step = "tunWait"
      /\ At("ssStore", n) \in StepRec /\ At("ssStore", n).step = "ssStore"
      /\ At("ssStore", n).of = n
      /\ S("connected") \in StepRec /\ S("connected").step = "connected"
  BY StepNames
<1>2. /\ list \in Seq(StepRec) /\ Len(list) \in {5, 9} /\ list[1].step = "ssTake"
      /\ list[2].step = "ssSpawn"
      /\ \A i \in 1 .. Len(list) :
            /\ list[i].step \in {"ssTake", "ssSpawn", "ssPort", "ssBypass", "tunCancel", "tunSpawn",
                                 "tunWait", "ssStore", "connected"}
            /\ list[i].step = "ssTake" => i = 1
            /\ list[i].step = "ssSpawn" => i = 2
            /\ list[i].step \in {"ssPort", "ssBypass"} => i < 5
            /\ list[i].step = "tunSpawn" => i = 6 /\ list[i].of = n
            /\ list[i].step = "ssStore" => i = Len(list) - 1 /\ list[i].of = n
      /\ list[Len(list) - 1].step = "ssStore"
  <2>1. CASE routing = "system"
    <3>1. list = <<S("ssTake"), S("ssSpawn"), At("ssPort", n)>>
                    \o (<<S("ssBypass")>> \o <<S("tunCancel"), At("tunSpawn", n), S("tunWait")>>)
                    \o <<At("ssStore", n), S("connected")>>
      BY <2>1 DEF Outline, SystemTunnel
    <3> HIDE DEF list
    <3>2. /\ list \in Seq(StepRec) /\ Len(list) = 9
          /\ list[1] = S("ssTake") /\ list[2] = S("ssSpawn") /\ list[3] = At("ssPort", n)
          /\ list[4] = S("ssBypass") /\ list[5] = S("tunCancel") /\ list[6] = At("tunSpawn", n)
          /\ list[7] = S("tunWait") /\ list[8] = At("ssStore", n) /\ list[9] = S("connected")
      BY <1>1, <3>1, OutlineNine
    <3>3. \A i \in 1 .. 9 : i \in {1, 2, 3, 4, 5, 6, 7, 8, 9} OBVIOUS
    <3>. QED BY <1>1, <3>2, <3>3
  <2>2. CASE routing = "socks"
    <3>1. list = <<S("ssTake"), S("ssSpawn"), At("ssPort", n)>> \o <<>>
                    \o <<At("ssStore", n), S("connected")>>
      BY <2>2 DEF Outline
    <3> HIDE DEF list
    <3>2. /\ list \in Seq(StepRec) /\ Len(list) = 5
          /\ list[1] = S("ssTake") /\ list[2] = S("ssSpawn") /\ list[3] = At("ssPort", n)
          /\ list[4] = At("ssStore", n) /\ list[5] = S("connected")
      BY <1>1, <3>1, OutlineFive
    <3>3. \A i \in 1 .. 5 : i \in {1, 2, 3, 4, 5} OBVIOUS
    <3>. QED BY <1>1, <3>2, <3>3
  <2>. QED BY <2>1, <2>2
<1> HIDE DEF list
<1>3. Has(list, {"ssSpawn"}) BY <1>2 DEF Has
<1>4. Ordered(list)
  <2>1. Has(list, {"ssStore"})
    <3>1. Len(list) - 1 \in 1 .. Len(list) BY <1>2
    <3>. QED BY <1>2, <3>1 DEF Has
  <2>2. NoneAfter(list, {"tunSpawn"}, Risky)
    <3> SUFFICES ASSUME NEW i \in 1 .. Len(list), NEW j \in 1 .. Len(list), i < j,
                        list[i].step = "tunSpawn", list[j].step \in Risky
                 PROVE  FALSE
      BY DEF NoneAfter
    <3>1. i = 6 /\ j > 6 BY <1>2
    <3>2. list[j].step \in {"ssSpawn", "ssPort", "ssBypass", "tunSpawn"} BY <1>2 DEF Risky
    <3>. QED BY <1>2, <3>1, <3>2
  <2>3. NoneAfter(list, {"ssSpawn"}, {"ssSpawn", "ssTell", "ssTake"})
    <3> SUFFICES ASSUME NEW i \in 1 .. Len(list), NEW j \in 1 .. Len(list), i < j,
                        list[i].step = "ssSpawn", list[j].step \in {"ssSpawn", "ssTell", "ssTake"}
                 PROVE  FALSE
      BY DEF NoneAfter
    <3>. QED BY <1>2
  <2>4. NoneAfter(list, {"ssStore"}, {"ssSpawn", "tunSpawn"})
    <3> SUFFICES ASSUME NEW i \in 1 .. Len(list), NEW j \in 1 .. Len(list), i < j,
                        list[i].step = "ssStore", list[j].step \in {"ssSpawn", "tunSpawn"}
                 PROVE  FALSE
      BY DEF NoneAfter
    <3>1. i = Len(list) - 1 BY <1>2
    <3>2. j = Len(list) BY <1>2, <3>1
    <3>. QED BY <1>2, <3>2
  <2>5. NoneAfter(list, {"torSpawn"}, Names) /\ NoneAfter(list, {"wgSettle"}, Names)
    BY <1>2 DEF NoneAfter
  <2>6. \A i, j \in 1 .. Len(list) :
           {list[i].step, list[j].step} \subseteq {"tunSpawn", "ssStore"} => list[i].of = list[j].of
    BY <1>2
  <2>. QED BY <1>2, <2>1, <2>2, <2>3, <2>4, <2>5, <2>6 DEF Ordered
<1>5. Guards(list, Risky \cup {"ssStore", "tunSpawn"}, {"ssTake"})
  <2> SUFFICES ASSUME NEW i \in 1 .. Len(list), list[i].step \in Risky \cup {"ssStore", "tunSpawn"}
               PROVE  \E j \in 1 .. i - 1 : list[j].step \in {"ssTake"}
    BY DEF Guards
  <2>1. i # 1 BY <1>2 DEF Risky
  <2>2. 1 \in 1 .. i - 1 BY <1>2, <2>1
  <2>. QED BY <1>2, <2>2
<1>6. \A i \in 1 .. Len(list) : list[i].step \in OutlineSteps
  BY <1>2 DEF OutlineSteps, TorRoute
<1>7. ListOf("outline", list) BY <1>6 DEF ListOf, Only
<1>. QED BY <1>2, <1>3, <1>4, <1>5, <1>6, <1>7 DEF list

\* Plain lists.
LEMMA PlainLists ==
    /\ LET list == <<S("rasHangUp"), S("rasDial"), S("connected")>>
       IN  list \in Seq(StepRec) /\ Only(list, PptpSteps)
    /\ LET list == <<S("wgTake"), S("svcUninstall"), S("svcInstall")>>
       IN  list \in Seq(StepRec) /\ Only(list, (ServerSteps \ WgSteps) \cup {"wgTake"})
    /\ <<S("failed")>> \in Seq(StepRec) /\ Only(<<S("failed")>>, {"failed"})
    /\ <<S("routeOff")>> \in Seq(StepRec) /\ Only(<<S("routeOff")>>, {"routeOff"})
    /\ LET list == <<S("tunCancel"), S("routeOff")>>
       IN  list \in Seq(StepRec) /\ Only(list, {"tunCancel", "routeOff"})
<1>1. /\ S("rasHangUp") \in StepRec /\ S("rasHangUp").step = "rasHangUp"
      /\ S("rasDial") \in StepRec /\ S("rasDial").step = "rasDial"
      /\ S("connected") \in StepRec /\ S("connected").step = "connected"
      /\ S("wgTake") \in StepRec /\ S("wgTake").step = "wgTake"
      /\ S("svcUninstall") \in StepRec /\ S("svcUninstall").step = "svcUninstall"
      /\ S("svcInstall") \in StepRec /\ S("svcInstall").step = "svcInstall"
      /\ S("failed") \in StepRec /\ S("failed").step = "failed"
      /\ S("routeOff") \in StepRec /\ S("routeOff").step = "routeOff"
      /\ S("tunCancel") \in StepRec /\ S("tunCancel").step = "tunCancel"
  BY StepNames
<1>2. \A i \in 1 .. 3 : i \in {1, 2, 3} OBVIOUS
<1>3. LET list == <<S("rasHangUp"), S("rasDial"), S("connected")>>
      IN  list \in Seq(StepRec) /\ Only(list, PptpSteps)
  <2> DEFINE list == <<S("rasHangUp"), S("rasDial"), S("connected")>>
  <2>1. /\ list \in Seq(StepRec) /\ Len(list) = 3 /\ list[1].step = "rasHangUp"
        /\ list[2].step = "rasDial" /\ list[3].step = "connected"
    BY <1>1
  <2> HIDE DEF list
  <2>2. Only(list, PptpSteps) BY <1>2, <2>1 DEF Only, PptpSteps
  <2>. QED BY <2>1, <2>2 DEF list
<1>4. LET list == <<S("wgTake"), S("svcUninstall"), S("svcInstall")>>
      IN  list \in Seq(StepRec) /\ Only(list, (ServerSteps \ WgSteps) \cup {"wgTake"})
  <2> DEFINE list == <<S("wgTake"), S("svcUninstall"), S("svcInstall")>>
  <2>1. /\ list \in Seq(StepRec) /\ Len(list) = 3 /\ list[1].step = "wgTake"
        /\ list[2].step = "svcUninstall" /\ list[3].step = "svcInstall"
    BY <1>1
  <2> HIDE DEF list
  <2>2. Only(list, (ServerSteps \ WgSteps) \cup {"wgTake"})
    BY <1>2, <2>1 DEF Only, ServerSteps, WgSteps
  <2>. QED BY <2>1, <2>2 DEF list
<1>. QED BY <1>1, <1>3, <1>4, OneStep, TwoSteps

\* How a connection of each kind is ended.
LEMMA EndsList ==
    ASSUME NEW kind \in {"none", "tor", "wg", "outline", "server", "pptp"}
    PROVE  /\ Ends(kind) \in Seq(StepRec) /\ Only(Ends(kind), EndSteps \ {"done", "exit"})
           /\ Guards(Ends(kind), Risky, TunOff)
           /\ kind \in {"tor", "outline"} => Has(Ends(kind), TunOff)
           /\ kind = "outline" => Has(Ends(kind), {"ssTake"}) /\ Has(Ends(kind), {"ssTell", "ssTake"})
           /\ kind \in {"wg", "server"} => Has(Ends(kind), {"wgTake"})
           /\ kind = "tor" => Has(Ends(kind), {"torKill"})
           /\ kind = "pptp" => Has(Ends(kind), {"rasHangUp"})
           /\ kind = "server" => Has(Ends(kind), {"svcUninstall"})
<1>1. /\ S("tunCancel") \in StepRec /\ S("tunCancel").step = "tunCancel"
      /\ S("torKill") \in StepRec /\ S("torKill").step = "torKill"
      /\ S("wgTake") \in StepRec /\ S("wgTake").step = "wgTake"
      /\ S("rasHangUp") \in StepRec /\ S("rasHangUp").step = "rasHangUp"
      /\ S("ssTake") \in StepRec /\ S("ssTake").step = "ssTake"
      /\ S("svcUninstall") \in StepRec /\ S("svcUninstall").step = "svcUninstall"
  BY StepNames
<1> DEFINE some == EndSteps \ ({"done", "exit"} \cup Risky)
<1>2. some \subseteq EndSteps \ {"done", "exit"}
      /\ {"tunCancel", "wgTake", "rasHangUp", "ssTake", "svcUninstall"} \subseteq some
  BY DEF EndSteps, Risky
<1> HIDE DEF some
<1>3. \A list : Only(list, some) => Only(list, EndSteps \ {"done", "exit"}) /\ Guards(list, Risky, TunOff)
  BY <1>2 DEF Only, Guards, some
<1>4. CASE kind = "tor"
  <2>1. Ends(kind) = <<S("tunCancel"), S("torKill")>> BY <1>4 DEF Ends
  <2>2. /\ Ends(kind) \in Seq(StepRec) /\ Has(Ends(kind), TunOff) /\ Has(Ends(kind), {"torKill"})
        /\ Only(Ends(kind), EndSteps \ {"done", "exit"})
    BY <1>1, <2>1, TwoSteps DEF EndSteps, TunOff
  <2>3. Guards(Ends(kind), Risky, TunOff) BY <1>1, <2>1, TwoSteps DEF Risky, TunOff
  <2>. QED BY <1>4, <2>2, <2>3
<1>5. CASE kind = "wg"
  <2>1. Ends(kind) = <<S("wgTake")>> BY <1>5 DEF Ends
  <2>2. Only(Ends(kind), some) /\ Ends(kind) \in Seq(StepRec) /\ Has(Ends(kind), {"wgTake"})
    BY <1>1, <1>2, <2>1, OneStep
  <2>. QED BY <1>3, <1>5, <2>2
<1>6. CASE kind = "pptp"
  <2>1. Ends(kind) = <<S("rasHangUp")>> BY <1>6 DEF Ends
  <2>2. Only(Ends(kind), some) /\ Ends(kind) \in Seq(StepRec) /\ Has(Ends(kind), {"rasHangUp"})
    BY <1>1, <1>2, <2>1, OneStep
  <2>. QED BY <1>3, <1>6, <2>2
<1>7. CASE kind = "outline"
  <2>1. Ends(kind) = <<S("ssTake")>> BY <1>7 DEF Ends
  <2>2. /\ Only(Ends(kind), some) /\ Ends(kind) \in Seq(StepRec)
        /\ Has(Ends(kind), {"ssTake"}) /\ Has(Ends(kind), {"ssTell", "ssTake"})
    BY <1>1, <1>2, <2>1, OneStep
  <2>3. Has(Ends(kind), TunOff) BY <1>1, <2>1, OneStep DEF TunOff
  <2>. QED BY <1>3, <1>7, <2>2, <2>3
<1>8. /\ PlatformTunnelOff \in Seq(StepRec) /\ Only(PlatformTunnelOff, some)
      /\ Has(PlatformTunnelOff, {"wgTake"}) /\ Has(PlatformTunnelOff, {"svcUninstall"})
  BY <1>1, <1>2, TwoSteps DEF PlatformTunnelOff
<1>9. CASE kind = "server"
  <2>1. Ends(kind) = PlatformTunnelOff \o PlatformTunnelOff BY <1>9 DEF Ends
  <2>2. Ends(kind) \in Seq(StepRec) /\ Only(Ends(kind), some)
    BY <1>8, <2>1, OnlyJoined, JoinedLists
  <2>3. Has(Ends(kind), {"wgTake"}) /\ Has(Ends(kind), {"svcUninstall"})
    BY <1>8, <2>1, HasJoined
  <2>. QED BY <1>3, <1>9, <2>2, <2>3
<1>10. CASE kind = "none"
  <2>1. Ends(kind) = PlatformTunnelOff \o All BY <1>10 DEF Ends
  <2>2. All \in Seq(StepRec) /\ Only(All, some)
    <3>1. /\ All \in Seq(StepRec) /\ Len(All) = 4 /\ All[1].step = "tunCancel"
          /\ All[2].step = "wgTake" /\ All[3].step = "rasHangUp" /\ All[4].step = "ssTake"
      BY <1>1 DEF All
    <3>2. \A i \in 1 .. 4 : i \in {1, 2, 3, 4} OBVIOUS
    <3>. QED BY <1>2, <3>1, <3>2 DEF Only
  <2>3. Ends(kind) \in Seq(StepRec) /\ Only(Ends(kind), some)
    BY <1>8, <2>1, <2>2, OnlyJoined, JoinedLists
  <2>. QED BY <1>3, <1>10, <2>3
<1>. QED BY <1>4, <1>5, <1>6, <1>7, <1>9, <1>10

LEMMA QuitsList ==
    /\ Quits \in Seq(StepRec) /\ Only(Quits, EndSteps) /\ ~ Has(Quits, {"done"})
    /\ Has(Quits, {"exit"}) /\ Guards(Quits, Risky, TunOff) /\ Quits # <<>>
<1>1. /\ S("tunCancel") \in StepRec /\ S("tunCancel").step = "tunCancel"
      /\ S("torKill") \in StepRec /\ S("torKill").step = "torKill"
      /\ S("wgTake") \in StepRec /\ S("wgTake").step = "wgTake"
      /\ S("rasHangUp") \in StepRec /\ S("rasHangUp").step = "rasHangUp"
      /\ S("ssTake") \in StepRec /\ S("ssTake").step = "ssTake"
      /\ S("exit") \in StepRec /\ S("exit").step = "exit"
  BY StepNames
<1>2. /\ All \in Seq(StepRec) /\ Len(All) = 4 /\ All[1].step = "tunCancel"
      /\ All[2].step = "wgTake" /\ All[3].step = "rasHangUp" /\ All[4].step = "ssTake"
  BY <1>1 DEF All
<1>3. \A i \in 1 .. 4 : i \in {1, 2, 3, 4} OBVIOUS
<1>4. Only(All, {"tunCancel", "wgTake", "rasHangUp", "ssTake"}) /\ Has(All, TunOff)
  BY <1>2, <1>3 DEF Only, Has, TunOff
<1>5. Only(All, EndSteps) /\ ~ Has(All, {"done"}) /\ Guards(All, Risky, TunOff)
  BY <1>4 DEF Only, Has, Guards, EndSteps, Risky
<1> DEFINE last == <<S("torKill"), S("exit")>>
<1>6. /\ last \in Seq(StepRec) /\ Only(last, EndSteps) /\ ~ Has(last, {"done"})
      /\ Has(last, {"exit"})
  BY <1>1, TwoSteps DEF EndSteps
<1> HIDE DEF last
<1>7. Quits = All \o last BY DEF Quits, last
<1>8. Quits \in Seq(StepRec) /\ Only(Quits, EndSteps) BY <1>2, <1>5, <1>6, <1>7, OnlyJoined, JoinedLists
<1>9. ~ Has(Quits, {"done"}) /\ Has(Quits, {"exit"}) BY <1>2, <1>5, <1>6, <1>7, HasJoined
<1>10. Guards(Quits, Risky, TunOff) BY <1>2, <1>4, <1>5, <1>6, <1>7, GuardsJoined
<1>11. Quits # <<>> BY <1>9, NoStep
<1>. QED BY <1>8, <1>9, <1>10, <1>11

\* The list of a Disconnect: everything of that connection, and then it is done.
LEMMA DisconnectList ==
    ASSUME NEW kind \in {"none", "tor", "wg", "outline", "server", "pptp"}, NEW after \in {<<>>, Quits}
    PROVE  LET list == Ends(kind) \o <<S("done")>> \o after
           IN  /\ list \in Seq(StepRec) /\ Only(list, EndSteps) /\ Has(list, {"done"})
               /\ Guards(list, Risky, TunOff)
               /\ \A X : Has(Ends(kind), X) => Guards(list, {"done"}, X)
<1> DEFINE ends == Ends(kind)
           first == ends \o <<S("done")>>
           list == first \o after
<1>1. /\ ends \in Seq(StepRec) /\ Only(ends, EndSteps \ {"done", "exit"})
      /\ Guards(ends, Risky, TunOff)
  BY EndsList
<1>2. S("done") \in StepRec /\ S("done").step = "done" BY StepNames
<1>3. /\ <<S("done")>> \in Seq(StepRec) /\ Only(<<S("done")>>, EndSteps) /\ Has(<<S("done")>>, {"done"})
      /\ Guards(<<S("done")>>, Risky, TunOff)
  BY <1>2, OneStep DEF EndSteps, Risky
<1>4. /\ after \in Seq(StepRec) /\ Only(after, EndSteps) /\ ~ Has(after, {"done"})
      /\ Guards(after, Risky, TunOff)
  BY QuitsList, NoStep
<1>5. Only(ends, EndSteps) /\ ~ Has(ends, {"done"}) BY <1>1 DEF Only, Has
<1> HIDE DEF ends
<1>6. /\ first \in Seq(StepRec) /\ Only(first, EndSteps) /\ Has(first, {"done"})
      /\ Guards(first, Risky, TunOff)
  BY <1>1, <1>3, <1>5, JoinedLists, OnlyJoined, HasJoined, GuardsJoined
<1>7. ASSUME NEW X, Has(ends, X) PROVE Guards(first, {"done"}, X) /\ Has(first, X)
  <2>1. Guards(ends, {"done"}, X) BY <1>5 DEF Guards, Has
  <2>. QED BY <1>1, <1>3, <1>7, <2>1, GuardsJoined, HasJoined
<1> HIDE DEF first
<1>8. /\ list \in Seq(StepRec) /\ Only(list, EndSteps) /\ Has(list, {"done"})
      /\ Guards(list, Risky, TunOff)
  BY <1>4, <1>6, JoinedLists, OnlyJoined, HasJoined, GuardsJoined
<1>9. \A X : Has(ends, X) => Guards(list, {"done"}, X)
  BY <1>4, <1>6, <1>7, GuardsJoined
<1>. QED BY <1>8, <1>9 DEF first, ends

-----------------------------------------------------------------------------
(***************************************************************************)
(* The commands.                                                           *)
(***************************************************************************)

\* What a command finds: nothing is half-way, and what is there is the
\* connection's.
LEMMA CoreIdle ==
    ASSUME Core(job), job = <<>>
    PROVE  /\ clean => active.kind = "none"
           /\ active.kind = "tor" => socks # 0 /\ socks \notin told
           /\ NoSs \/ slot["ss"] # {}
           /\ \A e \in pins \ astray : \E w \in slot["pump"] \cap live : w.of = e
           /\ ~ NoTun => active.kind \in {"tor", "outline"}
           /\ ~ NoSs => active.kind = "outline"
           /\ slot["ss"] # {} => active.kind = "outline"
           /\ ~ NoPump => active.kind \in {"wg", "server"}
           /\ tor # 0 /\ "tor" \notin astray => active.kind = "tor"
           /\ dialed /\ "dialed" \notin astray => active.kind = "pptp"
           /\ service /\ "service" \notin astray => active.kind = "server"
<1>1. Len(job) = 0 /\ \A A : ~ Has(job, A) BY NoStep
<1>2. ~ TellsSoon(job) BY <1>1 DEF TellsSoon
<1>3. \A there, kinds, ends : Belongs(job, there, kinds, ends) => (there => active.kind \in kinds)
  BY <1>1 DEF Belongs
<1>4. (clean => active.kind = "none") /\ (active.kind = "tor" => socks # 0 /\ socks \notin told)
  BY <1>1 DEF Core, JobInv, TorInv
<1>5. /\ NoSs \/ slot["ss"] # {}
      /\ \A e \in pins \ astray : \E w \in slot["pump"] \cap live : w.of = e
  BY <1>1, <1>2 DEF Core, SsInv, PumpInv
<1>6. /\ ~ NoTun => active.kind \in {"tor", "outline"}
      /\ ~ NoSs => active.kind \in {"outline"}
      /\ slot["ss"] # {} => active.kind \in {"outline"}
      /\ ~ NoPump => active.kind \in {"wg", "server"}
      /\ tor # 0 /\ "tor" \notin astray => active.kind \in {"tor"}
      /\ dialed /\ "dialed" \notin astray => active.kind \in {"pptp"}
      /\ service /\ "service" \notin astray => active.kind \in {"server"}
  <2>1. Owned(job) BY DEF Core
  <2>. QED BY <1>1, <2>1 DEF Owned, Belongs
<1>. QED BY <1>4, <1>5, <1>6

\* A new list for the connection there is, or for a new one where there was none.
LEMMA CoreBegins ==
    ASSUME WinTypes, Numbers, Core(job), job = <<>>,
           UNCHANGED <<live, told, slot, system, astray, elevated, client>>,
           lastId' \in Nat, lastId <= lastId',
           active.kind \in {"none", active'.kind}, clean' => active'.kind = "none",
           job' \in Seq(StepRec), ListOf(active'.kind, job'), Ordered(job'), ~ Has(job', {"done"}),
           TorInv(job)', ComingInv(job)',
           NoTun \/ Guards(job', Risky, TunOff),
           NoTun \/ Guards(job', {"ssStore"}, TunOff),
           slot["ss"] = {} \/ Guards(job', {"tunSpawn"}, {"ssTake"})
    PROVE  Core(job)'
<1> USE DEF system
<1>1. /\ clean => active.kind = "none"
      /\ active.kind = "tor" => socks # 0 /\ socks \notin told
      /\ NoSs \/ slot["ss"] # {}
      /\ \A e \in pins \ astray : \E w \in slot["pump"] \cap live : w.of = e
      /\ ~ NoTun => active.kind \in {"tor", "outline"}
      /\ ~ NoSs => active.kind = "outline"
      /\ slot["ss"] # {} => active.kind = "outline"
      /\ ~ NoPump => active.kind \in {"wg", "server"}
      /\ tor # 0 /\ "tor" \notin astray => active.kind = "tor"
      /\ dialed /\ "dialed" \notin astray => active.kind = "pptp"
      /\ service /\ "service" \notin astray => active.kind = "server"
  BY CoreIdle
<1>2. /\ Untold("tun")' = Untold("tun") /\ NoTun' = NoTun /\ NoSs' = NoSs /\ NoPump' = NoPump
      /\ (slot["ss"])' = slot["ss"]
  BY DEF Untold, NoTun, NoSs, NoPump
<1>3. JobInv(job)' BY DEF JobInv
<1>4. TunInv(job)'
  <2>1. TunInv(job) BY DEF Core
  <2>2. lastId \in Nat BY DEF WinTypes, WorkerTypes
  <2>3. \A n \in 1 .. lastId : n \in 1 .. lastId' BY <2>2
  <2>4. \A w \in Untold("tun") : w \in slot["tun"] /\ w.of \in 1 .. lastId' /\ w.of \notin told
    BY <2>1, <2>3 DEF TunInv
  <2>5. NoTun \/ NoPump BY <2>1 DEF TunInv
  <2>6. NoTun' \/ Guards(job', Risky, TunOff) BY <1>2
  <2>7. NoTun' \/ NoPump' BY <2>5, <1>2
  <2>. QED BY <1>2, <2>4, <2>6, <2>7 DEF TunInv
<1>5. SsInv(job)'
  <2>1. SsInv(job) BY DEF Core
  <2>2. \A i \in 1 .. Len(job') : job'[i].step = "ssStore" =>
           \/ \A w \in Untold("tun") : w.of = job'[i].of
           \/ Guards(job', {"ssStore"}, TunOff)
    BY DEF NoTun
  <2>3. \A h \in slot["ss"] : h.of = 0 => NoTun BY <2>1 DEF SsInv
  <2>. QED BY <1>1, <1>2, <2>2, <2>3 DEF SsInv
<1>6. PumpInv(job)'
  <2>1. PumpInv(job) BY DEF Core
  <2>. QED BY <1>1, <2>1 DEF PumpInv
<1>7. Owned(job)'
  <2>1. service /\ "service" \notin astray => elevated /\ client = "up" BY DEF Core, Owned
  <2>2. /\ ~ NoTun' => active'.kind \in {"tor", "outline"}
        /\ ~ NoSs' => active'.kind \in {"outline"}
        /\ slot'["ss"] # {} => active'.kind \in {"outline"}
        /\ ~ NoPump' => active'.kind \in {"wg", "server"}
        /\ tor' # 0 /\ "tor" \notin astray' => active'.kind \in {"tor"}
        /\ dialed' /\ "dialed" \notin astray' => active'.kind \in {"pptp"}
        /\ service' /\ "service" \notin astray' => active'.kind \in {"server"}
    BY <1>1, <1>2
  <2>. QED BY <2>1, <2>2 DEF Owned, Belongs
<1>. QED BY <1>3, <1>4, <1>5, <1>6, <1>7 DEF Core
\* Steps with no place of their own in a list.
LEMMA PlainOnes ==
    {"tunCancel", "routeOff", "failed", "rasHangUp", "rasDial", "connected", "wgTake",
     "svcUninstall", "svcInstall"} \subseteq Plain
BY DEF Plain, Names, TorStart, OutlineSteps, TorRoute, ServerSteps, WgSteps, PptpSteps, EndSteps

LEMMA CoreConnectTor ==
    ASSUME WinTypes, Numbers, Core(job), ConnectTor
    PROVE  Core(job)'
<1>1. CASE Relaunch BY <1>1, CoreGone DEF Relaunch
<1>2. CASE /\ lastId' = lastId + 1 /\ socks' = lastId + 1
           /\ Begin(As("tor", "Connecting"), <<S("torKill"), S("torSpawn")>>)
  <2>1. /\ job = <<>> /\ active.kind = "none" /\ active'.kind = "tor"
        /\ job' = <<S("torKill"), S("torSpawn")>> /\ clean' = FALSE
        /\ UNCHANGED <<live, told, slot, system, astray, elevated, client>>
    BY <1>2 DEF ConnectTor, Idle, Begin, As, process
  <2>2. lastId \in Nat /\ told \subseteq 0 .. lastId /\ tor \in 0 .. lastId
    BY DEF WinTypes, WorkerTypes
  <2>3. /\ job' \in Seq(StepRec) /\ ListOf("tor", job') /\ Ordered(job')
        /\ \A i \in 1 .. Len(job') : job'[i].step \notin {"tunSpawn", "ssStore", "done", "exit"}
    BY <2>1, TorStartList
  <2>4. ~ Has(job', {"done"}) BY <2>3 DEF Has
  <2>5. TorInv(job)' BY <1>2, <2>1, <2>2 DEF TorInv, system
  <2>6. ComingInv(job)' BY <2>3 DEF ComingInv
  <2>7. NoTun /\ slot["ss"] = {} BY <2>1, CoreIdle
  <2>8. lastId' \in Nat /\ lastId <= lastId' BY <1>2, <2>2
  <2>. QED BY <2>1, <2>3, <2>4, <2>5, <2>6, <2>7, <2>8, CoreBegins
<1>. QED BY <1>1, <1>2 DEF ConnectTor

\* Tor's tunnel is built, or is not.
LEMMA CoreTorRoutes ==
    ASSUME WinTypes, Numbers, Core(job), job = <<>>, active.kind = "tor", active'.kind = "tor",
           UNCHANGED <<lastId, socks, live, told, slot, system, astray, elevated, client, clean>>,
           \/ job' = SystemTunnel(socks) \o <<S("routeOn")>>
           \/ job' = <<S("routeOff")>>
           \/ job' = <<S("tunCancel"), S("routeOff")>>
           \/ job' = <<>>
    PROVE  Core(job)'
<1>1. clean = FALSE /\ socks # 0 /\ socks \notin told /\ slot["ss"] = {}
  BY CoreIdle DEF WinTypes, OwnTypes
<1>2. /\ lastId \in Nat /\ socks \in 0 .. lastId /\ socks \in Nat
      /\ \A w \in slot["tun"] : w.id # socks
  BY DEF WinTypes, WorkerTypes, Numbers, Known
<1>3. /\ job' \in Seq(StepRec) /\ Only(job', TorRoute)
      /\ Ordered(job') /\ Guards(job', Risky, TunOff)
      /\ \A i \in 1 .. Len(job') : job'[i].step = "tunSpawn" => job'[i].of = socks
  <2>1. CASE job' = SystemTunnel(socks) \o <<S("routeOn")>>
    BY <1>2, <2>1, TorRouteList DEF Only
  <2>2. ASSUME job' \in Seq(StepRec), Only(job', {"tunCancel", "routeOff"})
        PROVE  /\ Only(job', TorRoute) /\ Ordered(job') /\ Guards(job', Risky, TunOff)
               /\ \A i \in 1 .. Len(job') : job'[i].step = "tunSpawn" => job'[i].of = socks
    <3>1. Only(job', Plain) BY <2>2, PlainOnes DEF Only
    <3>2. Only(job', TorRoute) BY <2>2 DEF Only, TorRoute
    <3>3. Guards(job', Risky, TunOff) BY <2>2 DEF Only, Guards, Risky
    <3>. QED BY <2>2, <3>1, <3>2, <3>3, PlainOrdered DEF Only
  <2>3. CASE job' = <<S("routeOff")>>
    <3>1. job' \in Seq(StepRec) /\ Only(job', {"routeOff"}) BY <2>3, PlainLists
    <3>2. Only(job', {"tunCancel", "routeOff"}) BY <3>1 DEF Only
    <3>. QED BY <2>2, <3>1, <3>2
  <2>4. CASE job' = <<S("tunCancel"), S("routeOff")>> BY <2>2, <2>4, PlainLists
  <2>5. CASE job' = <<>> BY <2>2, <2>5, NoStep
  <2>. QED BY <2>1, <2>3, <2>4, <2>5
<1>4. ListOf("tor", job') BY <1>3 DEF ListOf
<1>5. \A i \in 1 .. Len(job') : job'[i].step \notin {"done", "torSpawn", "ssStore", "ssSpawn",
                                                    "ssTell", "ssTake"}
  BY <1>3 DEF Only, TorRoute
<1>6. ~ Has(job', {"done"}) /\ ~ Has(job', {"torSpawn"}) BY <1>5 DEF Has
<1>7. TorInv(job)' BY <1>1, <1>6 DEF TorInv
<1>8. ComingInv(job)'
  <2>1. ~ Has(job', {"ssSpawn", "ssTell", "ssTake"}) BY <1>5 DEF Has
  <2>2. \A w \in slot'["tun"] : w.id # socks BY <1>2
  <2>3. socks <= lastId' BY <1>2
  <2>. QED BY <1>1, <1>3, <2>1, <2>2, <2>3 DEF ComingInv
<1>9. Guards(job', {"ssStore"}, TunOff) BY <1>5 DEF Guards
<1>. QED BY <1>1, <1>2, <1>3, <1>4, <1>6, <1>7, <1>8, <1>9, CoreBegins

\* A connection of another kind, where there is none or one of its own kind.
LEMMA CoreConnects ==
    ASSUME WinTypes, Numbers, Core(job), job = <<>>, ~ mixed', NEW as, NEW steps, Begin(as, steps),
           as.kind \in {"wg", "server", "pptp"}, UNCHANGED <<socks, lastId>>,
           steps \in Seq(StepRec), ListOf(as.kind, steps), Ordered(steps),
           Only(steps, ServerSteps \cup PptpSteps)
    PROVE  Core(job)'
<1>1. /\ active' = as /\ job' = steps /\ clean' = FALSE /\ active.kind \in {"none", as.kind}
      /\ UNCHANGED <<live, told, slot, system, astray, elevated, client>>
  BY DEF Begin, process
<1>2. \A i \in 1 .. Len(steps) : steps[i].step \notin {"done", "torSpawn", "ssStore", "tunSpawn"}
  BY DEF Only, ServerSteps, WgSteps, PptpSteps
<1>3. ~ Has(job', {"done"}) /\ ~ Has(job', {"torSpawn"}) BY <1>1, <1>2 DEF Has
<1>4. TorInv(job)' BY <1>1, <1>3 DEF TorInv
<1>5. ComingInv(job)' BY <1>1, <1>2 DEF ComingInv
<1>6. NoTun /\ slot["ss"] = {} BY <1>1, CoreIdle
<1>7. lastId \in Nat BY DEF WinTypes, WorkerTypes
<1>8. lastId' \in Nat /\ lastId <= lastId' BY <1>7
<1>. QED BY <1>1, <1>3, <1>4, <1>5, <1>6, <1>8, CoreBegins

LEMMA CoreConnectWireGuard ==
    ASSUME WinTypes, Numbers, Core(job), ~ mixed', NEW e \in Endpoints, ConnectWireGuard(e)
    PROVE  Core(job)'
<1>1. CASE Relaunch BY <1>1, CoreGone DEF Relaunch
<1>2. CASE ~ Relaunch
  <2> DEFINE steps == IF elevated
                      THEN <<S("wgTake"), S("wgParse")>> \o Embedded(e) \o <<S("wgSettle")>>
                      ELSE <<S("failed")>>
  <2>1. /\ job = <<>> /\ Begin(As("wg", "Connecting"), steps) /\ UNCHANGED <<socks, lastId>>
    BY <1>2 DEF ConnectWireGuard, Idle
  <2>2. steps \in Seq(StepRec) /\ Ordered(steps) /\ Only(steps, WgSteps)
    <3>1. CASE elevated
      BY <3>1, WireGuardList DEF Only
    <3>2. CASE ~ elevated
      <4>1. <<S("failed")>> \in Seq(StepRec) /\ Only(<<S("failed")>>, {"failed"}) BY PlainLists
      <4>2. Only(<<S("failed")>>, Plain) /\ Only(<<S("failed")>>, WgSteps)
        BY <4>1, PlainOnes DEF Only, WgSteps
      <4>. QED BY <3>2, <4>1, <4>2, PlainOrdered
    <3>. QED BY <3>1, <3>2
  <2> HIDE DEF steps
  <2>3. ListOf("wg", steps) BY <2>2 DEF ListOf
  <2>4. Only(steps, ServerSteps \cup PptpSteps) BY <2>2 DEF Only, ServerSteps
  <2>5. As("wg", "Connecting").kind = "wg" BY DEF As
  <2>. QED BY <2>1, <2>2, <2>3, <2>4, <2>5, CoreConnects
<1>. QED BY <1>1, <1>2

LEMMA CoreConnectServer ==
    ASSUME WinTypes, Numbers, Core(job), ~ mixed', NEW e \in Endpoints, ConnectServer(e)
    PROVE  Core(job)'
<1> DEFINE steps == IF bundled THEN <<S("wgTake"), S("svcUninstall"), S("svcInstall")>>
                    ELSE <<S("wgParse")>> \o Embedded(e)
<1>1. /\ job = <<>> /\ Begin(As("server", "Connected"), steps) /\ UNCHANGED <<socks, lastId>>
  BY DEF ConnectServer, Idle
<1>2. steps \in Seq(StepRec) /\ Ordered(steps) /\ Only(steps, ServerSteps)
  <2>1. CASE bundled
    <3> DEFINE list == <<S("wgTake"), S("svcUninstall"), S("svcInstall")>>
    <3>1. list \in Seq(StepRec) /\ Only(list, (ServerSteps \ WgSteps) \cup {"wgTake"})
      BY PlainLists
    <3> HIDE DEF list
    <3>2. Only(list, Plain) BY <3>1, PlainOnes DEF Only, ServerSteps, WgSteps
    <3>3. Only(list, ServerSteps) BY <3>1 DEF Only, ServerSteps, WgSteps
    <3>. QED BY <2>1, <3>1, <3>2, <3>3, PlainOrdered DEF list
  <2>2. CASE ~ bundled BY <2>2, ServerList DEF Only
  <2>. QED BY <2>1, <2>2
<1> HIDE DEF steps
<1>3. ListOf("server", steps) BY <1>2 DEF ListOf
<1>4. Only(steps, ServerSteps \cup PptpSteps) BY <1>2 DEF Only
<1>5. As("server", "Connected").kind = "server" BY DEF As
<1>. QED BY <1>1, <1>2, <1>3, <1>4, <1>5, CoreConnects

LEMMA CoreConnectPptp ==
    ASSUME WinTypes, Numbers, Core(job), ~ mixed', ConnectPptp
    PROVE  Core(job)'
<1> DEFINE steps == <<S("rasHangUp"), S("rasDial"), S("connected")>>
<1>1. /\ job = <<>> /\ Begin(As("pptp", "Connecting"), steps) /\ UNCHANGED <<socks, lastId>>
  BY DEF ConnectPptp, Idle
<1>2. steps \in Seq(StepRec) /\ Only(steps, PptpSteps) BY PlainLists
<1> HIDE DEF steps
<1>3. ListOf("pptp", steps) BY <1>2 DEF ListOf
<1>4. Only(steps, ServerSteps \cup PptpSteps) BY <1>2 DEF Only
<1>5. Only(steps, Plain) BY <1>2, PlainOnes DEF Only, PptpSteps
<1>6. As("pptp", "Connecting").kind = "pptp" BY DEF As
<1>. QED BY <1>1, <1>2, <1>3, <1>4, <1>5, <1>6, PlainOrdered, CoreConnects
LEMMA CoreTorCommands ==
    ASSUME WinTypes, Numbers, Core(job),
           TorConnected \/ ApplyTorSystemRoute \/ RemoveTorSystemRoute
    PROVE  Core(job)'
<1>1. CASE TorConnected
  <2>1. /\ job = <<>> /\ active.kind = "tor" /\ active'.kind = "tor"
        /\ UNCHANGED <<lastId, socks, live, told, slot, system, astray, elevated, client, clean>>
    BY <1>1 DEF TorConnected, Idle, As, workers, process, history
  <2>2. \/ job' = SystemTunnel(socks) \o <<S("routeOn")>> \/ job' = <<S("routeOff")>> \/ job' = <<>>
    BY <1>1 DEF TorConnected
  <2>. QED BY <2>1, <2>2, CoreTorRoutes
<1>2. CASE ApplyTorSystemRoute
  <2>1. CASE Relaunch BY <2>1, CoreGone DEF Relaunch
  <2>2. CASE ~ Relaunch
    <3>1. /\ job = <<>> /\ active.kind = "tor" /\ active'.kind = "tor"
          /\ UNCHANGED <<lastId, socks, live, told, slot, system, astray, elevated, client, clean>>
      BY <1>2, <2>2 DEF ApplyTorSystemRoute, Idle, As, workers, process, history
    <3>2. job' = SystemTunnel(socks) \o <<S("routeOn")>>
      BY <1>2, <2>2 DEF ApplyTorSystemRoute
    <3>. QED BY <3>1, <3>2, CoreTorRoutes
  <2>. QED BY <2>1, <2>2
<1>3. CASE RemoveTorSystemRoute
  <2>1. /\ job = <<>> /\ active.kind = "tor" /\ active'.kind = "tor"
        /\ UNCHANGED <<lastId, socks, live, told, slot, system, astray, elevated, client, clean>>
    BY <1>3 DEF RemoveTorSystemRoute, Idle, As, workers, process, history
  <2>2. job' = <<S("tunCancel"), S("routeOff")>> BY <1>3 DEF RemoveTorSystemRoute
  <2>. QED BY <2>1, <2>2, CoreTorRoutes
<1>. QED BY <1>1, <1>2, <1>3

LEMMA CoreConnectOutline ==
    ASSUME WinTypes, Numbers, Core(job), ~ mixed', NEW routing \in {"system", "socks"},
           ConnectOutline(routing)
    PROVE  Core(job)'
<1>1. CASE Relaunch BY <1>1, CoreGone DEF Relaunch
<1>2. CASE ~ Relaunch
  <2> DEFINE n == lastId + 1
             list == Outline(n, routing)
  <2>1. /\ lastId \in Nat /\ n \in Nat /\ told \subseteq 0 .. lastId
        /\ \A w \in slot["tun"] : w.id \in 1 .. lastId
    BY DEF WinTypes, WorkerTypes, WorkersUpTo
  <2>2. /\ job = <<>> /\ active'.kind = "outline" /\ active.kind \in {"none", "outline"}
        /\ job' = IF routing = "system" /\ ~ elevated THEN <<S("failed")>> ELSE list
        /\ clean' = FALSE /\ UNCHANGED <<socks, lastId>>
        /\ UNCHANGED <<live, told, slot, system, astray, elevated, client>>
    <3>1. /\ job = <<>> /\ UNCHANGED <<socks, lastId>>
          /\ Begin(As("outline", "Connecting"),
                   IF routing = "system" /\ ~ elevated THEN <<S("failed")>> ELSE list)
      BY <1>2 DEF ConnectOutline, Idle
    <3> HIDE DEF list
    <3>2. As("outline", "Connecting").kind = "outline" BY DEF As
    <3>. QED BY <3>1, <3>2 DEF Begin, process
  <2>3. /\ job' \in Seq(StepRec) /\ ListOf("outline", job') /\ Ordered(job')
        /\ Only(job', OutlineSteps)
        /\ \A i \in 1 .. Len(job') : job'[i].step = "tunSpawn" => job'[i].of = n
        /\ Guards(job', Risky \cup {"ssStore", "tunSpawn"}, {"ssTake"})
        /\ \A i \in 1 .. Len(job') : job'[i].step = "tunSpawn" => Has(job', {"ssSpawn"})
    <3>1. CASE routing = "system" /\ ~ elevated
      <4>1. job' \in Seq(StepRec) /\ Only(job', {"failed"}) BY <2>2, <3>1, PlainLists
      <4>2. Only(job', Plain) BY <4>1, PlainOnes DEF Only
      <4>3. Only(job', OutlineSteps) BY <4>1 DEF Only, OutlineSteps
      <4>4. Guards(job', Risky \cup {"ssStore", "tunSpawn"}, {"ssTake"})
        BY <4>1 DEF Only, Guards, Risky
      <4>5. \A i \in 1 .. Len(job') : job'[i].step # "tunSpawn" BY <4>1 DEF Only
      <4>6. ListOf("outline", job') BY <4>3 DEF ListOf
      <4>. QED BY <4>1, <4>2, <4>3, <4>4, <4>5, <4>6, PlainOrdered
    <3>2. CASE ~ (routing = "system" /\ ~ elevated)
      <4>1. job' = list BY <2>2, <3>2
      <4>2. /\ list \in Seq(StepRec) /\ ListOf("outline", list) /\ Ordered(list)
            /\ \A i \in 1 .. Len(list) : list[i].step \in OutlineSteps
            /\ \A i \in 1 .. Len(list) : list[i].step = "tunSpawn" => list[i].of = n
            /\ Guards(list, Risky \cup {"ssStore", "tunSpawn"}, {"ssTake"})
            /\ Has(list, {"ssSpawn"})
        BY <2>1, OutlineList
      <4> HIDE DEF list
      <4>. QED BY <4>1, <4>2 DEF Only
    <3>. QED BY <3>1, <3>2
  <2>4. \A i \in 1 .. Len(job') : job'[i].step \notin {"done", "torSpawn"}
    BY <2>3 DEF Only, OutlineSteps, TorRoute
  <2>5. ~ Has(job', {"done"}) /\ ~ Has(job', {"torSpawn"}) BY <2>4 DEF Has
  <2>6. TorInv(job)' BY <2>2, <2>5 DEF TorInv
  <2>7. ComingInv(job)'
    <3>1. n # 0 /\ n \notin told /\ \A w \in slot["tun"] : w.id # n BY <2>1
    <3>2. n \notin told' /\ \A w \in slot'["tun"] : w.id # n BY <2>2, <3>1
    <3>3. n = lastId' + 1 BY <2>2
    <3> HIDE DEF n
    <3>. QED BY <2>3, <3>1, <3>2, <3>3 DEF ComingInv
  <2>8. /\ Guards(job', Risky, TunOff) /\ Guards(job', {"ssStore"}, TunOff)
        /\ Guards(job', {"tunSpawn"}, {"ssTake"})
    <3>1. \A i \in 1 .. Len(job') : job'[i].step \in Risky \cup {"ssStore", "tunSpawn"}
             => \E j \in 1 .. i - 1 : job'[j].step = "ssTake"
      BY <2>3 DEF Guards
    <3>. QED BY <3>1 DEF Guards, TunOff
  <2>9. lastId' \in Nat /\ lastId <= lastId' BY <2>1, <2>2
  <2>. QED BY <2>2, <2>3, <2>5, <2>6, <2>7, <2>8, <2>9, CoreBegins
<1>. QED BY <1>1, <1>2

LEMMA CoreQuit ==
    ASSUME WinTypes, Numbers, Core(job), Quit
    PROVE  Core(job)'
<1>1. /\ job = <<>> /\ job' = Quits /\ active' = active /\ UNCHANGED <<socks, clean, lastId>>
      /\ UNCHANGED <<live, told, slot, system, astray, elevated, client>>
  BY DEF Quit, Idle, process, workers, history
<1>2. /\ job' \in Seq(StepRec) /\ Only(job', EndSteps) /\ ~ Has(job', {"done"})
      /\ Has(job', {"exit"}) /\ Guards(job', Risky, TunOff)
  BY <1>1, QuitsList
<1>3. \A i \in 1 .. Len(job') : job'[i].step \notin {"torSpawn", "ssStore", "tunSpawn", "ssSpawn",
                                                    "wgRoutes", "wgSettle"}
  BY <1>2 DEF Only, EndSteps
<1>4. ListOf(active'.kind, job') BY <1>2 DEF ListOf
<1>5. Only(job', Plain) BY <1>2, <1>3 DEF Only, Plain, Names
<1>6. Ordered(job') BY <1>2, <1>5, PlainOrdered
<1>7. ~ Has(job', {"torSpawn"}) BY <1>3 DEF Has
<1>8. active.kind = "tor" => socks # 0 BY <1>1, CoreIdle
<1>9. TorInv(job)' BY <1>1, <1>2, <1>7, <1>8 DEF TorInv
<1>10. ComingInv(job)' BY <1>3 DEF ComingInv
<1>11. Guards(job', {"ssStore"}, TunOff) /\ Guards(job', {"tunSpawn"}, {"ssTake"})
  BY <1>3 DEF Guards
<1>12. clean' => active'.kind = "none" BY <1>1, CoreIdle
<1>13. lastId \in Nat BY DEF WinTypes, WorkerTypes
<1>14. lastId' \in Nat /\ lastId <= lastId' BY <1>1, <1>13
<1>15. active.kind \in {"none", active'.kind} BY <1>1
<1>. QED BY <1>1, <1>2, <1>4, <1>6, <1>9, <1>10, <1>11, <1>12, <1>14, <1>15, CoreBegins

\* The end of a connection: its list ends all that is the connection's.
LEMMA CoreEnds ==
    ASSUME WinTypes, Numbers, Core(job), job = <<>>, NEW after \in {<<>>, Quits},
           Disconnecting(after)
    PROVE  Core(job)'
<1> USE DEF system
<1> DEFINE kind == active.kind
<1>1. /\ active'.kind = "none"
      /\ job' = Ends(kind) \o <<S("done")>> \o after
      /\ UNCHANGED <<live, told, slot, tor, pins, dialed, service, astray, elevated, client, lastId>>
  BY DEF Disconnecting, process, workers, history, None
<1>2. kind \in {"none", "tor", "wg", "outline", "server", "pptp"}
  BY DEF WinTypes, OwnTypes, Connection
<1>3. /\ clean => kind = "none"
      /\ NoSs \/ slot["ss"] # {}
      /\ \A e \in pins \ astray : \E w \in slot["pump"] \cap live : w.of = e
      /\ ~ NoTun => kind \in {"tor", "outline"}
      /\ ~ NoSs => kind = "outline"
      /\ slot["ss"] # {} => kind = "outline"
      /\ ~ NoPump => kind \in {"wg", "server"}
      /\ tor # 0 /\ "tor" \notin astray => kind = "tor"
      /\ dialed /\ "dialed" \notin astray => kind = "pptp"
      /\ service /\ "service" \notin astray => kind = "server"
  BY CoreIdle
<1>4. /\ job' \in Seq(StepRec) /\ Only(job', EndSteps) /\ Has(job', {"done"})
      /\ Guards(job', Risky, TunOff)
      /\ \A X : Has(Ends(kind), X) => Guards(job', {"done"}, X)
  BY <1>1, <1>2, DisconnectList
<1>5. /\ kind \in {"tor", "outline"} => Guards(job', {"done"}, TunOff)
      /\ kind = "outline" => Guards(job', {"done"}, {"ssTake"})
                             /\ Guards(job', {"done"}, {"ssTell", "ssTake"})
      /\ kind \in {"wg", "server"} => Guards(job', {"done"}, {"wgTake"})
      /\ kind = "tor" => Guards(job', {"done"}, {"torKill"})
      /\ kind = "pptp" => Guards(job', {"done"}, {"rasHangUp"})
      /\ kind = "server" => Guards(job', {"done"}, {"svcUninstall"})
  BY <1>2, <1>4, EndsList
<1> HIDE DEF kind
<1>6. /\ Untold("tun")' = Untold("tun") /\ NoTun' = NoTun /\ NoSs' = NoSs /\ NoPump' = NoPump
      /\ (slot["ss"])' = slot["ss"]
  BY <1>1 DEF Untold, NoTun, NoSs, NoPump
<1>7. \A i \in 1 .. Len(job') : job'[i].step \notin {"torSpawn", "ssStore", "tunSpawn", "ssSpawn",
                                                    "wgRoutes", "wgSettle"}
  BY <1>4 DEF Only, EndSteps
<1>8. JobInv(job)'
  <2>1. ListOf(active'.kind, job') BY <1>1, <1>4 DEF ListOf
  <2>2. Only(job', Plain) BY <1>4, <1>7 DEF Only, Plain, Names
  <2>. QED BY <1>1, <1>4, <2>1, <2>2, PlainOrdered DEF JobInv
<1>9. TorInv(job)'
  <2>1. ~ Has(job', {"torSpawn"}) BY <1>7 DEF Has
  <2>. QED BY <1>1, <2>1 DEF TorInv
<1>10. TunInv(job)' BY <1>1, <1>4, <1>6 DEF TunInv, Core
<1>11. ComingInv(job)' BY <1>7 DEF ComingInv
<1>12. SsInv(job)'
  <2>1. \A h \in slot["ss"] : h.of = 0 => NoTun BY DEF Core, SsInv
  <2>2. Guards(job', {"tunSpawn"}, {"ssTake"}) BY <1>7 DEF Guards
  <2>. QED BY <1>1, <1>3, <1>6, <1>7, <2>1, <2>2 DEF SsInv
<1>13. PumpInv(job)' BY <1>1, <1>3 DEF PumpInv, Core
<1>14. Owned(job)'
  <2>1. service /\ "service" \notin astray => elevated /\ client = "up" BY DEF Core, Owned
  <2>2. /\ ~ NoTun' => Guards(job', {"done"}, TunOff)
        /\ ~ NoSs' => Guards(job', {"done"}, {"ssTell", "ssTake"})
        /\ slot'["ss"] # {} => Guards(job', {"done"}, {"ssTake"})
        /\ ~ NoPump' => Guards(job', {"done"}, {"wgTake"})
        /\ tor' # 0 /\ "tor" \notin astray' => Guards(job', {"done"}, {"torKill"})
        /\ dialed' /\ "dialed" \notin astray' => Guards(job', {"done"}, {"rasHangUp"})
        /\ service' /\ "service" \notin astray' => Guards(job', {"done"}, {"svcUninstall"})
    BY <1>1, <1>3, <1>5, <1>6
  <2>. QED BY <1>1, <1>4, <2>1, <2>2 DEF Owned, Belongs
<1>. QED BY <1>8, <1>9, <1>10, <1>11, <1>12, <1>13, <1>14 DEF Core
LEMMA BeginTypes ==
    ASSUME WinTypes, Numbers, NEW as \in Connection, NEW steps \in Seq(StepRec), Begin(as, steps),
           \/ UNCHANGED <<socks, lastId>>
           \/ lastId' = lastId + 1 /\ socks' = lastId + 1
    PROVE  WinTypes' /\ Numbers'
<1>1. WorkerTypes /\ UNCHANGED <<live, told, slot, tor>> BY DEF WinTypes, Begin, system
<1>2. OwnTypes' BY DEF WinTypes, OwnTypes, Begin, process, system
<1>3. WorkerTypes' /\ Numbers'
  BY <1>1, WorkersStay, SessionComes DEF workers
<1>. QED BY <1>2, <1>3 DEF WinTypes

\* A list for the connection there is.
LEMMA GoOnTypes ==
    ASSUME WinTypes, Numbers, UNCHANGED <<process, workers, system, history>>,
           active' \in Connection, route' \in BOOLEAN, job' \in Seq(StepRec), socks' \in {0, socks}
    PROVE  WinTypes' /\ Numbers'
<1>1. OwnTypes' BY DEF WinTypes, OwnTypes, process, system, history
<1>2. WorkerTypes /\ slot \in SomeHandles /\ told \subseteq 0 .. lastId
  BY DEF WinTypes, WorkerTypes, SomeHandles
<1>3. UNCHANGED <<lastId, told, live, slot, tor>> BY DEF workers, system
<1>4. WorkerTypes' /\ Numbers' BY <1>2, <1>3, WorkersGo
<1>. QED BY <1>1, <1>4 DEF WinTypes

LEMMA RelaunchTypes ==
    ASSUME WinTypes, Numbers, Relaunch
    PROVE  WinTypes' /\ Numbers'
<1>1. Gone /\ client' \in {"up", "down"} /\ elevated' \in BOOLEAN /\ lives' \in Nat
  BY DEF Relaunch, WinTypes, OwnTypes
<1>. QED BY <1>1, GoneTypes

LEMMA ConnectTypes ==
    ASSUME WinTypes, Numbers,
           \/ ConnectTor \/ ConnectPptp
           \/ \E e \in Endpoints : ConnectWireGuard(e) \/ ConnectServer(e)
           \/ \E routing \in {"system", "socks"} : ConnectOutline(routing)
    PROVE  WinTypes' /\ Numbers'
<1>1. \A kind \in {"tor", "wg", "outline", "server", "pptp"} :
         As(kind, "Connecting") \in Connection /\ As(kind, "Connected") \in Connection
  BY DEF As, Connection
<1>2. lastId + 1 \in Nat BY DEF WinTypes, WorkerTypes
<1>3. <<S("failed")>> \in Seq(StepRec) BY PlainLists
<1>4. CASE Relaunch BY <1>4, RelaunchTypes
<1>5. CASE ConnectTor
  <2>1. <<S("torKill"), S("torSpawn")>> \in Seq(StepRec) BY TorStartList
  <2>. QED BY <1>1, <1>4, <1>5, <2>1, BeginTypes DEF ConnectTor
<1>6. CASE ConnectPptp
  <2>1. <<S("rasHangUp"), S("rasDial"), S("connected")>> \in Seq(StepRec) BY PlainLists
  <2>. QED BY <1>1, <1>6, <2>1, BeginTypes DEF ConnectPptp
<1>7. ASSUME NEW e \in Endpoints, ConnectWireGuard(e) PROVE WinTypes' /\ Numbers'
  <2>1. <<S("wgTake"), S("wgParse")>> \o Embedded(e) \o <<S("wgSettle")>> \in Seq(StepRec)
    BY WireGuardList
  <2>. QED BY <1>1, <1>3, <1>4, <1>7, <2>1, BeginTypes DEF ConnectWireGuard
<1>8. ASSUME NEW e \in Endpoints, ConnectServer(e) PROVE WinTypes' /\ Numbers'
  <2>1. <<S("wgParse")>> \o Embedded(e) \in Seq(StepRec) BY ServerList
  <2>2. <<S("wgTake"), S("svcUninstall"), S("svcInstall")>> \in Seq(StepRec) BY PlainLists
  <2>. QED BY <1>1, <1>8, <2>1, <2>2, BeginTypes DEF ConnectServer
<1>9. ASSUME NEW routing \in {"system", "socks"}, ConnectOutline(routing) PROVE WinTypes' /\ Numbers'
  <2>1. Outline(lastId + 1, routing) \in Seq(StepRec) BY <1>2, OutlineList
  <2>. QED BY <1>1, <1>3, <1>4, <1>9, <2>1, BeginTypes DEF ConnectOutline
<1>. QED BY <1>5, <1>6, <1>7, <1>8, <1>9

LEMMA CommandTypes ==
    ASSUME WinTypes, Numbers,
           \/ TorConnected \/ TorFailed \/ ApplyTorSystemRoute \/ RemoveTorSystemRoute
           \/ Disconnect \/ DisconnectThenQuit \/ Quit
    PROVE  WinTypes' /\ Numbers'
<1>1. /\ active \in Connection /\ route \in BOOLEAN /\ socks \in Nat
      /\ None \in Connection /\ As("tor", "Connected") \in Connection
      /\ active.kind \in {"none", "tor", "wg", "outline", "server", "pptp"}
  BY DEF WinTypes, OwnTypes, WorkerTypes, Connection, None, As
<1>2. /\ SystemTunnel(socks) \o <<S("routeOn")>> \in Seq(StepRec)
      /\ <<S("routeOff")>> \in Seq(StepRec) /\ <<S("tunCancel"), S("routeOff")>> \in Seq(StepRec)
      /\ <<>> \in Seq(StepRec) /\ Quits \in Seq(StepRec)
  BY <1>1, TorRouteList, PlainLists, NoStep, QuitsList
<1>3. ASSUME NEW after \in {<<>>, Quits}, Disconnecting(after) PROVE WinTypes' /\ Numbers'
  <2>1. Ends(active.kind) \o <<S("done")>> \o after \in Seq(StepRec) BY <1>1, DisconnectList
  <2>. QED BY <1>1, <1>3, <2>1, GoOnTypes DEF Disconnecting
<1>4. CASE TorConnected
  <2>1. job' \in Seq(StepRec) BY <1>2, <1>4 DEF TorConnected
  <2>. QED BY <1>1, <1>4, <2>1, GoOnTypes DEF TorConnected
<1>5. CASE TorFailed BY <1>3, <1>5 DEF TorFailed
<1>6. CASE ApplyTorSystemRoute BY <1>1, <1>2, <1>6, RelaunchTypes, GoOnTypes DEF ApplyTorSystemRoute
<1>7. CASE RemoveTorSystemRoute BY <1>1, <1>2, <1>7, GoOnTypes DEF RemoveTorSystemRoute
<1>8. CASE Disconnect \/ DisconnectThenQuit BY <1>3, <1>8 DEF Disconnect, DisconnectThenQuit
<1>9. CASE Quit BY <1>1, <1>2, <1>9, GoOnTypes DEF Quit
<1>. QED BY <1>4, <1>5, <1>6, <1>7, <1>8, <1>9

LEMMA BesideTypes ==
    ASSUME WinTypes, Numbers,
           \/ \E w \in live : WorkerEnds(w)
           \/ TorDies \/ HungUp \/ Killed \/ Started \/ exit
    PROVE  WinTypes' /\ Numbers'
<1>1. WorkerTypes /\ slot \in SomeHandles /\ told \subseteq 0 .. lastId
  BY DEF WinTypes, WorkerTypes, SomeHandles
<1>2. ASSUME NEW w \in live, WorkerEnds(w) PROVE WinTypes' /\ Numbers'
  <2>1. OwnTypes'
    <3>1. w.kind = "pump" => w.of \in Endpoints BY <1>1 DEF WorkerTypes, Known
    <3>2. astray' \subseteq astray \cup Endpoints BY <1>2, <3>1 DEF WorkerEnds
    <3>3. astray' \subseteq Endpoints \cup {"tor", "dialed", "service"}
      BY <3>2 DEF WinTypes, OwnTypes
    <3>. QED BY <1>2, <3>3 DEF WorkerEnds, WinTypes, OwnTypes, process, own, system
  <2>2. /\ live' \subseteq live /\ UNCHANGED <<lastId, told, slot, tor, socks>>
    BY <1>2 DEF WorkerEnds, own, system
  <2>3. WorkerTypes' /\ Numbers' BY <1>1, <2>2, WorkersGo
  <2>. QED BY <2>1, <2>3 DEF WinTypes
<1>3. CASE TorDies \/ HungUp
  <2>1. OwnTypes' BY <1>3 DEF TorDies, HungUp, WinTypes, OwnTypes, process, own
  <2>2. tor' \in {tor, 0} /\ UNCHANGED <<lastId, told, live, slot, socks>>
    BY <1>3 DEF TorDies, HungUp, own, workers
  <2>3. WorkerTypes' /\ Numbers' BY <1>1, <2>2, WorkersGo
  <2>. QED BY <2>1, <2>3 DEF WinTypes
<1>4. CASE Killed \/ exit
  <2>1. Gone /\ client' \in {"up", "down"} /\ elevated' \in BOOLEAN /\ lives' \in Nat
    BY <1>4 DEF Killed, exit, WinTypes, OwnTypes
  <2>. QED BY <2>1, GoneTypes
<1>5. CASE Started
  <2>1. OwnTypes' BY <1>5 DEF Started, WinTypes, OwnTypes, own, system, history
  <2>2. UNCHANGED <<workers, tor, socks>> BY <1>5 DEF Started, own, system
  <2>3. WorkerTypes' /\ Numbers' BY <1>1, <2>2, WorkersStay
  <2>. QED BY <2>1, <2>3 DEF WinTypes
<1>. QED BY <1>2, <1>3, <1>4, <1>5
-----------------------------------------------------------------------------
(***************************************************************************)
(* The invariant is inductive.                                             *)
(***************************************************************************)

\* Only the end of a process forgets that a connection was begun over another.
LEMMA MixedStays ==
    ASSUME WinTypes, Next, ~ mixed'
    PROVE  ~ mixed \/ Gone
<1>1. mixed \in BOOLEAN BY DEF WinTypes, OwnTypes
<1>2. CASE Step
  BY <1>2 DEF Step, tunCancel, tunSpawn, tunWait, routeSet, connected, failed, ssTake, ssTell, ssSpawn,
              ssPort, ssBypass, ssStore, wgTake, wgClear, wgParse, wgOpen, wgRoutes, wgPump, wgSettle,
              svcUninstall, svcInstall, rasHangUp, rasDial, torKill, torSpawn, done, exit, history
<1>3. CASE \/ ConnectTor \/ ConnectPptp
           \/ \E e \in Endpoints : ConnectWireGuard(e) \/ ConnectServer(e)
           \/ \E routing \in {"system", "socks"} : ConnectOutline(routing)
  BY <1>3 DEF ConnectTor, ConnectPptp, ConnectWireGuard, ConnectServer, ConnectOutline, Relaunch, Begin
<1>4. CASE \/ TorConnected \/ TorFailed \/ ApplyTorSystemRoute \/ RemoveTorSystemRoute
           \/ Disconnect \/ DisconnectThenQuit \/ Quit
  BY <1>4 DEF TorConnected, TorFailed, ApplyTorSystemRoute, RemoveTorSystemRoute, Disconnect,
              DisconnectThenQuit, Quit, Disconnecting, Relaunch, history
<1>5. CASE (\E w \in live : WorkerEnds(w)) \/ TorDies \/ HungUp \/ Killed \/ Started
  BY <1>5 DEF WorkerEnds, TorDies, HungUp, Killed, Started, history
<1>. QED BY <1>2, <1>3, <1>4, <1>5 DEF Next

LEMMA TypesNext ==
    ASSUME WinTypes, Numbers, Next
    PROVE  WinTypes' /\ Numbers'
<1>1. CASE Step /\ ~ exit BY <1>1, StepOwnTypes, StepWorkerTypes DEF WinTypes
<1>2. CASE ~ (Step /\ ~ exit)
  <2>1. CASE \/ ConnectTor \/ ConnectPptp
             \/ \E e \in Endpoints : ConnectWireGuard(e) \/ ConnectServer(e)
             \/ \E routing \in {"system", "socks"} : ConnectOutline(routing)
    BY <2>1, ConnectTypes
  <2>2. CASE \/ TorConnected \/ TorFailed \/ ApplyTorSystemRoute \/ RemoveTorSystemRoute
             \/ Disconnect \/ DisconnectThenQuit \/ Quit
    BY <2>2, CommandTypes
  <2>3. CASE (\E w \in live : WorkerEnds(w)) \/ TorDies \/ HungUp \/ Killed \/ Started \/ exit
    BY <2>3, BesideTypes
  <2>. QED BY <1>2, <2>1, <2>2, <2>3 DEF Next
<1>. QED BY <1>1, <1>2

LEMMA CoreNext ==
    ASSUME WinTypes, Numbers, mixed \/ Core(job), Next
    PROVE  mixed' \/ Core(job)'
<1> SUFFICES ASSUME ~ mixed' PROVE Core(job)' OBVIOUS
<1>1. CASE Gone BY <1>1, CoreGone
<1>2. CASE ~ Gone
  <2>1. Core(job) BY <1>2, MixedStays
  <2>2. CASE Step
    <3>1. ~ exit BY <1>2 DEF exit
    <3>. QED BY <2>1, <2>2, <3>1, CoreStep
  <2>3. CASE \/ ConnectTor \/ ConnectPptp
             \/ \E e \in Endpoints : ConnectWireGuard(e) \/ ConnectServer(e)
             \/ \E routing \in {"system", "socks"} : ConnectOutline(routing)
    BY <2>1, <2>3, CoreConnectTor, CoreConnectPptp, CoreConnectWireGuard, CoreConnectServer,
       CoreConnectOutline
  <2>4. CASE TorConnected \/ ApplyTorSystemRoute \/ RemoveTorSystemRoute
    BY <2>1, <2>4, CoreTorCommands
  <2>5. CASE TorFailed \/ Disconnect \/ DisconnectThenQuit
    BY <2>1, <2>5, CoreEnds DEF TorFailed, Disconnect, DisconnectThenQuit, Idle
  <2>6. CASE Quit BY <2>1, <2>6, CoreQuit
  <2>7. CASE \E w \in live : WorkerEnds(w) BY <2>1, <2>7, CoreWorkerEnds
  <2>8. CASE TorDies \/ HungUp \/ Started BY <2>1, <2>8, CoreBeside
  <2>9. CASE Killed BY <1>2, <2>9 DEF Killed
  <2>. QED BY <2>2, <2>3, <2>4, <2>5, <2>6, <2>7, <2>8, <2>9 DEF Next
<1>. QED BY <1>1, <1>2

LEMMA WinStutters ==
    ASSUME WinInv, UNCHANGED vars
    PROVE  WinInv'
BY DEF vars, process, own, workers, system, history, WinInv, WinTypes, OwnTypes, WorkerTypes, Numbers,
       Known, Core, JobInv, TorInv, TunInv, ComingInv, SsInv, PumpInv, Owned, Belongs, NoTun, NoSs,
       NoPump, Untold

LEMMA WinStarts == Init => WinInv
<1> SUFFICES ASSUME Init PROVE WinInv OBVIOUS
<1>1. None \in Connection BY DEF None, Connection
<1>2. slot = [kind \in Kinds |-> {}] /\ \A k \in Kinds : slot[k] = {} BY DEF Init, NoHandles
<1>3. Known = {} BY <1>2 DEF Init, Known, Kinds
<1>4. OwnTypes BY <1>1, NoStep DEF Init, OwnTypes
<1>5. WorkerTypes BY <1>2, <1>3 DEF Init, WorkerTypes, Kinds
<1>6. Numbers BY <1>2, <1>3 DEF Init, Numbers, Alone, Kinds
<1>7. NoTun /\ NoSs /\ NoPump BY DEF Init, NoTun, NoSs, NoPump, Untold
<1>8. Len(job) = 0 /\ Ordered(job) /\ (\A A : ~ Has(job, A) /\ Only(job, A))
      /\ (\A Y, X : Guards(job, Y, X))
  BY NoStep DEF Init
<1>9. active.kind = "none" /\ clean = FALSE /\ pins = {} BY DEF Init, None
<1>10. JobInv(job) BY <1>8, <1>9 DEF JobInv, ListOf
<1>11. TorInv(job) BY <1>8, <1>9 DEF TorInv
<1>12. TunInv(job) BY <1>7 DEF TunInv, NoTun
<1>13. ComingInv(job) BY <1>8 DEF ComingInv
<1>14. SsInv(job) BY <1>2, <1>7, <1>8 DEF SsInv, Kinds
<1>15. PumpInv(job) BY <1>9 DEF PumpInv, Init
<1>16. Owned(job) BY <1>2, <1>7 DEF Owned, Belongs, Init, Kinds
<1>. QED BY <1>4, <1>5, <1>6, <1>10, <1>11, <1>12, <1>13, <1>14, <1>15, <1>16
     DEF WinInv, WinTypes, Core

LEMMA WinInvHolds == Spec => []WinInv
<1>1. WinInv /\ [Next]_vars => WinInv'
  <2>1. ASSUME WinInv, Next PROVE WinInv' BY <2>1, TypesNext, CoreNext DEF WinInv
  <2>. QED BY <2>1, WinStutters
<1>. QED BY <1>1, WinStarts, PTL DEF Spec

-----------------------------------------------------------------------------
(***************************************************************************)
(* What follows from it.                                                   *)
(***************************************************************************)

\* Every variable of the Windows client has its type, for any number of servers,
\* workers and lives: what a handler's step is about is a server or a number, and
\* no worker or session has a number that was not given.
THEOREM WindowsTypeCorrect == Spec => []TypeOK
<1>1. \A s \in StepRec : s.of \in Nat \cup Endpoints BY DEF StepRec
<1>2. WinTypes => TypeOK
  <2> SUFFICES ASSUME WinTypes PROVE TypeOK OBVIOUS
  <2>1. \A i \in 1 .. Len(job) : job[i].of \in Nat \cup Endpoints
    <3>1. job \in Seq(StepRec) BY DEF WinTypes, OwnTypes
    <3>2. \A i \in 1 .. Len(job) : job[i] \in StepRec BY <3>1, ElementOfSeq
    <3>. QED BY <1>1, <3>2
  <2>2. /\ client \in {"up", "down"} /\ lives \in Nat /\ pins \subseteq Endpoints
        /\ {bundled, elevated, apps, route, dialed, service, mixed, clean} \subseteq BOOLEAN
        /\ astray \subseteq Endpoints \cup {"tor", "dialed", "service"}
    BY DEF WinTypes, OwnTypes
  <2>3. active \in [kind : {"none", "tor", "wg", "outline", "server", "pptp"},
                   phase : {"none", "Connecting", "Connected", "Error"}]
    BY DEF WinTypes, OwnTypes, Connection
  <2>4. /\ lastId \in Nat /\ {socks, tor} \cup told \subseteq 0 .. lastId
        /\ live \subseteq [kind : Kinds, id : 1 .. lastId, of : Nat \cup Endpoints]
        /\ slot \in [Kinds -> SUBSET [kind : Kinds, id : Nat, of : Nat \cup Endpoints]]
    BY DEF WinTypes, WorkerTypes, WorkersUpTo
  <2>. QED BY <2>1, <2>2, <2>3, <2>4 DEF TypeOK
<1>3. WinInv => WinTypes BY DEF WinInv
<1>. QED BY <1>2, <1>3, WinInvHolds, PTL

\* Once a Disconnect is carried out (app.rs, `disconnect`), nothing that this
\* client began is left, whatever failed or stopped half-way before: no worker
\* that was not told to end, no tor.exe, no PPTP, no service, no route to a server.
THEOREM NothingIsLeft == Spec => []NothingLeft
<1>1. WinInv => NothingLeft
  <2> SUFFICES ASSUME WinInv, clean, job = <<>>, ~ mixed
               PROVE  /\ \A w \in live : w.id \in told
                      /\ tor # 0 => "tor" \in astray
                      /\ dialed => "dialed" \in astray
                      /\ service => "service" \in astray
                      /\ pins \subseteq astray
    BY DEF NothingLeft
  <2>1. Core(job) /\ WinTypes BY DEF WinInv
  <2>2. active.kind = "none" /\ NoTun /\ NoSs /\ NoPump
        /\ (\A e \in pins \ astray : \E w \in slot["pump"] \cap live : w.of = e)
        /\ ~ (tor # 0 /\ "tor" \notin astray) /\ ~ (dialed /\ "dialed" \notin astray)
        /\ ~ (service /\ "service" \notin astray)
    BY <2>1, CoreIdle
  <2>3. \A w \in live : w.kind \in {"tun", "ss", "pump"}
    BY <2>1 DEF WinTypes, WorkerTypes, WorkersUpTo, Kinds
  <2>4. \A w \in live : w.id \in told BY <2>2, <2>3 DEF NoTun, NoSs, NoPump, Untold
  <2>5. slot["pump"] \cap live = {} BY <2>1, <2>4 DEF Core, PumpInv
  <2>. QED BY <2>2, <2>4, <2>5
<1>. QED BY <1>1, WinInvHolds, PTL

\* The system's traffic is not led into a SOCKS server that a handler has ended
\* (stop_outline, stop_tor): its tunnel is told to end first.
THEOREM TunnelsHaveServers == Spec => []TunnelHasServer
<1>1. WinInv => TunnelHasServer
  BY DEF WinInv, Core, TunInv, Untold, TunnelHasServer
<1>. QED BY <1>1, WinInvHolds, PTL
=============================================================================
