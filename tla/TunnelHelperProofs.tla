------------------------- MODULE TunnelHelperProofs -------------------------
(***************************************************************************)
(* Theorems about TunnelHelper, for any number of clients, connections and *)
(* starts: the host is put back, nothing leaks past a tunnel that blocks   *)
(* IPv6, and nothing runs that no slot knows.                              *)
(***************************************************************************)
EXTENDS TunnelHelper, SequenceTheorems, FiniteSetTheorems, TLAPS

-----------------------------------------------------------------------------
(***************************************************************************)
(* The lists.                                                              *)
(***************************************************************************)

\* The tunnels whose handles hold what was changed on the host.
Guarded == {"wg", "ovpn", "pptp", "socks"}

Names == {"wg", "ovpn", "pptp", "ss", "ZeroNodeTor", "ZeroNodeOutline"}

KindOf(name) == IF name \in {"ZeroNodeTor", "ZeroNodeOutline"} THEN "socks" ELSE name

Steps ==
    ({"take", "undo"} \X Guarded) \cup ({"up"} \X Names)
    \cup ({"spawn", "wait"} \X {"ovpn", "pptp"})
    \cup {<<"check", "socks">>, <<"bypass", "socks">>, <<"probe", "socks">>,
          <<"stop", "ss">>, <<"link", "wg">>, <<"forget", "owner">>, <<"exit", "daemon">>}

Has(list, do, on) == \E i \in 1 .. Len(list) : list[i] = <<do, on>>

HasUp(list, p) == \E name \in Names : KindOf(name) = p /\ Has(list, "up", name)

\* The rest of a list that takes the handle of p out of its slot, or has it.
WillUndo(list, p) == Has(list, "take", p) \/ Has(list, "undo", p)

(***************************************************************************)
(* The order in which every list of the daemon has its steps, and every    *)
(* rest of one.  Only one tunnel comes up in a list (and sslocal), nothing *)
(* is taken after it, and a step that ends in another list is the last.    *)
(***************************************************************************)
TakenIsUndone(list) ==
    \A i \in 1 .. Len(list), p \in Guarded :
        list[i] = <<"take", p>> => i < Len(list) /\ list[i + 1] = <<"undo", p>>

UndoneWasTaken(list) ==
    \A i \in 2 .. Len(list), p \in Guarded :
        list[i] = <<"undo", p>> => list[i - 1] = <<"take", p>>

OneComesUp(list) ==
    \A i, j \in 1 .. Len(list), n \in Names : i < j /\ list[i] = <<"up", n>> =>
        /\ n # "ss" => list[j] \notin {"take", "up"} \X (Guarded \cup Names)
        /\ list[j] \notin {<<"stop", "ss">>, <<"up", "ss">>}

SpawnedComesUp(list) ==
    \A i \in 1 .. Len(list), p \in {"ovpn", "pptp"} :
        list[i] = <<"spawn", p>> => i < Len(list) /\ list[i + 1] = <<"up", p>>

BegunComesUp(list) ==
    \A i \in 1 .. Len(list) :
        list[i] \in {<<"bypass", "socks">>, <<"link", "wg">>, <<"up", "ss">>}
        => \E j \in 1 .. Len(list), name \in Names \ {"ss"} : i < j /\ list[j] = <<"up", name>>

EndsLast(list) ==
    \A i \in 1 .. Len(list) :
        list[i] \in {<<"probe", "socks">>, <<"wait", "ovpn">>, <<"wait", "pptp">>, <<"exit", "daemon">>}
        => i = Len(list)

Ordered(list) ==
    TakenIsUndone(list) /\ UndoneWasTaken(list) /\ OneComesUp(list) /\ SpawnedComesUp(list)
        /\ BegunComesUp(list) /\ EndsLast(list)

\* A list that a step other than a take, an undo or a successful up may leave.
Leads(list, rest) ==
    /\ \A p \in Guarded :
          HasUp(rest, p) => HasUp(list, p) /\ (WillUndo(list, p) => WillUndo(rest, p))
    /\ \A p \in Guarded :
          WillUndo(list, p) => WillUndo(rest, p) \/ \E q \in Guarded : HasUp(list, q)
    /\ \A p \in Guarded : rest # <<>> => Head(rest) # <<"undo", p>>
    /\ Has(rest, "up", "ss") =>
          /\ Has(list, "up", "ss")
          /\ Has(list, "stop", "ss") /\ Head(list) # <<"stop", "ss">> => Has(rest, "stop", "ss")

\* A signal and the watchdog only stop tunnels, the watchdog only Tor's.
MainSteps == ({"take", "undo"} \X Guarded)
             \cup {<<"check", "socks">>, <<"stop", "ss">>, <<"exit", "daemon">>}

WatchdogSteps == {<<"take", "socks">>, <<"undo", "socks">>, <<"check", "socks">>,
                  <<"forget", "owner">>}

StepsOf(t) == IF t = Main THEN MainSteps ELSE IF t = Watchdog THEN WatchdogSteps ELSE Steps

ListOK(t, list) == list \in Seq(StepsOf(t)) /\ Ordered(list)

-----------------------------------------------------------------------------
(***************************************************************************)
(* The invariants.                                                         *)
(***************************************************************************)
Alone(S) == \A x, y \in S : x = y

Hand == [id : Nat, taken : SUBSET Handle]

Lists == DOMAIN todo = Runners /\ \A t \in Runners : ListOK(t, todo[t])

HelperTypes ==
    /\ ipv6 \in BOOLEAN /\ resolver \in {"own", "tunnel"} /\ pinned \in BOOLEAN
    /\ rule \in BOOLEAN /\ split \in BOOLEAN
    /\ live \in [Tunnels -> SUBSET Nat]
    /\ slot \in [Tunnels -> SUBSET Handle] /\ \A p \in Tunnels : Alone(slot[p])
    /\ lock \in Runners \cup {Free}
    /\ Lists
    /\ hand \in [Runners -> Hand] /\ \A t \in Runners : Alone(hand[t].taken)
    /\ owner \in Apps \cup {NoApp} /\ alive \subseteq Apps /\ owes \in [Apps -> Seq(Stops)]
    /\ daemon \in {"up", "down"} /\ sent \in Nat

\* One command at a time, beside the watchdog.
OneCommand == \A t, u \in Threads \cup {Main} : Idle(t) \/ Idle(u) \/ t = u

\* Between the two steps of a stop the thread has the handle, and the slot is empty.
Hands ==
    \A t \in Runners :
        /\ hand[t].taken # {} => \E p \in Guarded : At(t, "undo", p)
        /\ \A p \in Guarded : At(t, "undo", p) => slot[p] = {} /\ (p = "socks" => lock = t)

\* There is a handle of tunnel p, in its slot or in the hand of who stops it.
Dirty(p) == slot[p] # {} \/ \E t \in Runners : At(t, "undo", p) /\ hand[t].taken # {}

OneDirty == \A p, q \in Guarded : Dirty(p) /\ Dirty(q) => p = q

\* A tunnel that will come up finds no other, nor an earlier one of its own.
ComesUpAlone ==
    \A t \in Threads : \A p, q \in Guarded :
        HasUp(todo[t], p) /\ Dirty(q) => q = p /\ WillUndo(todo[t], p)

StopsOf(p) ==
    CASE p = "socks" -> {"tor_stop", "ss_stop"}
      [] p = "wg"    -> {"wg_stop"}
      [] p = "ovpn"  -> {"ovpn_stop"}
      [] p = "pptp"  -> {"pptp_stop"}

\* Each client that could ask for a tunnel will first send a stop of p's.
Owed(p) == \A app \in alive : \E i \in 1 .. Len(owes[app]) : owes[app][i] \in StopsOf(p)

\* What is there, or is to come, is owed a stop, or is being stopped.
DirtIsOwed ==
    \A p \in Guarded :
        /\ \A t \in Threads : HasUp(todo[t], p) => Owed(p)
        /\ Dirty(p) => Owed(p) \/ \E t \in Threads : WillUndo(todo[t], p)

\* The handler of a signal leaves nothing out.
SignalStopsAll ==
    \A p \in Guarded : ~ Idle(Main) /\ Dirty(p) => WillUndo(todo[Main], p)

HelperInv ==
    OneCommand /\ Hands /\ OneDirty /\ ComesUpAlone /\ DirtIsOwed /\ SignalStopsAll

\* Every handle that remembers something of the host.
Held == (UNION {slot[p] : p \in Guarded}) \cup (UNION {hand[t].taken : t \in Runners})

LeakInv == \A h \in Held : h.guard # "none" => ~ ipv6

HostInv ==
    /\ ipv6 <=> \A h \in Held : h.guard = "none"
    /\ \A h \in Held : h.guard \in {"none", "on"} /\ h.dns \in {"none", "own"}
    /\ resolver = "own" <=> \A h \in Held : h.dns = "none"
    /\ pinned <=> \E h \in Held : h.pin

\* Only WireGuard's handles remember a resolver or a route.
PlainInv == \A h \in Held : h.dns # "none" \/ h.pin => Dirty("wg")

\* A handle of tunnel p, in its slot or in the hand of who stops it.
HandleOf(p, h) == h \in slot[p] \/ \E t \in Runners : At(t, "undo", p) /\ h \in hand[t].taken

\* Every worker has its handle; every openvpn too, or its start is about to store one.
SocksKnown == \A id \in live["socks"] : \E h : HandleOf("socks", h) /\ h.id = id

OvpnKnown ==
    \A id \in live["ovpn"] :
        \/ \E h : HandleOf("ovpn", h) /\ h.id = id
        \/ \E t \in Runners : At(t, "up", "ovpn") /\ hand[t].id = id

\* A child of the Outline slot is in it; a start empties the slot before it fills it.
SsKnown == live["ss"] \subseteq {h.id : h \in slot["ss"]}

SsEmptied ==
    \A t \in Threads : Has(todo[t], "up", "ss") /\ slot["ss"] # {} => Has(todo[t], "stop", "ss")

StrayInv == SocksKnown /\ OvpnKnown /\ SsKnown /\ SsEmptied
-----------------------------------------------------------------------------
(***************************************************************************)
(* Lists and what they begin with.                                         *)
(***************************************************************************)

LEMMA RestOfList ==
    ASSUME NEW S, NEW list \in Seq(S), list # <<>>
    PROVE  /\ Tail(list) \in Seq(S) /\ Len(list) \in Nat \ {0}
           /\ Head(list) = list[1] /\ Len(Tail(list)) = Len(list) - 1
           /\ \A i \in 1 .. Len(list) - 1 : Tail(list)[i] = list[i + 1]
BY HeadTailProperties

LEMMA ListsInOrder ==
    ASSUME NEW t, NEW list, ListOK(t, list), list # <<>>
    PROVE  ListOK(t, Tail(list)) /\ Head(list) \in StepsOf(t)
<1>1. list \in Seq(StepsOf(t)) /\ Ordered(list) BY DEF ListOK
<1> DEFINE rest == Tail(list)
           n == Len(list)
<1>2. /\ rest \in Seq(StepsOf(t)) /\ n \in Nat \ {0} /\ Head(list) = list[1]
      /\ Len(rest) = n - 1 /\ \A i \in 1 .. n - 1 : rest[i] = list[i + 1]
  BY <1>1, RestOfList
<1>3. Ordered(rest)
  <2> HIDE DEF rest, n
  <2>0. Len(list) = n BY DEF n
  <2>1. TakenIsUndone(rest)
    <3> SUFFICES ASSUME NEW i \in 1 .. Len(rest), NEW p \in Guarded, rest[i] = <<"take", p>>
                 PROVE  i < Len(rest) /\ rest[i + 1] = <<"undo", p>>
      BY DEF TakenIsUndone
    <3>1. i + 1 \in 1 .. n /\ list[i + 1] = <<"take", p>> BY <1>2
    <3>2. i + 1 < n /\ list[i + 1 + 1] = <<"undo", p>> BY <1>1, <2>0, <3>1 DEF Ordered, TakenIsUndone
    <3>3. i + 1 \in 1 .. n - 1 BY <1>2, <3>2
    <3>. QED BY <1>2, <3>2, <3>3
  <2>2. UndoneWasTaken(rest)
    <3> SUFFICES ASSUME NEW i \in 2 .. Len(rest), NEW p \in Guarded, rest[i] = <<"undo", p>>
                 PROVE  rest[i - 1] = <<"take", p>>
      BY DEF UndoneWasTaken
    <3>1. i + 1 \in 2 .. n /\ list[i + 1] = <<"undo", p>> BY <1>2
    <3>2. list[i + 1 - 1] = <<"take", p>> BY <1>1, <2>0, <3>1 DEF Ordered, UndoneWasTaken
    <3>3. i - 1 \in 1 .. n - 1 /\ i + 1 - 1 = i - 1 + 1 BY <1>2
    <3>. QED BY <1>2, <3>2, <3>3
  <2>3. OneComesUp(rest)
    <3> SUFFICES ASSUME NEW i \in 1 .. Len(rest), NEW j \in 1 .. Len(rest), NEW name \in Names,
                        i < j, rest[i] = <<"up", name>>
                 PROVE  /\ name # "ss" => rest[j] \notin {"take", "up"} \X (Guarded \cup Names)
                        /\ rest[j] \notin {<<"stop", "ss">>, <<"up", "ss">>}
      BY DEF OneComesUp
    <3>1. /\ i + 1 \in 1 .. n /\ j + 1 \in 1 .. n /\ i + 1 < j + 1
          /\ list[i + 1] = <<"up", name>> /\ rest[j] = list[j + 1]
      BY <1>2
    <3>. QED BY <1>1, <2>0, <3>1 DEF Ordered, OneComesUp
  <2>4. SpawnedComesUp(rest)
    <3> SUFFICES ASSUME NEW i \in 1 .. Len(rest), NEW p \in {"ovpn", "pptp"},
                        rest[i] = <<"spawn", p>>
                 PROVE  i < Len(rest) /\ rest[i + 1] = <<"up", p>>
      BY DEF SpawnedComesUp
    <3>1. i + 1 \in 1 .. n /\ list[i + 1] = <<"spawn", p>> BY <1>2
    <3>2. i + 1 < n /\ list[i + 1 + 1] = <<"up", p>> BY <1>1, <2>0, <3>1 DEF Ordered, SpawnedComesUp
    <3>3. i + 1 \in 1 .. n - 1 BY <1>2, <3>2
    <3>. QED BY <1>2, <3>2, <3>3
  <2>5. BegunComesUp(rest)
    <3> SUFFICES ASSUME NEW i \in 1 .. Len(rest),
                        rest[i] \in {<<"bypass", "socks">>, <<"link", "wg">>, <<"up", "ss">>}
                 PROVE  \E j \in 1 .. Len(rest), name \in Names \ {"ss"} :
                           i < j /\ rest[j] = <<"up", name>>
      BY DEF BegunComesUp
    <3>1. i + 1 \in 1 .. n /\ list[i + 1] = rest[i] BY <1>2
    <3>2. PICK j \in 1 .. n, name \in Names \ {"ss"} : i + 1 < j /\ list[j] = <<"up", name>>
      BY <1>1, <2>0, <3>1 DEF Ordered, BegunComesUp
    <3>3. j - 1 \in 1 .. n - 1 /\ i < j - 1 /\ j - 1 + 1 = j BY <1>2, <3>2
    <3>4. rest[j - 1] = <<"up", name>> BY <1>2, <3>2, <3>3
    <3>. QED BY <1>2, <3>3, <3>4
  <2>6. EndsLast(rest)
    <3> SUFFICES ASSUME NEW i \in 1 .. Len(rest),
                        rest[i] \in {<<"probe", "socks">>, <<"wait", "ovpn">>, <<"wait", "pptp">>,
                                     <<"exit", "daemon">>}
                 PROVE  i = Len(rest)
      BY DEF EndsLast
    <3>1. i + 1 \in 1 .. n /\ list[i + 1] = rest[i] BY <1>2
    <3>2. i + 1 = n BY <1>1, <2>0, <3>1 DEF Ordered, EndsLast
    <3>. QED BY <1>2, <3>2
  <2>. QED BY <2>1, <2>2, <2>3, <2>4, <2>5, <2>6 DEF Ordered
<1>4. list[1] \in StepsOf(t) BY <1>1, <1>2
<1>. QED BY <1>2, <1>3, <1>4 DEF ListOK

\* What is in the rest was in the list; what was in it and is not first is in the rest.
LEMMA HasRest ==
    ASSUME NEW t, NEW list, ListOK(t, list), list # <<>>, NEW do, NEW on
    PROVE  /\ Has(Tail(list), do, on) => Has(list, do, on)
           /\ Has(list, do, on) /\ Head(list) # <<do, on>> => Has(Tail(list), do, on)
           /\ Head(list) = <<do, on>> => Has(list, do, on)
<1>1. /\ Len(list) \in Nat \ {0} /\ Head(list) = list[1] /\ Len(Tail(list)) = Len(list) - 1
      /\ \A i \in 1 .. Len(list) - 1 : Tail(list)[i] = list[i + 1]
  BY RestOfList DEF ListOK
<1>2. ASSUME Has(Tail(list), do, on) PROVE Has(list, do, on)
  <2>1. PICK i \in 1 .. Len(list) - 1 : Tail(list)[i] = <<do, on>> BY <1>1, <1>2 DEF Has
  <2>2. i + 1 \in 1 .. Len(list) /\ list[i + 1] = <<do, on>> BY <1>1, <2>1
  <2>. QED BY <2>2 DEF Has
<1>3. ASSUME Has(list, do, on), Head(list) # <<do, on>> PROVE Has(Tail(list), do, on)
  <2>1. PICK i \in 1 .. Len(list) : list[i] = <<do, on>> BY <1>3 DEF Has
  <2>2. i # 1 BY <1>1, <1>3, <2>1
  <2>3. i - 1 \in 1 .. Len(list) - 1 /\ i - 1 + 1 = i BY <1>1, <2>1, <2>2
  <2>4. Tail(list)[i - 1] = <<do, on>> BY <1>1, <2>1, <2>3
  <2>. QED BY <1>1, <2>3, <2>4 DEF Has
<1>4. Head(list) = <<do, on>> => Has(list, do, on) BY <1>1 DEF Has
<1>. QED BY <1>2, <1>3, <1>4

LEMMA EmptyList == \A t : ListOK(t, <<>>) /\ \A do, on : ~ Has(<<>>, do, on)
<1>1. \A t : <<>> \in Seq(StepsOf(t)) OBVIOUS
<1>2. Ordered(<<>>)
  BY DEF Ordered, TakenIsUndone, UndoneWasTaken, OneComesUp, SpawnedComesUp, BegunComesUp, EndsLast
<1>3. \A do, on : ~ Has(<<>>, do, on) BY DEF Has
<1>. QED BY <1>1, <1>2, <1>3 DEF ListOK
-----------------------------------------------------------------------------
(***************************************************************************)
(* What the commands put together.                                         *)
(***************************************************************************)

\* The lists that threads, the handler of signals and the watchdog begin with.
Plan(name) ==
    CASE name = "tor_start"  -> 
            <<<<"take", "socks">>, <<"undo", "socks">>, <<"check", "socks">>,
              <<"bypass", "socks">>, <<"take", "socks">>, <<"undo", "socks">>,
              <<"check", "socks">>, <<"up", "ZeroNodeTor">>, <<"probe", "socks">>>>
      [] name = "tor_stop"   -> 
            <<<<"take", "socks">>, <<"undo", "socks">>, <<"check", "socks">>>>
      [] name = "wg_start"   -> 
            <<<<"take", "wg">>, <<"undo", "wg">>, <<"link", "wg">>, <<"up", "wg">>>>
      [] name = "wg_stop"    -> 
            <<<<"take", "wg">>, <<"undo", "wg">>>>
      [] name = "ovpn_start" -> 
            <<<<"take", "ovpn">>, <<"undo", "ovpn">>, <<"spawn", "ovpn">>,
              <<"up", "ovpn">>, <<"wait", "ovpn">>>>
      [] name = "ovpn_stop"  -> 
            <<<<"take", "ovpn">>, <<"undo", "ovpn">>>>
      [] name = "pptp_start" -> 
            <<<<"take", "pptp">>, <<"undo", "pptp">>, <<"spawn", "pptp">>,
              <<"up", "pptp">>, <<"wait", "pptp">>>>
      [] name = "pptp_stop"  -> 
            <<<<"take", "pptp">>, <<"undo", "pptp">>>>
      [] name = "ss_start"   -> 
            <<<<"take", "socks">>, <<"undo", "socks">>, <<"check", "socks">>,
              <<"stop", "ss">>, <<"up", "ss">>, <<"take", "socks">>, <<"undo", "socks">>,
              <<"check", "socks">>, <<"up", "ZeroNodeOutline">>, <<"probe", "socks">>>>
      [] name = "ss_stop"    -> 
            <<<<"take", "socks">>, <<"undo", "socks">>, <<"check", "socks">>,
              <<"stop", "ss">>>>
      [] name = "signal"     -> 
            <<<<"take", "socks">>, <<"undo", "socks">>, <<"check", "socks">>,
              <<"take", "wg">>, <<"undo", "wg">>, <<"take", "ovpn">>, <<"undo", "ovpn">>,
              <<"take", "pptp">>, <<"undo", "pptp">>, <<"take", "socks">>,
              <<"undo", "socks">>, <<"check", "socks">>, <<"stop", "ss">>,
              <<"exit", "daemon">>>>
      [] name = "owner"      -> 
            <<<<"take", "socks">>, <<"undo", "socks">>, <<"check", "socks">>,
              <<"forget", "owner">>>>

LEMMA SameLists ==
    ASSUME NEW S, NEW s \in Seq(S), NEW t \in Seq(S), NEW n \in Nat, Len(s) = n, Len(t) = n,
           \A i \in 1 .. n : s[i] = t[i]
    PROVE  s = t
BY SeqEqual, Zenon

LEMMA TorStartList == start_tor = Plan("tor_start")
<1> DEFINE l == start_tor
           r == <<<<"take", "socks">>, <<"undo", "socks">>, <<"check", "socks">>,
                   <<"bypass", "socks">>, <<"take", "socks">>, <<"undo", "socks">>,
                   <<"check", "socks">>, <<"up", "ZeroNodeTor">>, <<"probe", "socks">>>>
<1>1. l \in Seq(Steps) /\ Len(l) = 9 /\ \A i \in 1 .. 9 : l[i] = r[i]
  BY DEF Guarded, Names, Steps, start_socks, start_tor, stop_socks
<1>2. r \in Seq(Steps) /\ Len(r) = 9 BY DEF Steps, Guarded, Names
<1>3. Plan("tor_start") = r BY DEF Plan
<1> HIDE DEF l, r
<1>4. l = r BY <1>1, <1>2, SameLists
<1>. QED BY <1>3, <1>4, Zenon DEF l

LEMMA TorStopList == stop_socks = Plan("tor_stop")
<1> DEFINE l == stop_socks
           r == <<<<"take", "socks">>, <<"undo", "socks">>, <<"check", "socks">>>>
<1>1. l \in Seq(Steps) /\ Len(l) = 3 /\ \A i \in 1 .. 3 : l[i] = r[i]
  BY DEF Guarded, Names, Steps, stop_socks
<1>2. r \in Seq(Steps) /\ Len(r) = 3 BY DEF Steps, Guarded, Names
<1>3. Plan("tor_stop") = r BY DEF Plan
<1> HIDE DEF l, r
<1>4. l = r BY <1>1, <1>2, SameLists
<1>. QED BY <1>3, <1>4, Zenon DEF l

LEMMA WgStartList == start_wg = Plan("wg_start")
<1> DEFINE l == start_wg
           r == <<<<"take", "wg">>, <<"undo", "wg">>, <<"link", "wg">>, <<"up", "wg">>>>
<1>1. l \in Seq(Steps) /\ Len(l) = 4 /\ \A i \in 1 .. 4 : l[i] = r[i]
  BY DEF Guarded, Names, Steps, TakeAndUndo, start_wg
<1>2. r \in Seq(Steps) /\ Len(r) = 4 BY DEF Steps, Guarded, Names
<1>3. Plan("wg_start") = r BY DEF Plan
<1> HIDE DEF l, r
<1>4. l = r BY <1>1, <1>2, SameLists
<1>. QED BY <1>3, <1>4, Zenon DEF l

LEMMA WgStopList == TakeAndUndo("wg") = Plan("wg_stop")
<1> DEFINE l == TakeAndUndo("wg")
           r == <<<<"take", "wg">>, <<"undo", "wg">>>>
<1>1. l \in Seq(Steps) /\ Len(l) = 2 /\ \A i \in 1 .. 2 : l[i] = r[i]
  BY DEF Guarded, Names, Steps, TakeAndUndo
<1>2. r \in Seq(Steps) /\ Len(r) = 2 BY DEF Steps, Guarded, Names
<1>3. Plan("wg_stop") = r BY DEF Plan
<1> HIDE DEF l, r
<1>4. l = r BY <1>1, <1>2, SameLists
<1>. QED BY <1>3, <1>4, Zenon DEF l

LEMMA OvpnStartList == start_ppp("ovpn") = Plan("ovpn_start")
<1> DEFINE l == start_ppp("ovpn")
           r == <<<<"take", "ovpn">>, <<"undo", "ovpn">>, <<"spawn", "ovpn">>,
                   <<"up", "ovpn">>, <<"wait", "ovpn">>>>
<1>1. l \in Seq(Steps) /\ Len(l) = 5 /\ \A i \in 1 .. 5 : l[i] = r[i]
  BY DEF Guarded, Names, Steps, TakeAndUndo, start_ppp
<1>2. r \in Seq(Steps) /\ Len(r) = 5 BY DEF Steps, Guarded, Names
<1>3. Plan("ovpn_start") = r BY DEF Plan
<1> HIDE DEF l, r
<1>4. l = r BY <1>1, <1>2, SameLists
<1>. QED BY <1>3, <1>4, Zenon DEF l

LEMMA OvpnStopList == TakeAndUndo("ovpn") = Plan("ovpn_stop")
<1> DEFINE l == TakeAndUndo("ovpn")
           r == <<<<"take", "ovpn">>, <<"undo", "ovpn">>>>
<1>1. l \in Seq(Steps) /\ Len(l) = 2 /\ \A i \in 1 .. 2 : l[i] = r[i]
  BY DEF Guarded, Names, Steps, TakeAndUndo
<1>2. r \in Seq(Steps) /\ Len(r) = 2 BY DEF Steps, Guarded, Names
<1>3. Plan("ovpn_stop") = r BY DEF Plan
<1> HIDE DEF l, r
<1>4. l = r BY <1>1, <1>2, SameLists
<1>. QED BY <1>3, <1>4, Zenon DEF l

LEMMA PptpStartList == start_ppp("pptp") = Plan("pptp_start")
<1> DEFINE l == start_ppp("pptp")
           r == <<<<"take", "pptp">>, <<"undo", "pptp">>, <<"spawn", "pptp">>,
                   <<"up", "pptp">>, <<"wait", "pptp">>>>
<1>1. l \in Seq(Steps) /\ Len(l) = 5 /\ \A i \in 1 .. 5 : l[i] = r[i]
  BY DEF Guarded, Names, Steps, TakeAndUndo, start_ppp
<1>2. r \in Seq(Steps) /\ Len(r) = 5 BY DEF Steps, Guarded, Names
<1>3. Plan("pptp_start") = r BY DEF Plan
<1> HIDE DEF l, r
<1>4. l = r BY <1>1, <1>2, SameLists
<1>. QED BY <1>3, <1>4, Zenon DEF l

LEMMA PptpStopList == TakeAndUndo("pptp") = Plan("pptp_stop")
<1> DEFINE l == TakeAndUndo("pptp")
           r == <<<<"take", "pptp">>, <<"undo", "pptp">>>>
<1>1. l \in Seq(Steps) /\ Len(l) = 2 /\ \A i \in 1 .. 2 : l[i] = r[i]
  BY DEF Guarded, Names, Steps, TakeAndUndo
<1>2. r \in Seq(Steps) /\ Len(r) = 2 BY DEF Steps, Guarded, Names
<1>3. Plan("pptp_stop") = r BY DEF Plan
<1> HIDE DEF l, r
<1>4. l = r BY <1>1, <1>2, SameLists
<1>. QED BY <1>3, <1>4, Zenon DEF l

LEMMA SsStartList == start_outline = Plan("ss_start")
<1> DEFINE l == start_outline
           r == <<<<"take", "socks">>, <<"undo", "socks">>, <<"check", "socks">>,
                   <<"stop", "ss">>, <<"up", "ss">>, <<"take", "socks">>,
                   <<"undo", "socks">>, <<"check", "socks">>,
                   <<"up", "ZeroNodeOutline">>, <<"probe", "socks">>>>
<1>1. l \in Seq(Steps) /\ Len(l) = 10 /\ \A i \in 1 .. 10 : l[i] = r[i]
  BY DEF Guarded, Names, Steps, start_outline, start_socks, stop_outline, stop_socks
<1>2. r \in Seq(Steps) /\ Len(r) = 10 BY DEF Steps, Guarded, Names
<1>3. Plan("ss_start") = r BY DEF Plan
<1> HIDE DEF l, r
<1>4. l = r BY <1>1, <1>2, SameLists
<1>. QED BY <1>3, <1>4, Zenon DEF l

LEMMA SsStopList == stop_outline = Plan("ss_stop")
<1> DEFINE l == stop_outline
           r == <<<<"take", "socks">>, <<"undo", "socks">>, <<"check", "socks">>,
                   <<"stop", "ss">>>>
<1>1. l \in Seq(Steps) /\ Len(l) = 4 /\ \A i \in 1 .. 4 : l[i] = r[i]
  BY DEF Guarded, Names, Steps, stop_outline, stop_socks
<1>2. r \in Seq(Steps) /\ Len(r) = 4 BY DEF Steps, Guarded, Names
<1>3. Plan("ss_stop") = r BY DEF Plan
<1> HIDE DEF l, r
<1>4. l = r BY <1>1, <1>2, SameLists
<1>. QED BY <1>3, <1>4, Zenon DEF l

LEMMA SignalList == on_signal = Plan("signal")
<1> DEFINE l == on_signal
           r == <<<<"take", "socks">>, <<"undo", "socks">>, <<"check", "socks">>,
                   <<"take", "wg">>, <<"undo", "wg">>, <<"take", "ovpn">>,
                   <<"undo", "ovpn">>, <<"take", "pptp">>, <<"undo", "pptp">>,
                   <<"take", "socks">>, <<"undo", "socks">>, <<"check", "socks">>,
                   <<"stop", "ss">>, <<"exit", "daemon">>>>
<1>1. l \in Seq(Steps) /\ Len(l) = 14 /\ \A i \in 1 .. 14 : l[i] = r[i]
  BY DEF Guarded, Names, Steps, TakeAndUndo, on_signal, stop_outline, stop_socks
<1>2. r \in Seq(Steps) /\ Len(r) = 14 BY DEF Steps, Guarded, Names
<1>3. Plan("signal") = r BY DEF Plan
<1> HIDE DEF l, r
<1>4. l = r BY <1>1, <1>2, SameLists
<1>. QED BY <1>3, <1>4, Zenon DEF l

LEMMA OwnerList == on_dead_owner = Plan("owner")
<1> DEFINE l == on_dead_owner
           r == <<<<"take", "socks">>, <<"undo", "socks">>, <<"check", "socks">>,
                   <<"forget", "owner">>>>
<1>1. l \in Seq(Steps) /\ Len(l) = 4 /\ \A i \in 1 .. 4 : l[i] = r[i]
  BY DEF Guarded, Names, Steps, on_dead_owner, stop_socks
<1>2. r \in Seq(Steps) /\ Len(r) = 4 BY DEF Steps, Guarded, Names
<1>3. Plan("owner") = r BY DEF Plan
<1> HIDE DEF l, r
<1>4. l = r BY <1>1, <1>2, SameLists
<1>. QED BY <1>3, <1>4, Zenon DEF l

\* What a start brings up, and the stop that a client owes for it.
Brings(cmd) ==
    CASE cmd = "wg_start"   -> "wg"
      [] cmd = "ovpn_start" -> "ovpn"
      [] cmd = "pptp_start" -> "pptp"
      [] OTHER              -> "socks"

LEMMA PlanInOrder ==
    ASSUME NEW name \in Starts \cup Stops \cup {"signal", "owner"}
    PROVE  Plan(name) \in Seq(Steps) /\ Ordered(Plan(name))
<1> DEFINE r == Plan(name)
<1>1. CASE name = "tor_start"
  <2>0. r \in Seq(Steps) BY <1>1 DEF Plan, Steps, Guarded, Names
  <2>1. /\ Len(r) = 9
        /\ r[1] = <<"take", "socks">> /\ r[2] = <<"undo", "socks">>
        /\ r[3] = <<"check", "socks">> /\ r[4] = <<"bypass", "socks">>
        /\ r[5] = <<"take", "socks">> /\ r[6] = <<"undo", "socks">>
        /\ r[7] = <<"check", "socks">> /\ r[8] = <<"up", "ZeroNodeTor">>
        /\ r[9] = <<"probe", "socks">>
    BY <1>1 DEF Plan
  <2> HIDE DEF r
  <2>2. TakenIsUndone(r) BY <2>1 DEF TakenIsUndone
  <2>3. UndoneWasTaken(r) BY <2>1 DEF UndoneWasTaken
  <2>4. OneComesUp(r) BY <2>1 DEF OneComesUp, Guarded, Names
  <2>5. SpawnedComesUp(r) BY <2>1 DEF SpawnedComesUp
  <2>6. BegunComesUp(r) BY <2>1 DEF BegunComesUp, Names
  <2>7. EndsLast(r) BY <2>1 DEF EndsLast
  <2>. QED BY <2>0, <2>2, <2>3, <2>4, <2>5, <2>6, <2>7 DEF Ordered, r
<1>2. CASE name = "tor_stop"
  <2>0. r \in Seq(Steps) BY <1>2 DEF Plan, Steps, Guarded, Names
  <2>1. /\ Len(r) = 3
        /\ r[1] = <<"take", "socks">> /\ r[2] = <<"undo", "socks">>
        /\ r[3] = <<"check", "socks">>
    BY <1>2 DEF Plan
  <2> HIDE DEF r
  <2>2. TakenIsUndone(r) BY <2>1 DEF TakenIsUndone
  <2>3. UndoneWasTaken(r) BY <2>1 DEF UndoneWasTaken
  <2>4. OneComesUp(r) BY <2>1 DEF OneComesUp, Guarded, Names
  <2>5. SpawnedComesUp(r) BY <2>1 DEF SpawnedComesUp
  <2>6. BegunComesUp(r) BY <2>1 DEF BegunComesUp, Names
  <2>7. EndsLast(r) BY <2>1 DEF EndsLast
  <2>. QED BY <2>0, <2>2, <2>3, <2>4, <2>5, <2>6, <2>7 DEF Ordered, r
<1>3. CASE name = "wg_start"
  <2>0. r \in Seq(Steps) BY <1>3 DEF Plan, Steps, Guarded, Names
  <2>1. /\ Len(r) = 4
        /\ r[1] = <<"take", "wg">> /\ r[2] = <<"undo", "wg">>
        /\ r[3] = <<"link", "wg">> /\ r[4] = <<"up", "wg">>
    BY <1>3 DEF Plan
  <2> HIDE DEF r
  <2>2. TakenIsUndone(r) BY <2>1 DEF TakenIsUndone
  <2>3. UndoneWasTaken(r) BY <2>1 DEF UndoneWasTaken
  <2>4. OneComesUp(r) BY <2>1 DEF OneComesUp, Guarded, Names
  <2>5. SpawnedComesUp(r) BY <2>1 DEF SpawnedComesUp
  <2>6. BegunComesUp(r) BY <2>1 DEF BegunComesUp, Names
  <2>7. EndsLast(r) BY <2>1 DEF EndsLast
  <2>. QED BY <2>0, <2>2, <2>3, <2>4, <2>5, <2>6, <2>7 DEF Ordered, r
<1>4. CASE name = "wg_stop"
  <2>0. r \in Seq(Steps) BY <1>4 DEF Plan, Steps, Guarded, Names
  <2>1. /\ Len(r) = 2
        /\ r[1] = <<"take", "wg">> /\ r[2] = <<"undo", "wg">>
    BY <1>4 DEF Plan
  <2> HIDE DEF r
  <2>2. TakenIsUndone(r) BY <2>1 DEF TakenIsUndone
  <2>3. UndoneWasTaken(r) BY <2>1 DEF UndoneWasTaken
  <2>4. OneComesUp(r) BY <2>1 DEF OneComesUp, Guarded, Names
  <2>5. SpawnedComesUp(r) BY <2>1 DEF SpawnedComesUp
  <2>6. BegunComesUp(r) BY <2>1 DEF BegunComesUp, Names
  <2>7. EndsLast(r) BY <2>1 DEF EndsLast
  <2>. QED BY <2>0, <2>2, <2>3, <2>4, <2>5, <2>6, <2>7 DEF Ordered, r
<1>5. CASE name = "ovpn_start"
  <2>0. r \in Seq(Steps) BY <1>5 DEF Plan, Steps, Guarded, Names
  <2>1. /\ Len(r) = 5
        /\ r[1] = <<"take", "ovpn">> /\ r[2] = <<"undo", "ovpn">>
        /\ r[3] = <<"spawn", "ovpn">> /\ r[4] = <<"up", "ovpn">>
        /\ r[5] = <<"wait", "ovpn">>
    BY <1>5 DEF Plan
  <2> HIDE DEF r
  <2>2. TakenIsUndone(r) BY <2>1 DEF TakenIsUndone
  <2>3. UndoneWasTaken(r) BY <2>1 DEF UndoneWasTaken
  <2>4. OneComesUp(r) BY <2>1 DEF OneComesUp, Guarded, Names
  <2>5. SpawnedComesUp(r) BY <2>1 DEF SpawnedComesUp
  <2>6. BegunComesUp(r) BY <2>1 DEF BegunComesUp, Names
  <2>7. EndsLast(r) BY <2>1 DEF EndsLast
  <2>. QED BY <2>0, <2>2, <2>3, <2>4, <2>5, <2>6, <2>7 DEF Ordered, r
<1>6. CASE name = "ovpn_stop"
  <2>0. r \in Seq(Steps) BY <1>6 DEF Plan, Steps, Guarded, Names
  <2>1. /\ Len(r) = 2
        /\ r[1] = <<"take", "ovpn">> /\ r[2] = <<"undo", "ovpn">>
    BY <1>6 DEF Plan
  <2> HIDE DEF r
  <2>2. TakenIsUndone(r) BY <2>1 DEF TakenIsUndone
  <2>3. UndoneWasTaken(r) BY <2>1 DEF UndoneWasTaken
  <2>4. OneComesUp(r) BY <2>1 DEF OneComesUp, Guarded, Names
  <2>5. SpawnedComesUp(r) BY <2>1 DEF SpawnedComesUp
  <2>6. BegunComesUp(r) BY <2>1 DEF BegunComesUp, Names
  <2>7. EndsLast(r) BY <2>1 DEF EndsLast
  <2>. QED BY <2>0, <2>2, <2>3, <2>4, <2>5, <2>6, <2>7 DEF Ordered, r
<1>7. CASE name = "pptp_start"
  <2>0. r \in Seq(Steps) BY <1>7 DEF Plan, Steps, Guarded, Names
  <2>1. /\ Len(r) = 5
        /\ r[1] = <<"take", "pptp">> /\ r[2] = <<"undo", "pptp">>
        /\ r[3] = <<"spawn", "pptp">> /\ r[4] = <<"up", "pptp">>
        /\ r[5] = <<"wait", "pptp">>
    BY <1>7 DEF Plan
  <2> HIDE DEF r
  <2>2. TakenIsUndone(r) BY <2>1 DEF TakenIsUndone
  <2>3. UndoneWasTaken(r) BY <2>1 DEF UndoneWasTaken
  <2>4. OneComesUp(r) BY <2>1 DEF OneComesUp, Guarded, Names
  <2>5. SpawnedComesUp(r) BY <2>1 DEF SpawnedComesUp
  <2>6. BegunComesUp(r) BY <2>1 DEF BegunComesUp, Names
  <2>7. EndsLast(r) BY <2>1 DEF EndsLast
  <2>. QED BY <2>0, <2>2, <2>3, <2>4, <2>5, <2>6, <2>7 DEF Ordered, r
<1>8. CASE name = "pptp_stop"
  <2>0. r \in Seq(Steps) BY <1>8 DEF Plan, Steps, Guarded, Names
  <2>1. /\ Len(r) = 2
        /\ r[1] = <<"take", "pptp">> /\ r[2] = <<"undo", "pptp">>
    BY <1>8 DEF Plan
  <2> HIDE DEF r
  <2>2. TakenIsUndone(r) BY <2>1 DEF TakenIsUndone
  <2>3. UndoneWasTaken(r) BY <2>1 DEF UndoneWasTaken
  <2>4. OneComesUp(r) BY <2>1 DEF OneComesUp, Guarded, Names
  <2>5. SpawnedComesUp(r) BY <2>1 DEF SpawnedComesUp
  <2>6. BegunComesUp(r) BY <2>1 DEF BegunComesUp, Names
  <2>7. EndsLast(r) BY <2>1 DEF EndsLast
  <2>. QED BY <2>0, <2>2, <2>3, <2>4, <2>5, <2>6, <2>7 DEF Ordered, r
<1>9. CASE name = "ss_start"
  <2>0. r \in Seq(Steps) BY <1>9 DEF Plan, Steps, Guarded, Names
  <2>1. /\ Len(r) = 10
        /\ r[1] = <<"take", "socks">> /\ r[2] = <<"undo", "socks">>
        /\ r[3] = <<"check", "socks">> /\ r[4] = <<"stop", "ss">>
        /\ r[5] = <<"up", "ss">> /\ r[6] = <<"take", "socks">>
        /\ r[7] = <<"undo", "socks">> /\ r[8] = <<"check", "socks">>
        /\ r[9] = <<"up", "ZeroNodeOutline">> /\ r[10] = <<"probe", "socks">>
    BY <1>9 DEF Plan
  <2> HIDE DEF r
  <2>2. TakenIsUndone(r) BY <2>1 DEF TakenIsUndone
  <2>3. UndoneWasTaken(r) BY <2>1 DEF UndoneWasTaken
  <2>4. OneComesUp(r) BY <2>1 DEF OneComesUp, Guarded, Names
  <2>5. SpawnedComesUp(r) BY <2>1 DEF SpawnedComesUp
  <2>6. BegunComesUp(r) BY <2>1 DEF BegunComesUp, Names
  <2>7. EndsLast(r) BY <2>1 DEF EndsLast
  <2>. QED BY <2>0, <2>2, <2>3, <2>4, <2>5, <2>6, <2>7 DEF Ordered, r
<1>10. CASE name = "ss_stop"
  <2>0. r \in Seq(Steps) BY <1>10 DEF Plan, Steps, Guarded, Names
  <2>1. /\ Len(r) = 4
        /\ r[1] = <<"take", "socks">> /\ r[2] = <<"undo", "socks">>
        /\ r[3] = <<"check", "socks">> /\ r[4] = <<"stop", "ss">>
    BY <1>10 DEF Plan
  <2> HIDE DEF r
  <2>2. TakenIsUndone(r) BY <2>1 DEF TakenIsUndone
  <2>3. UndoneWasTaken(r) BY <2>1 DEF UndoneWasTaken
  <2>4. OneComesUp(r) BY <2>1 DEF OneComesUp, Guarded, Names
  <2>5. SpawnedComesUp(r) BY <2>1 DEF SpawnedComesUp
  <2>6. BegunComesUp(r) BY <2>1 DEF BegunComesUp, Names
  <2>7. EndsLast(r) BY <2>1 DEF EndsLast
  <2>. QED BY <2>0, <2>2, <2>3, <2>4, <2>5, <2>6, <2>7 DEF Ordered, r
<1>11. CASE name = "signal"
  <2>0. r \in Seq(Steps) BY <1>11 DEF Plan, Steps, Guarded, Names
  <2>1. /\ Len(r) = 14
        /\ r[1] = <<"take", "socks">> /\ r[2] = <<"undo", "socks">>
        /\ r[3] = <<"check", "socks">> /\ r[4] = <<"take", "wg">>
        /\ r[5] = <<"undo", "wg">> /\ r[6] = <<"take", "ovpn">>
        /\ r[7] = <<"undo", "ovpn">> /\ r[8] = <<"take", "pptp">>
        /\ r[9] = <<"undo", "pptp">> /\ r[10] = <<"take", "socks">>
        /\ r[11] = <<"undo", "socks">> /\ r[12] = <<"check", "socks">>
        /\ r[13] = <<"stop", "ss">> /\ r[14] = <<"exit", "daemon">>
    BY <1>11 DEF Plan
  <2> HIDE DEF r
  <2>2. TakenIsUndone(r) BY <2>1 DEF TakenIsUndone
  <2>3. UndoneWasTaken(r) BY <2>1 DEF UndoneWasTaken
  <2>4. OneComesUp(r) BY <2>1 DEF OneComesUp, Guarded, Names
  <2>5. SpawnedComesUp(r) BY <2>1 DEF SpawnedComesUp
  <2>6. BegunComesUp(r) BY <2>1 DEF BegunComesUp, Names
  <2>7. EndsLast(r) BY <2>1 DEF EndsLast
  <2>. QED BY <2>0, <2>2, <2>3, <2>4, <2>5, <2>6, <2>7 DEF Ordered, r
<1>12. CASE name = "owner"
  <2>0. r \in Seq(Steps) BY <1>12 DEF Plan, Steps, Guarded, Names
  <2>1. /\ Len(r) = 4
        /\ r[1] = <<"take", "socks">> /\ r[2] = <<"undo", "socks">>
        /\ r[3] = <<"check", "socks">> /\ r[4] = <<"forget", "owner">>
    BY <1>12 DEF Plan
  <2> HIDE DEF r
  <2>2. TakenIsUndone(r) BY <2>1 DEF TakenIsUndone
  <2>3. UndoneWasTaken(r) BY <2>1 DEF UndoneWasTaken
  <2>4. OneComesUp(r) BY <2>1 DEF OneComesUp, Guarded, Names
  <2>5. SpawnedComesUp(r) BY <2>1 DEF SpawnedComesUp
  <2>6. BegunComesUp(r) BY <2>1 DEF BegunComesUp, Names
  <2>7. EndsLast(r) BY <2>1 DEF EndsLast
  <2>. QED BY <2>0, <2>2, <2>3, <2>4, <2>5, <2>6, <2>7 DEF Ordered, r
<1>. QED BY <1>1, <1>2, <1>3, <1>4, <1>5, <1>6, <1>7, <1>8, <1>9, <1>10, <1>11, <1>12 DEF Starts, Stops

LEMMA PlanSteps ==
    /\ Plan("signal") \in Seq(MainSteps)
    /\ Plan("owner") \in Seq(WatchdogSteps)
BY DEF Plan, MainSteps, WatchdogSteps, Guarded

LEMMA StopPlans ==
    ASSUME NEW cmd \in Stops \cup {"signal", "owner"}
    PROVE  /\ \A p \in Guarded : ~ HasUp(Plan(cmd), p)
           /\ ~ Has(Plan(cmd), "up", "ss")
           /\ \A p \in Guarded : cmd = "signal" \/ cmd \in StopsOf(p) => Has(Plan(cmd), "take", p)
<1> USE DEF HasUp, Has, Guarded, Names, StopsOf
<1>1. CASE cmd = "tor_stop" BY <1>1 DEF Plan
<1>2. CASE cmd \in {"wg_stop", "ovpn_stop", "pptp_stop"}
  <2>1. CASE cmd = "wg_stop" BY <2>1 DEF Plan
  <2>2. CASE cmd = "ovpn_stop" BY <2>2 DEF Plan
  <2>3. CASE cmd = "pptp_stop" BY <2>3 DEF Plan
  <2>. QED BY <1>2, <2>1, <2>2, <2>3
<1>3. CASE cmd = "ss_stop"
  <2> DEFINE r == Plan("ss_stop")
  <2>1. /\ Len(r) = 4 /\ r[1] = <<"take", "socks">> /\ r[2] = <<"undo", "socks">>
        /\ r[3] = <<"check", "socks">> /\ r[4] = <<"stop", "ss">>
    BY DEF Plan
  <2>2. Has(r, "take", "socks") /\ \A name \in Names : ~ Has(r, "up", name)
    <3> HIDE DEF r
    <3>. QED BY <2>1
  <2>. QED BY <1>3, <2>2
<1>4. CASE cmd = "signal"
  <2> DEFINE r == Plan("signal")
  <2>1. /\ Len(r) = 14 /\ r[1] = <<"take", "socks">> /\ r[4] = <<"take", "wg">>
        /\ r[6] = <<"take", "ovpn">> /\ r[8] = <<"take", "pptp">>
    BY DEF Plan
  <2>2. \A p \in Guarded : Has(r, "take", p)
    <3> HIDE DEF r
    <3>. QED BY <2>1
  <2>3. \A i \in 1 .. Len(r) : r[i] \in MainSteps BY PlanSteps
  <2>4. \A name \in Names : ~ Has(r, "up", name)
    <3> HIDE DEF r
    <3>. QED BY <2>3 DEF MainSteps
  <2>. QED BY <1>4, <2>2, <2>4
<1>5. CASE cmd = "owner" BY <1>5 DEF Plan
<1>. QED BY <1>1, <1>2, <1>3, <1>4, <1>5 DEF Stops

LEMMA StartPlans ==
    ASSUME NEW cmd \in Starts
    PROVE  /\ Brings(cmd) \in Guarded
           /\ \A p \in Guarded : HasUp(Plan(cmd), p) => p = Brings(cmd)
           /\ \A p \in Guarded : StopOf(cmd) \in StopsOf(p) <=> p = Brings(cmd)
           /\ Has(Plan(cmd), "take", Brings(cmd))
           /\ Has(Plan(cmd), "up", "ss") => Has(Plan(cmd), "stop", "ss")
           /\ StopOf(cmd) \in Stops
<1> USE DEF HasUp, Has, Guarded, Names, StopsOf, Brings, StopOf, Stops, KindOf
<1>1. CASE cmd = "tor_start" BY <1>1 DEF Plan
<1>2. CASE cmd = "wg_start" BY <1>2 DEF Plan
<1>3. CASE cmd = "ovpn_start" BY <1>3 DEF Plan
<1>4. CASE cmd = "pptp_start" BY <1>4 DEF Plan
<1>5. CASE cmd = "ss_start" BY <1>5 DEF Plan
<1>. QED BY <1>1, <1>2, <1>3, <1>4, <1>5 DEF Starts
-----------------------------------------------------------------------------
(***************************************************************************)
(* A step, and what is left of the list.                                   *)
(***************************************************************************)

\* A thread whose list becomes another one; the others' lists stay.
LEMMA ListBecomes ==
    ASSUME Lists, NEW t \in Runners, NEW rest, ListOK(t, rest),
           todo' = [todo EXCEPT ![t] = rest]
    PROVE  /\ Lists' /\ todo'[t] = rest
           /\ \A u \in Runners \ {t} : todo'[u] = todo[u]
<1>1. DOMAIN todo' = Runners /\ todo'[t] = rest /\ \A u \in Runners \ {t} : todo'[u] = todo[u]
  BY DEF Lists
<1>2. \A u \in Runners : ListOK(u, todo'[u]) BY <1>1 DEF Lists
<1>. QED BY <1>1, <1>2 DEF Lists

LEMMA StepTaken ==
    ASSUME Lists, NEW t \in Runners, NEW do, NEW on, At(t, do, on)
    PROVE  /\ todo[t] # <<>> /\ Head(todo[t]) = <<do, on>> /\ ListOK(t, todo[t])
           /\ ListOK(t, Tail(todo[t])) /\ <<do, on>> \in StepsOf(t)
           /\ ~ Idle(t)
BY ListsInOrder DEF Lists, At, Idle

\* What neither a signal nor the watchdog does is done by a connection's thread.
LEMMA ThreadsOnly ==
    ASSUME HelperAssumption, NEW t \in Runners, NEW step \in StepsOf(t),
           step \notin MainSteps \cup WatchdogSteps
    PROVE  t \in Threads /\ StepsOf(t) = Steps
BY DEF StepsOf, Runners, HelperAssumption

LEMMA PlansAreLists ==
    ASSUME HelperAssumption
    PROVE  /\ \A t \in Threads, name \in Starts \cup Stops : ListOK(t, Plan(name))
           /\ ListOK(Main, Plan("signal")) /\ ListOK(Watchdog, Plan("owner"))
BY PlanInOrder, PlanSteps DEF ListOK, StepsOf, HelperAssumption

LEMMA Programs == \A cmd \in Starts \cup Stops : Program(cmd) = Plan(cmd)
<1>1. Program("tor_start") = start_tor BY DEF Program, Splits
<1>2. Program("tor_stop") = stop_socks BY DEF Program, Splits
<1>3. Program("wg_start") = start_wg BY DEF Program, Splits
<1>4. Program("wg_stop") = TakeAndUndo("wg") BY DEF Program, Splits
<1>5. Program("ovpn_start") = start_ppp("ovpn") BY DEF Program, Splits
<1>6. Program("ovpn_stop") = TakeAndUndo("ovpn") BY DEF Program, Splits
<1>7. Program("pptp_start") = start_ppp("pptp") BY DEF Program, Splits
<1>8. Program("pptp_stop") = TakeAndUndo("pptp") BY DEF Program, Splits
<1>9. Program("ss_start") = start_outline BY DEF Program, Splits
<1>10. Program("ss_stop") = stop_outline BY DEF Program, Splits
<1>. QED
  BY <1>1, <1>2, <1>3, <1>4, <1>5, <1>6, <1>7, <1>8, <1>9, <1>10,
     TorStartList, TorStopList, WgStartList, WgStopList, OvpnStartList,
     OvpnStopList, PptpStartList, PptpStopList, SsStartList, SsStopList DEF Starts, Stops

LEMMA SplitPrograms == \A cmd \in Splits : Program(cmd) = <<>>
BY DEF Splits, Program

\* Only a take is followed by an undo.
LEMMA NotInHand ==
    ASSUME NEW t, NEW list, ListOK(t, list), list # <<>>,
           Head(list) \notin {"take"} \X Guarded
    PROVE  \A p \in Guarded : Tail(list) # <<>> => Head(Tail(list)) # <<"undo", p>>
<1> SUFFICES ASSUME NEW p \in Guarded, Tail(list) # <<>>, Head(Tail(list)) = <<"undo", p>>
             PROVE  FALSE
  OBVIOUS
<1>1. /\ Len(list) \in Nat \ {0} /\ Head(list) = list[1] /\ Len(Tail(list)) = Len(list) - 1
      /\ Tail(list) \in Seq(StepsOf(t))
      /\ \A i \in 1 .. Len(list) - 1 : Tail(list)[i] = list[i + 1]
  BY RestOfList DEF ListOK
<1>2. Len(list) - 1 \in Nat \ {0} /\ Tail(list)[1] = <<"undo", p>> BY <1>1, RestOfList
<1>3. 1 \in 1 .. Len(list) - 1 BY <1>2
<1>4. 2 \in 2 .. Len(list) /\ list[2] = <<"undo", p>> BY <1>1, <1>2, <1>3
<1>5. list[2 - 1] = <<"take", p>> BY <1>4 DEF ListOK, Ordered, UndoneWasTaken
<1>6. <<"take", p>> \in {"take"} \X Guarded OBVIOUS
<1>7. Head(list) = <<"take", p>> BY <1>1, <1>5
<1>. QED BY <1>6, <1>7

\* A take is.
LEMMA InHand ==
    ASSUME NEW t, NEW list, ListOK(t, list), list # <<>>, NEW p \in Guarded,
           Head(list) = <<"take", p>>
    PROVE  Tail(list) # <<>> /\ Head(Tail(list)) = <<"undo", p>>
<1>1. /\ Len(list) \in Nat \ {0} /\ Head(list) = list[1] /\ Len(Tail(list)) = Len(list) - 1
      /\ Tail(list) \in Seq(StepsOf(t))
      /\ \A i \in 1 .. Len(list) - 1 : Tail(list)[i] = list[i + 1]
  BY RestOfList DEF ListOK
<1>2. 1 < Len(list) /\ list[1 + 1] = <<"undo", p>>
  BY <1>1 DEF ListOK, Ordered, TakenIsUndone
<1>3. Tail(list)[1] = <<"undo", p>>  BY <1>1, <1>2
<1>4. Len(Tail(list)) # 0 BY <1>1, <1>2
<1>5. Tail(list) # <<>>
  <2>1. Len(<<>>) = 0 OBVIOUS
  <2>. QED BY <1>4, <2>1, Zenon
<1>. QED BY <1>1, <1>3, <1>5, RestOfList

\* A tunnel that comes up is the last: nothing is taken and no other comes up.
LEMMA UpIsLast ==
    ASSUME NEW t, NEW list, ListOK(t, list), list # <<>>, NEW name \in Names \ {"ss"},
           Head(list) = <<"up", name>>
    PROVE  /\ \A p \in Guarded : ~ WillUndo(list, p) /\ ~ HasUp(Tail(list), p)
           /\ HasUp(list, KindOf(name)) /\ KindOf(name) \in Guarded
<1>1. /\ Len(list) \in Nat \ {0} /\ Head(list) = list[1] /\ Len(Tail(list)) = Len(list) - 1
      /\ \A i \in 1 .. Len(list) - 1 : Tail(list)[i] = list[i + 1]
  BY RestOfList DEF ListOK
<1>2. \A j \in 1 .. Len(list) : 1 < j => list[j] \notin {"take", "up"} \X (Guarded \cup Names)
  BY <1>1 DEF ListOK, Ordered, OneComesUp
<1>3. ASSUME NEW p \in Guarded, NEW j \in 1 .. Len(list), list[j] = <<"undo", p>> PROVE FALSE
  <2>1. j # 1 BY <1>1, <1>3
  <2>2. j \in 2 .. Len(list) BY <1>1, <2>1
  <2>3. list[j - 1] = <<"take", p>> BY <1>3, <2>2 DEF ListOK, Ordered, UndoneWasTaken
  <2>4. j - 1 # 1 /\ j - 1 \in 1 .. Len(list) BY <1>1, <2>2, <2>3
  <2>5. 1 < j - 1 BY <2>4
  <2>6. <<"take", p>> \in {"take", "up"} \X (Guarded \cup Names) OBVIOUS
  <2>. QED BY <1>2, <2>3, <2>4, <2>5, <2>6
<1>4. \A p \in Guarded : ~ Has(list, "take", p)
  <2> SUFFICES ASSUME NEW p \in Guarded, NEW j \in 1 .. Len(list), list[j] = <<"take", p>>
               PROVE  FALSE
    BY DEF Has
  <2>1. j # 1 BY <1>1
  <2>2. 1 < j BY <1>1, <2>1
  <2>3. <<"take", p>> \in {"take", "up"} \X (Guarded \cup Names) OBVIOUS
  <2>. QED BY <1>2, <2>2, <2>3
<1>5. \A p \in Guarded : ~ Has(list, "undo", p) BY <1>3 DEF Has
<1>6. ASSUME NEW n \in Names PROVE ~ Has(Tail(list), "up", n)
  <2> SUFFICES ASSUME NEW i \in 1 .. Len(list) - 1, Tail(list)[i] = <<"up", n>> PROVE FALSE
    BY <1>1 DEF Has
  <2>1. i + 1 \in 1 .. Len(list) /\ 1 < i + 1 /\ list[i + 1] = <<"up", n>> BY <1>1
  <2>2. <<"up", n>> \in {"take", "up"} \X (Guarded \cup Names) OBVIOUS
  <2>. QED BY <1>2, <2>1, <2>2
<1>7. Has(list, "up", name) BY <1>1 DEF Has
<1>8. KindOf(name) \in Guarded BY DEF KindOf, Names, Guarded
<1>. QED BY <1>4, <1>5, <1>6, <1>7, <1>8 DEF WillUndo, HasUp

\* What is spawned comes up next.
LEMMA SpawnThenUp ==
    ASSUME NEW t, NEW list, ListOK(t, list), list # <<>>, NEW p \in {"ovpn", "pptp"},
           Head(list) = <<"spawn", p>>
    PROVE  Tail(list) # <<>> /\ Head(Tail(list)) = <<"up", p>>
<1>1. /\ Len(list) \in Nat \ {0} /\ Head(list) = list[1] /\ Len(Tail(list)) = Len(list) - 1
      /\ Tail(list) \in Seq(StepsOf(t))
      /\ \A i \in 1 .. Len(list) - 1 : Tail(list)[i] = list[i + 1]
  BY RestOfList DEF ListOK
<1>2. 1 < Len(list) /\ list[1 + 1] = <<"up", p>>
  BY <1>1 DEF ListOK, Ordered, SpawnedComesUp
<1>3. Tail(list)[1] = <<"up", p>> BY <1>1, <1>2
<1>4. Len(Tail(list)) # 0 BY <1>1, <1>2
<1>5. Tail(list) # <<>>
  <2>1. Len(<<>>) = 0 OBVIOUS
  <2>. QED BY <1>4, <2>1, Zenon
<1>. QED BY <1>1, <1>3, <1>5, RestOfList

\* sslocal is stopped before it comes up, not after.
LEMMA SsUpIsLast ==
    ASSUME NEW t, NEW list, ListOK(t, list), list # <<>>, Head(list) = <<"up", "ss">>
    PROVE  ~ Has(list, "stop", "ss") /\ ~ Has(Tail(list), "up", "ss")
<1>1. /\ Len(list) \in Nat \ {0} /\ Head(list) = list[1] /\ Len(Tail(list)) = Len(list) - 1
      /\ \A i \in 1 .. Len(list) - 1 : Tail(list)[i] = list[i + 1]
  BY RestOfList DEF ListOK
<1>2. \A j \in 1 .. Len(list) : 1 < j => list[j] \notin {<<"stop", "ss">>, <<"up", "ss">>}
  BY <1>1 DEF ListOK, Ordered, OneComesUp, Names
<1>3. ASSUME NEW j \in 1 .. Len(list), list[j] = <<"stop", "ss">> PROVE FALSE
  <2>1. j # 1 BY <1>1, <1>3
  <2>2. 1 < j BY <1>1, <2>1
  <2>. QED BY <1>2, <1>3, <2>2
<1>4. ASSUME NEW i \in 1 .. Len(list) - 1, Tail(list)[i] = <<"up", "ss">> PROVE FALSE
  <2>1. i + 1 \in 1 .. Len(list) /\ 1 < i + 1 /\ list[i + 1] = <<"up", "ss">> BY <1>1, <1>4
  <2>. QED BY <1>2, <2>1
<1>. QED BY <1>1, <1>3, <1>4 DEF Has
-----------------------------------------------------------------------------
(***************************************************************************)
(* Every variable has its type, and every list its order.                  *)
(***************************************************************************)

LEMMA TypesInit == ASSUME HelperAssumption, Init PROVE HelperTypes
<1>1. Lists BY EmptyList DEF Init, Lists
<1>2. StartUp \in Seq(Stops) BY DEF StartUp, Stops
<1>3. hand \in [Runners -> Hand] /\ \A t \in Runners : Alone(hand[t].taken)
  BY DEF Init, NoHand, Hand, Alone
<1>4. slot \in [Tunnels -> SUBSET Handle] /\ \A p \in Tunnels : Alone(slot[p])
  BY DEF Init, Alone
<1>. QED BY <1>1, <1>2, <1>3, <1>4 DEF Init, HelperTypes, Free

LEMMA ProceedTypes ==
    ASSUME HelperTypes, NEW t \in Runners, NEW do, NEW on, At(t, do, on), Proceed(t)
    PROVE  Lists' /\ todo'[t] = Tail(todo[t]) /\ \A u \in Runners \ {t} : todo'[u] = todo[u]
BY StepTaken, ListBecomes DEF Proceed, HelperTypes

LEMMA GiveUpTypes ==
    ASSUME HelperTypes, NEW t \in Runners, GiveUp(t)
    PROVE  Lists' /\ todo'[t] = <<>> /\ \A u \in Runners \ {t} : todo'[u] = todo[u]
BY EmptyList, ListBecomes DEF GiveUp, Turn, HelperTypes

LEMMA TypesTake ==
    ASSUME HelperTypes, NEW t \in Runners, NEW p \in Tunnels, Take(t, p)
    PROVE  HelperTypes'
<1>1. Lists' BY ProceedTypes DEF Take
<1>2. slot' \in [Tunnels -> SUBSET Handle] /\ \A q \in Tunnels : Alone(slot'[q])
  BY DEF Take, HelperTypes, Alone
<1>3. hand' \in [Runners -> Hand] /\ \A u \in Runners : Alone(hand'[u].taken)
  BY DEF Take, HelperTypes, Hand
<1>4. lock' \in Runners \cup {Free} BY DEF Take, HelperTypes
<1>. QED BY <1>1, <1>2, <1>3, <1>4 DEF Take, HelperTypes, procs

LEMMA TypesUndo ==
    ASSUME HelperTypes, NEW t \in Runners, UndoSocks(t) \/ \E p \in Tunnels : Undo(t, p)
    PROVE  HelperTypes'
<1>1. hand' = [hand EXCEPT ![t].taken = {}] BY DEF UndoSocks, Undo
<1>2. hand' \in [Runners -> Hand] /\ \A u \in Runners : Alone(hand'[u].taken)
  BY <1>1 DEF HelperTypes, Hand, Alone
<1>3. CASE UndoSocks(t)
  <2>1. Lists' BY <1>3, ProceedTypes DEF UndoSocks
  <2>2. live' \in [Tunnels -> SUBSET Nat] BY <1>3 DEF UndoSocks, Runs, HelperTypes, Tunnels
  <2>3. ipv6' \in BOOLEAN BY <1>3 DEF UndoSocks, HelperTypes
  <2>4. rule' \in BOOLEAN BY <1>3 DEF UndoSocks, HelperTypes, remove_tor_source_bypass
  <2>. QED BY <1>2, <1>3, <2>1, <2>2, <2>3, <2>4 DEF UndoSocks, HelperTypes, procs
<1>4. ASSUME NEW p \in Tunnels, Undo(t, p) PROVE HelperTypes'
  <2>1. Lists' BY <1>4, ProceedTypes DEF Undo
  <2>2. live' \in [Tunnels -> SUBSET Nat] BY <1>4 DEF Undo, Runs, HelperTypes
  <2>3. ipv6' \in BOOLEAN BY <1>4 DEF Undo, HelperTypes
  <2>4. pinned' \in BOOLEAN BY <1>4 DEF Undo, HelperTypes
  <2>5. resolver' \in {"own", "tunnel"}
    <3>1. hand[t].taken \subseteq Handle BY DEF HelperTypes, Hand
    <3>2. CASE \E h \in hand[t].taken : h.dns # "none"
      <4> DEFINE h == CHOOSE x \in hand[t].taken : TRUE
      <4>1. h \in hand[t].taken BY <3>2
      <4>2. h.dns # "none" BY <3>2, <4>1 DEF HelperTypes, Alone
      <4>3. h.dns \in {"none", "own", "tunnel"} BY <3>1, <4>1 DEF Handle
      <4>. QED BY <1>4, <3>2, <4>2, <4>3 DEF Undo, restore_dns
    <3>. QED BY <1>4, <3>2 DEF Undo, restore_dns, HelperTypes
  <2>. QED BY <1>2, <1>4, <2>1, <2>2, <2>3, <2>4, <2>5 DEF Undo, HelperTypes, procs
<1>. QED BY <1>3, <1>4

\* What a start stores is a handle.
LEMMA HandlesStored ==
    ASSUME HelperTypes, NEW t \in Runners, NEW p \in Tunnels, NEW h \in Handle, Store(p, h)
    PROVE  slot' \in [Tunnels -> SUBSET Handle] /\ \A q \in Tunnels : Alone(slot'[q])
BY DEF HelperTypes, Store, Alone

LEMMA NewHandles ==
    ASSUME HelperTypes, NEW t \in Runners, NEW guard \in Saved
    PROVE  /\ NewHandle(t, guard) \in Handle /\ disable_all \in Saved
           /\ \A tor \in BOOLEAN : [NewHandle(t, guard) EXCEPT !.tor = tor] \in Handle
           /\ \A dns \in {"none", "own", "tunnel"}, pin \in BOOLEAN :
                 [NewHandle(t, guard) EXCEPT !.dns = dns, !.pin = pin] \in Handle
BY DEF HelperTypes, Hand, NewHandle, Handle, Saved, disable_all

LEMMA TypesSocksUp ==
    ASSUME HelperTypes, NEW t \in Runners, NEW name \in Names, SocksUp(t, name)
    PROVE  HelperTypes'
<1>1. CASE GiveUp(t) /\ UNCHANGED <<ipv6, live, slot>>
  BY <1>1, GiveUpTypes DEF SocksUp, HelperTypes, procs
<1>2. CASE /\ Store("socks", [NewHandle(t, disable_all) EXCEPT !.tor = name = "ZeroNodeTor"])
           /\ Runs("socks", live["socks"] \cup {hand[t].id})
           /\ ipv6' = FALSE /\ Proceed(t)
  <2>1. Lists' BY <1>2, ProceedTypes DEF SocksUp
  <2>2. disable_all \in Saved BY DEF disable_all, Saved
  <2>3. [NewHandle(t, disable_all) EXCEPT !.tor = name = "ZeroNodeTor"] \in Handle
    BY <2>2, NewHandles
  <2>4. slot' \in [Tunnels -> SUBSET Handle] /\ \A q \in Tunnels : Alone(slot'[q])
    BY <1>2, <2>3, HandlesStored DEF Tunnels
  <2>5. hand[t].id \in Nat BY DEF HelperTypes, Hand
  <2>6. live' \in [Tunnels -> SUBSET Nat] BY <1>2, <2>5 DEF Runs, HelperTypes, Tunnels
  <2>. QED BY <1>2, <2>1, <2>4, <2>6 DEF SocksUp, HelperTypes, procs
<1>. QED BY <1>1, <1>2 DEF SocksUp

LEMMA TypesWgUp ==
    ASSUME HelperTypes, NEW t \in Runners, WgUp(t)
    PROVE  HelperTypes'
<1>1. PICK profile \in parse_client_config, routed \in BOOLEAN :
      \E pin \in pin_endpoint_route(profile) :
          /\ routed \/ (RoutesFail /\ profile.full /\ profile.carries)
          /\ LET guard == IF profile.full /\ ~profile.carries THEN disable_all ELSE "none"
             IN  /\ ipv6' = (ipv6 /\ guard = "none" /\ routed)
                 /\ resolver' = IF profile.full THEN "tunnel" ELSE resolver
                 /\ pinned' = (pinned \/ pin)
                 /\ Store("wg", [NewHandle(t, guard) EXCEPT
                                   !.dns = backup_and_override_dns(profile.full), !.pin = pin])
  BY DEF WgUp
<1> DEFINE guard == IF profile.full /\ ~profile.carries THEN disable_all ELSE "none"
<1>2. PICK pin \in pin_endpoint_route(profile) :
          /\ ipv6' = (ipv6 /\ guard = "none" /\ routed)
          /\ resolver' = IF profile.full THEN "tunnel" ELSE resolver
          /\ pinned' = (pinned \/ pin)
          /\ Store("wg", [NewHandle(t, guard) EXCEPT
                            !.dns = backup_and_override_dns(profile.full), !.pin = pin])
  BY <1>1
<1>3. guard \in Saved BY DEF disable_all, Saved
<1>4. pin \in BOOLEAN BY DEF pin_endpoint_route
<1>5. backup_and_override_dns(profile.full) \in {"none", "own", "tunnel"}
  BY DEF backup_and_override_dns, HelperTypes
<1>6. [NewHandle(t, guard) EXCEPT
         !.dns = backup_and_override_dns(profile.full), !.pin = pin] \in Handle
  BY <1>3, <1>4, <1>5, NewHandles
<1>7. slot' \in [Tunnels -> SUBSET Handle] /\ \A q \in Tunnels : Alone(slot'[q])
  BY <1>2, <1>6, HandlesStored DEF Tunnels
<1>8. Lists' BY ProceedTypes DEF WgUp
<1>9. ipv6' \in BOOLEAN /\ resolver' \in {"own", "tunnel"} /\ pinned' \in BOOLEAN
  BY <1>2, <1>4 DEF HelperTypes
<1>. QED BY <1>7, <1>8, <1>9 DEF WgUp, HelperTypes, procs

LEMMA TypesPppUp ==
    ASSUME HelperTypes, NEW t \in Runners, NEW p \in {"ovpn", "pptp"}, PppUp(t, p)
    PROVE  HelperTypes'
<1>1. PICK guard \in {disable_all} \cup (IF p = "ovpn" THEN {"none"} ELSE {}) :
          Store(p, NewHandle(t, guard)) /\ ipv6' = (ipv6 /\ guard = "none")
  BY DEF PppUp
<1>2. guard \in Saved BY DEF disable_all, Saved
<1>3. NewHandle(t, guard) \in Handle BY <1>2, NewHandles
<1>4. slot' \in [Tunnels -> SUBSET Handle] /\ \A q \in Tunnels : Alone(slot'[q])
  BY <1>1, <1>3, HandlesStored DEF Tunnels
<1>5. Lists' BY ProceedTypes DEF PppUp
<1>6. ipv6' \in BOOLEAN BY <1>1 DEF HelperTypes
<1>. QED BY <1>4, <1>5, <1>6 DEF PppUp, HelperTypes, procs
-----------------------------------------------------------------------------
(***************************************************************************)
(* The steps that touch no handle.                                         *)
(***************************************************************************)

\* What the step itself is, in a list of its own first.
LEMMA RestHasUp ==
    ASSUME NEW t, NEW list, ListOK(t, list), list # <<>>, NEW p \in Guarded,
           HasUp(Tail(list), p)
    PROVE  HasUp(list, p)
BY HasRest DEF HasUp

LEMMA RestUndoes ==
    ASSUME NEW t, NEW list, ListOK(t, list), list # <<>>, NEW p \in Guarded,
           Head(list) \notin {"take", "undo"} \X Guarded
    PROVE  WillUndo(list, p) <=> WillUndo(Tail(list), p)
<1>1. <<"take", p>> \in {"take", "undo"} \X Guarded /\ <<"undo", p>> \in {"take", "undo"} \X Guarded
  OBVIOUS
<1>2. Head(list) # <<"take", p>> /\ Head(list) # <<"undo", p>> BY <1>1
<1>. QED BY <1>2, HasRest DEF WillUndo

LEMMA TailLeads ==
    ASSUME NEW t, NEW list, ListOK(t, list), list # <<>>,
           Head(list) \notin {"take", "undo"} \X Guarded
    PROVE  Leads(list, Tail(list)) /\ \A p \in Guarded : WillUndo(list, p) => WillUndo(Tail(list), p)
<1>1. \A p \in Guarded : HasUp(Tail(list), p) => HasUp(list, p) BY RestHasUp
<1>2. \A p \in Guarded : WillUndo(list, p) => WillUndo(Tail(list), p) BY RestUndoes
<1>3. Head(list) \notin {"take"} \X Guarded OBVIOUS
<1>4. \A p \in Guarded : Tail(list) # <<>> => Head(Tail(list)) # <<"undo", p>> BY <1>3, NotInHand
<1>. QED BY <1>1, <1>2, <1>4, HasRest DEF Leads

\* A start that gives up would have brought something up.
LEMMA BeginsUp ==
    ASSUME NEW t, NEW list, ListOK(t, list), list # <<>>,
           \/ Head(list) \in {"up"} \X Names
           \/ Head(list) \in {<<"bypass", "socks">>, <<"link", "wg">>}
           \/ Head(list) \in {<<"spawn", "ovpn">>, <<"spawn", "pptp">>}
    PROVE  \E q \in Guarded : HasUp(list, q)
<1>1. Len(list) \in Nat \ {0} /\ Head(list) = list[1] /\ 1 \in 1 .. Len(list) /\ Ordered(list)
  BY RestOfList DEF ListOK
<1>2. SUFFICES \E i \in 1 .. Len(list), name \in Names \ {"ss"} : list[i] = <<"up", name>>
  <2>1. \A name \in Names \ {"ss"} : KindOf(name) \in Guarded BY DEF KindOf, Names, Guarded
  <2>. QED BY <2>1 DEF HasUp, Has
<1>3. CASE Head(list) \in {<<"bypass", "socks">>, <<"link", "wg">>, <<"up", "ss">>}
  <2>1. PICK j \in 1 .. Len(list), name \in Names \ {"ss"} : list[j] = <<"up", name>>
    BY <1>1, <1>3 DEF Ordered, BegunComesUp
  <2>. QED BY <2>1
<1>4. CASE Head(list) \in {<<"spawn", "ovpn">>, <<"spawn", "pptp">>}
  <2>1. PICK p \in {"ovpn", "pptp"} : list[1] = <<"spawn", p>> BY <1>1, <1>4
  <2>2. 1 < Len(list) /\ list[1 + 1] = <<"up", p>> BY <1>1, <2>1 DEF Ordered, SpawnedComesUp
  <2>3. 2 \in 1 .. Len(list) /\ p \in Names \ {"ss"} BY <1>1, <2>2 DEF Names
  <2>. QED BY <2>2, <2>3
<1>5. CASE Head(list) \in {"up"} \X Names /\ Head(list) # <<"up", "ss">>
  <2>1. PICK name \in Names : list[1] = <<"up", name>> BY <1>1, <1>5
  <2>2. name # "ss" BY <1>1, <1>5, <2>1
  <2>. QED BY <1>1, <2>1, <2>2
<1>. QED BY <1>3, <1>4, <1>5

\* A step that ends a list one way or another.
LEMMA EndLeads ==
    ASSUME NEW t, NEW list, ListOK(t, list), list # <<>>,
           Head(list) \in {<<"probe", "socks">>, <<"wait", "ovpn">>, <<"wait", "pptp">>,
                           <<"exit", "daemon">>}
    PROVE  \A p \in Guarded : ~ WillUndo(list, p)
<1>1. Len(list) \in Nat \ {0} /\ Head(list) = list[1] /\ 1 \in 1 .. Len(list) /\ Ordered(list)
  BY RestOfList DEF ListOK
<1>2. Len(list) = 1 BY <1>1 DEF Ordered, EndsLast
<1>3. \A p \in Guarded : list[1] # <<"take", p>> /\ list[1] # <<"undo", p>> BY <1>1
<1>. QED BY <1>2, <1>3 DEF WillUndo, Has

LEMMA EmptyLeads ==
    ASSUME NEW list,
           (\E q \in Guarded : HasUp(list, q)) \/ \A p \in Guarded : ~ WillUndo(list, p)
    PROVE  Leads(list, <<>>)
BY EmptyList DEF Leads, HasUp

LEMMA PlanHeads == \A name \in Stops : Head(Plan(name)) \in {"take"} \X Guarded
BY DEF Plan, Stops, Guarded

LEMMA StopLeads ==
    ASSUME NEW list, NEW name \in Stops, \A p \in Guarded : ~ WillUndo(list, p)
    PROVE  Leads(list, Plan(name))
<1>1. \A p \in Guarded : ~ HasUp(Plan(name), p) BY StopPlans
<1>2. \A p \in Guarded : Head(Plan(name)) # <<"undo", p>> BY PlanHeads
<1>3. ~ Has(Plan(name), "up", "ss") BY StopPlans
<1>. QED BY <1>1, <1>2, <1>3 DEF Leads
\* What leaves every handle where it is, and what is owed.
AsideStep(t) ==
    \/ CheckSocks(t) \/ StopOutline(t) \/ TorBypass(t) \/ SocksProbe(t) \/ OutlineUp(t)
    \/ WgLink(t) \/ (\E p \in {"ovpn", "pptp"} : Spawn(t, p)) \/ OvpnWait(t) \/ PptpWait(t)
    \/ t = Watchdog /\ Forget
    \/ \E name \in {"ZeroNodeTor", "ZeroNodeOutline"} :
          SocksUp(t, name) /\ GiveUp(t) /\ UNCHANGED <<ipv6, live, slot>>

Advances(t, rest) ==
    /\ ~ Idle(t) /\ Head(todo[t]) \notin {"take", "undo"} \X Guarded
    /\ ListOK(t, rest) /\ Turn(t, rest) /\ Leads(todo[t], rest)

LEMMA AdvanceByTail ==
    ASSUME HelperTypes, NEW t \in Runners, NEW do, NEW on, At(t, do, on), do \notin {"take", "undo"},
           Proceed(t)
    PROVE  \E rest : Advances(t, rest)
<1>1. /\ todo[t] # <<>> /\ Head(todo[t]) = <<do, on>> /\ ListOK(t, todo[t])
      /\ ListOK(t, Tail(todo[t])) /\ ~ Idle(t)
  BY StepTaken DEF HelperTypes
<1>2. <<do, on>> \notin {"take", "undo"} \X Guarded OBVIOUS
<1>3. Leads(todo[t], Tail(todo[t])) BY <1>1, <1>2, TailLeads
<1>. QED BY <1>1, <1>2, <1>3 DEF Advances, Proceed, Turn

LEMMA AdvanceByGivingUp ==
    ASSUME HelperTypes, NEW t \in Runners, NEW do, NEW on, At(t, do, on), GiveUp(t),
           \/ do = "up" /\ on \in Names
           \/ <<do, on>> \in {<<"bypass", "socks">>, <<"link", "wg">>, <<"wait", "pptp">>}
           \/ <<do, on>> \in {<<"spawn", "ovpn">>, <<"spawn", "pptp">>}
    PROVE  \E rest : Advances(t, rest)
<1>1. /\ todo[t] # <<>> /\ Head(todo[t]) = <<do, on>> /\ ListOK(t, todo[t]) /\ ~ Idle(t)
  BY StepTaken DEF HelperTypes
<1>2. do \notin {"take", "undo"} OBVIOUS
<1>3. <<do, on>> \notin {"take", "undo"} \X Guarded BY <1>2
<1>4. Leads(todo[t], <<>>)
  <2>1. CASE <<do, on>> = <<"wait", "pptp">> BY <1>1, <2>1, EndLeads, EmptyLeads
  <2>2. CASE <<do, on>> # <<"wait", "pptp">>
    <3>1. \/ Head(todo[t]) \in {"up"} \X Names
          \/ Head(todo[t]) \in {<<"bypass", "socks">>, <<"link", "wg">>}
          \/ Head(todo[t]) \in {<<"spawn", "ovpn">>, <<"spawn", "pptp">>}
      <4>1. do = "up" /\ on \in Names => <<do, on>> \in {"up"} \X Names OBVIOUS
      <4>. QED BY <1>1, <2>2, <4>1
    <3>. QED BY <1>1, <3>1, BeginsUp, EmptyLeads
  <2>. QED BY <2>1, <2>2
<1>. QED BY <1>1, <1>3, <1>4, EmptyList DEF Advances, GiveUp

LEMMA AdvanceByStopping ==
    ASSUME HelperAssumption, HelperTypes, NEW t \in Runners, NEW do, NEW on, At(t, do, on),
           <<do, on>> \in {<<"probe", "socks">>, <<"wait", "ovpn">>},
           NEW name \in Stops, Turn(t, Plan(name))
    PROVE  \E rest : Advances(t, rest)
<1>1. /\ todo[t] # <<>> /\ Head(todo[t]) = <<do, on>> /\ ListOK(t, todo[t]) /\ ~ Idle(t)
      /\ <<do, on>> \in StepsOf(t)
  BY StepTaken DEF HelperTypes
<1>2. <<do, on>> \notin MainSteps \cup WatchdogSteps BY DEF MainSteps, WatchdogSteps
<1>3. t \in Threads BY <1>1, <1>2, ThreadsOnly
<1>4. ListOK(t, Plan(name)) BY <1>3, PlansAreLists
<1>5. Leads(todo[t], Plan(name)) BY <1>1, EndLeads, StopLeads
<1>6. <<do, on>> \notin {"take", "undo"} \X Guarded OBVIOUS
<1>. QED BY <1>1, <1>4, <1>5, <1>6 DEF Advances

LEMMA AsideAdvances ==
    ASSUME HelperAssumption, HelperTypes, NEW t \in Runners, AsideStep(t)
    PROVE  \E rest : Advances(t, rest)
<1>1. CASE CheckSocks(t) BY <1>1, AdvanceByTail DEF CheckSocks
<1>2. CASE StopOutline(t) BY <1>2, AdvanceByTail DEF StopOutline
<1>3. CASE TorBypass(t)
  <2>1. At(t, "bypass", "socks") /\ (Proceed(t) \/ GiveUp(t)) BY <1>3 DEF TorBypass
  <2>. QED BY <2>1, AdvanceByTail, AdvanceByGivingUp
<1>4. CASE SocksProbe(t)
  <2>1. At(t, "probe", "socks") /\ (Proceed(t) \/ Turn(t, stop_socks)) BY <1>4 DEF SocksProbe
  <2>2. Turn(t, stop_socks) => Turn(t, Plan("tor_stop")) BY TorStopList, Zenon
  <2>. QED BY <2>1, <2>2, AdvanceByTail, AdvanceByStopping DEF Stops
<1>5. CASE OutlineUp(t)
  <2>1. At(t, "up", "ss") /\ (Proceed(t) \/ GiveUp(t)) BY <1>5 DEF OutlineUp
  <2>. QED BY <2>1, AdvanceByTail, AdvanceByGivingUp DEF Names
<1>6. CASE WgLink(t)
  <2>1. At(t, "link", "wg") /\ (Proceed(t) \/ GiveUp(t)) BY <1>6 DEF WgLink
  <2>. QED BY <2>1, AdvanceByTail, AdvanceByGivingUp
<1>7. ASSUME NEW p \in {"ovpn", "pptp"}, Spawn(t, p) PROVE \E rest : Advances(t, rest)
  <2>1. At(t, "spawn", p) /\ (Proceed(t) \/ GiveUp(t)) BY <1>7 DEF Spawn
  <2>. QED BY <2>1, AdvanceByTail, AdvanceByGivingUp
<1>8. CASE OvpnWait(t)
  <2>1. At(t, "wait", "ovpn") /\ (Proceed(t) \/ Turn(t, TakeAndUndo("ovpn")))
    BY <1>8 DEF OvpnWait
  <2>2. Turn(t, TakeAndUndo("ovpn")) => Turn(t, Plan("ovpn_stop")) BY OvpnStopList, Zenon
  <2>. QED BY <2>1, <2>2, AdvanceByTail, AdvanceByStopping DEF Stops
<1>9. CASE PptpWait(t) BY <1>9, AdvanceByGivingUp DEF PptpWait
<1>10. CASE t = Watchdog /\ Forget BY <1>10, AdvanceByTail DEF Forget
<1>11. ASSUME NEW name \in {"ZeroNodeTor", "ZeroNodeOutline"}, SocksUp(t, name), GiveUp(t)
       PROVE  \E rest : Advances(t, rest)
  <2>1. At(t, "up", name) /\ name \in Names BY <1>11 DEF SocksUp, Names
  <2>. QED BY <1>11, <2>1, AdvanceByGivingUp
<1>. QED
  BY <1>1, <1>2, <1>3, <1>4, <1>5, <1>6, <1>7, <1>8, <1>9, <1>10, <1>11 DEF AsideStep

LEMMA AsideFrame ==
    ASSUME HelperTypes, NEW t \in Runners, AsideStep(t)
    PROVE  /\ UNCHANGED <<hand, lock, owes, alive, daemon, sent, ipv6, resolver, pinned, split>>
           /\ \A p \in Tunnels \ {"ss"} : slot'[p] = slot[p]
<1>1. UNCHANGED <<hand, lock, owes, alive, daemon, sent, ipv6, resolver, pinned, split>>
  BY DEF AsideStep, CheckSocks, StopOutline, TorBypass, SocksProbe, OutlineUp, WgLink, Spawn,
         OvpnWait, PptpWait, Forget, SocksUp, host, slots, procs
<1>2. slot' = slot \/ (\E h : Store("ss", h)) \/ slot' = [slot EXCEPT !["ss"] = {}]
  BY DEF AsideStep, CheckSocks, StopOutline, TorBypass, SocksProbe, OutlineUp, WgLink, Spawn,
         OvpnWait, PptpWait, Forget, SocksUp, host, slots, procs
<1>3. \A p \in Tunnels \ {"ss"} : slot'[p] = slot[p] BY <1>2 DEF Store, HelperTypes
<1>. QED BY <1>1, <1>3
LEMMA AdvanceLists ==
    ASSUME HelperTypes, NEW t \in Runners, NEW rest, Advances(t, rest)
    PROVE  Lists' /\ todo'[t] = rest /\ \A u \in Runners \ {t} : todo'[u] = todo[u]
BY ListBecomes DEF Advances, Turn, HelperTypes

LEMMA TypesAside ==
    ASSUME HelperAssumption, HelperTypes, NEW t \in Runners, AsideStep(t)
    PROVE  HelperTypes'
<1>1. Lists' BY AsideAdvances, AdvanceLists
<1>2. /\ UNCHANGED <<hand, lock, owes, alive, daemon, sent, ipv6, resolver, pinned, split>>
  BY AsideFrame
<1>3. hand[t].id \in Nat BY DEF HelperTypes, Hand
<1>4. slot' \in [Tunnels -> SUBSET Handle] /\ \A p \in Tunnels : Alone(slot'[p])
  <2>1. CASE slot' = slot BY <2>1 DEF HelperTypes
  <2>2. CASE slot' = [slot EXCEPT !["ss"] = {}]
    <3>1. slot \in [Tunnels -> SUBSET Handle] /\ \A p \in Tunnels : Alone(slot[p])
      BY DEF HelperTypes
    <3>2. \A p \in Tunnels : slot'[p] = slot[p] \/ slot'[p] = {} BY <2>2, <3>1
    <3>3. Alone({}) BY DEF Alone
    <3>4. slot' \in [Tunnels -> SUBSET Handle] BY <2>2, <3>1
    <3>. QED BY <3>1, <3>2, <3>3, <3>4, Zenon
  <2>3. CASE OutlineUp(t)
    <3>1. NewHandle(t, "none") \in Handle BY NewHandles DEF Saved
    <3>2. CASE Store("ss", NewHandle(t, "none"))
      BY <3>1, <3>2, HandlesStored DEF Tunnels
    <3>. QED BY <2>1, <2>3, <3>2 DEF OutlineUp
  <2>. QED
    BY <2>1, <2>2, <2>3 DEF AsideStep, CheckSocks, StopOutline, TorBypass, SocksProbe, WgLink,
         Spawn, OvpnWait, PptpWait, Forget, slots, procs
<1>5. live' \in [Tunnels -> SUBSET Nat]
  <2>1. CASE live' = live BY <2>1 DEF HelperTypes
  <2>2. ASSUME NEW p \in Tunnels, NEW ids \in SUBSET Nat, Runs(p, ids)
        PROVE  live' \in [Tunnels -> SUBSET Nat]
    BY <2>2 DEF HelperTypes, Runs
  <2>3. CASE StopOutline(t)
    <3>1. {id \in live["ss"] : \A h \in slot["ss"] : id # h.id} \in SUBSET Nat
      BY DEF HelperTypes, Tunnels
    <3>. QED BY <2>2, <2>3, <3>1 DEF StopOutline, Tunnels
  <2>4. CASE OutlineUp(t)
    <3>1. live["ss"] \cup {hand[t].id} \in SUBSET Nat BY <1>3 DEF HelperTypes, Tunnels
    <3>. QED BY <2>1, <2>2, <2>4, <3>1 DEF OutlineUp, Tunnels
  <2>5. CASE WgLink(t)
    <3>1. {hand[t].id} \in SUBSET Nat BY <1>3
    <3>. QED BY <2>1, <2>2, <2>5, <3>1 DEF WgLink, Tunnels
  <2>6. ASSUME NEW p \in {"ovpn", "pptp"}, Spawn(t, p) PROVE live' \in [Tunnels -> SUBSET Nat]
    <3>1. live[p] \cup {hand[t].id} \in SUBSET Nat BY <1>3 DEF HelperTypes, Tunnels
    <3>. QED BY <2>1, <2>2, <2>6, <3>1 DEF Spawn, Tunnels
  <2>. QED
    BY <2>1, <2>3, <2>4, <2>5, <2>6 DEF AsideStep, CheckSocks, TorBypass, SocksProbe,
         OvpnWait, PptpWait, Forget, slots, procs
<1>6. rule' \in BOOLEAN
  BY DEF AsideStep, CheckSocks, StopOutline, TorBypass, SocksProbe, OutlineUp, WgLink, Spawn,
         OvpnWait, PptpWait, Forget, SocksUp, host, slots, procs, HelperTypes
<1>7. owner' \in Apps \cup {NoApp}
  BY DEF AsideStep, CheckSocks, StopOutline, TorBypass, SocksProbe, OutlineUp, WgLink, Spawn,
         OvpnWait, PptpWait, Forget, SocksUp, host, slots, procs, HelperTypes
<1>. QED BY <1>1, <1>2, <1>4, <1>5, <1>6, <1>7 DEF HelperTypes

LEMMA TypesCommand ==
    ASSUME HelperAssumption, HelperTypes, NEW t \in Threads, NEW app \in Apps, NEW cmd \in Offered,
           Command(t, app, cmd)
    PROVE  HelperTypes'
<1>1. t \in Runners /\ cmd \in Starts \cup Stops \cup Splits
  BY DEF Runners, HelperAssumption
<1>2. ListOK(t, Program(cmd))
  BY <1>1, Programs, PlansAreLists, SplitPrograms, EmptyList DEF Starts, Stops, Splits
<1>3. Lists' BY <1>1, <1>2, ListBecomes DEF Command, Turn, HelperTypes
<1>4. hand' \in [Runners -> Hand] /\ \A u \in Runners : Alone(hand'[u].taken)
  <2>1. CASE UNCHANGED hand BY <2>1 DEF HelperTypes
  <2>2. CASE hand' = [hand EXCEPT ![t].id = sent + 1]
    <3>1. hand \in [Runners -> Hand] /\ \A u \in Runners : Alone(hand[u].taken)
      BY DEF HelperTypes
    <3>2. sent + 1 \in Nat BY DEF HelperTypes
    <3>3. hand' \in [Runners -> Hand] BY <1>1, <2>2, <3>1, <3>2 DEF Hand
    <3>4. \A u \in Runners : hand'[u].taken = hand[u].taken BY <1>1, <2>2, <3>1 DEF Hand
    <3>. QED BY <3>1, <3>3, <3>4
  <2>. QED BY <2>1, <2>2 DEF Command
<1>5. sent' \in Nat BY DEF Command, HelperTypes
<1>6. owes' \in [Apps -> Seq(Stops)]
  <2>1. DEFINE list == IF cmd \in Starts THEN <<StopOf(cmd)>>
                       ELSE IF owes[app] # <<>> /\ cmd = Head(owes[app]) THEN Tail(owes[app])
                       ELSE owes[app]
  <2>2. owes[app] \in Seq(Stops) BY DEF HelperTypes
  <2>3. list \in Seq(Stops) BY <2>2, StartPlans, RestOfList
  <2>4. owes' = [owes EXCEPT ![app] = list] BY DEF Command
  <2>. QED BY <2>3, <2>4 DEF HelperTypes
<1>7. owner' \in Apps \cup {NoApp} BY DEF Command, HelperTypes
<1>8. split' \in BOOLEAN BY <1>1 DEF Command, HelperTypes, Splits
<1>. QED BY <1>3, <1>4, <1>5, <1>6, <1>7, <1>8 DEF Command, HelperTypes, slots

LEMMA TypesLook ==
    ASSUME HelperAssumption, HelperTypes, WatchdogLook \/ Signal
    PROVE  HelperTypes'
<1>1. CASE WatchdogLook
  <2>1. Turn(Watchdog, Plan("owner")) BY <1>1, OwnerList, Zenon DEF WatchdogLook
  <2>2. Lists' BY <2>1, PlansAreLists, ListBecomes DEF Turn, HelperTypes, Runners
  <2>. QED BY <1>1, <2>2 DEF WatchdogLook, HelperTypes, host, slots, procs
<1>2. CASE Signal
  <2>1. Turn(Main, Plan("signal")) BY <1>2, SignalList, Zenon DEF Signal
  <2>2. Lists' BY <2>1, PlansAreLists, ListBecomes DEF Turn, HelperTypes, Runners
  <2>. QED BY <1>2, <2>2 DEF Signal, HelperTypes, host, slots, procs
<1>. QED BY <1>1, <1>2

LEMMA TypesExit == ASSUME HelperTypes, Exit PROVE HelperTypes'
<1>1. Lists' BY EmptyList DEF Exit, Lists
<1>2. slot' \in [Tunnels -> SUBSET Handle] /\ \A p \in Tunnels : Alone(slot'[p])
  BY DEF Exit, Alone
<1>3. hand' \in [Runners -> Hand] /\ \A u \in Runners : Alone(hand'[u].taken)
  BY DEF Exit, Alone, Hand, NoHand
<1>4. live' \in [Tunnels -> SUBSET Nat] BY DEF Exit, HelperTypes
<1>. QED BY <1>1, <1>2, <1>3, <1>4 DEF Exit, HelperTypes, host

LEMMA TypesOthers ==
    ASSUME HelperTypes, Restart \/ ProcessDies \/ AppDies
    PROVE  HelperTypes'
<1>1. CASE Restart BY <1>1 DEF Restart, HelperTypes, Lists, host, slots
<1>2. CASE ProcessDies
  <2>1. live' \in [Tunnels -> SUBSET Nat] BY <1>2 DEF ProcessDies, HelperTypes
  <2>. QED BY <1>2, <2>1 DEF ProcessDies, HelperTypes, Lists, host, procs
<1>3. CASE AppDies BY <1>3 DEF AppDies, HelperTypes, Lists, host, slots
<1>. QED BY <1>1, <1>2, <1>3
-----------------------------------------------------------------------------
(***************************************************************************)
(* One tunnel at a time.                                                   *)
(***************************************************************************)

LEMMA OnlyThreadsStart ==
    ASSUME HelperAssumption, Lists, NEW t \in {Main, Watchdog}
    PROVE  \A p \in Guarded : ~ HasUp(todo[t], p)
<1>1. todo[t] \in Seq(MainSteps \cup WatchdogSteps)
  <2>1. t \in Runners /\ StepsOf(t) \subseteq MainSteps \cup WatchdogSteps
    BY DEF Runners, StepsOf, HelperAssumption
  <2>2. todo[t] \in Seq(StepsOf(t)) BY <2>1 DEF Lists, ListOK
  <2>. QED BY <2>1, <2>2
<1>2. \A i \in 1 .. Len(todo[t]) : todo[t][i] \in MainSteps \cup WatchdogSteps BY <1>1
<1>3. \A name \in Names : <<"up", name>> \notin MainSteps \cup WatchdogSteps
  BY DEF MainSteps, WatchdogSteps
<1>. QED BY <1>2, <1>3 DEF HasUp, Has

LEMMA WatchdogOnlySocks ==
    ASSUME HelperAssumption, Lists, NEW p, At(Watchdog, "undo", p) \/ At(Watchdog, "take", p)
    PROVE  p = "socks"
<1>1. StepsOf(Watchdog) = WatchdogSteps /\ Watchdog \in Runners
  BY DEF StepsOf, HelperAssumption, Runners
<1>2. <<"undo", p>> \in WatchdogSteps \/ <<"take", p>> \in WatchdogSteps BY <1>1, StepTaken
<1>. QED BY <1>2 DEF WatchdogSteps

\* Two commands cannot both be in the middle of a stop of the same tunnel.
LEMMA OneUndoes ==
    ASSUME HelperAssumption, HelperTypes, OneCommand, Hands, NEW p \in Guarded,
           NEW t \in Runners, NEW u \in Runners, At(t, "undo", p), At(u, "undo", p)
    PROVE  t = u
<1>1. CASE p = "socks" BY <1>1 DEF Hands
<1>2. CASE p # "socks"
  <2>1. t # Watchdog /\ u # Watchdog BY <1>2, WatchdogOnlySocks DEF HelperTypes
  <2>2. t \in Threads \cup {Main} /\ u \in Threads \cup {Main} BY <2>1 DEF Runners
  <2>. QED BY <2>2 DEF OneCommand, At
<1>. QED BY <1>1, <1>2

LEMMA InitClean == ASSUME Init PROVE \A p \in Guarded : ~ Dirty(p)
BY DEF Init, Dirty, At, Idle, Guarded, Tunnels

LEMMA InvInit == ASSUME HelperAssumption, Init PROVE HelperInv
<1>1. \A t \in Runners : Idle(t) BY DEF Init, Idle
<1>2. \A p \in Guarded : ~ Dirty(p) BY InitClean
<1>3. \A t \in Threads, p \in Guarded : ~ HasUp(todo[t], p)
  BY EmptyList DEF Init, HasUp, Runners
<1>4. Hands BY <1>1 DEF Init, Hands, At, NoHand
<1>5. Idle(Main) BY <1>1 DEF Runners
<1>. QED
  BY <1>1, <1>2, <1>3, <1>4, <1>5 DEF HelperInv, OneCommand, OneDirty, ComesUpAlone, DirtIsOwed,
     SignalStopsAll, Runners

\* Who has a handle in hand does not move, and nobody comes to have one.
LEMMA AsideHands ==
    ASSUME HelperTypes, NEW t \in Runners, NEW rest, Advances(t, rest)
    PROVE  /\ ~ Idle(t) /\ Leads(todo[t], rest)
           /\ \A u \in Runners, p \in Guarded : At(u, "undo", p)' <=> At(u, "undo", p)
<1>3. todo'[t] = rest /\ \A u \in Runners \ {t} : todo'[u] = todo[u] BY AdvanceLists
<1>4. ~ Idle(t) /\ Leads(todo[t], rest) /\ \A p \in Guarded : ~ At(t, "undo", p) /\ ~ At(t, "undo", p)'
  <2>1. ~ Idle(t) /\ Leads(todo[t], rest) /\ Head(todo[t]) \notin {"take", "undo"} \X Guarded
    BY DEF Advances
  <2>2. \A p \in Guarded : <<"undo", p>> \in {"take", "undo"} \X Guarded OBVIOUS
  <2>. QED BY <1>3, <2>1, <2>2 DEF At, Leads, Idle
<1>5. \A u \in Runners, p \in Guarded : At(u, "undo", p)' <=> At(u, "undo", p)
  BY <1>3, <1>4 DEF At, Idle
<1>. QED BY <1>4, <1>5

LEMMA InvAside ==
    ASSUME HelperAssumption, HelperTypes, HelperInv, NEW t \in Runners, AsideStep(t)
    PROVE  HelperInv'
<1>1. PICK rest : Advances(t, rest) BY AsideAdvances
<1>2. /\ UNCHANGED <<hand, lock, owes, alive>> /\ \A p \in Guarded : slot'[p] = slot[p]
  BY AsideFrame DEF Guarded, Tunnels
<1>3. todo'[t] = rest /\ \A u \in Runners \ {t} : todo'[u] = todo[u] BY <1>1, AdvanceLists
<1>4. ~ Idle(t) /\ Leads(todo[t], rest) BY <1>1, AsideHands
<1>5. \A u \in Runners, p \in Guarded : At(u, "undo", p)' <=> At(u, "undo", p)
  BY <1>1, AsideHands
<1>6. \A p \in Guarded : Dirty(p)' <=> Dirty(p) BY <1>2, <1>5 DEF Dirty
<1>7. \A p \in Guarded : Owed(p)' <=> Owed(p) BY <1>2 DEF Owed
<1>8. \A u \in Runners : Idle(u) => Idle(u)' BY <1>3, <1>4 DEF Idle
<1>9. \A u \in Runners, p \in Guarded : HasUp(todo'[u], p) =>
         HasUp(todo[u], p) /\ (WillUndo(todo[u], p) => WillUndo(todo'[u], p))
  BY <1>3, <1>4 DEF Leads
<1>10. \A u \in Runners, p \in Guarded : WillUndo(todo[u], p) =>
         WillUndo(todo'[u], p) \/ \E q \in Guarded : HasUp(todo[u], q)
  BY <1>3, <1>4 DEF Leads
<1>11. OneCommand' BY <1>8 DEF HelperInv, OneCommand, Runners
<1>12. Hands' BY <1>2, <1>5 DEF HelperInv, Hands
<1>13. OneDirty' BY <1>6 DEF HelperInv, OneDirty
<1>14. ComesUpAlone' BY <1>6, <1>9 DEF HelperInv, ComesUpAlone, Runners
<1>15. DirtIsOwed'
  <2>1. ASSUME NEW p \in Guarded, NEW u \in Threads, HasUp(todo'[u], p) PROVE Owed(p)'
    BY <1>7, <1>9, <2>1 DEF HelperInv, DirtIsOwed, Runners
  <2>2. ASSUME NEW p \in Guarded, Dirty(p)', ~ Owed(p)'
        PROVE  \E u \in Threads : WillUndo(todo'[u], p)
    <3>1. Dirty(p) /\ ~ Owed(p) BY <1>6, <1>7, <2>2
    <3>2. PICK u \in Threads : WillUndo(todo[u], p) BY <3>1 DEF HelperInv, DirtIsOwed
    <3>3. ASSUME NEW q \in Guarded, HasUp(todo[u], q) PROVE FALSE
      <4>1. q = p BY <3>1, <3>3 DEF HelperInv, ComesUpAlone
      <4>. QED BY <3>1, <3>3, <4>1 DEF HelperInv, DirtIsOwed
    <3>. QED BY <1>10, <3>2, <3>3 DEF Runners
  <2>. QED BY <2>1, <2>2 DEF DirtIsOwed
<1>16. SignalStopsAll'
  <2>1. \A p \in Guarded : ~ HasUp(todo[Main], p) BY OnlyThreadsStart DEF HelperTypes
  <2>2. \A p \in Guarded : WillUndo(todo[Main], p) => WillUndo(todo'[Main], p)
    BY <1>10, <2>1 DEF Runners
  <2>. QED BY <1>6, <1>8, <2>2 DEF HelperInv, SignalStopsAll, Runners
<1>. QED BY <1>11, <1>12, <1>13, <1>14, <1>15, <1>16 DEF HelperInv
LEMMA TakeIsGuarded ==
    ASSUME Lists, NEW t \in Runners, NEW p, At(t, "take", p) \/ At(t, "undo", p)
    PROVE  p \in Guarded
<1>1. <<"take", p>> \in StepsOf(t) \/ <<"undo", p>> \in StepsOf(t) BY StepTaken
<1>2. StepsOf(t) \subseteq Steps \cup MainSteps \cup WatchdogSteps BY DEF StepsOf
<1>. QED BY <1>1, <1>2 DEF Steps, MainSteps, WatchdogSteps, Guarded

\* After a take the handle is in hand, and nothing else has changed.
LEMMA InvTake ==
    ASSUME HelperAssumption, HelperTypes, HelperInv, NEW t \in Runners, NEW p \in Tunnels, Take(t, p)
    PROVE  HelperInv'
<1>0. At(t, "take", p) /\ Proceed(t) /\ UNCHANGED <<owes, alive>> BY DEF Take, procs
<1>1. p \in Guarded BY <1>0, TakeIsGuarded DEF HelperTypes
<1>2. /\ todo'[t] = Tail(todo[t]) /\ \A u \in Runners \ {t} : todo'[u] = todo[u]
  BY <1>0, ProceedTypes
<1>3. /\ todo[t] # <<>> /\ Head(todo[t]) = <<"take", p>> /\ ListOK(t, todo[t]) /\ ~ Idle(t)
  BY <1>0, StepTaken DEF HelperTypes
<1>4. Tail(todo[t]) # <<>> /\ Head(Tail(todo[t])) = <<"undo", p>> BY <1>1, <1>3, InHand
<1>5. ~ Idle(t)' /\ \A q \in Guarded : ~ At(t, "undo", q) /\ (At(t, "undo", q)' <=> q = p)
  BY <1>2, <1>3, <1>4 DEF At, Idle
<1>6. \A u \in Runners \ {t}, q \in Guarded : At(u, "undo", q)' <=> At(u, "undo", q)
  BY <1>2 DEF At, Idle
<1>6a. \A u \in Runners : Idle(u) => Idle(u)' BY <1>2, <1>3 DEF Idle
<1>7. hand[t].taken = {} BY <1>5 DEF HelperInv, Hands
<1>8. /\ hand'[t].taken = slot[p] /\ \A u \in Runners \ {t} : hand'[u] = hand[u]
      /\ slot'[p] = {} /\ \A q \in Guarded \ {p} : slot'[q] = slot[q]
  BY <1>1 DEF Take, HelperTypes, Hand, Guarded, Tunnels
<1>9. \A q \in Guarded : Dirty(q)' <=> Dirty(q)
  <2>1. \A q \in Guarded \ {p} : Dirty(q)' <=> Dirty(q) BY <1>5, <1>6, <1>8 DEF Dirty
  <2>2. Dirty(p)' => Dirty(p) BY <1>1, <1>5, <1>6, <1>8 DEF Dirty
  <2>3. Dirty(p) => Dirty(p)' BY <1>1, <1>5, <1>6, <1>8 DEF Dirty
  <2>. QED BY <2>1, <2>2, <2>3
<1>10. \A q \in Guarded : Owed(q)' <=> Owed(q) BY <1>0 DEF Owed
<1>11. \A u \in Runners, q \in Guarded : HasUp(todo'[u], q) => HasUp(todo[u], q)
  BY <1>2, <1>3, RestHasUp
<1>12. \A u \in Runners, q \in Guarded : WillUndo(todo[u], q) => WillUndo(todo'[u], q)
  <2>1. \A q \in Guarded \ {p} : WillUndo(todo[t], q) => WillUndo(Tail(todo[t]), q)
    BY <1>3, HasRest DEF WillUndo
  <2>2. WillUndo(Tail(todo[t]), p)
    <3>1. Tail(todo[t])[1] = <<"undo", p>> /\ Len(Tail(todo[t])) \in Nat \ {0}
      BY <1>3, <1>4, RestOfList, ListsInOrder DEF ListOK
    <3>2. \A n \in Nat \ {0} : 1 \in 1 .. n OBVIOUS
    <3>3. Has(Tail(todo[t]), "undo", p) BY <3>1, <3>2 DEF Has
    <3>. QED BY <3>3 DEF WillUndo
  <2>. QED BY <1>2, <2>1, <2>2
<1>13. OneCommand' BY <1>6a DEF HelperInv, OneCommand, Runners
<1>14. Hands'
  <2>1. ASSUME NEW u \in Runners, hand'[u].taken # {} PROVE \E q \in Guarded : At(u, "undo", q)'
    BY <1>1, <1>5, <1>6, <1>8, <2>1 DEF HelperInv, Hands
  <2>2. ASSUME NEW u \in Runners, NEW q \in Guarded, At(u, "undo", q)'
        PROVE  slot'[q] = {} /\ (q = "socks" => lock' = u)
    <3>1. CASE u = t BY <1>5, <1>8, <2>2, <3>1 DEF Take
    <3>2. CASE u # t
      <4>1. slot[q] = {} /\ (q = "socks" => lock = u) BY <1>6, <2>2, <3>2 DEF HelperInv, Hands
      <4>2. p = "socks" => lock = Free BY DEF Take
      <4>3. u # Free BY DEF Runners, Free, HelperAssumption
      <4>4. q = "socks" => p # "socks" BY <4>1, <4>2, <4>3
      <4>5. p # "socks" => lock' = lock BY DEF Take
      <4>. QED BY <1>8, <4>1, <4>4, <4>5
    <3>. QED BY <3>1, <3>2
  <2>. QED BY <2>1, <2>2 DEF Hands
<1>15. OneDirty' BY <1>9 DEF HelperInv, OneDirty
<1>16. ComesUpAlone' BY <1>9, <1>11, <1>12 DEF HelperInv, ComesUpAlone, Runners
<1>17. DirtIsOwed' BY <1>9, <1>10, <1>11, <1>12 DEF HelperInv, DirtIsOwed, Runners
<1>18. SignalStopsAll'
  <2>1. Idle(Main) => Idle(Main)' BY <1>6a DEF Runners
  <2>. QED BY <1>9, <1>12, <2>1 DEF HelperInv, SignalStopsAll, Runners
<1>. QED BY <1>13, <1>14, <1>15, <1>16, <1>17, <1>18 DEF HelperInv

UndoStep(t, p) == IF p = "socks" THEN UndoSocks(t) ELSE Undo(t, p)

\* After an undo the tunnel has left nothing.
LEMMA InvUndo ==
    ASSUME HelperAssumption, HelperTypes, HelperInv, NEW t \in Runners, NEW p \in Tunnels,
           UndoStep(t, p)
    PROVE  HelperInv'
<1>0. /\ At(t, "undo", p) /\ Proceed(t) /\ UNCHANGED <<owes, alive, slot>>
      /\ hand' = [hand EXCEPT ![t].taken = {}] /\ lock' = IF p = "socks" THEN Free ELSE lock
  BY DEF UndoStep, UndoSocks, Undo, procs
<1>1. p \in Guarded BY <1>0, TakeIsGuarded DEF HelperTypes
<1>2. /\ todo'[t] = Tail(todo[t]) /\ \A u \in Runners \ {t} : todo'[u] = todo[u]
  BY <1>0, ProceedTypes
<1>3. /\ todo[t] # <<>> /\ Head(todo[t]) = <<"undo", p>> /\ ListOK(t, todo[t]) /\ ~ Idle(t)
  BY <1>0, StepTaken DEF HelperTypes
<1>4. \A q \in Guarded : ~ At(t, "undo", q)'
  <2>1. <<"undo", p>> \notin {"take"} \X Guarded OBVIOUS
  <2>. QED BY <1>2, <1>3, <2>1, NotInHand DEF At, Idle
<1>5. \A q \in Guarded \ {p} : ~ At(t, "undo", q) BY <1>3 DEF At
<1>6. \A u \in Runners \ {t}, q \in Guarded : At(u, "undo", q)' <=> At(u, "undo", q)
  BY <1>2 DEF At, Idle
<1>6a. \A u \in Runners : Idle(u) => Idle(u)' BY <1>2, <1>3 DEF Idle
<1>7. \A u \in Runners \ {t} : ~ At(u, "undo", p)
  BY <1>0, <1>1, OneUndoes DEF HelperInv
<1>8. hand'[t].taken = {} /\ \A u \in Runners \ {t} : hand'[u] = hand[u]
  BY <1>0 DEF HelperTypes, Hand
<1>9. \A q \in Guarded : Dirty(q)' <=> q # p /\ Dirty(q)
  <2>1. slot[p] = {} BY <1>0, <1>1 DEF HelperInv, Hands
  <2>2. ~ Dirty(p)' BY <1>0, <1>1, <1>4, <1>6, <1>7, <2>1 DEF Dirty
  <2>3. \A q \in Guarded \ {p} : Dirty(q)' <=> Dirty(q) BY <1>0, <1>4, <1>5, <1>6, <1>8 DEF Dirty
  <2>. QED BY <2>2, <2>3
<1>10. \A q \in Guarded : Owed(q)' <=> Owed(q) BY <1>0 DEF Owed
<1>11. \A u \in Runners, q \in Guarded : HasUp(todo'[u], q) => HasUp(todo[u], q)
  BY <1>2, <1>3, RestHasUp
<1>12. \A u \in Runners, q \in Guarded \ {p} : WillUndo(todo[u], q) => WillUndo(todo'[u], q)
  <2>1. \A q \in Guarded \ {p} : WillUndo(todo[t], q) => WillUndo(Tail(todo[t]), q)
    BY <1>3, HasRest DEF WillUndo
  <2>. QED BY <1>2, <2>1
<1>13. OneCommand' BY <1>6a DEF HelperInv, OneCommand, Runners
<1>14. Hands'
  <2>1. ASSUME NEW u \in Runners, hand'[u].taken # {} PROVE \E q \in Guarded : At(u, "undo", q)'
    BY <1>6, <1>8, <2>1 DEF HelperInv, Hands
  <2>2. ASSUME NEW u \in Runners, NEW q \in Guarded, At(u, "undo", q)'
        PROVE  slot'[q] = {} /\ (q = "socks" => lock' = u)
    <3>1. u # t BY <1>4, <2>2
    <3>2. q # p BY <1>6, <1>7, <2>2, <3>1
    <3>3. slot[q] = {} /\ (q = "socks" => lock = u) BY <1>6, <2>2, <3>1 DEF HelperInv, Hands
    <3>4. CASE p = "socks" BY <1>0, <3>2, <3>3, <3>4
    <3>5. CASE p # "socks" BY <1>0, <3>3, <3>5
    <3>. QED BY <3>4, <3>5
  <2>. QED BY <2>1, <2>2 DEF Hands
<1>15. OneDirty' BY <1>9 DEF HelperInv, OneDirty
<1>16. ComesUpAlone' BY <1>9, <1>11, <1>12 DEF HelperInv, ComesUpAlone, Runners
<1>17. DirtIsOwed' BY <1>9, <1>10, <1>11, <1>12 DEF HelperInv, DirtIsOwed, Runners
<1>18. SignalStopsAll'
  <2>1. Idle(Main) => Idle(Main)' BY <1>6a DEF Runners
  <2>. QED BY <1>9, <1>12, <2>1 DEF HelperInv, SignalStopsAll, Runners
<1>. QED BY <1>13, <1>14, <1>15, <1>16, <1>17, <1>18 DEF HelperInv

StoreStep(t, p) ==
    \/ \E name \in {"ZeroNodeTor", "ZeroNodeOutline"} :
          /\ p = "socks" /\ SocksUp(t, name) /\ Proceed(t)
          /\ Store(p, [NewHandle(t, disable_all) EXCEPT !.tor = name = "ZeroNodeTor"])
          /\ ipv6' = FALSE /\ Runs("socks", live["socks"] \cup {hand[t].id})
    \/ p = "wg" /\ WgUp(t)
    \/ p \in {"ovpn", "pptp"} /\ PppUp(t, p)

LEMMA StoreFrame ==
    ASSUME NEW t \in Runners, NEW p \in Tunnels, StoreStep(t, p)
    PROVE  /\ p \in Guarded /\ Proceed(t) /\ UNCHANGED <<hand, lock, owes, alive, daemon>>
           /\ \E name \in Names \ {"ss"} : At(t, "up", name) /\ KindOf(name) = p
           /\ \E h : Store(p, h)
           /\ p = "socks" => lock = Free
BY DEF StoreStep, SocksUp, WgUp, PppUp, procs, Guarded, Names, KindOf

\* When a tunnel comes up there is nothing to undo, neither before it nor beside it.
LEMMA UpFindsNothing ==
    ASSUME HelperAssumption, HelperTypes, HelperInv, NEW t \in Runners, NEW p \in Tunnels,
           StoreStep(t, p)
    PROVE  t \in Threads /\ HasUp(todo[t], p) /\ \A q \in Guarded : ~ Dirty(q)
<1>1. PICK name \in Names \ {"ss"} : At(t, "up", name) /\ KindOf(name) = p BY StoreFrame
<1>2. /\ todo[t] # <<>> /\ Head(todo[t]) = <<"up", name>> /\ ListOK(t, todo[t])
      /\ <<"up", name>> \in StepsOf(t)
  BY <1>1, StepTaken DEF HelperTypes
<1>3. t \in Threads
  <2>1. <<"up", name>> \notin MainSteps \cup WatchdogSteps BY DEF MainSteps, WatchdogSteps
  <2>. QED BY <1>2, <2>1, ThreadsOnly
<1>4. HasUp(todo[t], p) /\ p \in Guarded /\ \A q \in Guarded : ~ WillUndo(todo[t], q)
  BY <1>1, <1>2, UpIsLast
<1>. QED BY <1>3, <1>4 DEF HelperInv, ComesUpAlone

LEMMA InvStore ==
    ASSUME HelperAssumption, HelperTypes, HelperInv, NEW t \in Runners, NEW p \in Tunnels,
           StoreStep(t, p)
    PROVE  HelperInv'
<1>0. p \in Guarded /\ Proceed(t) /\ UNCHANGED <<hand, lock, owes, alive>> BY StoreFrame
<1>1. PICK name \in Names \ {"ss"} : At(t, "up", name) /\ KindOf(name) = p BY StoreFrame
<1>2. /\ todo'[t] = Tail(todo[t]) /\ \A u \in Runners \ {t} : todo'[u] = todo[u]
  BY <1>0, <1>1, ProceedTypes
<1>3. /\ todo[t] # <<>> /\ Head(todo[t]) = <<"up", name>> /\ ListOK(t, todo[t]) /\ ~ Idle(t)
  BY <1>1, StepTaken DEF HelperTypes
<1>4. t \in Threads /\ HasUp(todo[t], p) /\ \A q \in Guarded : ~ Dirty(q) BY UpFindsNothing
<1>5. \A q \in Guarded : ~ HasUp(todo'[t], q) BY <1>2, <1>3, UpIsLast
<1>6. \A u \in Runners, q \in Guarded : At(u, "undo", q)' <=> At(u, "undo", q)
  <2>1. <<"up", name>> \notin {"take"} \X Guarded OBVIOUS
  <2>2. \A q \in Guarded : ~ At(t, "undo", q)' BY <1>2, <1>3, <2>1, NotInHand DEF At, Idle
  <2>3. \A q \in Guarded : ~ At(t, "undo", q) BY <1>3 DEF At
  <2>. QED BY <1>2, <2>2, <2>3 DEF At, Idle
<1>7. \A q \in Guarded \ {p} : slot'[q] = slot[q]
  BY StoreFrame DEF Store, HelperTypes, Guarded, Tunnels
<1>8. \A u \in (Threads \cup {Main}) \ {t} : todo'[u] = <<>>
  BY <1>2, <1>3, <1>4 DEF HelperInv, OneCommand, Idle, Runners
<1>9. \A q \in Guarded : Dirty(q)' => q = p
  BY <1>0, <1>4, <1>6, <1>7 DEF Dirty
<1>10. Owed(p)' BY <1>0, <1>4 DEF HelperInv, DirtIsOwed, Owed
<1>11. \A u \in Threads, q \in Guarded : ~ HasUp(todo'[u], q) BY <1>5, <1>8, EmptyList DEF HasUp
<1>12. Main # t BY <1>4 DEF HelperAssumption
<1>13. Idle(Main)' BY <1>8, <1>12 DEF Idle
<1>14. OneCommand' BY <1>8, <1>4 DEF OneCommand, Idle
<1>15. Hands'
  <2>1. \A u \in Runners : ~ At(u, "undo", p)
    <3>1. \A u \in Runners : ~ At(u, "undo", "socks") \/ p # "socks"
      BY StoreFrame, <1>0 DEF HelperInv, Hands, Runners, Free, HelperAssumption
    <3>2. ASSUME NEW u \in Runners, At(u, "undo", p), p # "socks" PROVE FALSE
      <4>1. u # Watchdog BY <3>2, WatchdogOnlySocks DEF HelperTypes
      <4>2. u \in Threads \cup {Main} BY <4>1 DEF Runners
      <4>3. u = t BY <1>3, <1>4, <3>2, <4>2 DEF HelperInv, OneCommand, At
      <4>. QED BY <1>3, <3>2, <4>3 DEF At
    <3>. QED BY <3>1, <3>2
  <2>. QED BY <1>0, <1>6, <1>7, <2>1 DEF HelperInv, Hands
<1>16. OneDirty' BY <1>9 DEF OneDirty
<1>17. ComesUpAlone' BY <1>11 DEF ComesUpAlone
<1>18. DirtIsOwed' BY <1>9, <1>10, <1>11 DEF DirtIsOwed
<1>19. SignalStopsAll' BY <1>13 DEF SignalStopsAll
<1>. QED BY <1>14, <1>15, <1>16, <1>17, <1>18, <1>19 DEF HelperInv
\* A start-up stops everything.
LEMMA StartUpOwes == \A p \in Guarded : \E i \in 1 .. Len(StartUp) : StartUp[i] \in StopsOf(p)
<1> SUFFICES ASSUME NEW p \in Guarded
             PROVE  \E i \in 1 .. Len(StartUp) : StartUp[i] \in StopsOf(p)
  OBVIOUS
<1>1. /\ Len(StartUp) = 5 /\ StartUp[1] = "tor_stop" /\ StartUp[2] = "wg_stop"
      /\ StartUp[3] = "ovpn_stop" /\ StartUp[4] = "pptp_stop"
  BY DEF StartUp
<1>2. CASE p = "socks" BY <1>1, <1>2 DEF StopsOf
<1>3. CASE p = "wg" BY <1>1, <1>3 DEF StopsOf
<1>4. CASE p = "ovpn" BY <1>1, <1>4 DEF StopsOf
<1>5. CASE p = "pptp" BY <1>1, <1>5 DEF StopsOf
<1>. QED BY <1>2, <1>3, <1>4, <1>5 DEF Guarded

\* A client that asks for a tunnel owes nothing but that tunnel's stop.
LEMMA StartOwesItself ==
    ASSUME HelperTypes, NEW app \in Apps, NEW cmd \in Starts, MayAsk(app, cmd), NEW p \in Guarded, Owed(p)
    PROVE  p = Brings(cmd)
<1>1. app \in alive /\ owes[app] \in Seq(Stops) BY DEF MayAsk, HelperTypes
<1>2. PICK i \in 1 .. Len(owes[app]) : owes[app][i] \in StopsOf(p) BY <1>1 DEF Owed
<1>3. ~ (Len(owes[app]) > 1)
  <2> SUFFICES ASSUME Len(owes[app]) > 1 PROVE FALSE OBVIOUS
  <2>1. cmd = Head(owes[app]) BY DEF MayAsk
  <2>2. owes[app] # <<>> BY <1>2
  <2>3. cmd \in Stops BY <1>1, <2>1, <2>2, RestOfList
  <2>. QED BY <2>3 DEF Starts, Stops
<1>4. owes[app] \in {<<>>, <<StopOf(cmd)>>} BY <1>3 DEF MayAsk
<1>5. owes[app] # <<>> BY <1>2
<1>6. owes[app] = <<StopOf(cmd)>> BY <1>4, <1>5
<1>7. Len(owes[app]) = 1 /\ owes[app][1] = StopOf(cmd) BY <1>6
<1>8. StopOf(cmd) \in StopsOf(p) BY <1>2, <1>7
<1>. QED BY <1>8, StartPlans

\* What a stop no longer owes it is about to take.
LEMMA StopOwesOrTakes ==
    ASSUME NEW list \in Seq(Stops), NEW cmd, NEW p \in Guarded,
           NEW i \in 1 .. Len(list), list[i] \in StopsOf(p), list # <<>>, cmd = Head(list)
    PROVE  \/ cmd \in StopsOf(p)
           \/ \E j \in 1 .. Len(Tail(list)) : Tail(list)[j] \in StopsOf(p)
<1>1. /\ Len(list) \in Nat \ {0} /\ Head(list) = list[1] /\ Len(Tail(list)) = Len(list) - 1
      /\ \A j \in 1 .. Len(list) - 1 : Tail(list)[j] = list[j + 1]
  BY RestOfList
<1>2. CASE i = 1 BY <1>1, <1>2
<1>3. CASE i # 1
  <2>1. i - 1 \in 1 .. Len(list) - 1 /\ i - 1 + 1 = i BY <1>1, <1>3
  <2>2. Tail(list)[i - 1] \in StopsOf(p) BY <1>1, <2>1
  <2>. QED BY <1>1, <2>1, <2>2
<1>. QED BY <1>2, <1>3

LEMMA CommandHands ==
    ASSUME HelperAssumption, HelperTypes, NEW t \in Threads, NEW app \in Apps, NEW cmd \in Offered,
           Command(t, app, cmd)
    PROVE  \A u \in Runners, p \in Guarded : At(u, "undo", p)' <=> At(u, "undo", p)
<1>1. /\ Idle(t) /\ Turn(t, Program(cmd)) /\ t \in Runners /\ cmd \in Starts \cup Stops \cup Splits
  BY DEF Command, Runners, HelperAssumption
<1>2. todo'[t] = Program(cmd) /\ \A u \in Runners \ {t} : todo'[u] = todo[u]
  BY <1>1 DEF Turn, HelperTypes, Lists
<1>3. \A q \in Guarded : Program(cmd) # <<>> => Head(Program(cmd)) # <<"undo", q>>
  <2>1. CASE cmd \in Splits BY <2>1, SplitPrograms
  <2>2. CASE cmd \in Starts \cup Stops
    <3>1. Program(cmd) = Plan(cmd) BY <2>2, Programs
    <3>2. Head(Plan(cmd))[1] = "take" BY <2>2 DEF Plan, Starts, Stops
    <3>. QED BY <3>1, <3>2
  <2>. QED BY <1>1, <2>1, <2>2
<1>4. \A q \in Guarded : ~ At(t, "undo", q) /\ ~ At(t, "undo", q)' BY <1>1, <1>2, <1>3 DEF At, Idle
<1>. QED BY <1>2, <1>4 DEF At, Idle

LEMMA InvCommand ==
    ASSUME HelperAssumption, HelperTypes, HelperInv, NEW t \in Threads, NEW app \in Apps,
           NEW cmd \in Offered, Command(t, app, cmd)
    PROVE  HelperInv'
<1>0. /\ Idle(t) /\ MayAsk(app, cmd) /\ Turn(t, Program(cmd)) /\ UNCHANGED <<lock, slot, alive>>
      /\ t \in Runners /\ cmd \in Starts \cup Stops \cup Splits /\ t # Main /\ t # Watchdog
  BY DEF Command, slots, Runners, HelperAssumption
<1>1. /\ app \in alive /\ \A u \in Threads \cup {Main} : Idle(u)
      /\ \A other \in alive \ {app} : owes[other] = StartUp
  BY <1>0 DEF MayAsk
<1>2. todo'[t] = Program(cmd) /\ \A u \in Runners \ {t} : todo'[u] = todo[u]
  BY <1>0 DEF Turn, HelperTypes, Lists
<1>3. \A u \in (Threads \cup {Main}) \ {t} : todo'[u] = <<>> BY <1>1, <1>2 DEF Idle, Runners
<1>4. \A u \in Threads \cup {Main}, q \in Guarded :
         ~ At(u, "undo", q) /\ ~ WillUndo(todo[u], q) /\ ~ HasUp(todo[u], q)
  BY <1>1, EmptyList DEF At, Idle, WillUndo, HasUp
<1>5. \A u \in Runners, q \in Guarded : At(u, "undo", q)' <=> At(u, "undo", q)
  BY CommandHands
<1>6. \A u \in Runners : hand'[u].taken = hand[u].taken
  <2>1. hand \in [Runners -> Hand] BY DEF HelperTypes
  <2>2. CASE UNCHANGED hand BY <2>2
  <2>3. CASE hand' = [hand EXCEPT ![t].id = sent + 1] BY <1>0, <2>1, <2>3 DEF Hand
  <2>. QED BY <2>2, <2>3 DEF Command
<1>7. \A q \in Guarded : Dirty(q)' <=> Dirty(q) BY <1>0, <1>5, <1>6 DEF Dirty
<1>8. \A q \in Guarded : Dirty(q) => Owed(q) BY <1>4 DEF HelperInv, DirtIsOwed
<1>9. \A q \in Guarded : HasUp(Program(cmd), q) => cmd \in Starts /\ q = Brings(cmd)
  BY <1>0, Programs, SplitPrograms, StopPlans, StartPlans, EmptyList DEF HasUp
<1>10. \A q \in Guarded : Dirty(q) /\ cmd \in Starts =>
          q = Brings(cmd) /\ WillUndo(Program(cmd), q)
  <2> SUFFICES ASSUME NEW q \in Guarded, Dirty(q), cmd \in Starts
               PROVE  q = Brings(cmd) /\ WillUndo(Program(cmd), q)
    OBVIOUS
  <2>1. q = Brings(cmd) BY <1>0, <1>8, StartOwesItself
  <2>. QED BY <2>1, Programs, StartPlans DEF WillUndo
<1>11. \A other \in alive \ {app}, q \in Guarded :
          \E i \in 1 .. Len(owes'[other]) : owes'[other][i] \in StopsOf(q)
  BY <1>1, StartUpOwes DEF Command, HelperTypes
<1>12. /\ cmd \in Starts => owes'[app] = <<StopOf(cmd)>>
       /\ cmd \notin Starts =>
             owes'[app] = IF owes[app] # <<>> /\ cmd = Head(owes[app]) THEN Tail(owes[app])
                          ELSE owes[app]
  BY DEF Command, HelperTypes
<1>13. cmd \in Starts => Owed(Brings(cmd))'
  <2> SUFFICES ASSUME cmd \in Starts PROVE Owed(Brings(cmd))' OBVIOUS
  <2>1. Brings(cmd) \in Guarded /\ StopOf(cmd) \in StopsOf(Brings(cmd)) BY StartPlans
  <2>2. Len(owes'[app]) = 1 /\ owes'[app][1] = StopOf(cmd)
    <3>1. owes'[app] = <<StopOf(cmd)>> BY <1>12
    <3>. QED BY <3>1
  <2>3. \E i \in 1 .. Len(owes'[app]) : owes'[app][i] \in StopsOf(Brings(cmd)) BY <2>1, <2>2
  <2>. QED BY <1>0, <1>11, <2>1, <2>3 DEF Owed
<1>14. \A q \in Guarded : Dirty(q) => Owed(q)' \/ WillUndo(Program(cmd), q)
  <2> SUFFICES ASSUME NEW q \in Guarded, Dirty(q), cmd \notin Starts, ~ WillUndo(Program(cmd), q)
               PROVE  Owed(q)'
    BY <1>10
  <2>1. owes[app] \in Seq(Stops) BY DEF HelperTypes
  <2>2. PICK k \in 1 .. Len(owes[app]) : owes[app][k] \in StopsOf(q) BY <1>1, <1>8 DEF Owed
  <2>3. cmd \notin StopsOf(q)
    <3>1. StopsOf(q) \subseteq Stops BY DEF StopsOf, Guarded, Stops
    <3>2. cmd \in StopsOf(q) => WillUndo(Program(cmd), q)
      BY <3>1, Programs, StopPlans DEF WillUndo
    <3>. QED BY <3>2
  <2>4. \E i \in 1 .. Len(owes'[app]) : owes'[app][i] \in StopsOf(q)
    <3>1. CASE owes[app] # <<>> /\ cmd = Head(owes[app])
      BY <1>12, <2>1, <2>2, <2>3, <3>1, StopOwesOrTakes
    <3>2. CASE ~ (owes[app] # <<>> /\ cmd = Head(owes[app])) BY <1>12, <2>2, <3>2
    <3>. QED BY <3>1, <3>2
  <2>. QED BY <1>0, <1>11, <2>4 DEF Owed
<1>15. OneCommand' BY <1>3 DEF OneCommand, Idle
<1>16. Hands' BY <1>0, <1>5, <1>6 DEF HelperInv, Hands
<1>17. OneDirty' BY <1>7 DEF HelperInv, OneDirty
<1>18. \A u \in Threads, q \in Guarded : HasUp(todo'[u], q) => u = t /\ cmd \in Starts /\ q = Brings(cmd)
  BY <1>2, <1>3, <1>9, EmptyList DEF HasUp
<1>19. ComesUpAlone' BY <1>2, <1>7, <1>10, <1>18 DEF ComesUpAlone
<1>20. DirtIsOwed' BY <1>2, <1>7, <1>13, <1>14, <1>18 DEF DirtIsOwed
<1>21. SignalStopsAll' BY <1>0, <1>3 DEF SignalStopsAll, Idle
<1>. QED BY <1>15, <1>16, <1>17, <1>19, <1>20, <1>21 DEF HelperInv

\* The watchdog and the handler of signals begin with a take as well.
LEMMA LookList ==
    ASSUME HelperAssumption, HelperTypes, WatchdogLook \/ Signal
    PROVE  \E t \in {Main, Watchdog}, name \in {"signal", "owner"} :
              /\ Idle(t) /\ Turn(t, Plan(name)) /\ (t = Main => name = "signal")
              /\ t = Main => \A u \in Threads : Idle(u)
BY OwnerList, SignalList, Zenon DEF WatchdogLook, Signal

LEMMA LookHands ==
    ASSUME HelperAssumption, HelperTypes, WatchdogLook \/ Signal
    PROVE  \A u \in Runners, p \in Guarded : At(u, "undo", p)' <=> At(u, "undo", p)
<1>1. PICK t \in {Main, Watchdog}, name \in {"signal", "owner"} : Idle(t) /\ Turn(t, Plan(name))
  BY LookList
<1>2. t \in Runners BY DEF Runners
<1>3. todo'[t] = Plan(name) /\ \A u \in Runners \ {t} : todo'[u] = todo[u]
  BY <1>1, <1>2 DEF Turn, HelperTypes, Lists
<1>4. Head(Plan(name))[1] = "take" BY DEF Plan
<1>5. \A q \in Guarded : ~ At(t, "undo", q) /\ ~ At(t, "undo", q)' BY <1>1, <1>3, <1>4 DEF At
<1>. QED BY <1>3, <1>5 DEF At, Idle

LEMMA InvLook ==
    ASSUME HelperAssumption, HelperTypes, HelperInv, WatchdogLook \/ Signal
    PROVE  HelperInv'
<1>1. UNCHANGED <<slot, lock, hand, owes, alive>> BY DEF WatchdogLook, Signal, slots, procs
<1>2. PICK t \in {Main, Watchdog}, name \in {"signal", "owner"} :
         /\ Idle(t) /\ Turn(t, Plan(name)) /\ (t = Main => name = "signal")
         /\ t = Main => \A u \in Threads : Idle(u)
  BY LookList
<1>3. t \in Runners /\ t \notin Threads /\ Main # Watchdog BY DEF Runners, HelperAssumption
<1>4. todo'[t] = Plan(name) /\ \A u \in Runners \ {t} : todo'[u] = todo[u]
  BY <1>2, <1>3 DEF Turn, HelperTypes, Lists
<1>6. \A u \in Runners, q \in Guarded : At(u, "undo", q)' <=> At(u, "undo", q) BY LookHands
<1>7. \A q \in Guarded : (Dirty(q)' <=> Dirty(q)) /\ (Owed(q)' <=> Owed(q))
  BY <1>1, <1>6 DEF Dirty, Owed
<1>8. \A u \in Threads : todo'[u] = todo[u] BY <1>3, <1>4 DEF Runners
<1>9. OneCommand' BY <1>2, <1>4, <1>8 DEF HelperInv, OneCommand, Idle, Runners
<1>10. Hands' BY <1>1, <1>6 DEF HelperInv, Hands
<1>11. OneDirty' BY <1>7 DEF HelperInv, OneDirty
<1>12. ComesUpAlone' BY <1>7, <1>8 DEF HelperInv, ComesUpAlone
<1>13. DirtIsOwed' BY <1>7, <1>8 DEF HelperInv, DirtIsOwed
<1>14. SignalStopsAll'
  <2>1. CASE t = Main BY <1>2, <1>4, <2>1, StopPlans DEF SignalStopsAll, WillUndo
  <2>2. CASE t = Watchdog
    <3>1. todo'[Main] = todo[Main] BY <1>3, <1>4, <2>2 DEF Runners
    <3>. QED BY <1>7, <3>1 DEF HelperInv, SignalStopsAll, Idle
  <2>. QED BY <2>1, <2>2
<1>. QED BY <1>9, <1>10, <1>11, <1>12, <1>13, <1>14 DEF HelperInv

\* When the process ends there is nothing to put back any more.
LEMMA ExitFindsNothing ==
    ASSUME HelperAssumption, HelperTypes, HelperInv, Exit
    PROVE  \A p \in Guarded : ~ Dirty(p)
<1>1. At(Main, "exit", "daemon") /\ Main \in Runners BY DEF Exit, Runners
<1>2. /\ todo[Main] # <<>> /\ Head(todo[Main]) = <<"exit", "daemon">> /\ ListOK(Main, todo[Main])
      /\ ~ Idle(Main)
  BY <1>1, StepTaken DEF HelperTypes
<1>3. \A p \in Guarded : ~ WillUndo(todo[Main], p) BY <1>2, EndLeads
<1>. QED BY <1>2, <1>3 DEF HelperInv, SignalStopsAll

LEMMA InvExit == ASSUME HelperAssumption, HelperTypes, HelperInv, Exit PROVE HelperInv'
<1>1. /\ \A t \in Runners : todo'[t] = <<>> /\ hand'[t].taken = {}
      /\ \A p \in Guarded : slot'[p] = {}
  BY DEF Exit, NoHand, Guarded, Tunnels
<1>2. \A t \in Runners : Idle(t)' BY <1>1 DEF Idle
<1>3. \A p \in Guarded : ~ Dirty(p)' BY <1>1 DEF Dirty
<1>4. \A t \in Threads, p \in Guarded : ~ HasUp(todo'[t], p)
  BY <1>1, EmptyList DEF HasUp, Runners
<1>5. Hands' BY <1>1, <1>2 DEF Hands, At
<1>6. Idle(Main)' BY <1>2 DEF Runners
<1>. QED
  BY <1>2, <1>3, <1>4, <1>5, <1>6 DEF HelperInv, OneCommand, OneDirty, ComesUpAlone, DirtIsOwed,
     SignalStopsAll, Runners

LEMMA InvOthers ==
    ASSUME HelperInv, UNCHANGED <<slot, lock, hand, todo, owes>>, alive' \subseteq alive
    PROVE  HelperInv'
<1>1. \A p \in Guarded : (Dirty(p)' <=> Dirty(p)) /\ (Owed(p) => Owed(p)')
  BY DEF Dirty, Owed, At, Idle
<1>2. OneCommand' /\ Hands' BY DEF HelperInv, OneCommand, Hands, At, Idle
<1>3. OneDirty' BY <1>1 DEF HelperInv, OneDirty
<1>4. ComesUpAlone' BY <1>1 DEF HelperInv, ComesUpAlone
<1>5. DirtIsOwed' BY <1>1 DEF HelperInv, DirtIsOwed
<1>6. SignalStopsAll' BY <1>1 DEF HelperInv, SignalStopsAll, Idle
<1>. QED BY <1>2, <1>3, <1>4, <1>5, <1>6 DEF HelperInv
-----------------------------------------------------------------------------
(***************************************************************************)
(* Every step is one of these kinds.                                       *)
(***************************************************************************)

LEMMA StepKinds ==
    ASSUME NEW t \in Runners, Step(t)
    PROVE  \/ \E p \in Tunnels : Take(t, p) \/ UndoStep(t, p) \/ StoreStep(t, p)
           \/ AsideStep(t)
<1>1. ASSUME NEW p \in Tunnels, Undo(t, p) PROVE UndoStep(t, p) BY <1>1 DEF Undo, UndoStep
<1>2. UndoSocks(t) => UndoStep(t, "socks") BY DEF UndoStep
<1>3. ASSUME NEW name \in {"ZeroNodeTor", "ZeroNodeOutline"}, SocksUp(t, name)
      PROVE  StoreStep(t, "socks") \/ AsideStep(t)
  BY <1>3 DEF SocksUp, StoreStep, AsideStep
<1>4. WgUp(t) => StoreStep(t, "wg") BY DEF StoreStep
<1>5. \A p \in {"ovpn", "pptp"} : PppUp(t, p) => StoreStep(t, p) BY DEF StoreStep
<1>. QED BY <1>1, <1>2, <1>3, <1>4, <1>5 DEF Step, AsideStep, Tunnels

LEMMA NextKinds ==
    ASSUME HelperAssumption, [Next]_vars
    PROVE  \/ \E t \in Threads, app \in Apps, cmd \in Offered : Command(t, app, cmd)
           \/ \E t \in Runners, p \in Tunnels : Take(t, p) \/ UndoStep(t, p) \/ StoreStep(t, p)
           \/ \E t \in Runners : AsideStep(t)
           \/ WatchdogLook \/ Signal \/ Exit \/ Restart \/ ProcessDies \/ AppDies
           \/ UNCHANGED vars
<1>1. Forget => \E t \in Runners : AsideStep(t) BY DEF AsideStep, Runners
<1>. QED BY <1>1, StepKinds DEF Next

LEMMA HelperTypesKept ==
    ASSUME HelperAssumption, HelperTypes, [Next]_vars
    PROVE  HelperTypes'
<1>1. ASSUME NEW t \in Threads, NEW app \in Apps, NEW cmd \in Offered, Command(t, app, cmd)
      PROVE  HelperTypes'
  BY <1>1, TypesCommand
<1>2. ASSUME NEW t \in Runners, NEW p \in Tunnels, Take(t, p) PROVE HelperTypes'
  BY <1>2, TypesTake
<1>3. ASSUME NEW t \in Runners, NEW p \in Tunnels, UndoStep(t, p) PROVE HelperTypes'
  BY <1>3, TypesUndo DEF UndoStep
<1>4. ASSUME NEW t \in Runners, NEW p \in Tunnels, StoreStep(t, p) PROVE HelperTypes'
  BY <1>4, TypesSocksUp, TypesWgUp, TypesPppUp DEF StoreStep, Names
<1>5. ASSUME NEW t \in Runners, AsideStep(t) PROVE HelperTypes'
  BY <1>5, TypesAside
<1>6. CASE WatchdogLook \/ Signal BY <1>6, TypesLook
<1>7. CASE Exit BY <1>7, TypesExit
<1>8. CASE Restart \/ ProcessDies \/ AppDies BY <1>8, TypesOthers
<1>9. CASE UNCHANGED vars BY <1>9 DEF vars, host, slots, procs, HelperTypes, Lists
<1>. QED BY <1>1, <1>2, <1>3, <1>4, <1>5, <1>6, <1>7, <1>8, <1>9, NextKinds

LEMMA HelperInvKept ==
    ASSUME HelperAssumption, HelperTypes, HelperInv, [Next]_vars
    PROVE  HelperInv'
<1>1. ASSUME NEW t \in Threads, NEW app \in Apps, NEW cmd \in Offered, Command(t, app, cmd)
      PROVE  HelperInv'
  BY <1>1, InvCommand
<1>2. ASSUME NEW t \in Runners, NEW p \in Tunnels, Take(t, p) PROVE HelperInv'
  BY <1>2, InvTake
<1>3. ASSUME NEW t \in Runners, NEW p \in Tunnels, UndoStep(t, p) PROVE HelperInv'
  BY <1>3, InvUndo
<1>4. ASSUME NEW t \in Runners, NEW p \in Tunnels, StoreStep(t, p) PROVE HelperInv'
  BY <1>4, InvStore
<1>5. ASSUME NEW t \in Runners, AsideStep(t) PROVE HelperInv'
  BY <1>5, InvAside
<1>6. CASE WatchdogLook \/ Signal BY <1>6, InvLook
<1>7. CASE Exit BY <1>7, InvExit
<1>8. CASE Restart \/ ProcessDies \/ AppDies \/ UNCHANGED vars
  BY <1>8, InvOthers DEF Restart, ProcessDies, AppDies, vars, slots, procs
<1>. QED BY <1>1, <1>2, <1>3, <1>4, <1>5, <1>6, <1>7, <1>8, NextKinds
-----------------------------------------------------------------------------
(***************************************************************************)
(* The handles that there are.                                             *)
(***************************************************************************)

LEMMA InUnions ==
    ASSUME NEW f, NEW g, NEW h
    PROVE  h \in (UNION {f[p] : p \in Guarded}) \cup (UNION {g[t].taken : t \in Runners})
           <=> (\E p \in Guarded : h \in f[p]) \/ \E t \in Runners : h \in g[t].taken
<1>1. h \in UNION {f[p] : p \in Guarded} <=> \E p \in Guarded : h \in f[p] OBVIOUS
<1>2. h \in UNION {g[t].taken : t \in Runners} <=> \E t \in Runners : h \in g[t].taken
  OBVIOUS
<1>3. \A A, B : h \in A \cup B <=> h \in A \/ h \in B OBVIOUS
<1>. QED BY <1>1, <1>2, <1>3

LEMMA InHeld ==
    /\ \A h : h \in Held <=> (\E p \in Guarded : h \in slot[p]) \/ \E t \in Runners : h \in hand[t].taken
    /\ \A h : h \in Held' <=> (\E p \in Guarded : h \in slot'[p]) \/ \E t \in Runners : h \in hand'[t].taken
BY InUnions, Zenon DEF Held

\* No handle is kept where nothing is dirty; what a thread holds is all there is.
LEMMA HeldIsDirty ==
    ASSUME HelperInv
    PROVE  (\A p \in Guarded : ~ Dirty(p)) => Held = {}
BY DEF HelperInv, Hands, Dirty, Held

LEMMA HeldInHand ==
    ASSUME HelperAssumption, HelperTypes, HelperInv, NEW t \in Runners, NEW p \in Guarded,
           At(t, "undo", p), hand[t].taken # {}
    PROVE  Held = hand[t].taken
<1>1. Dirty(p) BY DEF Dirty
<1>2. \A q \in Guarded : slot[q] = {}
  <2>1. slot[p] = {} BY DEF HelperInv, Hands
  <2>2. \A q \in Guarded \ {p} : ~ Dirty(q) BY <1>1 DEF HelperInv, OneDirty
  <2>. QED BY <2>1, <2>2 DEF Dirty
<1>3. \A u \in Runners \ {t} : hand[u].taken = {}
  <2> SUFFICES ASSUME NEW u \in Runners \ {t}, hand[u].taken # {} PROVE FALSE OBVIOUS
  <2>1. PICK q \in Guarded : At(u, "undo", q) BY DEF HelperInv, Hands
  <2>2. q = p BY <1>1, <2>1 DEF HelperInv, OneDirty, Dirty
  <2>. QED BY <2>1, <2>2, OneUndoes DEF HelperInv
<1>4. \A h : h \in Held <=> h \in hand[t].taken BY <1>2, <1>3, InHeld
<1>. QED BY <1>4

LEMMA HeldTake ==
    ASSUME HelperTypes, HelperInv, NEW t \in Runners, NEW p \in Tunnels, Take(t, p)
    PROVE  Held' = Held
<1>0. At(t, "take", p) BY DEF Take
<1>1. p \in Guarded BY <1>0, TakeIsGuarded DEF HelperTypes
<1>2. hand[t].taken = {} BY <1>0 DEF HelperInv, Hands, At
<1>3. /\ hand'[t].taken = slot[p] /\ \A u \in Runners \ {t} : hand'[u] = hand[u]
      /\ slot'[p] = {} /\ \A q \in Guarded \ {p} : slot'[q] = slot[q]
  BY <1>1 DEF Take, HelperTypes, Hand, Guarded, Tunnels
<1>7. \A h : h \in Held => h \in Held' BY <1>1, <1>2, <1>3, InHeld
<1>8. \A h : h \in Held' => h \in Held BY <1>1, <1>2, <1>3, InHeld
<1>. QED BY <1>7, <1>8

LEMMA HeldUndo ==
    ASSUME HelperAssumption, HelperTypes, HelperInv, NEW t \in Runners, NEW p \in Tunnels,
           UndoStep(t, p)
    PROVE  \/ hand[t].taken = {} /\ Held' = Held
           \/ hand[t].taken # {} /\ Held = hand[t].taken /\ Held' = {}
<1>0. At(t, "undo", p) /\ slot' = slot /\ hand' = [hand EXCEPT ![t].taken = {}]
  BY DEF UndoStep, UndoSocks, Undo
<1>1. p \in Guarded BY <1>0, TakeIsGuarded DEF HelperTypes
<1>2. hand'[t].taken = {} /\ \A u \in Runners \ {t} : hand'[u] = hand[u]
  BY <1>0 DEF HelperTypes, Hand
<1>3. CASE hand[t].taken = {}
  <2>1. \A u \in Runners : hand'[u].taken = hand[u].taken BY <1>2, <1>3
  <2>. QED BY <1>0, <1>3, <2>1 DEF Held
<1>4. CASE hand[t].taken # {}
  <2>1. Held = hand[t].taken BY <1>0, <1>1, <1>4, HeldInHand
  <2>2. HelperInv' BY InvUndo
  <2>3. \A q \in Guarded : q # p => ~ Dirty(q)
    BY <1>0, <1>1, <1>4 DEF HelperInv, OneDirty, Dirty
  <2>4. \A q \in Guarded : slot'[q] = {}
    BY <1>0, <1>1, <2>3 DEF HelperInv, Hands, Dirty
  <2>5. \A u \in Runners \ {t} : hand[u].taken = {}
    <3> SUFFICES ASSUME NEW u \in Runners \ {t}, hand[u].taken # {} PROVE FALSE OBVIOUS
    <3>1. PICK q \in Guarded : At(u, "undo", q) BY DEF HelperInv, Hands
    <3>2. q = p BY <2>3, <3>1 DEF Dirty
    <3>. QED BY <1>0, <3>1, <3>2, OneUndoes DEF HelperInv
  <2>6. \A u \in Runners : hand'[u].taken = {} BY <1>2, <2>5
  <2>7. Held' = {} BY <2>4, <2>6 DEF Held
  <2>. QED BY <1>4, <2>1, <2>7
<1>. QED BY <1>3, <1>4

LEMMA HeldStore ==
    ASSUME HelperAssumption, HelperTypes, HelperInv, NEW t \in Runners, NEW p \in Tunnels,
           StoreStep(t, p), NEW h, Store(p, h)
    PROVE  Held = {} /\ Held' = {h} /\ slot'[p] = {h}
<1>1. \A q \in Guarded : ~ Dirty(q) BY UpFindsNothing
<1>2. Held = {} BY <1>1, HeldIsDirty
<1>3. p \in Guarded /\ hand' = hand BY StoreFrame
<1>4. slot'[p] = {h} /\ \A q \in Guarded \ {p} : slot'[q] = slot[q]
  BY <1>3 DEF Store, HelperTypes, Guarded, Tunnels
<1>5. \A q \in Guarded \ {p} : slot'[q] = {} BY <1>1, <1>4 DEF Dirty
<1>6. \A u \in Runners : hand'[u].taken = {} BY <1>2, <1>3, InHeld
<1>7. \A x : x \in Held' <=> x = h BY <1>3, <1>4, <1>5, <1>6, InHeld
<1>. QED BY <1>2, <1>4, <1>7

LEMMA HeldExit ==
    ASSUME HelperAssumption, HelperTypes, HelperInv, Exit
    PROVE  Held = {} /\ Held' = {}
<1>1. Held = {} BY ExitFindsNothing, HeldIsDirty
<1>2. \A q \in Guarded : slot'[q] = {} BY DEF Exit, Guarded, Tunnels
<1>3. \A u \in Runners : hand'[u].taken = {} BY DEF Exit, NoHand
<1>. QED BY <1>1, <1>2, <1>3 DEF Held

\* Every other step leaves the handles, IPv6, the resolver and the route as they are.
QuietStep ==
    \/ \E t \in Threads, app \in Apps, cmd \in Offered : Command(t, app, cmd)
    \/ \E t \in Runners : AsideStep(t)
    \/ WatchdogLook \/ Signal \/ Restart \/ ProcessDies \/ AppDies \/ UNCHANGED vars

LEMMA HeldQuiet ==
    ASSUME HelperAssumption, HelperTypes, QuietStep
    PROVE  /\ Held' = Held /\ UNCHANGED <<ipv6, resolver, pinned>>
           /\ \A p \in Guarded : slot'[p] = slot[p]
           /\ \A t \in Runners : hand'[t].taken = hand[t].taken
<1>1. ASSUME NEW t \in Threads, NEW app \in Apps, NEW cmd \in Offered, Command(t, app, cmd)
      PROVE  /\ UNCHANGED <<ipv6, resolver, pinned, slot>>
             /\ \A u \in Runners : hand'[u].taken = hand[u].taken
  <2>1. UNCHANGED <<ipv6, resolver, pinned, slot>> BY <1>1 DEF Command, slots
  <2>2. hand \in [Runners -> Hand] BY DEF HelperTypes
  <2>3. CASE UNCHANGED hand BY <2>1, <2>3
  <2>4. CASE hand' = [hand EXCEPT ![t].id = sent + 1] BY <2>1, <2>2, <2>4 DEF Hand
  <2>. QED BY <1>1, <2>3, <2>4 DEF Command
<1>2. ASSUME NEW t \in Runners, AsideStep(t)
      PROVE  /\ UNCHANGED <<ipv6, resolver, pinned, hand>>
             /\ \A p \in Guarded : slot'[p] = slot[p]
  BY <1>2, AsideFrame DEF Guarded, Tunnels
<1>3. CASE WatchdogLook \/ Signal \/ Restart \/ ProcessDies \/ AppDies \/ UNCHANGED vars
  BY <1>3 DEF WatchdogLook, Signal, Restart, ProcessDies, AppDies, vars, host, slots, Held
<1>4. /\ UNCHANGED <<ipv6, resolver, pinned>>
      /\ \A p \in Guarded : slot'[p] = slot[p]
      /\ \A t \in Runners : hand'[t].taken = hand[t].taken
  BY <1>1, <1>2, <1>3 DEF QuietStep, WatchdogLook, Signal, Restart, ProcessDies, AppDies, vars,
     host, slots
<1>. QED BY <1>4 DEF Held

LEMMA NextByHandles ==
    ASSUME HelperAssumption, [Next]_vars
    PROVE  \/ QuietStep \/ Exit
           \/ \E t \in Runners, p \in Tunnels : Take(t, p) \/ UndoStep(t, p) \/ StoreStep(t, p)
BY NextKinds DEF QuietStep

-----------------------------------------------------------------------------
(***************************************************************************)
(* No leak.                                                                *)
(***************************************************************************)

\* What a start stores, and what becomes of IPv6.
LEMMA GuardBlocks ==
    ASSUME NEW t \in Runners, NEW p \in Tunnels, StoreStep(t, p)
    PROVE  \E h : Store(p, h) /\ (h.guard # "none" => ipv6' = FALSE)
<1>1. ASSUME NEW name \in {"ZeroNodeTor", "ZeroNodeOutline"}, ipv6' = FALSE,
             Store(p, [NewHandle(t, disable_all) EXCEPT !.tor = name = "ZeroNodeTor"])
      PROVE  \E h : Store(p, h) /\ (h.guard # "none" => ipv6' = FALSE)
  BY <1>1
<1>2. CASE p = "wg" /\ WgUp(t)
  <2>1. PICK profile \in parse_client_config, routed \in BOOLEAN :
        \E pin \in pin_endpoint_route(profile) :
          LET guard == IF profile.full /\ ~profile.carries THEN disable_all ELSE "none"
          IN  /\ ipv6' = (ipv6 /\ guard = "none" /\ routed)
              /\ Store("wg", [NewHandle(t, guard) EXCEPT
                                !.dns = backup_and_override_dns(profile.full), !.pin = pin])
    BY <1>2 DEF WgUp
  <2> DEFINE guard == IF profile.full /\ ~profile.carries THEN disable_all ELSE "none"
  <2>2. PICK pin \in pin_endpoint_route(profile) :
          /\ ipv6' = (ipv6 /\ guard = "none" /\ routed)
          /\ Store("wg", [NewHandle(t, guard) EXCEPT
                            !.dns = backup_and_override_dns(profile.full), !.pin = pin])
    BY <2>1
  <2>3. [NewHandle(t, guard) EXCEPT
           !.dns = backup_and_override_dns(profile.full), !.pin = pin].guard = guard
    BY DEF NewHandle
  <2> HIDE DEF guard
  <2>. QED BY <1>2, <2>2, <2>3
<1>3. CASE p \in {"ovpn", "pptp"} /\ PppUp(t, p)
  <2>1. PICK guard \in {disable_all} \cup (IF p = "ovpn" THEN {"none"} ELSE {}) :
          Store(p, NewHandle(t, guard)) /\ ipv6' = (ipv6 /\ guard = "none")
    BY <1>3 DEF PppUp
  <2>2. NewHandle(t, guard).guard = guard BY DEF NewHandle
  <2>. QED BY <2>1, <2>2
<1>. QED BY <1>1, <1>2, <1>3 DEF StoreStep

LEMMA LeakKept ==
    ASSUME HelperAssumption, HelperTypes, HelperInv, LeakInv, [Next]_vars
    PROVE  LeakInv'
<1>1. CASE QuietStep BY <1>1, HeldQuiet DEF LeakInv
<1>2. CASE Exit BY <1>2, HeldExit DEF LeakInv
<1>3. ASSUME NEW t \in Runners, NEW p \in Tunnels, Take(t, p) PROVE LeakInv'
  BY <1>3, HeldTake DEF Take, LeakInv
<1>4. ASSUME NEW t \in Runners, NEW p \in Tunnels, UndoStep(t, p) PROVE LeakInv'
  <2>1. hand[t].taken = {} => ipv6' = ipv6 BY <1>4 DEF UndoStep, UndoSocks, Undo
  <2>. QED BY <1>4, <2>1, HeldUndo DEF LeakInv
<1>5. ASSUME NEW t \in Runners, NEW p \in Tunnels, StoreStep(t, p) PROVE LeakInv'
  <2>1. PICK h : Store(p, h) /\ (h.guard # "none" => ipv6' = FALSE) BY <1>5, GuardBlocks
  <2>. QED BY <1>5, <2>1, HeldStore DEF LeakInv
<1>. QED BY <1>1, <1>2, <1>3, <1>4, <1>5, NextByHandles
-----------------------------------------------------------------------------
(***************************************************************************)
(* The host as it was found.                                               *)
(***************************************************************************)

\* What a start stores, and what becomes of a host on which nothing had changed.
LEMMA StoredFromHost ==
    ASSUME HelperTypes, ~ RoutesFail, NEW t \in Runners, NEW p \in Tunnels, StoreStep(t, p),
           ipv6, resolver = "own", ~ pinned
    PROVE  \E h : /\ Store(p, h)
                  /\ h.guard \in {"none", "on"} /\ h.dns \in {"none", "own"}
                  /\ ipv6' <=> h.guard = "none"
                  /\ resolver' = "own" <=> h.dns = "none"
                  /\ pinned' <=> h.pin
                  /\ p # "wg" => h.dns = "none" /\ ~ h.pin
<1>0. disable_all = "on" BY DEF disable_all
<1>1. ASSUME NEW name \in {"ZeroNodeTor", "ZeroNodeOutline"}, p = "socks", SocksUp(t, name),
             ipv6' = FALSE,
             Store(p, [NewHandle(t, disable_all) EXCEPT !.tor = name = "ZeroNodeTor"])
      PROVE  \E h : /\ Store(p, h)
                    /\ h.guard \in {"none", "on"} /\ h.dns \in {"none", "own"}
                    /\ ipv6' <=> h.guard = "none"
                    /\ resolver' = "own" <=> h.dns = "none"
                    /\ pinned' <=> h.pin
                    /\ p # "wg" => h.dns = "none" /\ ~ h.pin
  <2> DEFINE h == [NewHandle(t, disable_all) EXCEPT !.tor = name = "ZeroNodeTor"]
  <2>1. h.guard = "on" /\ h.dns = "none" /\ h.pin = FALSE BY <1>0 DEF NewHandle
  <2>2. resolver' = resolver /\ pinned' = pinned BY <1>1 DEF SocksUp
  <2> HIDE DEF h
  <2>. QED BY <1>1, <2>1, <2>2 DEF h
<1>2. CASE p = "wg" /\ WgUp(t)
  <2>1. PICK profile \in parse_client_config, routed \in BOOLEAN :
        \E pin \in pin_endpoint_route(profile) :
          LET guard == IF profile.full /\ ~profile.carries THEN disable_all ELSE "none"
          IN  /\ routed \/ (RoutesFail /\ profile.full /\ profile.carries)
              /\ ipv6' = (ipv6 /\ guard = "none" /\ routed)
              /\ resolver' = IF profile.full THEN "tunnel" ELSE resolver
              /\ pinned' = (pinned \/ pin)
              /\ Store("wg", [NewHandle(t, guard) EXCEPT
                                !.dns = backup_and_override_dns(profile.full), !.pin = pin])
    BY <1>2 DEF WgUp
  <2> DEFINE guard == IF profile.full /\ ~profile.carries THEN disable_all ELSE "none"
             dns == backup_and_override_dns(profile.full)
  <2>2. PICK pin \in pin_endpoint_route(profile) :
          /\ ipv6' = (ipv6 /\ guard = "none" /\ routed) /\ routed
          /\ resolver' = IF profile.full THEN "tunnel" ELSE resolver
          /\ pinned' = (pinned \/ pin)
          /\ Store("wg", [NewHandle(t, guard) EXCEPT !.dns = dns, !.pin = pin])
    BY <2>1
  <2>3. guard \in {"none", "on"} BY <1>0
  <2>4. dns = IF profile.full THEN "own" ELSE "none" BY DEF backup_and_override_dns
  <2>5. pin \in BOOLEAN BY DEF pin_endpoint_route
  <2> HIDE DEF guard, dns
  <2> DEFINE h == [NewHandle(t, guard) EXCEPT !.dns = dns, !.pin = pin]
  <2>6. h.guard = guard /\ h.dns = dns /\ h.pin = pin BY DEF NewHandle
  <2>7. Store(p, h) BY <1>2, <2>2
  <2> HIDE DEF h
  <2>8. ipv6' <=> h.guard = "none" BY <2>2, <2>6
  <2>9. resolver' = "own" <=> h.dns = "none" BY <2>2, <2>4, <2>6
  <2>10. pinned' <=> h.pin BY <2>2, <2>5, <2>6
  <2>11. h.dns \in {"none", "own"} BY <2>4, <2>6
  <2>. QED BY <1>2, <2>3, <2>6, <2>7, <2>8, <2>9, <2>10, <2>11
<1>3. CASE p \in {"ovpn", "pptp"} /\ PppUp(t, p)
  <2>1. PICK guard \in {disable_all} \cup (IF p = "ovpn" THEN {"none"} ELSE {}) :
          Store(p, NewHandle(t, guard)) /\ ipv6' = (ipv6 /\ guard = "none")
    BY <1>3 DEF PppUp
  <2>2. guard \in {"none", "on"} BY <1>0
  <2> DEFINE h == NewHandle(t, guard)
  <2>3. h.guard = guard /\ h.dns = "none" /\ h.pin = FALSE BY DEF NewHandle
  <2>4. resolver' = resolver /\ pinned' = pinned BY <1>3 DEF PppUp
  <2>5. Store(p, h) BY <2>1
  <2> HIDE DEF h
  <2>6. ipv6' <=> h.guard = "none" BY <2>1, <2>3
  <2>. QED BY <1>3, <2>2, <2>3, <2>4, <2>5, <2>6
<1>. QED BY <1>1, <1>2, <1>3 DEF StoreStep

LEMMA HostUndone ==
    ASSUME HelperAssumption, HelperTypes, HelperInv, HostInv, PlainInv, NEW t \in Runners,
           NEW p \in Tunnels, UndoStep(t, p), hand[t].taken # {}
    PROVE  ipv6' /\ resolver' = "own" /\ ~ pinned'
<1>0. At(t, "undo", p) BY DEF UndoStep, UndoSocks, Undo
<1>1. p \in Guarded BY <1>0, TakeIsGuarded DEF HelperTypes
<1>2. Held = hand[t].taken BY <1>0, <1>1, HeldInHand
<1>3. PICK h : h \in hand[t].taken OBVIOUS
<1>4. hand[t].taken = {h} BY <1>3 DEF HelperTypes, Alone
<1>5. ipv6' = \A x \in hand[t].taken : restore(x.guard) BY DEF UndoStep, UndoSocks, Undo
<1>6. /\ ipv6 <=> h.guard = "none"
      /\ h.guard \in {"none", "on"} /\ h.dns \in {"none", "own"}
      /\ resolver = "own" <=> h.dns = "none"
      /\ pinned <=> h.pin
  BY <1>2, <1>4 DEF HostInv
<1>7. restore(h.guard) BY <1>6 DEF restore
<1>8. ipv6' BY <1>4, <1>5, <1>7
<1>9. CASE p = "socks"
  <2>1. resolver' = resolver /\ pinned' = pinned BY <1>9 DEF UndoStep, UndoSocks
  <2>2. h.dns = "none" /\ ~ h.pin 
    <3>1. Dirty("socks") BY <1>0, <1>9 DEF Dirty
    <3>2. ~ Dirty("wg") BY <3>1 DEF HelperInv, OneDirty, Guarded
    <3>. QED BY <1>2, <1>3, <3>2 DEF PlainInv
  <2>. QED BY <1>6, <1>8, <2>1, <2>2
<1>10. CASE p # "socks"
  <2>1. /\ resolver' = restore_dns(hand[t].taken)
        /\ pinned' = (pinned /\ \A x \in hand[t].taken : ~ x.pin)
    BY <1>10 DEF UndoStep, Undo
  <2>2. ~ pinned' BY <1>4, <1>6, <2>1
  <2>3. resolver' = "own"
    <3>1. CASE h.dns = "none" BY <1>4, <1>6, <2>1, <3>1 DEF restore_dns
    <3>2. CASE h.dns # "none"
      <4>1. (CHOOSE x \in {h} : TRUE) = h OBVIOUS
      <4>. QED BY <1>4, <1>6, <2>1, <3>2, <4>1 DEF restore_dns
    <3>. QED BY <3>1, <3>2
  <2>. QED BY <1>8, <2>2, <2>3
<1>. QED BY <1>9, <1>10

LEMMA HostNothingHeld ==
    ASSUME Held = {} PROVE HostInv <=> ipv6 /\ resolver = "own" /\ ~ pinned
BY DEF HostInv

LEMMA HandsQuiet ==
    ASSUME HelperAssumption, HelperTypes, QuietStep
    PROVE  \A t \in Runners, p \in Guarded : At(t, "undo", p)' <=> At(t, "undo", p)
<1>1. ASSUME NEW t \in Runners, AsideStep(t)
      PROVE  \A u \in Runners, p \in Guarded : At(u, "undo", p)' <=> At(u, "undo", p)
  BY <1>1, AsideAdvances, AsideHands
<1>2. CASE Restart \/ ProcessDies \/ AppDies \/ UNCHANGED vars
  BY <1>2 DEF Restart, ProcessDies, AppDies, vars, At, Idle
<1>. QED BY <1>1, <1>2, CommandHands, LookHands DEF QuietStep

LEMMA DirtyQuiet ==
    ASSUME HelperAssumption, HelperTypes, QuietStep
    PROVE  \A p \in Guarded : Dirty(p)' <=> Dirty(p)
BY HandsQuiet, HeldQuiet DEF Dirty

\* WireGuard's handle goes from its slot into the hand of who stops it.
LEMMA DirtyTake ==
    ASSUME HelperAssumption, HelperTypes, HelperInv, NEW t \in Runners, NEW p \in Tunnels, Take(t, p)
    PROVE  \A q \in Guarded : Dirty(q) => Dirty(q)'
<1>0. At(t, "take", p) /\ Proceed(t) BY DEF Take
<1>1. p \in Guarded BY <1>0, TakeIsGuarded DEF HelperTypes
<1>2. todo'[t] = Tail(todo[t]) /\ \A u \in Runners \ {t} : todo'[u] = todo[u]
  BY <1>0, ProceedTypes
<1>3. /\ todo[t] # <<>> /\ Head(todo[t]) = <<"take", p>> /\ ListOK(t, todo[t])
  BY <1>0, StepTaken DEF HelperTypes
<1>4. At(t, "undo", p)' BY <1>1, <1>2, <1>3, InHand DEF At, Idle
<1>5. \A u \in Runners \ {t}, q \in Guarded : At(u, "undo", q)' <=> At(u, "undo", q)
  BY <1>2 DEF At, Idle
<1>6. \A q \in Guarded : ~ At(t, "undo", q) BY <1>3 DEF At
<1>7. /\ hand'[t].taken = slot[p] /\ \A u \in Runners \ {t} : hand'[u] = hand[u]
      /\ \A q \in Guarded \ {p} : slot'[q] = slot[q]
  BY <1>1 DEF Take, HelperTypes, Hand, Guarded, Tunnels
<1>. QED BY <1>4, <1>5, <1>6, <1>7 DEF Dirty

LEMMA DirtyUndo ==
    ASSUME HelperAssumption, HelperTypes, NEW t \in Runners, NEW p \in Tunnels, UndoStep(t, p),
           hand[t].taken = {}
    PROVE  \A q \in Guarded : Dirty(q) => Dirty(q)'
<1>1. At(t, "undo", p) /\ Proceed(t) /\ slot' = slot /\ hand' = [hand EXCEPT ![t].taken = {}]
  BY DEF UndoStep, UndoSocks, Undo
<1>2. \A u \in Runners \ {t} : todo'[u] = todo[u] BY <1>1, ProceedTypes
<1>3. \A u \in Runners \ {t} : hand'[u] = hand[u] BY <1>1 DEF HelperTypes
<1>. QED BY <1>1, <1>2, <1>3 DEF Dirty, At, Idle

HostInvs == HostInv /\ PlainInv

LEMMA HostKept ==
    ASSUME HelperAssumption, HelperTypes, HelperInv, ~ RoutesFail, HostInvs, [Next]_vars
    PROVE  HostInvs'
<1>1. CASE QuietStep
  <2>1. PlainInv' BY <1>1, HeldQuiet, DirtyQuiet DEF HostInvs, PlainInv, Guarded
  <2>. QED BY <1>1, <2>1, HeldQuiet DEF HostInvs, HostInv
<1>2. CASE Exit
  <2>1. UNCHANGED <<ipv6, resolver, pinned>> BY <1>2 DEF Exit, host
  <2>. QED BY <1>2, <2>1, HeldExit DEF HostInvs, HostInv, PlainInv
<1>3. ASSUME NEW t \in Runners, NEW p \in Tunnels, Take(t, p) PROVE HostInvs'
  <2>1. UNCHANGED <<ipv6, resolver, pinned>> BY <1>3 DEF Take
  <2>2. PlainInv' BY <1>3, HeldTake, DirtyTake DEF HostInvs, PlainInv, Guarded
  <2>. QED BY <1>3, <2>1, <2>2, HeldTake DEF HostInvs, HostInv
<1>4. ASSUME NEW t \in Runners, NEW p \in Tunnels, UndoStep(t, p) PROVE HostInvs'
  <2>1. CASE hand[t].taken # {}
    <3>1. Held' = {} BY <1>4, <2>1, HeldUndo
    <3>2. ipv6' /\ resolver' = "own" /\ ~ pinned' BY <1>4, <2>1, HostUndone DEF HostInvs
    <3>. QED BY <3>1, <3>2 DEF HostInvs, HostInv, PlainInv
  <2>2. CASE hand[t].taken = {}
    <3>1. Held' = Held BY <1>4, <2>2, HeldUndo
    <3>2. ipv6' = ipv6 /\ resolver' = resolver /\ pinned' = pinned
      BY <1>4, <2>2 DEF UndoStep, UndoSocks, Undo, restore_dns, HelperTypes
    <3>3. PlainInv'
      <4>1. Dirty("wg") => Dirty("wg")' BY <1>4, <2>2, DirtyUndo DEF Guarded
      <4>. QED BY <3>1, <4>1 DEF HostInvs, PlainInv
    <3>. QED BY <3>1, <3>2, <3>3 DEF HostInvs, HostInv
  <2>. QED BY <2>1, <2>2
<1>5. ASSUME NEW t \in Runners, NEW p \in Tunnels, StoreStep(t, p) PROVE HostInvs'
  <2>1. Held = {} BY <1>5, UpFindsNothing, HeldIsDirty
  <2>2. ipv6 /\ resolver = "own" /\ ~ pinned BY <2>1, HostNothingHeld DEF HostInvs
  <2>3. PICK h : /\ Store(p, h)
                 /\ h.guard \in {"none", "on"} /\ h.dns \in {"none", "own"}
                 /\ ipv6' <=> h.guard = "none"
                 /\ resolver' = "own" <=> h.dns = "none"
                 /\ pinned' <=> h.pin
                 /\ p # "wg" => h.dns = "none" /\ ~ h.pin
    BY <1>5, <2>2, StoredFromHost
  <2>4. Held' = {h} /\ slot'[p] = {h} BY <1>5, <2>3, HeldStore
  <2>5. PlainInv'
    <3>1. p = "wg" => Dirty("wg")' BY <2>4 DEF Dirty
    <3>. QED BY <2>3, <2>4, <3>1 DEF PlainInv
  <2>. QED BY <2>3, <2>4, <2>5 DEF HostInvs, HostInv
<1>. QED BY <1>1, <1>2, <1>3, <1>4, <1>5, NextByHandles
-----------------------------------------------------------------------------
(***************************************************************************)
(* Nothing runs that no slot knows.                                        *)
(***************************************************************************)

LEMMA HandleQuiet ==
    ASSUME HelperAssumption, HelperTypes, QuietStep, NEW p \in Guarded
    PROVE  \A h : HandleOf(p, h) => HandleOf(p, h)'
BY HandsQuiet, HeldQuiet DEF HandleOf

LEMMA HandleTake ==
    ASSUME HelperTypes, HelperInv, NEW t \in Runners, NEW q \in Tunnels, Take(t, q),
           NEW p \in Guarded
    PROVE  \A h : HandleOf(p, h) => HandleOf(p, h)'
<1>0. At(t, "take", q) /\ Proceed(t) BY DEF Take
<1>1. q \in Guarded BY <1>0, TakeIsGuarded DEF HelperTypes
<1>2. todo'[t] = Tail(todo[t]) /\ \A u \in Runners \ {t} : todo'[u] = todo[u]
  BY <1>0, ProceedTypes
<1>3. /\ todo[t] # <<>> /\ Head(todo[t]) = <<"take", q>> /\ ListOK(t, todo[t])
  BY <1>0, StepTaken DEF HelperTypes
<1>4. At(t, "undo", q)' BY <1>1, <1>2, <1>3, InHand DEF At, Idle
<1>5. \A u \in Runners \ {t} : At(u, "undo", p)' <=> At(u, "undo", p) BY <1>2 DEF At, Idle
<1>6. ~ At(t, "undo", p) BY <1>3 DEF At
<1>7. /\ hand'[t].taken = slot[q] /\ \A u \in Runners \ {t} : hand'[u] = hand[u]
      /\ \A r \in Guarded \ {q} : slot'[r] = slot[r]
  BY <1>1 DEF Take, HelperTypes, Hand, Guarded, Tunnels
<1>. QED BY <1>4, <1>5, <1>6, <1>7 DEF HandleOf

LEMMA HandleUndo ==
    ASSUME HelperAssumption, HelperTypes, HelperInv, NEW t \in Runners, NEW q \in Tunnels,
           UndoStep(t, q), NEW p \in Guarded
    PROVE  /\ p # q => \A h : HandleOf(p, h) => HandleOf(p, h)'
           /\ p = q => \A h : HandleOf(p, h) => h \in hand[t].taken
<1>1. At(t, "undo", q) /\ Proceed(t) /\ slot' = slot /\ hand' = [hand EXCEPT ![t].taken = {}]
  BY DEF UndoStep, UndoSocks, Undo
<1>2. \A u \in Runners \ {t} : todo'[u] = todo[u] BY <1>1, ProceedTypes
<1>3. \A u \in Runners \ {t} : hand'[u] = hand[u] BY <1>1 DEF HelperTypes
<1>4. p # q => ~ At(t, "undo", p) BY <1>1 DEF At
<1>5. p # q => \A h : HandleOf(p, h) => HandleOf(p, h)'
  BY <1>1, <1>2, <1>3, <1>4 DEF HandleOf, At, Idle
<1>6. p = q => \A h : HandleOf(p, h) => h \in hand[t].taken
  <2> SUFFICES ASSUME p = q, NEW h, HandleOf(p, h) PROVE h \in hand[t].taken OBVIOUS
  <2>1. slot[p] = {} BY <1>1 DEF HelperInv, Hands
  <2>2. \A u \in Runners : At(u, "undo", p) => u = t BY <1>1, OneUndoes DEF HelperInv
  <2>. QED BY <2>1, <2>2 DEF HandleOf
<1>. QED BY <1>5, <1>6

LEMMA NoHandle ==
    ASSUME \A p \in Guarded : ~ Dirty(p)
    PROVE  \A p \in Guarded : \A h : ~ HandleOf(p, h)
BY DEF Dirty, HandleOf

\* A worker is only spawned when its handle is stored.
LEMMA SocksQuiet ==
    ASSUME HelperTypes, QuietStep
    PROVE  live'["socks"] \subseteq live["socks"]
<1>1. ASSUME NEW t \in Threads, NEW app \in Apps, NEW cmd \in Offered, Command(t, app, cmd)
      PROVE  live' = live
  BY <1>1 DEF Command, slots
<1>2. ASSUME NEW t \in Runners, AsideStep(t) PROVE live'["socks"] = live["socks"]
  <2>1. live' = live \/ \E p \in Tunnels \ {"socks"} : \E ids : Runs(p, ids)
    BY <1>2 DEF AsideStep, CheckSocks, StopOutline, TorBypass, SocksProbe, OutlineUp, WgLink,
       Spawn, OvpnWait, PptpWait, Forget, slots, Tunnels
  <2>. QED BY <2>1 DEF Runs, HelperTypes, Tunnels
<1>3. CASE ProcessDies BY <1>3 DEF ProcessDies, HelperTypes, Tunnels
<1>4. CASE WatchdogLook \/ Signal \/ Restart \/ AppDies \/ UNCHANGED vars
  BY <1>4 DEF WatchdogLook, Signal, Restart, AppDies, vars, slots
<1>. QED BY <1>1, <1>2, <1>3, <1>4 DEF QuietStep

LEMMA SocksKept ==
    ASSUME HelperAssumption, HelperTypes, HelperInv, SocksKnown, [Next]_vars
    PROVE  SocksKnown'
<1>1. CASE QuietStep
  <2>1. \A h : HandleOf("socks", h) => HandleOf("socks", h)' BY <1>1, HandleQuiet DEF Guarded
  <2>. QED BY <1>1, <2>1, SocksQuiet DEF SocksKnown
<1>2. CASE Exit BY <1>2 DEF Exit, SocksKnown, Tunnels
<1>3. ASSUME NEW t \in Runners, NEW p \in Tunnels, Take(t, p) PROVE SocksKnown'
  <2>1. \A h : HandleOf("socks", h) => HandleOf("socks", h)' BY <1>3, HandleTake DEF Guarded
  <2>. QED BY <1>3, <2>1 DEF SocksKnown, Take
<1>4. ASSUME NEW t \in Runners, NEW p \in Tunnels, UndoStep(t, p) PROVE SocksKnown'
  <2>1. CASE p = "socks"
    <3>1. \A h : HandleOf("socks", h) => h \in hand[t].taken
      BY <1>4, <2>1, HandleUndo DEF Guarded
    <3>2. live'["socks"] = {id \in live["socks"] : \A h \in hand[t].taken : id # h.id}
      BY <1>4, <2>1 DEF UndoStep, UndoSocks, Runs, HelperTypes, Tunnels
    <3>. QED BY <3>1, <3>2 DEF SocksKnown
  <2>2. CASE p # "socks"
    <3>1. \A h : HandleOf("socks", h) => HandleOf("socks", h)'
      BY <1>4, <2>2, HandleUndo DEF Guarded
    <3>2. live'["socks"] = live["socks"]
      BY <1>4, <2>2 DEF UndoStep, Undo, Runs, HelperTypes, Tunnels
    <3>. QED BY <3>1, <3>2 DEF SocksKnown
  <2>. QED BY <2>1, <2>2
<1>5. ASSUME NEW t \in Runners, NEW p \in Tunnels, StoreStep(t, p) PROVE SocksKnown'
  <2>1. \A h : ~ HandleOf("socks", h) BY <1>5, UpFindsNothing, NoHandle DEF Guarded
  <2>2. live["socks"] = {} BY <2>1 DEF SocksKnown, HelperTypes
  <2>3. CASE p = "socks"
    <3>1. PICK h : /\ Store("socks", h) /\ h.id = hand[t].id
                   /\ Runs("socks", live["socks"] \cup {hand[t].id})
      BY <1>5, <2>3 DEF StoreStep, NewHandle
    <3>2. live'["socks"] = {hand[t].id} BY <2>2, <3>1 DEF Runs, HelperTypes, Tunnels
    <3>3. slot'["socks"] = {h} BY <3>1 DEF Store, HelperTypes, Tunnels
    <3>4. HandleOf("socks", h)' BY <3>3 DEF HandleOf
    <3>. QED BY <3>1, <3>2, <3>4 DEF SocksKnown
  <2>4. CASE p # "socks"
    <3>1. live' = live BY <1>5, <2>4 DEF StoreStep, WgUp, PppUp
    <3>. QED BY <2>2, <3>1 DEF SocksKnown
  <2>. QED BY <2>3, <2>4
<1>. QED BY <1>1, <1>2, <1>3, <1>4, <1>5, NextByHandles
\* Who is about to store the handle of the openvpn it has spawned goes on to do so.
LEMMA ComingQuiet ==
    ASSUME HelperAssumption, HelperTypes, QuietStep, NEW u \in Runners, At(u, "up", "ovpn")
    PROVE  At(u, "up", "ovpn")' /\ hand'[u].id = hand[u].id
<1>0. ~ Idle(u) BY DEF At
<1>1. ASSUME NEW t \in Threads, NEW app \in Apps, NEW cmd \in Offered, Command(t, app, cmd)
      PROVE  todo'[u] = todo[u] /\ hand'[u].id = hand[u].id
  <2>1. u # t /\ t \in Runners BY <1>0, <1>1 DEF Command, Runners
  <2>2. todo'[u] = todo[u] BY <1>1, <2>1 DEF Command, Turn, HelperTypes, Lists
  <2>3. UNCHANGED hand \/ hand' = [hand EXCEPT ![t].id = sent + 1] BY <1>1 DEF Command
  <2>4. hand'[u] = hand[u] BY <2>1, <2>3 DEF HelperTypes
  <2>. QED BY <2>2, <2>4
<1>2. ASSUME NEW t \in Runners, AsideStep(t)
      PROVE  todo'[u] = todo[u] /\ hand'[u].id = hand[u].id
  <2>1. u # t BY <1>2 DEF AsideStep, CheckSocks, StopOutline, TorBypass, SocksProbe, OutlineUp,
                         WgLink, Spawn, OvpnWait, PptpWait, Forget, SocksUp, At
  <2>2. PICK rest : Advances(t, rest) BY <1>2, AsideAdvances
  <2>. QED BY <1>2, <2>1, <2>2, AdvanceLists, AsideFrame
<1>3. CASE WatchdogLook \/ Signal
  <2>1. PICK t \in {Main, Watchdog}, name \in {"signal", "owner"} : Idle(t) /\ Turn(t, Plan(name))
    BY <1>3, LookList
  <2>2. u # t BY <1>0, <2>1
  <2>3. todo'[u] = todo[u] BY <2>1, <2>2 DEF Turn, HelperTypes, Lists
  <2>. QED BY <1>3, <2>3 DEF WatchdogLook, Signal, At, Idle
<1>4. CASE Restart \/ ProcessDies \/ AppDies \/ UNCHANGED vars
  BY <1>4 DEF Restart, ProcessDies, AppDies, vars, At, Idle
<1>. QED BY <1>1, <1>2, <1>3, <1>4 DEF QuietStep, At, Idle

LEMMA OvpnQuiet ==
    ASSUME HelperAssumption, HelperTypes, QuietStep, NEW id, id \in live'["ovpn"]
    PROVE  id \in live["ovpn"] \/ \E t \in Runners : At(t, "up", "ovpn")' /\ hand'[t].id = id
<1>1. ASSUME NEW t \in Threads, NEW app \in Apps, NEW cmd \in Offered, Command(t, app, cmd)
      PROVE  live' = live
  BY <1>1 DEF Command, slots
<1>2. ASSUME NEW t \in Runners, AsideStep(t), ~ Spawn(t, "ovpn") PROVE live'["ovpn"] = live["ovpn"]
  <2>1. live' = live \/ \E p \in Tunnels \ {"ovpn"} : \E ids : Runs(p, ids)
    BY <1>2 DEF AsideStep, CheckSocks, StopOutline, TorBypass, SocksProbe, OutlineUp, WgLink,
       Spawn, OvpnWait, PptpWait, Forget, slots, Tunnels
  <2>. QED BY <2>1 DEF Runs, HelperTypes, Tunnels
<1>3. ASSUME NEW t \in Runners, Spawn(t, "ovpn")
      PROVE  id \in live["ovpn"] \/ (At(t, "up", "ovpn")' /\ hand'[t].id = id)
  <2>1. At(t, "spawn", "ovpn") /\ UNCHANGED hand BY <1>3 DEF Spawn
  <2>2. CASE UNCHANGED live BY <2>2
  <2>3. CASE Runs("ovpn", live["ovpn"] \cup {hand[t].id}) /\ Proceed(t)
    <3>1. id \in live["ovpn"] \/ id = hand[t].id BY <2>3 DEF Runs, HelperTypes, Tunnels
    <3>2. todo'[t] = Tail(todo[t]) BY <2>1, <2>3, ProceedTypes
    <3>3. /\ todo[t] # <<>> /\ Head(todo[t]) = <<"spawn", "ovpn">> /\ ListOK(t, todo[t])
      BY <2>1, StepTaken DEF HelperTypes
    <3>4. Tail(todo[t]) # <<>> /\ Head(Tail(todo[t])) = <<"up", "ovpn">> BY <3>3, SpawnThenUp
    <3>5. At(t, "up", "ovpn")' BY <3>2, <3>4 DEF At, Idle
    <3>. QED BY <2>1, <3>1, <3>5
  <2>. QED BY <1>3, <2>2, <2>3 DEF Spawn
<1>4. CASE ProcessDies BY <1>4 DEF ProcessDies, HelperTypes, Tunnels
<1>5. CASE WatchdogLook \/ Signal \/ Restart \/ AppDies \/ UNCHANGED vars
  BY <1>5 DEF WatchdogLook, Signal, Restart, AppDies, vars, slots
<1>. QED BY <1>1, <1>2, <1>3, <1>4, <1>5 DEF QuietStep

LEMMA OvpnKept ==
    ASSUME HelperAssumption, HelperTypes, HelperInv, OvpnKnown, [Next]_vars
    PROVE  OvpnKnown'
<1>1. CASE QuietStep
  <2>1. \A h : HandleOf("ovpn", h) => HandleOf("ovpn", h)' BY <1>1, HandleQuiet DEF Guarded
  <2>2. SUFFICES ASSUME NEW id \in live'["ovpn"]
                 PROVE  \/ \E h : HandleOf("ovpn", h)' /\ h.id = id
                        \/ \E t \in Runners : At(t, "up", "ovpn")' /\ hand'[t].id = id
    BY DEF OvpnKnown
  <2>3. CASE id \in live["ovpn"]
    <3>1. CASE \E h : HandleOf("ovpn", h) /\ h.id = id BY <2>1, <3>1
    <3>2. ASSUME NEW t \in Runners, At(t, "up", "ovpn"), hand[t].id = id
          PROVE  At(t, "up", "ovpn")' /\ hand'[t].id = id
      BY <1>1, <3>2, ComingQuiet
    <3>. QED BY <2>3, <3>1, <3>2 DEF OvpnKnown
  <2>. QED BY <1>1, <2>3, OvpnQuiet
<1>2. CASE Exit BY <1>2 DEF Exit, OvpnKnown, Tunnels
<1>3. ASSUME NEW t \in Runners, NEW p \in Tunnels, Take(t, p) PROVE OvpnKnown'
  <2>1. \A h : HandleOf("ovpn", h) => HandleOf("ovpn", h)' BY <1>3, HandleTake DEF Guarded
  <2>2. \A u \in Runners : At(u, "up", "ovpn") => u # t BY <1>3 DEF Take, At
  <2>3. \A u \in Runners \ {t} : todo'[u] = todo[u] /\ hand'[u] = hand[u]
    BY <1>3, ProceedTypes DEF Take, HelperTypes
  <2>4. live' = live BY <1>3 DEF Take
  <2>. QED BY <2>1, <2>2, <2>3, <2>4 DEF OvpnKnown, At, Idle
<1>4. ASSUME NEW t \in Runners, NEW p \in Tunnels, UndoStep(t, p) PROVE OvpnKnown'
  <2>1. CASE p = "ovpn"
    <3>1. live'["ovpn"] = {} BY <1>4, <2>1 DEF UndoStep, Undo, Runs, HelperTypes, Tunnels
    <3>. QED BY <3>1 DEF OvpnKnown
  <2>2. CASE p # "ovpn"
    <3>1. \A h : HandleOf("ovpn", h) => HandleOf("ovpn", h)'
      BY <1>4, <2>2, HandleUndo DEF Guarded
    <3>2. live'["ovpn"] = live["ovpn"]
      BY <1>4, <2>2 DEF UndoStep, UndoSocks, Undo, Runs, HelperTypes, Tunnels
    <3>3. At(t, "undo", p) /\ Proceed(t) /\ hand' = [hand EXCEPT ![t].taken = {}]
      BY <1>4 DEF UndoStep, UndoSocks, Undo
    <3>4. \A u \in Runners : At(u, "up", "ovpn") => u # t BY <3>3 DEF At
    <3>5. \A u \in Runners \ {t} : todo'[u] = todo[u] /\ hand'[u] = hand[u]
      BY <3>3, ProceedTypes DEF HelperTypes
    <3>. QED BY <3>1, <3>2, <3>4, <3>5 DEF OvpnKnown, At, Idle
  <2>. QED BY <2>1, <2>2
<1>5. ASSUME NEW t \in Runners, NEW p \in Tunnels, StoreStep(t, p) PROVE OvpnKnown'
  <2>1. \A h : ~ HandleOf("ovpn", h) BY <1>5, UpFindsNothing, NoHandle DEF Guarded
  <2>2. t \in Threads /\ ~ Idle(t) BY <1>5, UpFindsNothing, StoreFrame DEF At
  <2>3. \A u \in Runners : At(u, "up", "ovpn") => u = t
    <3> SUFFICES ASSUME NEW u \in Runners, At(u, "up", "ovpn") PROVE u = t OBVIOUS
    <3>1. <<"up", "ovpn">> \in StepsOf(u) /\ ~ Idle(u) BY StepTaken DEF HelperTypes
    <3>2. <<"up", "ovpn">> \notin MainSteps \cup WatchdogSteps BY DEF MainSteps, WatchdogSteps
    <3>3. u \in Threads BY <3>1, <3>2, ThreadsOnly
    <3>. QED BY <2>2, <3>1, <3>3 DEF HelperInv, OneCommand
  <2>4. \A id \in live["ovpn"] : At(t, "up", "ovpn") /\ id = hand[t].id
    BY <2>1, <2>3 DEF OvpnKnown
  <2>5. live'["ovpn"] = live["ovpn"]
    BY <1>5 DEF StoreStep, WgUp, PppUp, Runs, HelperTypes, Tunnels
  <2>6. CASE p = "ovpn"
    <3>1. PICK h : Store("ovpn", h) /\ h.id = hand[t].id
      BY <1>5, <2>6 DEF StoreStep, PppUp, NewHandle
    <3>2. slot'["ovpn"] = {h} BY <3>1 DEF Store, HelperTypes, Tunnels
    <3>3. HandleOf("ovpn", h)' BY <3>2 DEF HandleOf
    <3>. QED BY <2>4, <2>5, <3>1, <3>3 DEF OvpnKnown
  <2>7. CASE p # "ovpn"
    <3>1. PICK name \in Names : At(t, "up", name) /\ KindOf(name) = p BY <1>5, StoreFrame
    <3>2. ~ At(t, "up", "ovpn") BY <2>7, <3>1 DEF KindOf, At
    <3>. QED BY <2>4, <2>5, <3>2 DEF OvpnKnown
  <2>. QED BY <2>6, <2>7
<1>. QED BY <1>1, <1>2, <1>3, <1>4, <1>5, NextByHandles
LEMMA SsTail ==
    ASSUME HelperTypes, SsEmptied, NEW t \in Runners, NEW do, NEW on, At(t, do, on), do # "stop",
           Proceed(t), slot'["ss"] = slot["ss"]
    PROVE  SsEmptied'
<1>1. /\ todo[t] # <<>> /\ Head(todo[t]) = <<do, on>> /\ ListOK(t, todo[t])
  BY StepTaken DEF HelperTypes
<1>2. todo'[t] = Tail(todo[t]) /\ \A u \in Runners \ {t} : todo'[u] = todo[u] BY ProceedTypes
<1>3. Has(Tail(todo[t]), "up", "ss") => Has(todo[t], "up", "ss") BY <1>1, HasRest
<1>4. Has(todo[t], "stop", "ss") => Has(Tail(todo[t]), "stop", "ss") BY <1>1, HasRest
<1>. QED BY <1>2, <1>3, <1>4 DEF SsEmptied, Runners

\* sslocal is only spawned into an empty slot.
LEMMA SsUp ==
    ASSUME HelperAssumption, HelperTypes, HelperInv, SsKnown, SsEmptied, NEW t \in Runners, OutlineUp(t)
    PROVE  SsKnown' /\ SsEmptied'
<1>1. At(t, "up", "ss") /\ (Proceed(t) \/ GiveUp(t)) BY DEF OutlineUp
<1>2. /\ todo[t] # <<>> /\ Head(todo[t]) = <<"up", "ss">> /\ ListOK(t, todo[t]) /\ ~ Idle(t)
      /\ <<"up", "ss">> \in StepsOf(t)
  BY <1>1, StepTaken DEF HelperTypes
<1>3. t \in Threads
  <2>1. <<"up", "ss">> \notin MainSteps \cup WatchdogSteps BY DEF MainSteps, WatchdogSteps
  <2>. QED BY <1>2, <2>1, ThreadsOnly
<1>4. ~ Has(todo[t], "stop", "ss") /\ ~ Has(Tail(todo[t]), "up", "ss") BY <1>2, SsUpIsLast
<1>5. Has(todo[t], "up", "ss") BY <1>2, HasRest
<1>6. slot["ss"] = {} BY <1>3, <1>4, <1>5 DEF SsEmptied
<1>7. live["ss"] = {} BY <1>6 DEF SsKnown, HelperTypes
<1>8. \A u \in Runners \ {t} : todo'[u] = todo[u] BY <1>1, ProceedTypes, GiveUpTypes
<1>9. todo'[t] \in {<<>>, Tail(todo[t])} BY <1>1, ProceedTypes, GiveUpTypes
<1>10. \A u \in Threads : ~ Has(todo'[u], "up", "ss")
  <2>1. \A u \in Threads \ {t} : todo'[u] = <<>>
    BY <1>2, <1>3, <1>8 DEF HelperInv, OneCommand, Idle, Runners
  <2>. QED BY <1>4, <1>9, <2>1, EmptyList
<1>11. SsEmptied' BY <1>10 DEF SsEmptied
<1>12. SsKnown'
  <2>1. CASE UNCHANGED <<live, slot>> BY <2>1 DEF SsKnown
  <2>2. CASE Runs("ss", live["ss"] \cup {hand[t].id}) /\ Store("ss", NewHandle(t, "none"))
    <3>1. live'["ss"] = {hand[t].id} BY <1>7, <2>2 DEF Runs, HelperTypes, Tunnels
    <3>2. slot'["ss"] = {NewHandle(t, "none")} BY <2>2 DEF Store, HelperTypes, Tunnels
    <3>3. NewHandle(t, "none").id = hand[t].id BY DEF NewHandle
    <3>. QED BY <3>1, <3>2, <3>3 DEF SsKnown
  <2>. QED BY <2>1, <2>2 DEF OutlineUp
<1>. QED BY <1>11, <1>12

LEMMA SsAside ==
    ASSUME HelperAssumption, HelperTypes, HelperInv, SsKnown, SsEmptied, NEW t \in Runners, AsideStep(t)
    PROVE  SsKnown' /\ SsEmptied'
<1>1. PICK rest : Advances(t, rest) BY AsideAdvances
<1>2. todo'[t] = rest /\ \A u \in Runners \ {t} : todo'[u] = todo[u] BY <1>1, AdvanceLists
<1>3. CASE StopOutline(t)
  <2>1. slot'["ss"] = {} BY <1>3 DEF StopOutline, HelperTypes, Tunnels
  <2>2. live'["ss"] = {id \in live["ss"] : \A h \in slot["ss"] : id # h.id}
    BY <1>3 DEF StopOutline, Runs, HelperTypes, Tunnels
  <2>3. live'["ss"] = {} BY <2>2 DEF SsKnown
  <2>. QED BY <2>1, <2>3 DEF SsKnown, SsEmptied
<1>4. CASE ~ OutlineUp(t) /\ ~ StopOutline(t)
  <2>1. slot'["ss"] = slot["ss"]
    BY <1>4 DEF AsideStep, CheckSocks, TorBypass, SocksProbe, WgLink, Spawn, OvpnWait, PptpWait,
       Forget, slots
  <2>2. live' = live \/ \E p \in Tunnels \ {"ss"} : \E ids : Runs(p, ids)
    BY <1>4 DEF AsideStep, CheckSocks, TorBypass, SocksProbe, WgLink, Spawn, OvpnWait, PptpWait,
       Forget, slots, Tunnels
  <2>3. live'["ss"] = live["ss"] BY <2>2 DEF Runs, HelperTypes, Tunnels
  <2>4. ~ At(t, "stop", "ss")
    BY <1>4 DEF AsideStep, CheckSocks, TorBypass, SocksProbe, SocksUp, WgLink, Spawn, OvpnWait,
       PptpWait, Forget, At
  <2>5. ~ Idle(t) /\ Leads(todo[t], rest) BY <1>1 DEF Advances
  <2>6. Has(rest, "up", "ss") => /\ Has(todo[t], "up", "ss")
                                 /\ Has(todo[t], "stop", "ss") => Has(rest, "stop", "ss")
    BY <2>4, <2>5 DEF Leads, At
  <2>7. SsEmptied' BY <1>2, <2>1, <2>6 DEF SsEmptied, Runners
  <2>. QED BY <2>1, <2>3, <2>7 DEF SsKnown
<1>. QED BY <1>3, <1>4, SsUp

LEMMA SsKept ==
    ASSUME HelperAssumption, HelperTypes, HelperInv, SsKnown, SsEmptied, [Next]_vars
    PROVE  SsKnown' /\ SsEmptied'
<1>1. ASSUME NEW t \in Threads, NEW app \in Apps, NEW cmd \in Offered, Command(t, app, cmd)
      PROVE  SsKnown' /\ SsEmptied'
  <2>1. /\ Turn(t, Program(cmd)) /\ UNCHANGED <<live, slot>> /\ t \in Runners
        /\ cmd \in Starts \cup Stops \cup Splits
    BY <1>1 DEF Command, slots, Runners, HelperAssumption
  <2>2. todo'[t] = Program(cmd) /\ \A u \in Runners \ {t} : todo'[u] = todo[u]
    BY <2>1 DEF Turn, HelperTypes, Lists
  <2>3. Has(Program(cmd), "up", "ss") => Has(Program(cmd), "stop", "ss")
    BY <2>1, Programs, StartPlans, StopPlans, SplitPrograms, EmptyList
  <2>. QED BY <2>1, <2>2, <2>3 DEF SsKnown, SsEmptied, Runners
<1>2. ASSUME NEW t \in Runners, NEW p \in Tunnels, Take(t, p) PROVE SsKnown' /\ SsEmptied'
  <2>1. At(t, "take", p) /\ Proceed(t) BY <1>2 DEF Take
  <2>2. p # "ss" BY <2>1, TakeIsGuarded DEF Guarded, HelperTypes
  <2>3. live' = live /\ slot'["ss"] = slot["ss"] BY <1>2, <2>2 DEF Take, HelperTypes, Tunnels
  <2>. QED BY <2>1, <2>3, SsTail DEF SsKnown
<1>3. ASSUME NEW t \in Runners, NEW p \in Tunnels, UndoStep(t, p) PROVE SsKnown' /\ SsEmptied'
  <2>1. At(t, "undo", p) /\ Proceed(t) BY <1>3 DEF UndoStep, UndoSocks, Undo
  <2>2. p # "ss" BY <2>1, TakeIsGuarded DEF Guarded, HelperTypes
  <2>3. live'["ss"] = live["ss"] /\ slot' = slot
    BY <1>3, <2>2 DEF UndoStep, UndoSocks, Undo, Runs, HelperTypes, Tunnels
  <2>. QED BY <2>1, <2>3, SsTail DEF SsKnown
<1>4. ASSUME NEW t \in Runners, NEW p \in Tunnels, StoreStep(t, p) PROVE SsKnown' /\ SsEmptied'
  <2>1. PICK name \in Names : At(t, "up", name) BY <1>4, StoreFrame
  <2>2. Proceed(t) /\ p # "ss" BY <1>4, StoreFrame DEF Guarded
  <2>3. PICK h : Store(p, h) BY <1>4, StoreFrame
  <2>4. slot'["ss"] = slot["ss"] BY <2>2, <2>3 DEF Store, HelperTypes, Tunnels
  <2>5. live' = live \/ Runs("socks", live["socks"] \cup {hand[t].id})
    BY <1>4 DEF StoreStep, WgUp, PppUp
  <2>6. live'["ss"] = live["ss"] BY <2>5 DEF Runs, HelperTypes, Tunnels
  <2>. QED BY <2>1, <2>2, <2>4, <2>6, SsTail DEF SsKnown
<1>5. ASSUME NEW t \in Runners, AsideStep(t) PROVE SsKnown' /\ SsEmptied'
  BY <1>5, SsAside
<1>6. CASE WatchdogLook \/ Signal
  <2>1. UNCHANGED <<live, slot>> BY <1>6 DEF WatchdogLook, Signal, slots
  <2>2. \A u \in Threads : todo'[u] = todo[u]
    BY <1>6 DEF WatchdogLook, Signal, Turn, HelperTypes, Lists, Runners, HelperAssumption
  <2>. QED BY <2>1, <2>2 DEF SsKnown, SsEmptied
<1>7. CASE Exit BY <1>7, EmptyList DEF Exit, SsKnown, SsEmptied, Tunnels, Runners
<1>8. CASE ProcessDies
  <2>1. slot' = slot /\ todo' = todo /\ live'["ss"] \subseteq live["ss"]
    BY <1>8 DEF ProcessDies, HelperTypes, Tunnels
  <2>. QED BY <2>1 DEF SsKnown, SsEmptied
<1>9. CASE Restart \/ AppDies \/ UNCHANGED vars
  BY <1>9 DEF Restart, AppDies, vars, slots, SsKnown, SsEmptied
<1>. QED BY <1>1, <1>2, <1>3, <1>4, <1>5, <1>6, <1>7, <1>8, <1>9, NextKinds

\* The slot of Outline keeps a child and nothing of the host.
LEMMA SsSlot ==
    ASSUME HelperAssumption, HelperTypes, [Next]_vars
    PROVE  slot'["ss"] \subseteq slot["ss"] \/ \E t \in Runners : slot'["ss"] = {NewHandle(t, "none")}
<1>1. ASSUME NEW t \in Threads, NEW app \in Apps, NEW cmd \in Offered, Command(t, app, cmd)
      PROVE  slot' = slot
  BY <1>1 DEF Command, slots
<1>2. ASSUME NEW t \in Runners, NEW p \in Tunnels, Take(t, p) PROVE slot'["ss"] \subseteq slot["ss"]
  BY <1>2 DEF Take, HelperTypes, Tunnels
<1>3. ASSUME NEW t \in Runners, NEW p \in Tunnels, UndoStep(t, p) PROVE slot' = slot
  BY <1>3 DEF UndoStep, UndoSocks, Undo
<1>4. ASSUME NEW t \in Runners, NEW p \in Tunnels, StoreStep(t, p) PROVE slot'["ss"] = slot["ss"]
  <2>1. p # "ss" BY <1>4, StoreFrame DEF Guarded
  <2>2. PICK h : Store(p, h) BY <1>4, StoreFrame
  <2>. QED BY <2>1, <2>2 DEF Store, HelperTypes, Tunnels
<1>5. ASSUME NEW t \in Runners, AsideStep(t)
      PROVE  slot'["ss"] \subseteq slot["ss"] \/ slot'["ss"] = {NewHandle(t, "none")}
  <2>1. slot' = slot \/ Store("ss", NewHandle(t, "none")) \/ slot' = [slot EXCEPT !["ss"] = {}]
    BY <1>5 DEF AsideStep, CheckSocks, StopOutline, TorBypass, SocksProbe, OutlineUp, WgLink, Spawn,
       OvpnWait, PptpWait, Forget, slots
  <2>. QED BY <2>1 DEF Store, HelperTypes, Tunnels
<1>6. CASE Exit BY <1>6 DEF Exit, Tunnels
<1>7. CASE WatchdogLook \/ Signal \/ Restart \/ ProcessDies \/ AppDies \/ UNCHANGED vars
  BY <1>7 DEF WatchdogLook, Signal, Restart, ProcessDies, AppDies, vars, slots
<1>. QED BY <1>1, <1>2, <1>3, <1>4, <1>5, <1>6, <1>7, NextKinds

SsPlain == \A h \in slot["ss"] : h.guard = "none"

LEMMA SsPlainKept == ASSUME HelperAssumption, HelperTypes, SsPlain, [Next]_vars PROVE SsPlain'
<1>1. \A t : NewHandle(t, "none").guard = "none" BY DEF NewHandle
<1>. QED BY <1>1, SsSlot DEF SsPlain

-----------------------------------------------------------------------------
(***************************************************************************)
(* The theorems.                                                           *)
(***************************************************************************)

LEMMA InvAlways == Spec => [](HelperTypes /\ HelperInv)
<1>. USE HelperAssumption
<1>1. Init => HelperTypes /\ HelperInv BY TypesInit, InvInit
<1>2. HelperTypes /\ HelperInv /\ [Next]_vars => (HelperTypes /\ HelperInv)'
  BY HelperTypesKept, HelperInvKept
<1>. QED BY <1>1, <1>2, PTL DEF Spec

LEMMA InitHeld == ASSUME HelperAssumption, Init PROVE Held = {} /\ StrayInv /\ SsPlain
<1>1. Held = {} BY InitClean, InvInit, HeldIsDirty
<1>2. \A p \in Tunnels : live[p] = {} /\ slot[p] = {} BY DEF Init
<1>. QED BY <1>1, <1>2 DEF StrayInv, SocksKnown, OvpnKnown, SsKnown, SsEmptied, SsPlain, Tunnels

\* Every variable of the daemon has its type, whatever the clients ask for: a slot
\* holds one handle at most.
THEOREM HelperTypeCorrect == Spec => []TypeOK
<1>1. HelperTypes => TypeOK
  <2> SUFFICES ASSUME HelperTypes PROVE TypeOK OBVIOUS
  <2>1. \A p \in Tunnels : Cardinality(slot[p]) <= 1
    <3> SUFFICES ASSUME NEW p \in Tunnels PROVE Cardinality(slot[p]) <= 1 OBVIOUS
    <3>1. CASE slot[p] = {} BY <3>1, FS_EmptySet
    <3>2. CASE slot[p] # {}
      <4>1. PICK h : h \in slot[p] BY <3>2
      <4>2. slot[p] = {h} BY <4>1 DEF HelperTypes, Alone
      <4>3. Cardinality({h}) = 1 BY FS_Singleton
      <4>. QED BY <4>2, <4>3
    <3>. QED BY <3>1, <3>2
  <2>. QED BY <2>1 DEF HelperTypes, TypeOK
<1>. QED BY <1>1, InvAlways, PTL

\* While a tunnel that blocked IPv6 is recorded in its slot, IPv6 is blocked
\* (leak_protect.rs): no stop, start, signal or watchdog lifts the block of another
\* tunnel, whichever commands follow one another.
THEOREM NothingLeaks == Spec => []NoLeak
<1>. USE HelperAssumption
<1>1. Init => LeakInv /\ SsPlain BY InitHeld DEF LeakInv
<1>2. HelperTypes /\ HelperInv /\ LeakInv /\ SsPlain /\ [Next]_vars => (LeakInv /\ SsPlain)'
  BY LeakKept, SsPlainKept
<1>3. LeakInv /\ SsPlain => NoLeak
  BY InHeld DEF LeakInv, SsPlain, NoLeak, Tunnels, Guarded
<1>. QED BY <1>1, <1>2, <1>3, InvAlways, PTL DEF Spec

\* When nothing is under way and no tunnel is recorded, IPv6, the resolver and the
\* route to the server are as they were found, whatever was started, stopped, killed
\* or restarted before, as long as no route of an IPv6 tunnel is refused
\* (wireguard.rs:584 then drops the guard it has just been given).
THEOREM HostIsAsFound ==
    ASSUME ~ RoutesFail
    PROVE  Spec => []HostAsFound
<1>. USE HelperAssumption
<1>1. Init => HostInvs
  <2> SUFFICES ASSUME Init PROVE HostInvs OBVIOUS
  <2>1. ipv6 /\ resolver = "own" /\ ~ pinned BY DEF Init
  <2>. QED BY <2>1, InitHeld, HostNothingHeld DEF HostInvs, PlainInv
<1>2. HelperTypes /\ HelperInv /\ HostInvs /\ [Next]_vars => HostInvs'
  BY HostKept
<1>3. HelperInv /\ HostInvs => HostAsFound
  <2> SUFFICES ASSUME HelperInv, HostInvs, Quiet, \A p \in Tunnels : slot[p] = {}
               PROVE  ipv6 /\ resolver = "own" /\ ~ pinned
    BY DEF HostAsFound
  <2>1. \A p \in Guarded : ~ Dirty(p) BY DEF Dirty, Quiet, At, Guarded, Tunnels
  <2>. QED BY <2>1, HeldIsDirty, HostNothingHeld DEF HostInvs
<1>. QED BY <1>1, <1>2, <1>3, InvAlways, PTL DEF Spec

\* When nothing is under way, no worker, no openvpn and no sslocal runs that its slot
\* does not know: no start overwrites a slot that still has a child in it.
THEOREM NothingIsStray == Spec => []NothingStray
<1>. USE HelperAssumption
<1>1. Init => StrayInv BY InitHeld
<1>2. HelperTypes /\ HelperInv /\ StrayInv /\ [Next]_vars => StrayInv'
  BY SocksKept, OvpnKept, SsKept DEF StrayInv
<1>3. StrayInv => NothingStray
  <2> SUFFICES ASSUME StrayInv, Quiet, NEW p \in {"socks", "ovpn", "ss"}
               PROVE  live[p] \subseteq {h.id : h \in slot[p]}
    BY DEF NothingStray
  <2>1. \A t \in Runners : \A do, on : ~ At(t, do, on) BY DEF Quiet, At
  <2>. QED BY <2>1 DEF StrayInv, SocksKnown, OvpnKnown, SsKnown, HandleOf
<1>. QED BY <1>1, <1>2, <1>3, InvAlways, PTL DEF Spec
=============================================================================
