------------------------------ MODULE LeasePool ------------------------------
(***************************************************************************)
(* What the control server promises about the addresses of the tunnel      *)
(* subnet, without sessions, packets or files: an address is granted to    *)
(* one client for Ttl, the grant is extended only before it ends, and      *)
(* until it ends nobody else is granted the address.                       *)
(***************************************************************************)
EXTENDS Integers

CONSTANTS Clients, Hosts, Ttl

VARIABLES now,    \* the clock
          owner,  \* the client each address is granted to: {} or {client}
          until   \* when the grant ends

vars == <<now, owner, until>>

Init ==
    /\ now \in Nat
    /\ owner = [h \in Hosts |-> {}]
    /\ until = [h \in Hosts |-> 0]

Lapsed == {h \in Hosts : until[h] <= now}

OwnedBy(c) == {h \in Hosts : owner[h] = {c}}

\* The addresses of taken become free and those of given become c's for Ttl.
Reassign(taken, given, c) ==
    /\ owner' = [h \in Hosts |-> IF h \in given THEN {c}
                                 ELSE IF h \in taken THEN {} ELSE owner[h]]
    /\ until' = [h \in Hosts |-> IF h \in given THEN now + Ttl
                                 ELSE IF h \in taken THEN 0 ELSE until[h]]
    /\ UNCHANGED now

Lapse == \E c \in Clients : Reassign(Lapsed, {}, c)

\* A client gives its own address up; what has lapsed goes with it.
Release(c) == Reassign(Lapsed \cup OwnedBy(c), {}, c)

\* A client is granted an address that nobody else holds, and no second one.
Grant(c, h) ==
    /\ h \in Lapsed \cup OwnedBy(c)
    /\ Reassign(Lapsed \cup OwnedBy(c), {h}, c)

Renew(c, h) ==
    /\ h \in OwnedBy(c) \ Lapsed
    /\ Reassign(Lapsed, {h}, c)

\* A lockdown, or the end of the server, takes every address back.
Revoke == \E c \in Clients : Reassign(Hosts, {}, c)

Pass == now' > now /\ UNCHANGED <<owner, until>>

Next ==
    \/ Lapse \/ Revoke \/ Pass
    \/ \E c \in Clients : Release(c) \/ \E h \in Hosts : Grant(c, h) \/ Renew(c, h)

Spec == Init /\ [][Next]_vars

==============================================================================
