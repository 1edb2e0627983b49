-------------------------- MODULE RateLimitJournal --------------------------
(***************************************************************************)
(* The failed-login journal of the control server                          *)
(* (crates/core/src/auth.rs), as operators on a journal value.  The daemon *)
(* keeps one journal in memory and one in the state file; AuthGate drives  *)
(* the operators alone and ControlServer inside the packet handlers.       *)
(*                                                                         *)
(* A journal's map of failure records is total here: an address the map    *)
(* does not hold reads as the default record, which is what `entry().      *)
(* or_default()` and the `if let Some` guards of the code make of it.  The *)
(* time of a record's last failure and the details of the lockdown record  *)
(* are only displayed and are left out.                                    *)
(***************************************************************************)
EXTENDS Integers, Sequences

CONSTANTS IPs,                      \* the remote addresses that log in
          MaxFailedAttemptsPerIp,   \* failures that start a cooldown
          CooldownSecs,             \* length of a cooldown
          GlobalLockdownThreshold,  \* recent failures the server tolerates
          GlobalLockdownWindow      \* how long a failure counts as recent

ASSUME JournalAssumption ==
    /\ MaxFailedAttemptsPerIp \in Nat \ {0}
    /\ CooldownSecs \in Nat \ {0}
    /\ GlobalLockdownThreshold \in Nat
    /\ GlobalLockdownWindow \in Nat

\* `cooldown_until_unix: None`: no clock reading is below 0.
NoCooldown == 0

IpFailureRecord == [count : Nat, cooldownUntil : Nat]

FailureEvent == [ip : IPs, at : Nat]

Journal == [failures : [IPs -> IpFailureRecord],
            recent   : Seq(FailureEvent),
            banned   : SUBSET IPs,
            lockdown : BOOLEAN]

EmptyJournal ==
    [failures |-> [ip \in IPs |-> [count |-> 0, cooldownUntil |-> NoCooldown]],
     recent   |-> <<>>,
     banned   |-> {},
     lockdown |-> FALSE]

-----------------------------------------------------------------------------

\* A clock behind the event's stamp subtracts to zero in the code, and to a
\* negative number here: neither exceeds the window.
Aged(event, now) == now - event.at > GlobalLockdownWindow

\* Aged events are popped from the front until one that is not is met.
Trimmed(events, now) ==
    LET fresh == {i \in 1 .. Len(events) : ~ Aged(events[i], now)}
        front == CHOOSE i \in fresh : \A k \in fresh : i <= k
    IN  IF fresh = {} THEN <<>> ELSE SubSeq(events, front, Len(events))

TrimRecent(j, now) == [j EXCEPT !.recent = Trimmed(@, now)]

\* `check` refuses, and every refusal it makes is silent.
Refused(j, ip, now) ==
    \/ j.lockdown
    \/ ip \in j.banned
    \/ j.failures[ip].cooldownUntil > now

Offenders(events) == {events[i].ip : i \in 1 .. Len(events)}

\* Variant for the model checker: the limit is passed instead of reached.
FailedOncePastLimit(record, now) ==
    IF record.count + 1 > MaxFailedAttemptsPerIp
    THEN [count |-> 0, cooldownUntil |-> now + CooldownSecs]
    ELSE [record EXCEPT !.count = @ + 1]

\* Variant for the model checker: the count is of the attempts left.
FailedOnceCountsDown(record, now) ==
    IF record.count - 1 = - MaxFailedAttemptsPerIp
    THEN [count |-> 0, cooldownUntil |-> now + CooldownSecs]
    ELSE [record EXCEPT !.count = @ - 1]

\* The record of an address after one more failure: the failure that reaches
\* the limit starts a cooldown and clears the count.
FailedOnce(record, now) ==
    IF record.count + 1 >= MaxFailedAttemptsPerIp
    THEN [count |-> 0, cooldownUntil |-> now + CooldownSecs]
    ELSE [record EXCEPT !.count = @ + 1]

\* Variant for the model checker: the event is pushed to the front.
RegisterFailureInFront(j, ip, now) ==
    LET recent  == <<[ip |-> ip, at |-> now]>> \o TrimRecent(j, now).recent
        tooMany == Len(recent) > GlobalLockdownThreshold
    IN  [failures |-> [j.failures EXCEPT ![ip] = FailedOnce(@, now)],
         recent   |-> recent,
         banned   |-> j.banned \cup (IF tooMany THEN Offenders(recent) ELSE {}),
         lockdown |-> j.lockdown \/ tooMany]

\* Variant for the model checker: a lockdown bans the last offender only.
RegisterFailureBansOne(j, ip, now) ==
    LET recent  == Append(TrimRecent(j, now).recent, [ip |-> ip, at |-> now])
        tooMany == Len(recent) > GlobalLockdownThreshold
    IN  [failures |-> [j.failures EXCEPT ![ip] = FailedOnce(@, now)],
         recent   |-> recent,
         banned   |-> j.banned \cup (IF tooMany THEN {ip} ELSE {}),
         lockdown |-> j.lockdown \/ tooMany]

RegisterFailure(j, ip, now) ==
    LET recent  == Append(TrimRecent(j, now).recent, [ip |-> ip, at |-> now])
        tooMany == Len(recent) > GlobalLockdownThreshold
    IN  [failures |-> [j.failures EXCEPT ![ip] = FailedOnce(@, now)],
         recent   |-> recent,
         banned   |-> j.banned \cup (IF tooMany THEN Offenders(recent) ELSE {}),
         lockdown |-> j.lockdown \/ tooMany]

RegisterSuccess(j, ip) ==
    [j EXCEPT !.failures[ip] = [count |-> 0, cooldownUntil |-> NoCooldown]]

Unlock(j) == [j EXCEPT !.lockdown = FALSE]

Unban(j, ip) == [j EXCEPT !.banned = @ \ {ip}]

=============================================================================
