------------------------------ MODULE AuthGate ------------------------------
(***************************************************************************)
(* The login gate of the control server seen on its own: the journal, the  *)
(* clock and the operator.  Each login takes `check` first and, when it is *)
(* let through, exactly one of `register_failure` and `register_success`,  *)
(* in the order of the AuthAttempt arm of handle_packet.  The gate lives   *)
(* in one process and its handlers do not interleave; what crashes, files  *)
(* and a second process do to the journal is in ControlServer.             *)
(***************************************************************************)
EXTENDS RateLimitJournal

CONSTANTS Horizon,      \* TLC only: the last clock reading
          UnlockBudget  \* TLC only: how often the operator unlocks

ASSUME BoundAssumption == Horizon \in Nat /\ UnlockBudget \in Nat

VARIABLES now,      \* unix_now(), which does not run backwards here
          journal,  \* ServerRuntime.journal
          failed,   \* history: when each address failed since it last succeeded
          unlocks   \* history: how often the operator unlocked

vars == <<now, journal, failed, unlocks>>

Init ==
    /\ now = 0
    /\ journal = EmptyJournal
    /\ failed = [ip \in IPs |-> <<>>]
    /\ unlocks = 0

\* Variant for the model checker: a dropped attempt counts as a failure.
DropCounted(ip) ==
    /\ Refused(journal, ip, now)
    /\ journal' = RegisterFailure(journal, ip, now)
    /\ UNCHANGED <<now, failed, unlocks>>

\* Refused without an answer: only the trim of `check` is left behind.
Drop(ip) ==
    /\ Refused(journal, ip, now)
    /\ journal' = TrimRecent(journal, now)
    /\ UNCHANGED <<now, failed, unlocks>>

Fail(ip) ==
    /\ ~ Refused(journal, ip, now)
    /\ journal' = RegisterFailure(TrimRecent(journal, now), ip, now)
    /\ failed' = [failed EXCEPT ![ip] = Append(@, now)]
    /\ UNCHANGED <<now, unlocks>>

Succeed(ip) ==
    /\ ~ Refused(journal, ip, now)
    /\ journal' = RegisterSuccess(TrimRecent(journal, now), ip)
    /\ failed' = [failed EXCEPT ![ip] = <<>>]
    /\ UNCHANGED <<now, unlocks>>

OperatorUnlocks ==
    /\ journal.lockdown
    /\ unlocks < UnlockBudget
    /\ journal' = Unlock(journal)
    /\ unlocks' = unlocks + 1
    /\ UNCHANGED <<now, failed>>

OperatorUnbans(ip) ==
    /\ ip \in journal.banned
    /\ journal' = Unban(journal, ip)
    /\ UNCHANGED <<now, failed, unlocks>>

Tick ==
    /\ now < Horizon
    /\ now' = now + 1
    /\ UNCHANGED <<journal, failed, unlocks>>

Next ==
    \/ \E ip \in IPs : Drop(ip) \/ Fail(ip) \/ Succeed(ip) \/ OperatorUnbans(ip)
    \/ OperatorUnlocks
    \/ Tick

Spec == Init /\ [][Next]_vars

-----------------------------------------------------------------------------

(***************************************************************************)
(* Type invariant.                                                         *)
(***************************************************************************)
TypeOK ==
    /\ now \in Nat
    /\ journal \in Journal
    /\ failed \in [IPs -> Seq(Nat)]
    /\ unlocks \in Nat

(***************************************************************************)
(* The guessing budget that the cooldown is for: between two successes, an *)
(* address gets at most MaxFailedAttemptsPerIp wrong passwords evaluated   *)
(* in any CooldownSecs seconds, wherever that window starts.  The count    *)
(* has no memory of when its failures happened and the cooldown restarts   *)
(* it, so this rests on the order of both and not on either.               *)
(***************************************************************************)
FailureBudget ==
    \A ip \in IPs : \A i \in 1 .. Len(failed[ip]) :
        i + MaxFailedAttemptsPerIp <= Len(failed[ip]) =>
            failed[ip][i + MaxFailedAttemptsPerIp] >= failed[ip][i] + CooldownSecs

(***************************************************************************)
(* trim_recent pops from the front only: that drops every aged event and   *)
(* nothing else because the events are in the order of their stamps.       *)
(***************************************************************************)
RecentOrdered ==
    LET r == journal.recent
    IN  \A i, k \in 1 .. Len(r) : i <= k => r[i].at <= r[k].at /\ r[k].at <= now

(***************************************************************************)
(* The failure log, which every refused packet writes to disk, is bounded: *)
(* the lockdown stops it one event past the threshold, and each time the   *)
(* operator unlocks with the log still full, one more failure gets in      *)
(* before the gate locks again.                                            *)
(***************************************************************************)
LogBounded ==
    Len(journal.recent) <=
        GlobalLockdownThreshold + unlocks + (IF journal.lockdown THEN 1 ELSE 0)

\* The log of failures stays sound, in its order and in its size.
LogKept == RecentOrdered /\ LogBounded

(***************************************************************************)
(* A lockdown is the answer to more than GlobalLockdownThreshold failures  *)
(* that all happened within the window, and it bans each of their          *)
(* addresses, those that are merely in a cooldown included.                *)
(***************************************************************************)
LockdownJustified ==
    [][ (~ journal.lockdown /\ journal'.lockdown) =>
          /\ Len(journal'.recent) > GlobalLockdownThreshold
          /\ \A i \in 1 .. Len(journal'.recent) :
                /\ now' - journal'.recent[i].at <= GlobalLockdownWindow
                /\ journal'.recent[i].ip \in journal'.banned ]_vars

(***************************************************************************)
(* A cooldown ends when it was announced to end: neither the attempts the  *)
(* gate drops meanwhile nor another address's failures, a lockdown or the  *)
(* operator move it.                                                       *)
(***************************************************************************)
CooldownFixed ==
    [][ \A ip \in IPs :
          LET until == journal.failures[ip].cooldownUntil
          IN  until > now => journal'.failures[ip].cooldownUntil = until ]_vars

=============================================================================
