--------------------------- MODULE AuthGateProofs ---------------------------
(***************************************************************************)
(* Proofs about AuthGate, for every number of addresses, limit, cooldown,  *)
(* threshold and window; first, what the operators of RateLimitJournal do  *)
(* to any journal.                                                         *)
(***************************************************************************)
EXTENDS AuthGate, FiniteSetTheorems, SequenceTheorems, TLAPS

-----------------------------------------------------------------------------
(***************************************************************************)
(* The least-number principle, from the well-foundedness of strict         *)
(* inclusion between finite sets.                                          *)
(***************************************************************************)
LEMMA LeastNatural ==
    ASSUME NEW T \in SUBSET Nat, T # {}
    PROVE  \E m \in T : \A n \in T : m <= n
<1> DEFINE Below(m) == T \cap (0 .. m)
           Family == {Below(m) : m \in T}
<1>1. \A m \in T : Below(m) \in FiniteSubsetsOf(Nat)
  <2>1. ASSUME NEW m \in T PROVE Below(m) \in FiniteSubsetsOf(Nat)
    <3>1. IsFiniteSet(0 .. m) BY FS_Interval
    <3>2. IsFiniteSet(Below(m)) BY <3>1, FS_Subset
    <3>. QED BY <3>2 DEF FiniteSubsetsOf
  <2>. QED BY <2>1
<1>2. PICK A \in Family : \A B \in Family : ~ (<<B, A>> \in StrictSubsetOrdering(Nat))
  <2>1. Family \subseteq FiniteSubsetsOf(Nat) /\ Family # {} BY <1>1
  <2>. QED BY <2>1, FS_StrictSubsetOrderingWellFounded, WFMin
<1>3. PICK m \in T : A = Below(m) BY <1>2
<1>4. ASSUME NEW n \in T, n < m PROVE FALSE
  <2>1. Below(n) \in Family OBVIOUS
  <2>2. Below(n) \subseteq Below(m) /\ m \in Below(m) /\ m \notin Below(n) BY <1>4
  <2>3. <<Below(n), A>> \in StrictSubsetOrdering(Nat)
    BY <2>2, <1>3 DEF StrictSubsetOrdering
  <2>. QED BY <2>1, <2>3, <1>2
<1>. QED BY <1>4

(***************************************************************************)
(* What trim_recent does to any log: it keeps a suffix of the events, cut  *)
(* at the first one that is not aged.                                      *)
(***************************************************************************)
LEMMA TrimmedIsSuffix ==
    ASSUME NEW r \in Seq(FailureEvent), NEW t \in Nat
    PROVE  /\ Trimmed(r, t) \in Seq(FailureEvent)
           /\ \E d \in 0 .. Len(r) :
                 /\ Len(Trimmed(r, t)) = Len(r) - d
                 /\ \A i \in 1 .. Len(Trimmed(r, t)) : Trimmed(r, t)[i] = r[i + d]
                 /\ \A i \in 1 .. d : Aged(r[i], t)
                 /\ d < Len(r) => ~ Aged(r[d + 1], t)
<1> DEFINE fresh == {i \in 1 .. Len(r) : ~ Aged(r[i], t)}
           front == CHOOSE i \in fresh : \A k \in fresh : i <= k
           cut == Trimmed(r, t)
<1>1. Len(r) \in Nat OBVIOUS
<1>2. cut = IF fresh = {} THEN <<>> ELSE SubSeq(r, front, Len(r)) BY DEF Trimmed
<1>3. CASE fresh = {}
  <2>1. cut = <<>> BY <1>2, <1>3
  <2>2. \A i \in 1 .. Len(r) : Aged(r[i], t) BY <1>3
  <2>3. cut \in Seq(FailureEvent) /\ Len(cut) = 0 BY <2>1
  <2> HIDE DEF cut, fresh
  <2>4. /\ Len(r) \in 0 .. Len(r)
        /\ Len(cut) = Len(r) - Len(r)
        /\ \A i \in 1 .. Len(cut) : cut[i] = r[i + Len(r)]
        /\ \A i \in 1 .. Len(r) : Aged(r[i], t)
        /\ Len(r) < Len(r) => ~ Aged(r[Len(r) + 1], t)
    BY <1>1, <2>2, <2>3
  <2>. QED BY <2>3, <2>4 DEF cut
<1>4. CASE fresh # {}
  <2>1. front \in fresh /\ \A k \in fresh : front <= k
    <3>1. fresh \in SUBSET Nat OBVIOUS
    <3>. QED BY <3>1, <1>4, LeastNatural
  <2>2. front \in 1 .. Len(r) /\ ~ Aged(r[front], t) BY <2>1
  <2>3. \A i \in 1 .. (front - 1) : Aged(r[i], t)
    <3>1. \A i \in 1 .. Len(r) : i < front => i \notin fresh
      <4> HIDE DEF front, fresh
      <4>. QED BY <1>1, <2>1, <2>2
    <3> HIDE DEF front
    <3>. QED BY <1>1, <2>2, <3>1
  <2>4. cut = SubSeq(r, front, Len(r)) BY <1>2, <1>4
  <2> HIDE DEF cut, fresh, front
  <2>5. /\ cut \in Seq(FailureEvent)
        /\ Len(cut) = Len(r) - front + 1
        /\ \A i \in 1 .. Len(cut) : cut[i] = r[front + i - 1]
    BY <1>1, <2>2, <2>4, SubSeqProperties
  <2> DEFINE d == front - 1
  <2>6. d \in 0 .. Len(r) /\ d + 1 = front BY <1>1, <2>2
  <2>7. Len(cut) = Len(r) - d BY <1>1, <2>2, <2>5
  <2>8. \A i \in 1 .. Len(cut) : cut[i] = r[i + d]
    <3>1. \A i \in 1 .. Len(cut) : front + i - 1 = i + d BY <2>2, <2>5, <1>1
    <3>. QED BY <3>1, <2>5
  <2>. QED BY <2>2, <2>3, <2>5, <2>6, <2>7, <2>8 DEF cut
<1>. QED BY <1>3, <1>4

(***************************************************************************)
(* Every journal operation yields a journal.                               *)
(***************************************************************************)
LEMMA TrimType ==
    ASSUME NEW j \in Journal, NEW t \in Nat
    PROVE  /\ TrimRecent(j, t) \in Journal
           /\ TrimRecent(j, t).failures = j.failures
           /\ TrimRecent(j, t).banned = j.banned
           /\ TrimRecent(j, t).lockdown = j.lockdown
           /\ TrimRecent(j, t).recent = Trimmed(j.recent, t)
<1>1. j.recent \in Seq(FailureEvent) BY DEF Journal
<1>2. Trimmed(j.recent, t) \in Seq(FailureEvent) BY <1>1, TrimmedIsSuffix
<1>. QED BY <1>2 DEF Journal, TrimRecent

\* What an event in a log of failures is.
LEMMA EventsOfLog ==
    ASSUME NEW r \in Seq(FailureEvent)
    PROVE  Len(r) \in Nat /\ \A i \in 1 .. Len(r) : r[i].ip \in IPs /\ r[i].at \in Nat
<1>1. \A i \in 1 .. Len(r) : r[i] \in FailureEvent OBVIOUS
<1>. QED BY <1>1 DEF FailureEvent

\* A journal with one more failure is a journal.
LEMMA FailureType ==
    ASSUME NEW j \in Journal, NEW ip \in IPs, NEW t \in Nat
    PROVE  RegisterFailure(j, ip, t) \in Journal
<1> DEFINE event == [ip |-> ip, at |-> t]
           recent == Append(TrimRecent(j, t).recent, event)
<1>1. event \in FailureEvent BY DEF FailureEvent
<1>2. recent \in Seq(FailureEvent) BY <1>1, TrimType DEF Journal
<1>3. FailedOnce(j.failures[ip], t) \in IpFailureRecord
  BY SMTT(30), JournalAssumption DEF FailedOnce, Journal, IpFailureRecord
<1>4. Offenders(recent) \subseteq IPs
  <2> HIDE DEF recent
  <2>1. \A i \in 1 .. Len(recent) : recent[i].ip \in IPs
    BY <1>2, EventsOfLog
  <2>. QED BY <2>1 DEF Offenders
<1>5. [j.failures EXCEPT ![ip] = FailedOnce(@, t)] \in [IPs -> IpFailureRecord]
  BY <1>3 DEF Journal
<1>. QED BY <1>2, <1>4, <1>5 DEF RegisterFailure, Journal

\* A journal with one more success is a journal.
LEMMA SuccessType ==
    ASSUME NEW j \in Journal, NEW ip \in IPs
    PROVE  RegisterSuccess(j, ip) \in Journal
BY DEF RegisterSuccess, Journal, IpFailureRecord, NoCooldown

(***************************************************************************)
(* trim_recent and push_back keep the log in the order of its stamps, so   *)
(* a trim leaves no aged event behind.                                     *)
(***************************************************************************)
Ordered(r, t) == \A i, k \in 1 .. Len(r) : i <= k => r[i].at <= r[k].at /\ r[k].at <= t

\* What is left of an ordered log is ordered, no longer, and not aged.
LEMMA TrimmedOrdered ==
    ASSUME NEW r \in Seq(FailureEvent), NEW t \in Nat, Ordered(r, t)
    PROVE  /\ Ordered(Trimmed(r, t), t)
           /\ Len(Trimmed(r, t)) <= Len(r)
           /\ \A i \in 1 .. Len(Trimmed(r, t)) : ~ Aged(Trimmed(r, t)[i], t)
<1> DEFINE cut == Trimmed(r, t)
<1>1. PICK d \in 0 .. Len(r) :
          /\ Len(cut) = Len(r) - d
          /\ \A i \in 1 .. Len(cut) : cut[i] = r[i + d]
          /\ d < Len(r) => ~ Aged(r[d + 1], t)
  BY TrimmedIsSuffix
<1>2. Len(r) \in Nat /\ \A i \in 1 .. Len(r) : r[i].at \in Nat
  BY EventsOfLog
<1> HIDE DEF cut
<1>3. \A i \in 1 .. Len(cut) : i + d \in 1 .. Len(r) BY <1>1, <1>2
<1>4. Ordered(cut, t)
  <2>1. ASSUME NEW i \in 1 .. Len(cut), NEW k \in 1 .. Len(cut), i <= k
        PROVE  cut[i].at <= cut[k].at /\ cut[k].at <= t
    <3>1. i + d \in 1 .. Len(r) /\ k + d \in 1 .. Len(r) /\ i + d <= k + d
      BY <1>1, <1>2, <1>3, <2>1
    <3>. QED BY <1>1, <3>1 DEF Ordered
  <2>. QED BY <2>1 DEF Ordered
<1>5. ASSUME NEW i \in 1 .. Len(cut) PROVE ~ Aged(cut[i], t)
  <2>1. d < Len(r) /\ d + 1 \in 1 .. Len(r) /\ i + d \in 1 .. Len(r) /\ d + 1 <= i + d
    BY <1>1, <1>2, <1>3
  <2>2. r[d + 1].at <= r[i + d].at BY <2>1 DEF Ordered
  <2>3. cut[i] = r[i + d] BY <1>1
  <2>4. r[d + 1].at \in Nat /\ r[i + d].at \in Nat BY <1>2, <2>1
  <2>. QED BY SMTT(30), <1>1, <2>1, <2>2, <2>3, <2>4, JournalAssumption DEF Aged
<1>6. Len(cut) <= Len(r) BY <1>1, <1>2
<1>. QED BY <1>4, <1>5, <1>6 DEF cut

\* An event stamped now goes to the end of an ordered log.
LEMMA AppendOrdered ==
    ASSUME NEW r \in Seq(FailureEvent), NEW t \in Nat, Ordered(r, t), NEW ip \in IPs
    PROVE  Ordered(Append(r, [ip |-> ip, at |-> t]), t)
<1> DEFINE event == [ip |-> ip, at |-> t]
           longer == Append(r, event)
<1>1. event \in FailureEvent /\ event.at = t BY DEF FailureEvent
<1>2. /\ Len(longer) = Len(r) + 1 /\ Len(r) \in Nat
      /\ \A i \in 1 .. Len(r) : longer[i] = r[i]
      /\ longer[Len(r) + 1] = event
  BY <1>1, AppendProperties
<1> HIDE DEF longer, event
<1>3. ASSUME NEW i \in 1 .. Len(longer), NEW k \in 1 .. Len(longer), i <= k
      PROVE  longer[i].at <= longer[k].at /\ longer[k].at <= t
  <2>1. CASE k \in 1 .. Len(r)
    <3>1. i \in 1 .. Len(r) BY <1>2, <1>3, <2>1
    <3>. QED BY <1>2, <1>3, <2>1, <3>1 DEF Ordered
  <2>2. CASE k = Len(r) + 1 /\ i \in 1 .. Len(r)
    BY <1>1, <1>2, <2>2 DEF Ordered
  <2>3. CASE k = Len(r) + 1 /\ i = Len(r) + 1
    BY <1>1, <1>2, <2>3
  <2>. QED BY <1>2, <1>3, <2>1, <2>2, <2>3
<1>. QED BY <1>3 DEF Ordered, longer, event

-----------------------------------------------------------------------------

\* What a failure leaves behind in each field of the journal.
LEMMA FailureEffect ==
    ASSUME NEW j \in Journal, NEW ip \in IPs, NEW t \in Nat
    PROVE  LET k == RegisterFailure(TrimRecent(j, t), ip, t)
               r == Append(Trimmed(Trimmed(j.recent, t), t), [ip |-> ip, at |-> t])
           IN  /\ k.recent = r
               /\ k.lockdown <=> (j.lockdown \/ Len(r) > GlobalLockdownThreshold)
               /\ Len(r) > GlobalLockdownThreshold => Offenders(r) \subseteq k.banned
<1>1. TrimRecent(j, t) \in Journal BY TrimType
<1>2. TrimRecent(TrimRecent(j, t), t).recent = Trimmed(Trimmed(j.recent, t), t)
  BY <1>1, TrimType
<1>3. /\ TrimRecent(j, t).failures = j.failures
      /\ TrimRecent(j, t).lockdown = j.lockdown
  BY TrimType
<1>. QED BY <1>2, <1>3 DEF RegisterFailure

\* A failure changes the record of its own address and of no other.
LEMMA FailureRecords ==
    ASSUME NEW j \in Journal, NEW ip \in IPs, NEW t \in Nat
    PROVE  RegisterFailure(TrimRecent(j, t), ip, t).failures
             = [j.failures EXCEPT ![ip] = FailedOnce(@, t)]
<1>1. TrimRecent(j, t).failures = j.failures BY TrimType
<1>. QED BY <1>1 DEF RegisterFailure

\* An ordered log stays ordered as time passes.
LEMMA OrderedLater ==
    ASSUME NEW r \in Seq(FailureEvent), NEW t \in Nat, Ordered(r, t)
    PROVE  Ordered(r, t + 1)
BY EventsOfLog DEF Ordered

-----------------------------------------------------------------------------

(***************************************************************************)
(* Type correctness.                                                       *)
(***************************************************************************)
THEOREM TypeCorrect == Spec => []TypeOK
<1>1. Init => TypeOK
  BY DEF Init, TypeOK, EmptyJournal, Journal, IpFailureRecord, NoCooldown
<1>2. TypeOK /\ [Next]_vars => TypeOK'
  <2> SUFFICES ASSUME TypeOK, [Next]_vars PROVE TypeOK'
    OBVIOUS
  <2> USE DEF TypeOK
  <2>1. ASSUME NEW ip \in IPs, Drop(ip) PROVE TypeOK'
    BY <2>1, TrimType DEF Drop
  <2>2. ASSUME NEW ip \in IPs, Fail(ip) PROVE TypeOK'
    <3>1. journal' \in Journal BY <2>2, TrimType, FailureType DEF Fail
    <3>2. failed' \in [IPs -> Seq(Nat)]
      <4>1. failed[ip] \in Seq(Nat) OBVIOUS
      <4>2. Append(failed[ip], now) \in Seq(Nat) BY <4>1, AppendProperties
      <4>. QED BY <4>2, <2>2 DEF Fail
    <3>. QED BY <2>2, <3>1, <3>2 DEF Fail
  <2>3. ASSUME NEW ip \in IPs, Succeed(ip) PROVE TypeOK'
    <3>1. journal' \in Journal BY <2>3, TrimType, SuccessType DEF Succeed
    <3>2. failed' \in [IPs -> Seq(Nat)]
      BY <2>3, EmptySeq DEF Succeed
    <3>. QED BY <2>3, <3>1, <3>2 DEF Succeed
  <2>4. ASSUME NEW ip \in IPs, OperatorUnbans(ip) PROVE TypeOK'
    BY <2>4 DEF OperatorUnbans, Unban, Journal
  <2>5. CASE OperatorUnlocks
    <3>1. journal' \in Journal BY <2>5 DEF OperatorUnlocks, Unlock, Journal
    <3>2. unlocks' \in Nat BY <2>5 DEF OperatorUnlocks
    <3>. QED BY <2>5, <3>1, <3>2 DEF OperatorUnlocks
  <2>6. CASE Tick
    BY <2>6 DEF Tick
  <2>7. CASE UNCHANGED vars
    BY <2>7 DEF vars
  <2>. QED BY <2>1, <2>2, <2>3, <2>4, <2>5, <2>6, <2>7 DEF Next
<1>. QED BY <1>1, <1>2, PTL DEF Spec

(***************************************************************************)
(* The log stays ordered and bounded.  The two invariants are inductive    *)
(* together with the types; the bound needs that a gate in lockdown        *)
(* registers no failure, the order that the clock does not run backwards.  *)
(***************************************************************************)
LogInv == TypeOK /\ RecentOrdered /\ LogBounded

\* Every step keeps the log ordered and bounded.
LEMMA LogStep == LogInv /\ TypeOK' /\ [Next]_vars => LogInv'
<1> SUFFICES ASSUME LogInv, TypeOK', [Next]_vars
             PROVE  RecentOrdered' /\ LogBounded'
  BY DEF LogInv
<1> DEFINE r == journal.recent
<1>1. /\ now \in Nat /\ unlocks \in Nat
      /\ journal \in Journal /\ journal.lockdown \in BOOLEAN
      /\ r \in Seq(FailureEvent) /\ Len(r) \in Nat
      /\ Ordered(r, now)
  <2>1. journal \in Journal BY DEF LogInv, TypeOK
  <2>2. r \in Seq(FailureEvent) BY <2>1 DEF Journal
  <2>. QED BY <2>1, <2>2, EventsOfLog DEF LogInv, TypeOK, RecentOrdered, Ordered, Journal
<1>2. /\ Ordered(Trimmed(r, now), now)
      /\ Trimmed(r, now) \in Seq(FailureEvent)
      /\ Len(Trimmed(r, now)) \in Nat
      /\ Len(Trimmed(r, now)) <= Len(r)
  BY <1>1, TrimmedOrdered, TrimmedIsSuffix, EventsOfLog
<1>3. /\ RecentOrdered' <=> Ordered(journal'.recent, now')
      /\ LogBounded <=> Len(r) <= GlobalLockdownThreshold + unlocks
                                  + (IF journal.lockdown THEN 1 ELSE 0)
      /\ LogBounded' <=> Len(journal'.recent) <= GlobalLockdownThreshold + unlocks'
                                  + (IF journal'.lockdown THEN 1 ELSE 0)
      /\ LogBounded
  BY DEF RecentOrdered, Ordered, LogBounded, LogInv
<1>4. ASSUME NEW ip \in IPs, Drop(ip) PROVE RecentOrdered' /\ LogBounded'
  <2>1. /\ journal'.recent = Trimmed(r, now)
        /\ journal'.lockdown = journal.lockdown
        /\ now' = now /\ unlocks' = unlocks
    BY <1>1, <1>4, TrimType DEF Drop
  <2>. QED BY <1>1, <1>2, <1>3, <2>1, JournalAssumption
<1>5. ASSUME NEW ip \in IPs, Fail(ip) PROVE RecentOrdered' /\ LogBounded'
  <2> DEFINE kept == Trimmed(Trimmed(r, now), now)
             event == [ip |-> ip, at |-> now]
             longer == Append(kept, event)
  <2>1. /\ journal'.recent = longer
        /\ journal'.lockdown <=> Len(longer) > GlobalLockdownThreshold
        /\ ~ journal.lockdown
        /\ now' = now /\ unlocks' = unlocks
    BY <1>1, <1>5, FailureEffect DEF Fail, Refused
  <2>2. /\ kept \in Seq(FailureEvent) /\ Ordered(kept, now)
        /\ Len(kept) \in Nat /\ Len(kept) <= Len(Trimmed(r, now))
    BY <1>1, <1>2, TrimmedOrdered, TrimmedIsSuffix, EventsOfLog
  <2>3. event \in FailureEvent BY <1>1 DEF FailureEvent
  <2>4. Len(longer) = Len(kept) + 1 BY <2>2, <2>3, AppendProperties
  <2>5. Ordered(longer, now) BY <1>1, <2>2, AppendOrdered
  <2> HIDE DEF longer, kept
  <2>6. Len(longer) <= GlobalLockdownThreshold + unlocks + 1
    BY <1>1, <1>2, <1>3, <2>1, <2>2, <2>4, JournalAssumption
  <2>7. LogBounded'
    <3>1. CASE Len(longer) > GlobalLockdownThreshold
      <4>1. journal'.lockdown BY <2>1, <3>1
      <4>. QED BY <1>3, <2>1, <2>6, <4>1
    <3>2. CASE ~ (Len(longer) > GlobalLockdownThreshold)
      <4>1. ~ journal'.lockdown BY <2>1, <3>2
      <4>2. Len(longer) <= GlobalLockdownThreshold + unlocks
        BY <1>1, <2>2, <2>4, <3>2, JournalAssumption
      <4>. QED BY <1>1, <1>3, <2>1, <4>1, <4>2, JournalAssumption
    <3>. QED BY <3>1, <3>2
  <2>. QED BY <1>3, <2>1, <2>5, <2>7
<1>6. ASSUME NEW ip \in IPs, Succeed(ip) PROVE RecentOrdered' /\ LogBounded'
  <2>1. /\ journal'.recent = Trimmed(r, now)
        /\ journal'.lockdown = journal.lockdown
        /\ now' = now /\ unlocks' = unlocks
    BY <1>1, <1>6, TrimType DEF Succeed, RegisterSuccess
  <2>. QED BY <1>1, <1>2, <1>3, <2>1, JournalAssumption
<1>7. ASSUME NEW ip \in IPs, OperatorUnbans(ip) PROVE RecentOrdered' /\ LogBounded'
  <2>1. /\ journal'.recent = r /\ journal'.lockdown = journal.lockdown
        /\ now' = now /\ unlocks' = unlocks
    BY <1>1, <1>7 DEF OperatorUnbans, Unban, Journal
  <2>. QED BY <1>1, <1>3, <2>1
<1>8. CASE OperatorUnlocks
  <2>1. /\ journal'.recent = r /\ journal'.lockdown = FALSE /\ journal.lockdown
        /\ now' = now /\ unlocks' = unlocks + 1
    BY <1>1, <1>8 DEF OperatorUnlocks, Unlock, Journal
  <2>. QED BY <1>1, <1>3, <2>1, JournalAssumption
<1>9. CASE Tick
  <2>1. journal' = journal /\ now' = now + 1 /\ unlocks' = unlocks
    BY <1>9 DEF Tick
  <2>. QED BY <1>1, <1>3, <2>1, OrderedLater
<1>10. CASE UNCHANGED vars
  BY <1>1, <1>3, <1>10 DEF vars
<1>. QED BY <1>4, <1>5, <1>6, <1>7, <1>8, <1>9, <1>10 DEF Next

(***************************************************************************)
(* The failure log is in the order of its stamps and its length is bounded *)
(* by the threshold and the number of unlocks.                             *)
(***************************************************************************)
THEOREM LogCorrect == Spec => []LogKept
<1>1. Init => LogInv
  <2> SUFFICES ASSUME Init PROVE LogInv
    OBVIOUS
  <2>1. TypeOK
    BY DEF Init, TypeOK, EmptyJournal, Journal, IpFailureRecord, NoCooldown
  <2>2. journal.recent = <<>> /\ unlocks = 0 /\ Len(journal.recent) = 0
    BY DEF Init, EmptyJournal
  <2>3. RecentOrdered BY <2>2 DEF RecentOrdered
  <2>4. LogBounded BY <2>2, JournalAssumption DEF LogBounded
  <2>. QED BY <2>1, <2>3, <2>4 DEF LogInv
<1>2. LogInv => LogKept BY DEF LogInv, LogKept
<1>. QED BY <1>1, <1>2, LogStep, TypeCorrect, PTL DEF Spec

-----------------------------------------------------------------------------

(***************************************************************************)
(* The guessing budget.  Failures come in completed blocks of MaxFailed-   *)
(* AttemptsPerIp, each ended by a cooldown, and the count of the journal   *)
(* is the length of the block that is still open.  Every failure of a      *)
(* completed block is at least CooldownSecs before the end of the last     *)
(* cooldown (Served), and a failure is let in only after that end: the     *)
(* failure MaxFailedAttemptsPerIp places before it is in a completed block *)
(* because the open one is shorter than that.                              *)
(***************************************************************************)
Served(f, record, t) ==
    /\ record.count <= Len(f)
    /\ record.count < MaxFailedAttemptsPerIp
    /\ \A i \in 1 .. Len(f) : f[i] <= t
    /\ \A i \in 1 .. (Len(f) - record.count) : f[i] + CooldownSecs <= record.cooldownUntil

Budget(f) ==
    \A i \in 1 .. Len(f) : i + MaxFailedAttemptsPerIp <= Len(f) =>
        f[i + MaxFailedAttemptsPerIp] >= f[i] + CooldownSecs

BudgetInv ==
    \A ip \in IPs : Served(failed[ip], journal.failures[ip], now) /\ Budget(failed[ip])

\* One more failure, after the cooldown, keeps an address within its budget.
LEMMA FailureKeepsBudget ==
    ASSUME NEW f \in Seq(Nat), NEW record \in IpFailureRecord, NEW t \in Nat,
           Served(f, record, t), Budget(f), record.cooldownUntil <= t
    PROVE  Served(Append(f, t), FailedOnce(record, t), t) /\ Budget(Append(f, t))
<1> DEFINE g == Append(f, t)
<1>1. /\ Len(g) = Len(f) + 1 /\ Len(f) \in Nat
      /\ \A i \in 1 .. Len(f) : g[i] = f[i]
      /\ g[Len(f) + 1] = t
      /\ \A i \in 1 .. Len(f) : f[i] \in Nat
  BY AppendProperties
<1>2. record.count \in Nat /\ record.cooldownUntil \in Nat BY DEF IpFailureRecord
<1> HIDE DEF g
<1>3. \A i \in 1 .. Len(g) : g[i] \in Nat /\ g[i] <= t
  BY <1>1 DEF Served
<1>4. Budget(g)
  <2>1. ASSUME NEW i \in 1 .. Len(g), i + MaxFailedAttemptsPerIp <= Len(g)
        PROVE  g[i + MaxFailedAttemptsPerIp] >= g[i] + CooldownSecs
    <3>1. i \in 1 .. Len(f) /\ g[i] = f[i] BY <1>1, <2>1, JournalAssumption
    <3>2. CASE i + MaxFailedAttemptsPerIp <= Len(f)
      BY <1>1, <3>1, <3>2, JournalAssumption DEF Budget
    <3>3. CASE i + MaxFailedAttemptsPerIp = Len(f) + 1
      <4>1. i \in 1 .. (Len(f) - record.count)
        BY <1>1, <1>2, <3>1, <3>3, JournalAssumption DEF Served
      <4>2. f[i] + CooldownSecs <= record.cooldownUntil BY <4>1 DEF Served
      <4>3. g[i + MaxFailedAttemptsPerIp] = t BY <1>1, <3>3
      <4>. QED BY <1>1, <1>2, <3>1, <4>2, <4>3, JournalAssumption
    <3>. QED BY SMTT(30), <1>1, <2>1, <3>2, <3>3, JournalAssumption
  <2>. QED BY <2>1 DEF Budget
<1>5. Served(g, FailedOnce(record, t), t)
  <2>1. CASE record.count + 1 >= MaxFailedAttemptsPerIp
    <3>1. FailedOnce(record, t) = [count |-> 0, cooldownUntil |-> t + CooldownSecs]
      BY <2>1 DEF FailedOnce
    <3>2. FailedOnce(record, t).count = 0
          /\ FailedOnce(record, t).cooldownUntil = t + CooldownSecs
      BY <3>1
    <3>. QED BY <1>1, <1>3, <3>2, JournalAssumption DEF Served
  <2>2. CASE ~ (record.count + 1 >= MaxFailedAttemptsPerIp)
    <3>1. /\ FailedOnce(record, t).count = record.count + 1
          /\ FailedOnce(record, t).cooldownUntil = record.cooldownUntil
      BY <2>2 DEF FailedOnce, IpFailureRecord
    <3>2. \A i \in 1 .. (Len(g) - (record.count + 1)) :
             g[i] + CooldownSecs <= record.cooldownUntil
      <4> DEFINE c == record.count
      <4>1. c \in Nat /\ c <= Len(f)
            /\ \A i \in 1 .. (Len(f) - c) : f[i] + CooldownSecs <= record.cooldownUntil
        BY <1>2 DEF Served
      <4> HIDE DEF c
      <4>2. ASSUME NEW i \in 1 .. (Len(g) - (c + 1))
            PROVE  g[i] + CooldownSecs <= record.cooldownUntil
        <5>1. i \in 1 .. (Len(f) - c) /\ i \in 1 .. Len(f) BY <1>1, <4>1
        <5>. QED BY <1>1, <4>1, <5>1
      <4>. QED BY <4>2 DEF c
    <3>. QED BY <1>1, <1>2, <1>3, <2>2, <3>1, <3>2, JournalAssumption DEF Served
  <2>. QED BY <2>1, <2>2
<1>. QED BY <1>4, <1>5 DEF g

\* Every step keeps every address within its budget.
LEMMA BudgetStep == TypeOK /\ BudgetInv /\ [Next]_vars => BudgetInv'
<1> SUFFICES ASSUME TypeOK, BudgetInv, [Next]_vars, NEW ip \in IPs
             PROVE  Served(failed[ip], journal.failures[ip], now)'
                    /\ Budget(failed[ip])'
  BY DEF BudgetInv
<1>1. /\ now \in Nat /\ journal \in Journal /\ failed[ip] \in Seq(Nat)
      /\ journal.failures \in [IPs -> IpFailureRecord]
      /\ journal.failures[ip] \in IpFailureRecord
      /\ failed \in [IPs -> Seq(Nat)]
  BY DEF TypeOK, Journal
<1>2. Served(failed[ip], journal.failures[ip], now) /\ Budget(failed[ip])
  BY DEF BudgetInv
<1>3. ASSUME failed'[ip] = failed[ip], now' = now,
             journal'.failures[ip] = journal.failures[ip]
      PROVE  Served(failed[ip], journal.failures[ip], now)' /\ Budget(failed[ip])'
  BY <1>2, <1>3 DEF Served, Budget
<1>4. ASSUME NEW q \in IPs, Drop(q)
      PROVE  Served(failed[ip], journal.failures[ip], now)' /\ Budget(failed[ip])'
  <2>1. journal'.failures = journal.failures BY <1>1, <1>4, TrimType DEF Drop
  <2>. QED BY <1>3, <1>4, <2>1 DEF Drop
<1>5. ASSUME NEW q \in IPs, Fail(q)
      PROVE  Served(failed[ip], journal.failures[ip], now)' /\ Budget(failed[ip])'
  <2>1. /\ journal'.failures = [journal.failures EXCEPT ![q] = FailedOnce(@, now)]
        /\ failed' = [failed EXCEPT ![q] = Append(@, now)]
        /\ now' = now
    <3>1. journal' = RegisterFailure(TrimRecent(journal, now), q, now)
      BY <1>5 DEF Fail
    <3>2. RegisterFailure(TrimRecent(journal, now), q, now).failures
            = [journal.failures EXCEPT ![q] = FailedOnce(@, now)]
      BY <1>1, FailureRecords
    <3>. QED BY <1>5, <3>1, <3>2 DEF Fail
  <2>2. CASE q = ip
    <3>1. /\ journal'.failures[ip] = FailedOnce(journal.failures[ip], now)
          /\ failed'[ip] = Append(failed[ip], now)
      BY <1>1, <2>1, <2>2
    <3>2. journal.failures[ip].cooldownUntil <= now
      BY <1>1, <1>5, <2>2 DEF Fail, Refused, IpFailureRecord
    <3>3. Served(Append(failed[ip], now), FailedOnce(journal.failures[ip], now), now)
          /\ Budget(Append(failed[ip], now))
      BY <1>1, <1>2, <3>2, FailureKeepsBudget
    <3>. QED BY <2>1, <3>1, <3>3 DEF Served, Budget
  <2>3. CASE q # ip
    BY <1>1, <1>3, <2>1, <2>3
  <2>. QED BY <2>2, <2>3
<1>6. ASSUME NEW q \in IPs, Succeed(q)
      PROVE  Served(failed[ip], journal.failures[ip], now)' /\ Budget(failed[ip])'
  <2>1. /\ journal'.failures = [journal.failures EXCEPT
                                  ![q] = [count |-> 0, cooldownUntil |-> NoCooldown]]
        /\ failed' = [failed EXCEPT ![q] = <<>>]
        /\ now' = now
    BY <1>1, <1>6, TrimType DEF Succeed, RegisterSuccess, Journal
  <2>2. CASE q = ip
    <3>1. failed'[ip] = <<>> /\ Len(failed'[ip]) = 0 /\ journal'.failures[ip].count = 0
      BY <1>1, <2>1, <2>2
    <3>. QED BY <3>1, JournalAssumption DEF Served, Budget
  <2>3. CASE q # ip
    BY <1>1, <1>3, <2>1, <2>3
  <2>. QED BY <2>2, <2>3
<1>7. ASSUME NEW q \in IPs, OperatorUnbans(q)
      PROVE  Served(failed[ip], journal.failures[ip], now)' /\ Budget(failed[ip])'
  <2>1. journal'.failures = journal.failures
    BY <1>1, <1>7 DEF OperatorUnbans, Unban, Journal
  <2>. QED BY <1>3, <1>7, <2>1 DEF OperatorUnbans
<1>8. CASE OperatorUnlocks
  <2>1. journal'.failures = journal.failures
    BY <1>1, <1>8 DEF OperatorUnlocks, Unlock, Journal
  <2>. QED BY <1>3, <1>8, <2>1 DEF OperatorUnlocks
<1>9. CASE Tick
  <2>1. journal' = journal /\ failed' = failed /\ now' = now + 1 BY <1>9 DEF Tick
  <2>2. \A i \in 1 .. Len(failed[ip]) : failed[ip][i] \in Nat BY <1>1
  <2>. QED BY <1>1, <1>2, <2>1, <2>2 DEF Served, Budget
<1>10. CASE UNCHANGED vars
  BY <1>3, <1>10 DEF vars
<1>. QED BY <1>4, <1>5, <1>6, <1>7, <1>8, <1>9, <1>10 DEF Next

(***************************************************************************)
(* Between two successes an address has at most MaxFailedAttemptsPerIp     *)
(* failures evaluated in any CooldownSecs seconds.                         *)
(***************************************************************************)
THEOREM BudgetKept == Spec => []FailureBudget
<1>1. Init => BudgetInv
  <2> SUFFICES ASSUME Init, NEW ip \in IPs
               PROVE  Served(failed[ip], journal.failures[ip], now) /\ Budget(failed[ip])
    BY DEF BudgetInv
  <2>1. failed[ip] = <<>> /\ Len(failed[ip]) = 0 /\ journal.failures[ip].count = 0
    BY DEF Init, EmptyJournal
  <2>. QED BY <2>1, JournalAssumption DEF Served, Budget
<1>2. BudgetInv => FailureBudget BY DEF BudgetInv, Budget, FailureBudget
<1>. QED BY <1>1, <1>2, BudgetStep, TypeCorrect, PTL DEF Spec

-----------------------------------------------------------------------------

(***************************************************************************)
(* A cooldown that has not ended is not moved by any step.                 *)
(***************************************************************************)
CooldownStep ==
    \A ip \in IPs :
        LET until == journal.failures[ip].cooldownUntil
        IN  until > now => journal'.failures[ip].cooldownUntil = until

\* See CooldownStep: no step moves the end of a cooldown that has not ended.
THEOREM CooldownNeverMoves == Spec => CooldownFixed
<1>1. TypeOK /\ [Next]_vars => CooldownStep
  <2> SUFFICES ASSUME TypeOK, [Next]_vars,
                      NEW ip \in IPs, journal.failures[ip].cooldownUntil > now
               PROVE  journal'.failures[ip] = journal.failures[ip]
    BY DEF CooldownStep
  <2>1. /\ now \in Nat /\ journal \in Journal
        /\ journal.failures \in [IPs -> IpFailureRecord]
        /\ Refused(journal, ip, now)
    BY DEF TypeOK, Journal, Refused
  <2>2. ASSUME NEW q \in IPs, Drop(q)
        PROVE  journal'.failures[ip] = journal.failures[ip]
    BY <2>1, <2>2, TrimType DEF Drop
  <2>3. ASSUME NEW q \in IPs, Fail(q)
        PROVE  journal'.failures[ip] = journal.failures[ip]
    <3>1. q # ip BY <2>1, <2>3 DEF Fail
    <3>2. journal'.failures = [journal.failures EXCEPT ![q] = FailedOnce(@, now)]
      BY <2>1, <2>3, FailureRecords DEF Fail
    <3>. QED BY <2>1, <3>1, <3>2
  <2>4. ASSUME NEW q \in IPs, Succeed(q)
        PROVE  journal'.failures[ip] = journal.failures[ip]
    <3>1. q # ip BY <2>1, <2>4 DEF Succeed
    <3>2. journal'.failures = [journal.failures EXCEPT
                                 ![q] = [count |-> 0, cooldownUntil |-> NoCooldown]]
      BY <2>1, <2>4, TrimType DEF Succeed, RegisterSuccess, Journal
    <3>. QED BY <2>1, <3>1, <3>2
  <2>5. ASSUME NEW q \in IPs, OperatorUnbans(q)
        PROVE  journal'.failures[ip] = journal.failures[ip]
    BY <2>1, <2>5 DEF OperatorUnbans, Unban, Journal
  <2>6. CASE OperatorUnlocks
    BY <2>1, <2>6 DEF OperatorUnlocks, Unlock, Journal
  <2>7. CASE Tick \/ UNCHANGED vars
    BY <2>7 DEF Tick, vars
  <2>. QED BY <2>2, <2>3, <2>4, <2>5, <2>6, <2>7 DEF Next
<1>2. TypeOK /\ [Next]_vars => [CooldownStep]_vars BY <1>1
<1>. QED BY <1>2, TypeCorrect, PTL DEF Spec, CooldownFixed, CooldownStep

(***************************************************************************)
(* Only more than GlobalLockdownThreshold failures of the last             *)
(* GlobalLockdownWindow seconds lock the gate, and their addresses are     *)
(* banned in the same step.                                                *)
(***************************************************************************)
JustifiedStep ==
    (~ journal.lockdown /\ journal'.lockdown) =>
        /\ Len(journal'.recent) > GlobalLockdownThreshold
        /\ \A i \in 1 .. Len(journal'.recent) :
              /\ now' - journal'.recent[i].at <= GlobalLockdownWindow
              /\ journal'.recent[i].ip \in journal'.banned

\* See JustifiedStep: every lockdown has its failures behind it and bans them.
THEOREM LockdownsJustified == Spec => LockdownJustified
<1>1. TypeOK /\ RecentOrdered /\ [Next]_vars => JustifiedStep
  <2> SUFFICES ASSUME TypeOK, RecentOrdered, [Next]_vars,
                      ~ journal.lockdown, journal'.lockdown
               PROVE  /\ Len(journal'.recent) > GlobalLockdownThreshold
                      /\ \A i \in 1 .. Len(journal'.recent) :
                            /\ now' - journal'.recent[i].at <= GlobalLockdownWindow
                            /\ journal'.recent[i].ip \in journal'.banned
    BY DEF JustifiedStep
  <2> DEFINE r == journal.recent
  <2>1. /\ now \in Nat /\ journal \in Journal
        /\ r \in Seq(FailureEvent) /\ Ordered(r, now)
    BY DEF TypeOK, Journal, RecentOrdered, Ordered
  <2>2. PICK ip \in IPs : Fail(ip)
    <3>1. ASSUME NEW q \in IPs, Drop(q) PROVE FALSE
      BY <2>1, <3>1, TrimType DEF Drop
    <3>2. ASSUME NEW q \in IPs, Succeed(q) PROVE FALSE
      BY <2>1, <3>2, TrimType DEF Succeed, RegisterSuccess
    <3>3. ASSUME NEW q \in IPs, OperatorUnbans(q) PROVE FALSE
      BY <2>1, <3>3 DEF OperatorUnbans, Unban, Journal
    <3>4. ~ (OperatorUnlocks \/ Tick \/ UNCHANGED vars)
      BY DEF OperatorUnlocks, Tick, vars
    <3>. QED BY <3>1, <3>2, <3>3, <3>4 DEF Next
  <2> DEFINE kept == Trimmed(Trimmed(r, now), now)
             event == [ip |-> ip, at |-> now]
             longer == Append(kept, event)
  <2>3. /\ journal' = RegisterFailure(TrimRecent(journal, now), ip, now)
        /\ now' = now
    BY <2>2 DEF Fail
  <2>4. journal'.recent = longer /\ Len(longer) > GlobalLockdownThreshold
    BY <2>1, <2>3, FailureEffect
  <2>5. Offenders(longer) \subseteq journal'.banned
    BY <2>1, <2>3, <2>4, FailureEffect
  <2>6. /\ kept \in Seq(FailureEvent)
        /\ \A i \in 1 .. Len(kept) : ~ Aged(kept[i], now)
    BY <2>1, TrimmedOrdered, TrimmedIsSuffix
  <2>7. /\ event \in FailureEvent /\ event.at = now BY <2>1 DEF FailureEvent
  <2>8. /\ Len(longer) = Len(kept) + 1 /\ Len(kept) \in Nat
        /\ \A i \in 1 .. Len(kept) : longer[i] = kept[i]
        /\ longer[Len(kept) + 1] = event
    BY <2>6, <2>7, AppendProperties
  <2> HIDE DEF longer, kept, event
  <2>9. \A i \in 1 .. Len(longer) : ~ Aged(longer[i], now)
    <3>1. ~ Aged(event, now) BY <2>1, <2>7, JournalAssumption DEF Aged
    <3>. QED BY <2>6, <2>8, <3>1
  <2>10. \A i \in 1 .. Len(longer) : now - longer[i].at <= GlobalLockdownWindow
    <3>1. \A i \in 1 .. Len(kept) : kept[i].at \in Nat BY <2>6, EventsOfLog
    <3>2. \A i \in 1 .. Len(longer) : longer[i].at \in Nat
      BY <2>1, <2>7, <2>8, <3>1
    <3>. QED BY <2>1, <2>9, <3>2, JournalAssumption DEF Aged
  <2>11. \A i \in 1 .. Len(longer) : longer[i].ip \in journal'.banned
    BY <2>5 DEF Offenders
  <2>. QED BY <2>3, <2>4, <2>10, <2>11
<1>2. TypeOK /\ RecentOrdered /\ [Next]_vars => [JustifiedStep]_vars BY <1>1
<1>. QED BY <1>2, TypeCorrect, LogCorrect, PTL
         DEF Spec, LogKept, LockdownJustified, JustifiedStep

=============================================================================
