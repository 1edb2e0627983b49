-------------------------- MODULE ControlPlaneProofs --------------------------
(***************************************************************************)
(* Proofs about ControlServer, for every number of clients, addresses and  *)
(* operator commands, every limit and every time to live; then about       *)
(* ControlPlane: the server keeps all its promises in the company of its   *)
(* clients and the network, since every step of the composition is a step  *)
(* of the server or leaves the server alone.  First, what the operators of *)
(* RateLimitJournal do to any journal, as far as the server needs it.      *)
(***************************************************************************)
EXTENDS ControlPlane, FiniteSetTheorems, SequenceTheorems, TLAPS

-----------------------------------------------------------------------------
(***************************************************************************)
(* The least-number principle, from the well-foundedness of strict         *)
(* inclusion between finite sets.                                          *)
(***************************************************************************)
LEMMA LeastNatural ==
    ASSUME NEW T \in SUBSET Nat, T # {}
    PROVE  \E m \in T : \A n \in T : m <= n
<1> DEFINE Below(m) == T \cap (0 .. m)
           Family == {Below(m) : m \in T}
<1>1. \A m \in T : Below(m) \in FiniteSubsetsOf(Nat)
  <2>1. ASSUME NEW m \in T PROVE Below(m) \in FiniteSubsetsOf(Nat)
    <3>1. IsFiniteSet(0 .. m) BY FS_Interval
    <3>2. IsFiniteSet(Below(m)) BY <3>1, FS_Subset
    <3>. QED BY <3>2 DEF FiniteSubsetsOf
  <2>. QED BY <2>1
<1>2. PICK A \in Family : \A B \in Family : ~ (<<B, A>> \in StrictSubsetOrdering(Nat))
  <2>1. Family \subseteq FiniteSubsetsOf(Nat) /\ Family # {} BY <1>1
  <2>. QED BY <2>1, FS_StrictSubsetOrderingWellFounded, WFMin
<1>3. PICK m \in T : A = Below(m) BY <1>2
<1>4. ASSUME NEW n \in T, n < m PROVE FALSE
  <2>1. Below(n) \in Family OBVIOUS
  <2>2. Below(n) \subseteq Below(m) /\ m \in Below(m) /\ m \notin Below(n) BY <1>4
  <2>3. <<Below(n), A>> \in StrictSubsetOrdering(Nat)
    BY <2>2, <1>3 DEF StrictSubsetOrdering
  <2>. QED BY <2>1, <2>3, <1>2
<1>. QED BY <1>4

(***************************************************************************)
(* What trim_recent does to any log: it keeps a suffix of the events, cut  *)
(* at the first one that is not aged.                                      *)
(***************************************************************************)
LEMMA TrimmedIsSuffix ==
    ASSUME NEW r \in Seq(FailureEvent), NEW t \in Nat
    PROVE  /\ Trimmed(r, t) \in Seq(FailureEvent)
           /\ \E d \in 0 .. Len(r) :
                 /\ Len(Trimmed(r, t)) = Len(r) - d
                 /\ \A i \in 1 .. Len(Trimmed(r, t)) : Trimmed(r, t)[i] = r[i + d]
                 /\ \A i \in 1 .. d : Aged(r[i], t)
                 /\ d < Len(r) => ~ Aged(r[d + 1], t)
<1> DEFINE fresh == {i \in 1 .. Len(r) : ~ Aged(r[i], t)}
           front == CHOOSE i \in fresh : \A k \in fresh : i <= k
           cut == Trimmed(r, t)
<1>1. Len(r) \in Nat OBVIOUS
<1>2. cut = IF fresh = {} THEN <<>> ELSE SubSeq(r, front, Len(r)) BY DEF Trimmed
<1>3. CASE fresh = {}
  <2>1. cut = <<>> BY <1>2, <1>3
  <2>2. \A i \in 1 .. Len(r) : Aged(r[i], t) BY <1>3
  <2>3. cut \in Seq(FailureEvent) /\ Len(cut) = 0 BY <2>1
  <2> HIDE DEF cut, fresh
  <2>4. /\ Len(r) \in 0 .. Len(r)
        /\ Len(cut) = Len(r) - Len(r)
        /\ \A i \in 1 .. Len(cut) : cut[i] = r[i + Len(r)]
        /\ \A i \in 1 .. Len(r) : Aged(r[i], t)
        /\ Len(r) < Len(r) => ~ Aged(r[Len(r) + 1], t)
    BY <1>1, <2>2, <2>3
  <2>. QED BY <2>3, <2>4 DEF cut
<1>4. CASE fresh # {}
  <2>1. front \in fresh /\ \A k \in fresh : front <= k
    <3>1. fresh \in SUBSET Nat OBVIOUS
    <3>. QED BY <3>1, <1>4, LeastNatural
  <2>2. front \in 1 .. Len(r) /\ ~ Aged(r[front], t) BY <2>1
  <2>3. \A i \in 1 .. (front - 1) : Aged(r[i], t)
    <3>1. \A i \in 1 .. Len(r) : i < front => i \notin fresh
      <4> HIDE DEF front, fresh
      <4>. QED BY <1>1, <2>1, <2>2
    <3> HIDE DEF front
    <3>. QED BY <1>1, <2>2, <3>1
  <2>4. cut = SubSeq(r, front, Len(r)) BY <1>2, <1>4
  <2> HIDE DEF cut, fresh, front
  <2>5. /\ cut \in Seq(FailureEvent)
        /\ Len(cut) = Len(r) - front + 1
        /\ \A i \in 1 .. Len(cut) : cut[i] = r[front + i - 1]
    BY <1>1, <2>2, <2>4, SubSeqProperties
  <2> DEFINE d == front - 1
  <2>6. d \in 0 .. Len(r) /\ d + 1 = front BY <1>1, <2>2
  <2>7. Len(cut) = Len(r) - d BY <1>1, <2>2, <2>5
  <2>8. \A i \in 1 .. Len(cut) : cut[i] = r[i + d]
    <3>1. \A i \in 1 .. Len(cut) : front + i - 1 = i + d BY <2>2, <2>5, <1>1
    <3>. QED BY <3>1, <2>5
  <2>. QED BY <2>2, <2>3, <2>5, <2>6, <2>7, <2>8 DEF cut
<1>. QED BY <1>3, <1>4

(***************************************************************************)
(* Every journal operation yields a journal.                               *)
(***************************************************************************)
LEMMA TrimType ==
    ASSUME NEW j \in Journal, NEW t \in Nat
    PROVE  /\ TrimRecent(j, t) \in Journal
           /\ TrimRecent(j, t).failures = j.failures
           /\ TrimRecent(j, t).banned = j.banned
           /\ TrimRecent(j, t).lockdown = j.lockdown
           /\ TrimRecent(j, t).recent = Trimmed(j.recent, t)
<1>1. j.recent \in Seq(FailureEvent) BY DEF Journal
<1>2. Trimmed(j.recent, t) \in Seq(FailureEvent) BY <1>1, TrimmedIsSuffix
<1>. QED BY <1>2 DEF Journal, TrimRecent

\* What an event in a log of failures is.
LEMMA EventsOfLog ==
    ASSUME NEW r \in Seq(FailureEvent)
    PROVE  Len(r) \in Nat /\ \A i \in 1 .. Len(r) : r[i].ip \in IPs /\ r[i].at \in Nat
<1>1. \A i \in 1 .. Len(r) : r[i] \in FailureEvent OBVIOUS
<1>. QED BY <1>1 DEF FailureEvent

\* A journal with one more failure is a journal.
LEMMA FailureType ==
    ASSUME NEW j \in Journal, NEW ip \in IPs, NEW t \in Nat
    PROVE  RegisterFailure(j, ip, t) \in Journal
<1> DEFINE event == [ip |-> ip, at |-> t]
           recent == Append(TrimRecent(j, t).recent, event)
<1>1. event \in FailureEvent BY DEF FailureEvent
<1>2. recent \in Seq(FailureEvent) BY <1>1, TrimType DEF Journal
<1>3. FailedOnce(j.failures[ip], t) \in IpFailureRecord
  BY SMTT(30), JournalAssumption DEF FailedOnce, Journal, IpFailureRecord
<1>4. Offenders(recent) \subseteq IPs
  <2> HIDE DEF recent
  <2>1. \A i \in 1 .. Len(recent) : recent[i].ip \in IPs
    BY <1>2, EventsOfLog
  <2>. QED BY <2>1 DEF Offenders
<1>5. [j.failures EXCEPT ![ip] = FailedOnce(@, t)] \in [IPs -> IpFailureRecord]
  BY <1>3 DEF Journal
<1>. QED BY <1>2, <1>4, <1>5 DEF RegisterFailure, Journal

\* A journal with one more success is a journal.
LEMMA SuccessType ==
    ASSUME NEW j \in Journal, NEW ip \in IPs
    PROVE  RegisterSuccess(j, ip) \in Journal
BY DEF RegisterSuccess, Journal, IpFailureRecord, NoCooldown

\* What a failure leaves behind in each field of the journal.
LEMMA FailureEffect ==
    ASSUME NEW j \in Journal, NEW ip \in IPs, NEW t \in Nat
    PROVE  LET k == RegisterFailure(TrimRecent(j, t), ip, t)
               r == Append(Trimmed(Trimmed(j.recent, t), t), [ip |-> ip, at |-> t])
           IN  /\ k.recent = r
               /\ k.lockdown <=> (j.lockdown \/ Len(r) > GlobalLockdownThreshold)
               /\ Len(r) > GlobalLockdownThreshold => Offenders(r) \subseteq k.banned
<1>1. TrimRecent(j, t) \in Journal BY TrimType
<1>2. TrimRecent(TrimRecent(j, t), t).recent = Trimmed(Trimmed(j.recent, t), t)
  BY <1>1, TrimType
<1>3. /\ TrimRecent(j, t).failures = j.failures
      /\ TrimRecent(j, t).lockdown = j.lockdown
  BY TrimType
<1>. QED BY <1>2, <1>3 DEF RegisterFailure

\* A failure changes the record of its own address and of no other.
LEMMA FailureRecords ==
    ASSUME NEW j \in Journal, NEW ip \in IPs, NEW t \in Nat
    PROVE  RegisterFailure(TrimRecent(j, t), ip, t).failures
             = [j.failures EXCEPT ![ip] = FailedOnce(@, t)]
<1>1. TrimRecent(j, t).failures = j.failures BY TrimType
<1>. QED BY <1>1 DEF RegisterFailure

-----------------------------------------------------------------------------
(***************************************************************************)
(* What the operators of the module return.                                *)
(***************************************************************************)

\* allocate_client_ip returns an address of the pool that nobody holds.
LEMMA LowestFreeIsFree ==
    ASSUME NEW S, FreeHosts(S) # {}
    PROVE  LowestFree(S) \in FreeHosts(S) /\ LowestFree(S) \in Hosts
<1>1. FreeHosts(S) \in SUBSET Nat
  BY ServerAssumption DEF FreeHosts, Hosts
<1>2. \E h \in FreeHosts(S) : \A k \in FreeHosts(S) : h <= k
  BY <1>1, LeastNatural
<1>. QED BY <1>2 DEF LowestFree, FreeHosts

\* A snapshot of typed sessions is a runtime file.
LEMMA SnapshotType ==
    ASSUME NEW S \in SUBSET Session, NEW b \in BOOLEAN
    PROVE  Snapshot(S, b) \in [sessions : SUBSET Nat, lockedDown : BOOLEAN]
<1>1. Sids(S) \in SUBSET Nat BY DEF Sids, Session
<1>. QED BY <1>1 DEF Snapshot

\* What is left of a journal file that was cut and parses is a journal.
LEMMA CutsType ==
    ASSUME NEW j \in Journal
    PROVE  Cuts(j) \subseteq Journal
<1>1. ASSUME NEW n \in 1 .. Len(j.recent)
      PROVE  [j EXCEPT !.recent = SubSeq(@, 1, n), !.lockdown = FALSE] \in Journal
  <2>1. j.recent \in Seq(FailureEvent) BY DEF Journal
  <2>2. SubSeq(j.recent, 1, n) \in Seq(FailureEvent) BY <2>1, SubSeqProperties
  <2>. QED BY <2>2 DEF Journal
<1>. QED BY <1>1 DEF Cuts

\* An operator's command makes a journal of a journal.
LEMMA CommandedType ==
    ASSUME NEW j \in Journal, NEW what \in Commands
    PROVE  Commanded(j, what) \in Journal
<1>1. Unlock(j) \in Journal BY DEF Unlock, Journal
<1>2. Unban(j, what[2]) \in Journal BY DEF Unban, Journal
<1>. QED BY <1>1, <1>2 DEF Commanded

\* The empty journal of a first run is one.
LEMMA EmptyJournalType == EmptyJournal \in Journal
<1>1. <<>> \in Seq(FailureEvent) OBVIOUS
<1>. QED BY <1>1 DEF EmptyJournal, Journal, IpFailureRecord, NoCooldown

\* The answer to a failure is a refusal.
LEMMA RefusalType ==
    ASSUME NEW ip \in IPs, NEW j \in Journal, NEW k \in Journal
    PROVE  RefusalOn(ip, j, k) \in Refusal
<1>1. k.failures[ip].cooldownUntil \in Nat /\ k.lockdown \in BOOLEAN
  BY DEF Journal, IpFailureRecord
<1>. QED BY <1>1 DEF RefusalOn, Refusal, NoCooldown

\* The clean-up and a client's removal only take sessions away.
LEMMA FewerSessions ==
    ASSUME NEW S, NEW t, NEW c
    PROVE  Live(S, t) \subseteq S /\ Without(S, c) \subseteq S
BY DEF Live, Without

\* Each handler leaves one of these lists behind, and effects shorten them.
Plans == {<<"peer", "save", "send", "persist">>, <<"unpeer", "persist">>,
          <<"save", "send", "persist">>, <<"save", "persist">>,
          <<"send", "persist">>, <<"persist">>, <<>>}

\* The lists are lists of effects.
LEMMA PlansAreLists == Plans \subseteq Seq(Effects)
<1>1. <<"peer", "save", "send", "persist">> \in Seq(Effects)
      /\ <<"unpeer", "persist">> \in Seq(Effects)
      /\ <<"save", "send", "persist">> \in Seq(Effects)
      /\ <<"save", "persist">> \in Seq(Effects)
      /\ <<"send", "persist">> \in Seq(Effects)
      /\ <<"persist">> \in Seq(Effects)
      /\ <<>> \in Seq(Effects)
  BY DEF Effects
<1>. QED BY <1>1 DEF Plans

\* What is due first says which list it was, and so what is left of it.
LEMMA PlanSteps ==
    ASSUME NEW p \in Plans, p # <<>>
    PROVE  /\ Tail(p) \in Plans
           /\ Head(p) = "persist" <=> Tail(p) = <<>>
           /\ Tail(p) # <<>> => Head(Tail(p)) \notin {"peer", "unpeer"}
<1>1. CASE p = <<"peer", "save", "send", "persist">>
  <2>1. Head(p) = "peer" /\ Tail(p) = <<"save", "send", "persist">> BY <1>1
  <2>2. Head(<<"save", "send", "persist">>) = "save" OBVIOUS
  <2>3. Len(<<"save", "send", "persist">>) = 3 OBVIOUS
  <2>4. Tail(p) # <<>> BY <2>1, <2>3
  <2>. QED BY <2>1, <2>2, <2>4 DEF Plans
<1>2. CASE p = <<"unpeer", "persist">>
  <2>1. Head(p) = "unpeer" /\ Tail(p) = <<"persist">> BY <1>2
  <2>2. Head(<<"persist">>) = "persist" OBVIOUS
  <2>3. Len(<<"persist">>) = 1 OBVIOUS
  <2>4. Tail(p) # <<>> BY <2>1, <2>3
  <2>. QED BY <2>1, <2>2, <2>4 DEF Plans
<1>3. CASE p = <<"save", "send", "persist">>
  <2>1. Head(p) = "save" /\ Tail(p) = <<"send", "persist">> BY <1>3
  <2>2. Head(<<"send", "persist">>) = "send" OBVIOUS
  <2>3. Len(<<"send", "persist">>) = 2 OBVIOUS
  <2>4. Tail(p) # <<>> BY <2>1, <2>3
  <2>. QED BY <2>1, <2>2, <2>4 DEF Plans
<1>4. CASE p = <<"save", "persist">>
  <2>1. Head(p) = "save" /\ Tail(p) = <<"persist">> BY <1>4
  <2>2. Head(<<"persist">>) = "persist" OBVIOUS
  <2>3. Len(<<"persist">>) = 1 OBVIOUS
  <2>4. Tail(p) # <<>> BY <2>1, <2>3
  <2>. QED BY <2>1, <2>2, <2>4 DEF Plans
<1>5. CASE p = <<"send", "persist">>
  <2>1. Head(p) = "send" /\ Tail(p) = <<"persist">> BY <1>5
  <2>2. Head(<<"persist">>) = "persist" OBVIOUS
  <2>3. Len(<<"persist">>) = 1 OBVIOUS
  <2>4. Tail(p) # <<>> BY <2>1, <2>3
  <2>. QED BY <2>1, <2>2, <2>4 DEF Plans
<1>6. CASE p = <<"persist">>
  <2>1. Head(p) = "persist" /\ Tail(p) = <<>> BY <1>6
  <2>. QED BY <2>1 DEF Plans
<1>. QED BY <1>1, <1>2, <1>3, <1>4, <1>5, <1>6 DEF Plans

-----------------------------------------------------------------------------
(***************************************************************************)
(* Type correctness.                                                       *)
(***************************************************************************)

\* What is left to show of a handler: Answer types all that it names.
LEMMA AnswerType ==
    ASSUME TypeOK,
           sessions' \subseteq Session, todo' \in Seq(Effects),
           programmed' = programmed \cap Sids(sessions'), aborted' \in BOOLEAN,
           UNCHANGED <<now, up, disk, kernel, command, announced, spoiled>>,
           journal' \in Journal, lastSid' \in Nat, lease' \subseteq Session,
           refusal' \subseteq Refusal
    PROVE  TypeOK'
<1>1. programmed' \subseteq Nat BY DEF TypeOK
<1>. QED BY <1>1 DEF TypeOK, disk, command

\* No handler leaves a variable outside its type.
LEMMA HandleType == TypeOK /\ Handle => TypeOK'
<1> SUFFICES ASSUME TypeOK, Handle PROVE TypeOK'
  OBVIOUS
<1>1. /\ now \in Nat /\ lastSid \in Nat /\ journal \in Journal
      /\ sessions \subseteq Session /\ lease \subseteq Session
      /\ refusal \subseteq Refusal /\ todo \in Seq(Effects)
     
  BY DEF TypeOK
<1>2. Live(sessions, now) \subseteq Session BY <1>1, FewerSessions
<1>3. \A p \in Plans : p \in Seq(Effects) BY PlansAreLists
<1>4. /\ <<"persist">> \in Plans /\ <<"send", "persist">> \in Plans
      /\ <<"unpeer", "persist">> \in Plans /\ <<"save", "persist">> \in Plans
      /\ <<"save", "send", "persist">> \in Plans
      /\ <<"peer", "save", "send", "persist">> \in Plans
  BY DEF Plans
<1>5. TrimRecent(journal, now) \in Journal BY <1>1, TrimType
<1>6. CASE Ignore \/ Inform
  <2>1. sessions' \subseteq Session /\ todo' \in Seq(Effects)
    BY <1>2, <1>3, <1>4, <1>6 DEF Ignore, Inform, Answer
  <2>2. /\ programmed' = programmed \cap Sids(sessions') /\ aborted' \in BOOLEAN
        /\ UNCHANGED <<now, up, disk, kernel, command, announced, spoiled>>
        /\ UNCHANGED <<journal, lastSid, lease, refusal>>
    BY <1>6 DEF Ignore, Inform, Answer
  <2>. QED BY <1>1, <2>1, <2>2, AnswerType
<1>7. ASSUME NEW ip \in IPs, AuthDropped(ip) PROVE TypeOK'
  <2>1. sessions' \subseteq Session /\ todo' \in Seq(Effects)
    BY <1>2, <1>3, <1>4, <1>7 DEF AuthDropped, Answer
  <2>2. /\ programmed' = programmed \cap Sids(sessions') /\ aborted' \in BOOLEAN
        /\ UNCHANGED <<now, up, disk, kernel, command, announced, spoiled>>
        /\ UNCHANGED <<lastSid, lease, refusal>>
        /\ journal' \in Journal
    BY <1>5, <1>7 DEF AuthDropped, Answer
  <2>. QED BY <1>1, <2>1, <2>2, AnswerType
<1>8. ASSUME NEW ip \in IPs, AuthErrs(ip) PROVE TypeOK'
  <2>1. /\ sessions' \subseteq Session /\ todo' = todo
        /\ programmed' = programmed \cap Sids(sessions') /\ aborted' \in BOOLEAN
        /\ UNCHANGED <<now, up, disk, kernel, command, announced, spoiled>>
        /\ UNCHANGED <<lastSid, lease, refusal>>
        /\ journal' \in Journal
    BY <1>2, <1>5, <1>8 DEF AuthErrs, job
  <2>. QED BY <1>1, <2>1, AnswerType
<1>9. ASSUME NEW ip \in IPs, AuthRejected(ip) PROVE TypeOK'
  <2> DEFINE after == RegisterFailure(TrimRecent(journal, now), ip, now)
  <2>1. after \in Journal BY <1>1, <1>5, FailureType
  <2>2. RefusalOn(ip, journal, after) \in Refusal BY <1>1, <2>1, RefusalType
  <2>3. /\ journal' = after
        /\ Answer(IF after.lockdown THEN {} ELSE Live(sessions, now),
                  <<"save", "send", "persist">>)
        /\ refusal' = {RefusalOn(ip, journal, after)}
        /\ UNCHANGED <<lastSid, lease>>
    BY <1>9 DEF AuthRejected
  <2> HIDE DEF after
  <2>4. sessions' \subseteq Session /\ todo' \in Seq(Effects)
    BY <1>2, <1>3, <1>4, <2>3 DEF Answer
  <2>5. /\ programmed' = programmed \cap Sids(sessions') /\ aborted' \in BOOLEAN
        /\ UNCHANGED <<now, up, disk, kernel, command, announced, spoiled>>
    BY <2>3 DEF Answer
  <2>6. refusal' \subseteq Refusal BY <1>1, <2>2, <2>3
  <2>. QED BY <1>1, <2>1, <2>3, <2>4, <2>5, <2>6, AnswerType
<1>10. ASSUME NEW ip \in IPs, NEW c \in Clients, AuthAccepted(ip, c) PROVE TypeOK'
  <2> DEFINE others == Without(Live(sessions, now), c)
             new == [sid |-> lastSid + 1, client |-> c, remote |-> ip,
                     host |-> LowestFree(others), expires |-> now + SessionTtl]
  <2>1. others \subseteq Session BY <1>2, FewerSessions
  <2>2. /\ FreeHosts(others) # {}
        /\ journal' = RegisterSuccess(TrimRecent(journal, now), ip)
        /\ Answer(others \cup {new}, <<"peer", "save", "send", "persist">>)
        /\ lease' = {new}
        /\ lastSid' = lastSid + 1
        /\ UNCHANGED refusal
    BY <1>10 DEF AuthAccepted
  <2>3. new \in Session
    <3>1. LowestFree(others) \in Hosts BY <2>2, LowestFreeIsFree
    <3>2. lastSid + 1 \in Nat /\ now + SessionTtl \in Nat BY <1>1, ServerAssumption
    <3>. QED BY <3>1, <3>2 DEF Session
  <2> HIDE DEF others, new
  <2>4. journal' \in Journal BY <1>5, <2>2, SuccessType
  <2>5. sessions' \subseteq Session /\ todo' \in Seq(Effects)
    BY <1>3, <1>4, <2>1, <2>2, <2>3 DEF Answer
  <2>6. /\ programmed' = programmed \cap Sids(sessions') /\ aborted' \in BOOLEAN
        /\ UNCHANGED <<now, up, disk, kernel, command, announced, spoiled>>
    BY <2>2 DEF Answer
  <2>7. lastSid' \in Nat /\ lease' \subseteq Session BY <1>1, <2>2, <2>3
  <2>. QED BY <1>1, <2>2, <2>4, <2>5, <2>6, <2>7, AnswerType
<1>11. ASSUME NEW ip \in IPs, NEW c \in Clients, AuthNoAddress(ip, c) PROVE TypeOK'
  <2>1. Without(Live(sessions, now), c) \subseteq Session BY <1>2, FewerSessions
  <2>2. /\ sessions' \subseteq Session /\ todo' = todo
        /\ programmed' = programmed \cap Sids(sessions') /\ aborted' \in BOOLEAN
        /\ UNCHANGED <<now, up, disk, kernel, command, announced, spoiled>>
        /\ UNCHANGED <<lastSid, lease, refusal>>
    BY <1>11, <2>1 DEF AuthNoAddress, job
  <2>3. journal' \in Journal BY <1>5, <1>11, SuccessType DEF AuthNoAddress
  <2>. QED BY <1>1, <2>2, <2>3, AnswerType
<1>12. ASSUME NEW ip \in IPs, NEW sid, NEW d, StatusQuery(sid, ip, d) PROVE TypeOK'
  <2>1. PICK s \in Queried(sid, ip, d) :
            Answer((Live(sessions, now) \ {s})
                       \cup {[s EXCEPT !.expires = now + SessionTtl]},
                   <<"send", "persist">>)
    BY <1>12 DEF StatusQuery
  <2>2. s \in Session BY <1>2, <2>1 DEF Queried
  <2>3. [s EXCEPT !.expires = now + SessionTtl] \in Session
    <3>1. now + SessionTtl \in Nat BY <1>1, ServerAssumption
    <3>. QED BY <2>2, <3>1 DEF Session
  <2>4. sessions' \subseteq Session /\ todo' \in Seq(Effects)
    BY <1>2, <1>3, <1>4, <2>1, <2>3 DEF Answer
  <2>5. /\ programmed' = programmed \cap Sids(sessions') /\ aborted' \in BOOLEAN
        /\ UNCHANGED <<now, up, disk, kernel, command, announced, spoiled>>
    BY <2>1 DEF Answer
  <2>6. UNCHANGED <<journal, lastSid, lease, refusal>>
    BY <1>12 DEF StatusQuery
  <2>. QED BY <1>1, <2>4, <2>5, <2>6, AnswerType
<1>13. ASSUME NEW ip \in IPs, NEW c, NEW sids, Disconnect(sids, ip, c) PROVE TypeOK'
  <2>1. PICK s \in Named(sids, ip, c) :
            /\ Answer(Live(sessions, now) \ {s}, <<"unpeer", "persist">>)
            /\ lease' = {s}
    BY <1>13 DEF Disconnect
  <2>2. s \in Session BY <1>2, <2>1 DEF Named
  <2>3. sessions' \subseteq Session /\ todo' \in Seq(Effects) /\ lease' \subseteq Session
    BY <1>2, <1>3, <1>4, <2>1, <2>2 DEF Answer
  <2>4. /\ programmed' = programmed \cap Sids(sessions') /\ aborted' \in BOOLEAN
        /\ UNCHANGED <<now, up, disk, kernel, command, announced, spoiled>>
    BY <2>1 DEF Answer
  <2>5. UNCHANGED <<journal, lastSid, refusal>> BY <1>13 DEF Disconnect
  <2>. QED BY <1>1, <2>3, <2>4, <2>5, AnswerType
<1>. QED BY <1>6, <1>7, <1>8, <1>9, <1>10, <1>11, <1>12, <1>13 DEF Handle

\* No effect does, failed ones included.
LEMMA EffectType == TypeOK /\ Effect => TypeOK'
<1> SUFFICES ASSUME TypeOK, Effect PROVE TypeOK'
  OBVIOUS
<1>1. /\ journal \in Journal /\ sessions \in SUBSET Session /\ todo \in Seq(Effects)
      /\ kernel \in [Clients -> Hosts \cup {NoHost}] /\ lease \subseteq Session
      /\ programmed \subseteq Nat /\ announced \subseteq Refusal
      /\ refusal \subseteq Refusal /\ journal.lockdown \in BOOLEAN
  BY DEF TypeOK, Journal
<1>2. todo # <<>> => Tail(todo) \in Seq(Effects) BY <1>1
<1>3. CASE ApplyPeer
  <2>1. PICK s \in lease :
            \/ /\ kernel' = Routed(s.host, s.client)
               /\ programmed' = programmed \cup {s.sid}
            \/ UNCHANGED <<kernel, programmed>>
    BY <1>3 DEF ApplyPeer
  <2>2. s.sid \in Nat /\ s.host \in Hosts BY <1>1, <2>1 DEF Session
  <2>3. Routed(s.host, s.client) \in [Clients -> Hosts \cup {NoHost}]
    BY <1>1, <2>2 DEF Routed
  <2>4. /\ kernel' \in [Clients -> Hosts \cup {NoHost}] /\ programmed' \subseteq Nat
        /\ todo' \in Seq(Effects) /\ lease' \subseteq Session
    BY <1>1, <1>2, <1>3, <2>1, <2>2, <2>3 DEF ApplyPeer, Due
  <2>. QED BY <1>3, <2>4 DEF ApplyPeer, TypeOK, memory, disk, command
<1>4. CASE RemovePeer
  <2>1. kernel' \in [Clients -> Hosts \cup {NoHost}]
    BY <1>1, <1>4 DEF RemovePeer
  <2>2. todo' \in Seq(Effects) /\ lease' \subseteq Session
    BY <1>2, <1>4 DEF RemovePeer, Due
  <2>. QED BY <1>4, <2>1, <2>2 DEF RemovePeer, TypeOK, memory, disk, command, history
<1>5. CASE SaveJournal
  <2>1. todo' \in Seq(Effects) /\ stateFile' \in Journal
    BY <1>1, <1>2, <1>5 DEF SaveJournal, Due
  <2>. QED BY <1>5, <2>1 DEF SaveJournal, TypeOK, memory, command, history
<1>6. CASE Send
  <2>1. todo' \in Seq(Effects) /\ announced' \subseteq Refusal
    BY <1>1, <1>2, <1>6 DEF Send, Due
  <2>. QED BY <1>6, <2>1 DEF Send, TypeOK, memory, disk, command
<1>7. CASE PersistRuntime
  <2>1. todo' \in Seq(Effects) BY <1>2, <1>7 DEF PersistRuntime, Due
  <2>2. runtime' \in [sessions : SUBSET Nat, lockedDown : BOOLEAN]
    BY <1>1, <1>7, SnapshotType DEF PersistRuntime
  <2>. QED BY <1>7, <2>1, <2>2 DEF PersistRuntime, TypeOK, memory, command, history
<1>8. CASE EffectFails
  <2>1. stateFile' \in Journal /\ shape' \in {"whole", "cut", "unreadable"}
    BY <1>1, <1>8, CutsType DEF EffectFails, WriteCutShort, TypeOK
  <2>2. todo' \in Seq(Effects) BY <1>8 DEF EffectFails
  <2>. QED BY <1>8, <2>1, <2>2 DEF EffectFails, TypeOK, memory, command
<1>. QED BY <1>3, <1>4, <1>5, <1>6, <1>7, <1>8 DEF Effect

\* Nor does a stop, a start, the host, the clock or the operator.
LEMMA HostType ==
    TypeOK /\ (Stop \/ Start \/ Reboot \/ Repair \/ AdminSaves \/ Tick
                    \/ \E what \in Commands : AdminLoads(what)) => TypeOK'
<1> SUFFICES ASSUME TypeOK,
                    Stop \/ Start \/ Reboot \/ Repair \/ AdminSaves \/ Tick
                         \/ \E what \in Commands : AdminLoads(what)
             PROVE  TypeOK'
  OBVIOUS
<1>1. /\ journal \in Journal /\ stateFile \in Journal /\ stateFile.lockdown \in BOOLEAN
      /\ admin \subseteq [what : Commands, copy : Journal]
      /\ spoiled \in BOOLEAN
      /\ shape \in {"whole", "cut", "unreadable"}
  BY DEF TypeOK, Journal
<1>2. ASSUME Stop PROVE TypeOK'
  <2>1. stateFile' \in Journal /\ shape' \in {"whole", "cut", "unreadable"}
    BY <1>1, <1>2, CutsType DEF Stop, WriteCutShort
  <2>2. journal' \in Journal /\ todo' \in Seq(Effects)
    BY <1>2, EmptyJournalType DEF Stop
  <2>. QED BY <1>2, <2>1, <2>2 DEF Stop, TypeOK, command
<1>3. ASSUME Start PROVE TypeOK'
  <2>1. runtime' \in [sessions : SUBSET Nat, lockedDown : BOOLEAN]
    BY <1>1, <1>3, SnapshotType DEF Start
  <2>2. spoiled' \in BOOLEAN BY <1>1, <1>3 DEF Start
  <2>. QED BY <1>1, <1>3, <2>1, <2>2 DEF Start, TypeOK, job, command
<1>4. ASSUME Reboot PROVE TypeOK'
  BY <1>4 DEF Reboot, TypeOK, memory, disk, job, command, history
<1>5. ASSUME Repair PROVE TypeOK'
  BY <1>5, EmptyJournalType DEF Repair, TypeOK, memory, job, command
<1>6. ASSUME AdminSaves PROVE TypeOK'
  <2>1. PICK a \in admin :
            /\ stateFile' = Commanded(a.copy, a.what)
            /\ spoiled' = (spoiled \/ stateFile # a.copy \/ shape # "whole"
                                   \/ stateFile'.lockdown # a.copy.lockdown)
    BY <1>6 DEF AdminSaves
  <2>2. a.what \in Commands /\ a.copy \in Journal BY <1>1
  <2>3. stateFile' \in Journal BY <2>1, <2>2, CommandedType
  <2>4. spoiled' \in BOOLEAN BY <1>1, <2>1
  <2>. QED BY <1>6, <2>3, <2>4 DEF AdminSaves, TypeOK, memory, job
<1>7. ASSUME Tick PROVE TypeOK'
  BY <1>7 DEF Tick, TypeOK, memory, disk, job, command, history
<1>8. ASSUME NEW what \in Commands, AdminLoads(what) PROVE TypeOK'
  <2>1. admin' \subseteq [what : Commands, copy : Journal] BY <1>1, <1>8 DEF AdminLoads
  <2>2. adminRuns' \in Nat BY <1>8 DEF AdminLoads, TypeOK
  <2>. QED BY <1>8, <2>1, <2>2 DEF AdminLoads, TypeOK, memory, disk, job, history
<1>. QED BY <1>2, <1>3, <1>4, <1>5, <1>6, <1>7, <1>8

\* The files of a first run, and a daemon that does not run yet.
LEMMA InitType == Init => TypeOK
<1> SUFFICES ASSUME Init PROVE TypeOK
  OBVIOUS
<1>1. runtime \in [sessions : SUBSET Nat, lockedDown : BOOLEAN]
  BY SnapshotType DEF Init
<1>2. todo \in Seq(Effects) BY DEF Init
<1>. QED BY <1>1, <1>2, EmptyJournalType DEF Init, TypeOK

\* No step, and no pause, leaves a variable outside its type.
LEMMA StepType == TypeOK /\ [Next]_vars => TypeOK'
<1>1. TypeOK /\ UNCHANGED vars => TypeOK'
  BY DEF TypeOK, vars, memory, disk, job, command, history
<1>. QED BY <1>1, HandleType, EffectType, HostType DEF Next

(***************************************************************************)
(* The daemon's memory, its files, the kernel's table and the operator's   *)
(* copy keep their types, over any number of clients, addresses and steps. *)
(***************************************************************************)
THEOREM ServerTypeCorrect == Spec => []TypeOK
BY InitType, StepType, PTL DEF Spec

-----------------------------------------------------------------------------
(***************************************************************************)
(* The safety invariants.  What the kernel routes follows the leases only  *)
(* because a session id is never used twice, the peer an effect is about   *)
(* is that of a session that still stands, or of a client that has none,   *)
(* and no handler runs before the effects of the one before it are done    *)
(* with.  That the sessions of a locked server are gone needs, of Start,   *)
(* that a daemon that does not run has none.                               *)
(***************************************************************************)
SidsUsed == \A s \in sessions : s.sid <= lastSid

ProgrammedLive == programmed \subseteq Sids(sessions)

Table == LeasesExclusive /\ SidsUsed /\ ProgrammedLive /\ KernelFollowsLease

DownIsEmpty == ~ up => sessions = {}

LeaseInHand ==
    todo # <<>> =>
        /\ Head(todo) = "peer" => lease \subseteq sessions
        /\ Head(todo) = "unpeer" =>
              \A l \in lease, s \in sessions : l.client # s.client

ServerInv ==
    /\ Table /\ LockdownNoSessions /\ DownIsEmpty
    /\ todo \in Plans /\ LeaseInHand /\ RuntimeCurrent

\* Sessions that go take nothing from those that stay.
LEMMA FewerKeepTable ==
    ASSUME Table, sessions' \subseteq sessions,
           programmed' = programmed \cap Sids(sessions'),
           UNCHANGED <<kernel, lastSid>>
    PROVE  Table'
<1>1. LeasesExclusive' BY DEF Table, LeasesExclusive
<1>2. SidsUsed' BY DEF Table, SidsUsed
<1>3. ProgrammedLive' BY DEF ProgrammedLive
<1>4. KernelFollowsLease' BY DEF Table, KernelFollowsLease
<1>. QED BY <1>1, <1>2, <1>3, <1>4 DEF Table

\* A session whose expiry moves keeps its id, its client and its address.
LEMMA RefreshKeepsTable ==
    ASSUME NEW s \in sessions, NEW S \in SUBSET sessions, NEW t,
           TypeOK, Table,
           sessions' = (S \ {s}) \cup {[s EXCEPT !.expires = t]},
           programmed' = programmed \cap Sids(sessions'),
           UNCHANGED <<kernel, lastSid>>
    PROVE  Table'
<1> DEFINE new == [s EXCEPT !.expires = t]
<1>1. s \in Session BY DEF TypeOK
<1>2. new.sid = s.sid /\ new.client = s.client /\ new.host = s.host BY <1>1 DEF Session
<1> HIDE DEF new
<1>3. sessions' = (S \ {s}) \cup {new} BY DEF new
<1>4. ASSUME NEW u \in sessions', NEW v \in sessions',
             u.host = v.host \/ u.client = v.client \/ u.sid = v.sid
      PROVE  u = v
  <2>1. CASE u = new /\ v = new BY <2>1
  <2>2. CASE u = new /\ v # new
    <3>1. v \in sessions /\ v # s BY <1>3, <2>2
    <3>. QED BY <1>2, <1>4, <2>2, <3>1 DEF Table, LeasesExclusive
  <2>3. CASE u # new /\ v = new
    <3>1. u \in sessions /\ u # s BY <1>3, <2>3
    <3>. QED BY <1>2, <1>4, <2>3, <3>1 DEF Table, LeasesExclusive
  <2>4. CASE u # new /\ v # new
    <3>1. u \in sessions /\ v \in sessions BY <1>3, <2>4
    <3>. QED BY <1>4, <3>1 DEF Table, LeasesExclusive
  <2>. QED BY <2>1, <2>2, <2>3, <2>4
<1>5. LeasesExclusive' BY <1>4 DEF LeasesExclusive
<1>6. SidsUsed' BY <1>2, <1>3 DEF Table, SidsUsed
<1>7. ProgrammedLive' BY DEF ProgrammedLive
<1>8. KernelFollowsLease' BY <1>2, <1>3 DEF Table, KernelFollowsLease
<1>. QED BY <1>5, <1>6, <1>7, <1>8 DEF Table

\* A new session takes an address, a client and an id that no other has.
LEMMA GrantKeepsTable ==
    ASSUME NEW S \in SUBSET sessions, NEW new \in Session,
           TypeOK, Table,
           \A s \in S : s.client # new.client /\ s.host # new.host,
           new.sid = lastSid + 1, lastSid' = lastSid + 1,
           sessions' = S \cup {new},
           programmed' = programmed \cap Sids(sessions'),
           UNCHANGED kernel
    PROVE  Table'
<1>1. lastSid \in Nat /\ \A s \in sessions : s.sid \in Nat /\ s.sid <= lastSid
  BY DEF TypeOK, Session, Table, SidsUsed
<1>2. \A s \in S : s.sid # new.sid BY <1>1
<1>3. LeasesExclusive' BY <1>2 DEF Table, LeasesExclusive
<1>4. SidsUsed' BY <1>1 DEF SidsUsed
<1>5. ProgrammedLive' BY DEF ProgrammedLive
<1>6. KernelFollowsLease'
  <2>1. new.sid \notin programmed
    <3>1. new.sid \notin Sids(sessions) BY <1>1 DEF Sids
    <3>. QED BY <3>1 DEF Table, ProgrammedLive
  <2>. QED BY <2>1 DEF Table, KernelFollowsLease
<1>. QED BY <1>3, <1>4, <1>5, <1>6 DEF Table

\* What a handler that answers with a list leaves of the invariant.
LEMMA AnswerInv ==
    ASSUME Table', LockdownNoSessions', up' = TRUE,
           todo' \in Plans, todo' # <<>>,
           Head(todo') = "peer" => lease' \subseteq sessions',
           Head(todo') = "unpeer" =>
               \A l \in lease', s \in sessions' : l.client # s.client
    PROVE  ServerInv'
<1>1. DownIsEmpty' BY DEF DownIsEmpty
<1>2. LeaseInHand' BY DEF LeaseInHand
<1>3. RuntimeCurrent' BY DEF RuntimeCurrent
<1>. QED BY <1>1, <1>2, <1>3 DEF ServerInv

\* What a handler that errs leaves of it.
LEMMA ErrorInv ==
    ASSUME Table', LockdownNoSessions', up' = TRUE, aborted' = TRUE, todo' = <<>>
    PROVE  ServerInv'
<1>1. todo' \in Plans BY DEF Plans
<1>. QED BY <1>1 DEF ServerInv, DownIsEmpty, LeaseInHand, RuntimeCurrent

\* The lists that handlers leave, and what is first on them.
LEMMA PlanHeads ==
    /\ <<"persist">> \in Plans /\ <<"send", "persist">> \in Plans
    /\ <<"unpeer", "persist">> \in Plans /\ <<"save", "persist">> \in Plans
    /\ <<"save", "send", "persist">> \in Plans
    /\ <<"peer", "save", "send", "persist">> \in Plans
    /\ Head(<<"persist">>) = "persist" /\ <<"persist">> # <<>>
    /\ Head(<<"send", "persist">>) = "send" /\ <<"send", "persist">> # <<>>
    /\ Head(<<"unpeer", "persist">>) = "unpeer" /\ <<"unpeer", "persist">> # <<>>
    /\ Head(<<"save", "persist">>) = "save" /\ <<"save", "persist">> # <<>>
    /\ Head(<<"save", "send", "persist">>) = "save"
    /\ <<"save", "send", "persist">> # <<>>
    /\ Head(<<"peer", "save", "send", "persist">>) = "peer"
    /\ <<"peer", "save", "send", "persist">> # <<>>
<1>1. /\ Head(<<"persist">>) = "persist" /\ Head(<<"send", "persist">>) = "send"
      /\ Head(<<"unpeer", "persist">>) = "unpeer"
      /\ Head(<<"save", "persist">>) = "save"
      /\ Head(<<"save", "send", "persist">>) = "save"
      /\ Head(<<"peer", "save", "send", "persist">>) = "peer"
  OBVIOUS
<1>2. /\ Len(<<"persist">>) = 1 /\ Len(<<"send", "persist">>) = 2
      /\ Len(<<"unpeer", "persist">>) = 2 /\ Len(<<"save", "persist">>) = 2
      /\ Len(<<"save", "send", "persist">>) = 3
      /\ Len(<<"peer", "save", "send", "persist">>) = 4
  OBVIOUS
<1>3. \A q : Len(q) \in {1, 2, 3, 4} => q # <<>> OBVIOUS
<1>4. /\ <<"persist">> # <<>> /\ <<"send", "persist">> # <<>>
      /\ <<"unpeer", "persist">> # <<>> /\ <<"save", "persist">> # <<>>
      /\ <<"save", "send", "persist">> # <<>>
      /\ <<"peer", "save", "send", "persist">> # <<>>
  BY <1>2, <1>3
<1>. QED BY <1>1, <1>4 DEF Plans

\* Every handler keeps the invariant.
LEMMA HandleInv == TypeOK /\ ServerInv /\ Handle => ServerInv'
<1> SUFFICES ASSUME TypeOK, ServerInv, Handle PROVE ServerInv'
  OBVIOUS
<1>1. /\ Table /\ LockdownNoSessions /\ LeasesExclusive
      /\ sessions \subseteq Session /\ now \in Nat /\ lastSid \in Nat
      /\ journal \in Journal
  BY DEF ServerInv, Table, TypeOK
<1>2. Live(sessions, now) \subseteq sessions BY FewerSessions
<1>3. CASE Ignore \/ Inform
  <2>1. /\ up' = TRUE /\ journal' = journal /\ kernel' = kernel /\ lastSid' = lastSid
        /\ sessions' = Live(sessions, now)
        /\ programmed' = programmed \cap Sids(sessions')
        /\ todo' \in {<<"persist">>, <<"send", "persist">>}
    BY <1>3 DEF Ignore, Inform, Answer, Receive, TypeOK
  <2>2. Table' BY <1>1, <1>2, <2>1, FewerKeepTable
  <2>3. LockdownNoSessions' BY <1>1, <1>2, <2>1 DEF LockdownNoSessions
  <2>. QED BY <2>1, <2>2, <2>3, PlanHeads, AnswerInv
<1>4. ASSUME NEW ip \in IPs, AuthDropped(ip) PROVE ServerInv'
  <2>1. /\ up' = TRUE /\ kernel' = kernel /\ lastSid' = lastSid
        /\ journal' = TrimRecent(journal, now)
        /\ sessions' = Live(sessions, now)
        /\ programmed' = programmed \cap Sids(sessions')
        /\ todo' = <<"save", "persist">>
    BY <1>4 DEF AuthDropped, Answer, Receive, TypeOK
  <2>2. Table' BY <1>1, <1>2, <2>1, FewerKeepTable
  <2>3. journal'.lockdown = journal.lockdown BY <1>1, <2>1, TrimType
  <2>4. LockdownNoSessions' BY <1>1, <1>2, <2>1, <2>3 DEF LockdownNoSessions
  <2>. QED BY <2>1, <2>2, <2>4, PlanHeads, AnswerInv
<1>5. ASSUME NEW ip \in IPs, AuthErrs(ip) PROVE ServerInv'
  <2>1. /\ up' = TRUE /\ kernel' = kernel /\ lastSid' = lastSid
        /\ journal' = TrimRecent(journal, now)
        /\ sessions' = Live(sessions, now)
        /\ programmed' = programmed \cap Sids(sessions')
        /\ todo' = <<>> /\ aborted' = TRUE
    BY <1>5 DEF AuthErrs, Receive, TypeOK, job
  <2>2. Table' BY <1>1, <1>2, <2>1, FewerKeepTable
  <2>3. journal'.lockdown = journal.lockdown BY <1>1, <2>1, TrimType
  <2>4. LockdownNoSessions' BY <1>1, <1>2, <2>1, <2>3 DEF LockdownNoSessions
  <2>. QED BY <2>1, <2>2, <2>4, ErrorInv
<1>6. ASSUME NEW ip \in IPs, AuthRejected(ip) PROVE ServerInv'
  <2> DEFINE after == RegisterFailure(TrimRecent(journal, now), ip, now)
  <2>1. /\ Receive /\ journal' = after
        /\ Answer(IF after.lockdown THEN {} ELSE Live(sessions, now),
                  <<"save", "send", "persist">>)
        /\ UNCHANGED <<lastSid, lease>>
    BY <1>6 DEF AuthRejected
  <2> HIDE DEF after
  <2>2. /\ up' = TRUE /\ kernel' = kernel /\ lastSid' = lastSid
        /\ sessions' = IF journal'.lockdown THEN {} ELSE Live(sessions, now)
        /\ programmed' = programmed \cap Sids(sessions')
        /\ todo' = <<"save", "send", "persist">>
    BY <2>1 DEF Answer, Receive, TypeOK
  <2>3. Table' BY <1>1, <1>2, <2>2, FewerKeepTable
  <2>4. LockdownNoSessions' BY <2>2 DEF LockdownNoSessions
  <2>. QED BY <2>2, <2>3, <2>4, PlanHeads, AnswerInv
<1>7. ASSUME NEW ip \in IPs, NEW c \in Clients, AuthAccepted(ip, c) PROVE ServerInv'
  <2> DEFINE others == Without(Live(sessions, now), c)
             new == [sid |-> lastSid + 1, client |-> c, remote |-> ip,
                     host |-> LowestFree(others), expires |-> now + SessionTtl]
  <2>1. /\ Receive /\ ~ Refused(journal, ip, now) /\ FreeHosts(others) # {}
        /\ journal' = RegisterSuccess(TrimRecent(journal, now), ip)
        /\ Answer(others \cup {new}, <<"peer", "save", "send", "persist">>)
        /\ lease' = {new}
        /\ lastSid' = lastSid + 1
    BY <1>7 DEF AuthAccepted
  <2>2. LowestFree(others) \in FreeHosts(others) /\ LowestFree(others) \in Hosts
    BY <2>1, LowestFreeIsFree
  <2>3. new \in Session
    <3>1. lastSid + 1 \in Nat /\ now + SessionTtl \in Nat BY <1>1, ServerAssumption
    <3>. QED BY <2>2, <3>1 DEF Session
  <2>4. others \in SUBSET sessions BY <1>2, FewerSessions
  <2>5. \A s \in others : s.client # new.client /\ s.host # new.host
    BY <2>2 DEF Without, FreeHosts
  <2>6. new.sid = lastSid + 1 OBVIOUS
  <2> HIDE DEF new, others
  <2>7. /\ up' = TRUE /\ kernel' = kernel
        /\ sessions' = others \cup {new}
        /\ programmed' = programmed \cap Sids(sessions')
        /\ todo' = <<"peer", "save", "send", "persist">>
    BY <2>1 DEF Answer, Receive, TypeOK
  <2>8. Table'
    BY <1>1, <2>1, <2>3, <2>4, <2>5, <2>6, <2>7, GrantKeepsTable
  <2>9. ~ journal'.lockdown
    <3>1. ~ TrimRecent(journal, now).lockdown BY <1>1, <2>1, TrimType DEF Refused
    <3>2. TrimRecent(journal, now) \in Journal BY <1>1, TrimType
    <3>. QED BY <2>1, <3>1, <3>2 DEF RegisterSuccess, Journal
  <2>10. LockdownNoSessions' BY <2>9 DEF LockdownNoSessions
  <2>. QED BY <2>1, <2>7, <2>8, <2>10, PlanHeads, AnswerInv
<1>8. ASSUME NEW ip \in IPs, NEW c \in Clients, AuthNoAddress(ip, c) PROVE ServerInv'
  <2>1. /\ Receive /\ ~ Refused(journal, ip, now)
        /\ up' = TRUE /\ kernel' = kernel /\ lastSid' = lastSid
        /\ journal' = RegisterSuccess(TrimRecent(journal, now), ip)
        /\ sessions' = Without(Live(sessions, now), c)
        /\ programmed' = programmed \cap Sids(sessions')
        /\ todo' = <<>> /\ aborted' = TRUE
    BY <1>8 DEF AuthNoAddress, Receive, TypeOK, job
  <2>2. sessions' \subseteq sessions BY <1>2, <2>1, FewerSessions
  <2>3. Table' BY <1>1, <2>1, <2>2, FewerKeepTable
  <2>4. ~ journal'.lockdown
    <3>1. ~ TrimRecent(journal, now).lockdown BY <1>1, <2>1, TrimType DEF Refused
    <3>2. TrimRecent(journal, now) \in Journal BY <1>1, TrimType
    <3>. QED BY <2>1, <3>1, <3>2 DEF RegisterSuccess, Journal
  <2>5. LockdownNoSessions' BY <2>4 DEF LockdownNoSessions
  <2>. QED BY <2>1, <2>3, <2>5, ErrorInv
<1>9. ASSUME NEW ip \in IPs, NEW sid, NEW d, StatusQuery(sid, ip, d) PROVE ServerInv'
  <2>1. PICK s \in Queried(sid, ip, d) :
            Answer((Live(sessions, now) \ {s})
                       \cup {[s EXCEPT !.expires = now + SessionTtl]},
                   <<"send", "persist">>)
    BY <1>9 DEF StatusQuery
  <2>2. s \in sessions BY <1>2, <2>1 DEF Queried
  <2>3. /\ up' = TRUE /\ kernel' = kernel /\ lastSid' = lastSid /\ journal' = journal
        /\ sessions' = (Live(sessions, now) \ {s})
                           \cup {[s EXCEPT !.expires = now + SessionTtl]}
        /\ programmed' = programmed \cap Sids(sessions')
        /\ todo' = <<"send", "persist">>
    BY <1>9, <2>1 DEF StatusQuery, Answer, Receive, TypeOK
  <2>4. Live(sessions, now) \in SUBSET sessions BY <1>2
  <2>5. Table' BY <1>1, <2>2, <2>3, <2>4, RefreshKeepsTable
  <2>6. LockdownNoSessions' BY <1>1, <2>2, <2>3 DEF LockdownNoSessions
  <2>. QED BY <2>3, <2>5, <2>6, PlanHeads, AnswerInv
<1>10. ASSUME NEW ip \in IPs, NEW c, NEW sids, Disconnect(sids, ip, c) PROVE ServerInv'
  <2>1. PICK s \in Named(sids, ip, c) :
            /\ Answer(Live(sessions, now) \ {s}, <<"unpeer", "persist">>)
            /\ lease' = {s}
    BY <1>10 DEF Disconnect
  <2>2. s \in sessions BY <1>2, <2>1 DEF Named
  <2>3. /\ up' = TRUE /\ kernel' = kernel /\ lastSid' = lastSid /\ journal' = journal
        /\ sessions' = Live(sessions, now) \ {s}
        /\ programmed' = programmed \cap Sids(sessions')
        /\ todo' = <<"unpeer", "persist">>
    BY <1>10, <2>1 DEF Disconnect, Answer, Receive, TypeOK
  <2>4. Table' BY <1>1, <1>2, <2>3, FewerKeepTable
  <2>5. LockdownNoSessions' BY <1>1, <2>2, <2>3 DEF LockdownNoSessions
  <2>6. \A l \in lease', u \in sessions' : l.client # u.client
    BY <1>1, <1>2, <2>1, <2>2, <2>3 DEF LeasesExclusive
  <2>. QED BY <2>3, <2>4, <2>5, <2>6, PlanHeads, AnswerInv
<1>. QED BY <1>3, <1>4, <1>5, <1>6, <1>7, <1>8, <1>9, <1>10 DEF Handle

\* What an effect that goes through leaves of the invariant.
LEMMA EffectDone ==
    ASSUME ServerInv, up, todo # <<>>, todo' = Tail(todo), Table',
           UNCHANGED <<up, journal, sessions>>,
           todo' = <<>> => runtime' = Snapshot(sessions, journal.lockdown)
    PROVE  ServerInv'
<1>1. /\ todo' \in Plans
      /\ todo' # <<>> => Head(todo') \notin {"peer", "unpeer"}
  BY PlanSteps DEF ServerInv
<1>2. LockdownNoSessions' BY DEF ServerInv, LockdownNoSessions
<1>3. DownIsEmpty' BY DEF ServerInv, DownIsEmpty
<1>4. LeaseInHand' BY <1>1 DEF LeaseInHand
<1>5. RuntimeCurrent' BY DEF RuntimeCurrent
<1>. QED BY <1>1, <1>2, <1>3, <1>4, <1>5 DEF ServerInv

\* Every effect keeps it, whether it goes through or fails.
LEMMA EffectInv == TypeOK /\ ServerInv /\ Effect => ServerInv'
<1> SUFFICES ASSUME TypeOK, ServerInv, Effect PROVE ServerInv'
  OBVIOUS
<1>1. /\ Table /\ LeasesExclusive /\ KernelFollowsLease /\ LeaseInHand
      /\ todo \in Plans /\ sessions \subseteq Session
      /\ kernel \in [Clients -> Hosts \cup {NoHost}]
  BY DEF ServerInv, Table, TypeOK
<1>2. ASSUME UNCHANGED <<sessions, lastSid, programmed, kernel>>
      PROVE  Table'
  BY <1>1, <1>2 DEF Table, LeasesExclusive, SidsUsed, ProgrammedLive, KernelFollowsLease
<1>3. ASSUME todo # <<>>, Head(todo) # "persist" PROVE Tail(todo) # <<>>
  BY <1>1, <1>3, PlanSteps
<1>4. CASE ApplyPeer
  <2>1. PICK s \in lease :
            \/ /\ kernel' = Routed(s.host, s.client)
               /\ programmed' = programmed \cup {s.sid}
            \/ UNCHANGED <<kernel, programmed>>
    BY <1>4 DEF ApplyPeer
  <2>2. /\ up /\ todo # <<>> /\ Head(todo) = "peer" /\ todo' = Tail(todo)
        /\ UNCHANGED <<up, journal, sessions, lastSid>>
    BY <1>4 DEF ApplyPeer, Due, memory
  <2>3. s \in sessions BY <1>1, <2>1, <2>2 DEF LeaseInHand
  <2>4. CASE UNCHANGED <<kernel, programmed>>
    BY <1>2, <1>3, <2>2, <2>4, EffectDone
  <2>5. CASE /\ kernel' = Routed(s.host, s.client)
             /\ programmed' = programmed \cup {s.sid}
    <3>1. ProgrammedLive'
      BY <1>1, <2>2, <2>3, <2>5 DEF Table, ProgrammedLive, Sids
    <3>2. KernelFollowsLease'
      <4>1. ASSUME NEW u \in sessions, u.sid \in programmed \cup {s.sid}
            PROVE  Routed(s.host, s.client)[u.client] = u.host
        <5>1. u.client \in Clients BY <1>1 DEF Session
        <5>2. CASE u = s BY <5>1, <5>2 DEF Routed
        <5>3. CASE u # s
          <6>1. u.client # s.client /\ u.host # s.host /\ u.sid # s.sid
            BY <1>1, <2>3, <5>3 DEF LeasesExclusive
          <6>2. kernel[u.client] = u.host
            BY <1>1, <4>1, <6>1 DEF KernelFollowsLease
          <6>. QED BY <5>1, <6>1, <6>2 DEF Routed
        <5>. QED BY <5>2, <5>3
      <4>. QED BY <2>2, <2>5, <4>1 DEF KernelFollowsLease
    <3>3. LeasesExclusive' /\ SidsUsed'
      BY <1>1, <2>2 DEF Table, LeasesExclusive, SidsUsed
    <3>. QED BY <1>3, <2>2, <3>1, <3>2, <3>3, EffectDone DEF Table
  <2>. QED BY <2>1, <2>4, <2>5
<1>5. CASE RemovePeer
  <2>1. PICK s \in lease :
            kernel' = [kernel EXCEPT ![s.client] = NoHost] \/ UNCHANGED kernel
    BY <1>5 DEF RemovePeer
  <2>2. /\ up /\ todo # <<>> /\ Head(todo) = "unpeer" /\ todo' = Tail(todo)
        /\ UNCHANGED <<up, journal, sessions, lastSid, programmed>>
    BY <1>5 DEF RemovePeer, Due, memory, history
  <2>3. \A u \in sessions : s.client # u.client
    BY <1>1, <2>1, <2>2 DEF LeaseInHand
  <2>4. \A u \in sessions : kernel'[u.client] = kernel[u.client]
    <3>1. \A u \in sessions : u.client \in Clients BY <1>1 DEF Session
    <3>. QED BY <1>1, <2>1, <2>3, <3>1
  <2>5. Table'
    BY <1>1, <2>2, <2>4
       DEF Table, LeasesExclusive, SidsUsed, ProgrammedLive, KernelFollowsLease
  <2>. QED BY <1>3, <2>2, <2>5, EffectDone
<1>6. CASE SaveJournal
  <2>1. /\ up /\ todo # <<>> /\ Head(todo) = "save" /\ todo' = Tail(todo)
        /\ UNCHANGED <<up, journal, sessions, lastSid, programmed, kernel>>
    BY <1>6 DEF SaveJournal, Due, memory, history
  <2>. QED BY <1>2, <1>3, <2>1, EffectDone
<1>7. CASE Send
  <2>1. /\ up /\ todo # <<>> /\ Head(todo) = "send" /\ todo' = Tail(todo)
        /\ UNCHANGED <<up, journal, sessions, lastSid, programmed, kernel>>
    BY <1>7 DEF Send, Due, memory
  <2>. QED BY <1>2, <1>3, <2>1, EffectDone
<1>8. CASE PersistRuntime
  <2>1. /\ up /\ todo # <<>> /\ todo' = Tail(todo)
        /\ UNCHANGED <<up, journal, sessions, lastSid, programmed, kernel>>
        /\ runtime' = Snapshot(sessions, journal.lockdown)
    BY <1>8 DEF PersistRuntime, Due, memory, history
  <2>. QED BY <1>2, <2>1, EffectDone
<1>9. CASE EffectFails
  <2>1. /\ up' = TRUE /\ todo' = <<>> /\ aborted' = TRUE
        /\ UNCHANGED <<journal, sessions, lastSid, programmed, kernel>>
    BY <1>9 DEF EffectFails, memory, TypeOK
  <2>2. LockdownNoSessions' BY <2>1 DEF ServerInv, LockdownNoSessions
  <2>. QED BY <1>2, <2>1, <2>2, ErrorInv
<1>. QED BY <1>4, <1>5, <1>6, <1>7, <1>8, <1>9 DEF Effect

\* Without sessions there is little to keep.
LEMMA EmptyTable ==
    ASSUME sessions = {}, programmed = {}
    PROVE  Table /\ LockdownNoSessions /\ DownIsEmpty
BY DEF Table, LeasesExclusive, SidsUsed, ProgrammedLive, KernelFollowsLease,
       LockdownNoSessions, DownIsEmpty, Sids

\* A stop, a start, the host, the clock and the operator keep it.
LEMMA HostInv ==
    TypeOK /\ ServerInv /\ (Stop \/ Start \/ Reboot \/ Repair \/ AdminSaves \/ Tick
                    \/ \E what \in Commands : AdminLoads(what)) => ServerInv'
<1> SUFFICES ASSUME TypeOK, ServerInv,
                    Stop \/ Start \/ Reboot \/ Repair \/ AdminSaves \/ Tick
                         \/ \E what \in Commands : AdminLoads(what)
             PROVE  ServerInv'
  OBVIOUS
<1> USE DEF Table, LeasesExclusive, SidsUsed, ProgrammedLive, KernelFollowsLease,
            LockdownNoSessions, DownIsEmpty, LeaseInHand, RuntimeCurrent, ServerInv
<1>1. CASE Stop
  <2>1. /\ up' = FALSE /\ sessions' = {} /\ programmed' = {} /\ todo' = <<>>
    BY <1>1 DEF Stop
  <2>2. todo' \in Plans BY <2>1 DEF Plans
  <2>. QED BY <2>1, <2>2 DEF Sids
<1>2. CASE Start
  <2>1. /\ ~ up /\ sessions = {} /\ sessions' = {}
        /\ journal' = stateFile /\ runtime' = Snapshot({}, stateFile.lockdown)
        /\ UNCHANGED <<lastSid, kernel, todo, lease, programmed>>
    BY <1>2 DEF Start, job
  <2>. QED BY <2>1
<1>3. CASE Reboot
  <2>1. ~ up /\ sessions = {} BY <1>3 DEF Reboot
  <2>2. UNCHANGED <<up, journal, sessions, lastSid, programmed, todo, lease>>
    BY <1>3 DEF Reboot, memory, job, history
  <2>. QED BY <2>1, <2>2
<1>4. CASE Repair \/ AdminSaves \/ Tick \/ \E what \in Commands : AdminLoads(what)
  <2>1. UNCHANGED <<up, journal, sessions, lastSid, programmed, kernel, todo, lease,
                    runtime, aborted>>
    BY <1>4 DEF Repair, AdminSaves, Tick, AdminLoads, memory, disk, job, history
  <2>. QED BY <2>1
<1>. QED BY <1>1, <1>2, <1>3, <1>4

\* A daemon that does not run yet has no sessions.
LEMMA InitInv == Init => ServerInv
<1> SUFFICES ASSUME Init PROVE ServerInv
  OBVIOUS
<1>1. sessions = {} /\ programmed = {} /\ todo = <<>> /\ up = FALSE BY DEF Init
<1>2. todo \in Plans BY <1>1 DEF Plans
<1>. QED BY <1>1, <1>2, EmptyTable DEF ServerInv, LeaseInHand, RuntimeCurrent

\* No step, and no pause, breaks the inductive invariant.
LEMMA StepInv == TypeOK /\ ServerInv /\ [Next]_vars => ServerInv'
<1>1. ServerInv /\ UNCHANGED vars => ServerInv'
  BY DEF vars, memory, disk, job, command, history, ServerInv, Table, LeasesExclusive,
         SidsUsed, ProgrammedLive, KernelFollowsLease, LockdownNoSessions, DownIsEmpty,
         LeaseInHand, RuntimeCurrent
<1>. QED BY <1>1, HandleInv, EffectInv, HostInv DEF Next

(***************************************************************************)
(* The inductive invariant holds in every state the server can reach.      *)
(***************************************************************************)
THEOREM ServerInvariant == Spec => []ServerInv
BY InitInv, StepInv, ServerTypeCorrect, PTL DEF Spec

(***************************************************************************)
(* No two sessions share an address, a client or an id, for any number of  *)
(* clients and addresses.                                                  *)
(***************************************************************************)
THEOREM LeasesStayExclusive == Spec => []LeasesExclusive
<1>1. ServerInv => LeasesExclusive BY DEF ServerInv, Table
<1>. QED BY <1>1, ServerInvariant, PTL

(***************************************************************************)
(* A locked server has no sessions.                                        *)
(***************************************************************************)
THEOREM LockdownClearsSessions == Spec => []LockdownNoSessions
<1>1. ServerInv => LockdownNoSessions BY DEF ServerInv
<1>. QED BY <1>1, ServerInvariant, PTL

(***************************************************************************)
(* The route of a live session's peer is never taken away.                 *)
(***************************************************************************)
THEOREM KernelStaysWithLease == Spec => []KernelFollowsLease
<1>1. ServerInv => KernelFollowsLease BY DEF ServerInv, Table
<1>. QED BY <1>1, ServerInvariant, PTL

(***************************************************************************)
(* The runtime file is never behind a daemon that waits, unless its last   *)
(* packet failed.                                                          *)
(***************************************************************************)
THEOREM RuntimeStaysCurrent == Spec => []RuntimeCurrent
<1>1. ServerInv => RuntimeCurrent BY DEF ServerInv
<1>. QED BY <1>1, ServerInvariant, PTL

-----------------------------------------------------------------------------
(***************************************************************************)
(* Refusals.                                                               *)
(***************************************************************************)

\* The refusals of V that still stand are in journal j.
Kept(V, j) == \A v \in V : Stands(v, j)

\* A handler with a refusal to announce saves the journal first.
RefusalInHand ==
    refusal # {} => up /\ todo \in {<<"save", "send", "persist">>, <<"send", "persist">>}

(***************************************************************************)
(* What RefusalsHold needs to be inductive: the refusal in hand is in the  *)
(* journal from the step that decides it, and on disk from the step that   *)
(* puts the answer next.                                                   *)
(***************************************************************************)
RefusalsInv ==
    /\ RefusalInHand
    /\ Kept(refusal, journal)
    /\ up /\ ~ spoiled => Kept(announced, journal)
    /\ shape = "whole" /\ ~ spoiled => Kept(announced, stateFile)
    /\ shape = "whole" /\ ~ spoiled /\ todo = <<"send", "persist">>
          => Kept(refusal, stateFile)

\* The two plans that carry a refusal, and what the first effect leaves.
LEMMA RefusalPlans ==
    /\ <<"save", "send", "persist">> # <<"send", "persist">>
    /\ <<"save", "send", "persist">> # <<>> /\ <<"send", "persist">> # <<>>
    /\ Head(<<"save", "send", "persist">>) = "save"
    /\ Tail(<<"save", "send", "persist">>) = <<"send", "persist">>
    /\ Head(<<"send", "persist">>) = "send"
<1>1. Len(<<"save", "send", "persist">>) = 3 /\ Len(<<"send", "persist">>) = 2
  OBVIOUS
<1>2. Len(<<>>) = 0 OBVIOUS
<1>. QED BY <1>1, <1>2

\* A journal that keeps the lockdown and the cooldowns that run keeps every
\* refusal of the one before it.
LEMMA StandsInLater ==
    ASSUME NEW v \in Refusal, NEW j \in Journal, NEW k \in Journal, now \in Nat,
           Stands(v, j), j.lockdown => k.lockdown,
           \A ip \in IPs : \/ k.failures[ip] = j.failures[ip]
                           \/ j.failures[ip].cooldownUntil <= now
    PROVE  Stands(v, k)
<1>1. v.ip \in IPs /\ v.until \in Nat BY DEF Refusal
<1>2. j.failures[v.ip].cooldownUntil \in Nat BY <1>1 DEF Journal, IpFailureRecord
<1>3. v.until > now => k.failures[v.ip].cooldownUntil >= v.until
  BY <1>1, <1>2 DEF Stands
<1>4. v.locked => k.lockdown BY DEF Stands
<1>. QED BY <1>3, <1>4 DEF Stands

\* The journal that an evaluated login leaves keeps what the other addresses
\* were told: the address in hand was told nothing that still stands.
LEMMA FailureKeeps ==
    ASSUME NEW j \in Journal, NEW ip \in IPs, NEW t \in Nat, ~ Refused(j, ip, t)
    PROVE  /\ j.failures[ip].cooldownUntil <= t
           /\ \A k \in IPs \ {ip} :
                 RegisterFailure(TrimRecent(j, t), ip, t).failures[k] = j.failures[k]
           /\ ~ j.lockdown
<1>1. j.failures[ip].cooldownUntil \in Nat BY DEF Journal, IpFailureRecord
<1>2. j.failures[ip].cooldownUntil <= t /\ ~ j.lockdown BY <1>1 DEF Refused
<1>3. j.failures \in [IPs -> IpFailureRecord] BY DEF Journal
<1>4. RegisterFailure(TrimRecent(j, t), ip, t).failures
          = [j.failures EXCEPT ![ip] = FailedOnce(@, t)]
  BY FailureRecords
<1>. QED BY <1>2, <1>3, <1>4

\* A login that is accepted clears one record that holds no cooldown.
LEMMA SuccessKeeps ==
    ASSUME NEW j \in Journal, NEW ip \in IPs, NEW t \in Nat, ~ Refused(j, ip, t)
    PROVE  /\ j.failures[ip].cooldownUntil <= t
           /\ \A k \in IPs \ {ip} :
                 RegisterSuccess(TrimRecent(j, t), ip).failures[k] = j.failures[k]
           /\ ~ j.lockdown
<1>1. j.failures[ip].cooldownUntil \in Nat BY DEF Journal, IpFailureRecord
<1>2. j.failures[ip].cooldownUntil <= t /\ ~ j.lockdown BY <1>1 DEF Refused
<1>3. TrimRecent(j, t).failures = j.failures /\ TrimRecent(j, t) \in Journal
  BY TrimType
<1>4. j.failures \in [IPs -> IpFailureRecord] BY DEF Journal
<1>5. RegisterSuccess(TrimRecent(j, t), ip).failures
          = [j.failures EXCEPT ![ip] = [count |-> 0, cooldownUntil |-> NoCooldown]]
  BY <1>3, <1>4 DEF RegisterSuccess, Journal
<1>. QED BY <1>2, <1>4, <1>5

\* The refusal that a failure decides stands in the journal it leaves.
LEMMA DecidedStands ==
    ASSUME NEW ip \in IPs, NEW j \in Journal, NEW k \in Journal, now \in Nat
    PROVE  Stands(RefusalOn(ip, j, k), k)
<1>1. k.failures[ip].cooldownUntil \in Nat BY DEF Journal, IpFailureRecord
<1>. QED BY <1>1 DEF Stands, RefusalOn, NoCooldown

\* What a handler leaves of the invariant: it starts with no refusal in hand.
LEMMA RefusalsAfterHandler ==
    ASSUME TypeOK, TypeOK', RefusalsInv, Receive,
           UNCHANGED <<now, up, stateFile, shape, announced, spoiled>>,
           journal.lockdown => journal'.lockdown,
           \A ip \in IPs : \/ journal'.failures[ip] = journal.failures[ip]
                           \/ journal.failures[ip].cooldownUntil <= now,
           \/ refusal' = refusal
           \/ todo' = <<"save", "send", "persist">> /\ Kept(refusal', journal')
    PROVE  RefusalsInv'
<1>1. refusal = {}
  <2>1. up /\ todo = <<>> BY DEF Receive
  <2>. QED BY <2>1, RefusalPlans DEF RefusalsInv, RefusalInHand
<1>2. now \in Nat /\ journal \in Journal /\ journal' \in Journal
      /\ announced \subseteq Refusal
  BY DEF TypeOK
<1>3. ASSUME NEW v \in Refusal, Stands(v, journal)
      PROVE  Stands(v, journal')
  BY <1>2, <1>3, StandsInLater
<1>4. up /\ ~ spoiled => Kept(announced, journal')
  BY <1>2, <1>3 DEF RefusalsInv, Kept
<1>5. Kept(refusal', journal') /\ RefusalInHand'
  <2>1. CASE refusal' = refusal BY <1>1, <2>1 DEF Kept, RefusalInHand
  <2>2. CASE todo' = <<"save", "send", "persist">> /\ Kept(refusal', journal')
    BY <2>2 DEF RefusalInHand, Receive
  <2>. QED BY <2>1, <2>2
<1>6. todo' = <<"send", "persist">> => refusal' = {}
  BY <1>1, RefusalPlans
<1>7. shape = "whole" /\ ~ spoiled => Kept(announced, stateFile)
  BY DEF RefusalsInv
<1>. QED BY <1>4, <1>5, <1>6, <1>7 DEF RefusalsInv, Kept, Stands

\* Every handler keeps it.
LEMMA RefusalsHandle == TypeOK /\ TypeOK' /\ RefusalsInv /\ Handle => RefusalsInv'
<1> SUFFICES ASSUME TypeOK, TypeOK', RefusalsInv, Handle PROVE RefusalsInv'
  OBVIOUS
<1>1. now \in Nat /\ journal \in Journal BY DEF TypeOK
<1>2. ASSUME NEW j, j = journal \/ j = TrimRecent(journal, now)
      PROVE  j.failures = journal.failures /\ (j.lockdown <=> journal.lockdown)
  BY <1>1, <1>2, TrimType
<1>3. CASE Ignore \/ Inform
  BY <1>3, RefusalsAfterHandler DEF Ignore, Inform, Answer, disk
<1>4. ASSUME NEW ip \in IPs, AuthDropped(ip) PROVE RefusalsInv'
  BY <1>2, <1>4, RefusalsAfterHandler DEF AuthDropped, Answer, disk
<1>5. ASSUME NEW ip \in IPs, AuthErrs(ip) PROVE RefusalsInv'
  BY <1>2, <1>5, RefusalsAfterHandler DEF AuthErrs, disk, job
<1>6. ASSUME NEW ip \in IPs, AuthRejected(ip) PROVE RefusalsInv'
  <2> DEFINE after == RegisterFailure(TrimRecent(journal, now), ip, now)
  <2>1. /\ Receive /\ ~ Refused(journal, ip, now)
        /\ journal' = after /\ todo' = <<"save", "send", "persist">>
        /\ refusal' = {RefusalOn(ip, journal, after)}
        /\ UNCHANGED <<now, up, stateFile, shape, announced, spoiled>>
    BY <1>6 DEF AuthRejected, Answer, disk
  <2>2. /\ journal.failures[ip].cooldownUntil <= now /\ ~ journal.lockdown
        /\ \A k \in IPs \ {ip} : journal'.failures[k] = journal.failures[k]
    BY <1>1, <2>1, FailureKeeps
  <2>3. after \in Journal BY <1>1, FailureType, TrimType
  <2> HIDE DEF after
  <2>4. Kept(refusal', journal') BY <1>1, <2>1, <2>3, DecidedStands DEF Kept
  <2>. QED BY <2>1, <2>2, <2>4, RefusalsAfterHandler
<1>7. ASSUME NEW ip \in IPs, NEW c \in Clients, AuthAccepted(ip, c) \/ AuthNoAddress(ip, c)
      PROVE  RefusalsInv'
  <2>1. /\ Receive /\ ~ Refused(journal, ip, now)
        /\ journal' = RegisterSuccess(TrimRecent(journal, now), ip)
        /\ UNCHANGED <<now, up, stateFile, shape, announced, spoiled, refusal>>
    BY <1>7 DEF AuthAccepted, AuthNoAddress, Answer, disk, job
  <2>2. /\ journal.failures[ip].cooldownUntil <= now /\ ~ journal.lockdown
        /\ \A k \in IPs \ {ip} : journal'.failures[k] = journal.failures[k]
    BY <1>1, <2>1, SuccessKeeps
  <2>. QED BY <2>1, <2>2, RefusalsAfterHandler
<1>8. ASSUME NEW ip \in IPs, NEW sid, NEW d, StatusQuery(sid, ip, d) \/ Disconnect(sid, ip, d)
      PROVE  RefusalsInv'
  <2>1. /\ Receive
        /\ UNCHANGED <<now, up, stateFile, shape, announced, spoiled, refusal, journal>>
    BY <1>8 DEF StatusQuery, Disconnect, Answer, disk
  <2>. QED BY <2>1, RefusalsAfterHandler
<1>. QED BY <1>3, <1>4, <1>5, <1>6, <1>7, <1>8 DEF Handle

\* A save brings the file up to the journal; a send announces what is in
\* both; any other effect leaves refusals, journal and file alone.
LEMMA RefusalsEffect == TypeOK /\ RefusalsInv /\ Effect => RefusalsInv'
<1> SUFFICES ASSUME TypeOK, RefusalsInv, Effect PROVE RefusalsInv'
  OBVIOUS
<1>1. /\ RefusalInHand /\ Kept(refusal, journal)
      /\ (up /\ ~ spoiled => Kept(announced, journal))
      /\ (shape = "whole" /\ ~ spoiled => Kept(announced, stateFile))
      /\ (shape = "whole" /\ ~ spoiled /\ todo = <<"send", "persist">>
             => Kept(refusal, stateFile))
  BY DEF RefusalsInv
<1>2. CASE SaveJournal
  <2>1. /\ up /\ Head(todo) = "save" /\ todo' = Tail(todo)
        /\ stateFile' = journal /\ shape' = "whole"
        /\ UNCHANGED <<now, up, journal, refusal, announced, spoiled>>
    BY <1>2 DEF SaveJournal, Due, memory, history
  <2>2. RefusalInHand' BY <1>1, <2>1, RefusalPlans DEF RefusalInHand
  <2>. QED BY <1>1, <2>1, <2>2 DEF RefusalsInv, Kept, Stands
<1>3. CASE Send
  <2>1. /\ up /\ Head(todo) = "send" /\ refusal' = {}
        /\ announced' = announced \cup refusal
        /\ UNCHANGED <<now, up, journal, stateFile, shape, spoiled>>
    BY <1>3 DEF Send, Due, memory, disk
  <2>2. refusal # {} => todo = <<"send", "persist">>
    BY <1>1, <2>1, RefusalPlans DEF RefusalInHand
  <2>3. RefusalInHand' BY <2>1 DEF RefusalInHand
  <2>4. up /\ ~ spoiled => Kept(announced \cup refusal, journal)
    BY <1>1 DEF Kept
  <2>5. shape = "whole" /\ ~ spoiled => Kept(announced \cup refusal, stateFile)
    BY <1>1, <2>2 DEF Kept
  <2>. QED BY <2>1, <2>3, <2>4, <2>5 DEF RefusalsInv, Kept, Stands
<1>4. CASE ApplyPeer \/ RemovePeer \/ PersistRuntime
  <2>1. /\ UNCHANGED <<now, up, journal, stateFile, shape, refusal, announced, spoiled>>
        /\ Head(todo) \in {"peer", "unpeer", "persist"}
    BY <1>4 DEF ApplyPeer, RemovePeer, PersistRuntime, Due, memory, disk, history
  <2>2. refusal = {} BY <1>1, <2>1, RefusalPlans DEF RefusalInHand
  <2>. QED BY <1>1, <2>1, <2>2 DEF RefusalsInv, RefusalInHand, Kept, Stands
<1>5. CASE EffectFails
  <2>1. /\ refusal' = {}
        /\ UNCHANGED <<now, up, journal, announced, spoiled>>
        /\ UNCHANGED <<stateFile, shape>> \/ shape' # "whole"
    BY <1>5 DEF EffectFails, WriteCutShort, memory
  <2>. QED BY <1>1, <2>1 DEF RefusalsInv, RefusalInHand, Kept, Stands
<1>. QED BY <1>2, <1>3, <1>4, <1>5 DEF Effect

\* What an operator's command leaves of a journal: every cooldown, and the
\* lockdown unless it ends it.
LEMMA CommandKeeps ==
    ASSUME NEW j \in Journal, NEW what \in Commands
    PROVE  /\ Commanded(j, what).failures = j.failures
           /\ Commanded(j, what).lockdown # j.lockdown => ~ Commanded(j, what).lockdown
BY DEF Commanded, Unlock, Unban, Journal

\* A start, a stop, the host, the clock and the operator keep it.
LEMMA RefusalsHost ==
    TypeOK /\ RefusalsInv /\ (Stop \/ Start \/ Reboot \/ Repair \/ AdminSaves \/ Tick
                    \/ \E what \in Commands : AdminLoads(what)) => RefusalsInv'
<1> SUFFICES ASSUME TypeOK, RefusalsInv,
                    Stop \/ Start \/ Reboot \/ Repair \/ AdminSaves \/ Tick
                         \/ \E what \in Commands : AdminLoads(what)
             PROVE  RefusalsInv'
  OBVIOUS
<1>1. /\ RefusalInHand /\ Kept(refusal, journal)
      /\ (up /\ ~ spoiled => Kept(announced, journal))
      /\ (shape = "whole" /\ ~ spoiled => Kept(announced, stateFile))
      /\ (shape = "whole" /\ ~ spoiled /\ todo = <<"send", "persist">>
             => Kept(refusal, stateFile))
      /\ up \in BOOLEAN /\ spoiled \in BOOLEAN
  BY DEF RefusalsInv, TypeOK
<1>2. CASE Stop
  <2>1. /\ up' = FALSE /\ refusal' = {}
        /\ UNCHANGED <<now, announced, spoiled>>
        /\ UNCHANGED <<stateFile, shape>> \/ shape' # "whole"
    BY <1>2 DEF Stop, WriteCutShort
  <2>. QED BY <1>1, <2>1 DEF RefusalsInv, RefusalInHand, Kept, Stands
<1>3. CASE Start
  <2>1. /\ ~ up /\ shape # "unreadable" /\ journal' = stateFile
        /\ spoiled' = (spoiled \/ shape = "cut")
        /\ UNCHANGED <<now, stateFile, shape, announced, refusal, todo>>
    BY <1>3 DEF Start, job
  <2>2. refusal = {} BY <1>1, <2>1 DEF RefusalInHand
  <2>3. shape = "whole" \/ shape = "cut" BY <2>1 DEF TypeOK
  <2>4. ~ spoiled' => Kept(announced, stateFile) BY <1>1, <2>1, <2>3
  <2>. QED BY <2>1, <2>2, <2>4 DEF RefusalsInv, RefusalInHand, Kept, Stands
<1>4. CASE Repair
  <2>1. /\ ~ up /\ spoiled' = TRUE
        /\ UNCHANGED <<now, up, journal, announced, refusal, todo>>
    BY <1>4 DEF Repair, memory, job
  <2>2. refusal = {} BY <1>1, <2>1 DEF RefusalInHand
  <2>. QED BY <2>1, <2>2 DEF RefusalsInv, RefusalInHand, Kept, Stands
<1>5. CASE AdminSaves
  <2>1. PICK a \in admin :
            /\ stateFile' = Commanded(a.copy, a.what)
            /\ spoiled' = (spoiled \/ stateFile # a.copy \/ shape # "whole"
                                   \/ stateFile'.lockdown # a.copy.lockdown)
    BY <1>5 DEF AdminSaves
  <2>2. UNCHANGED <<now, up, journal, announced, refusal, todo>>
    BY <1>5 DEF AdminSaves, memory, job
  <2>3. a.what \in Commands /\ a.copy \in Journal BY DEF TypeOK
  <2>4. ~ spoiled' => /\ ~ spoiled /\ stateFile = a.copy /\ shape = "whole"
                      /\ stateFile'.lockdown = stateFile.lockdown
                      /\ stateFile'.failures = stateFile.failures
    BY <2>1, <2>3, CommandKeeps
  <2>5. ASSUME NEW V, ~ spoiled', Kept(V, stateFile) PROVE Kept(V, stateFile')
    BY <2>4, <2>5 DEF Kept, Stands
  <2>6. Kept(refusal, journal)' BY <1>1, <2>2 DEF Kept, Stands
  <2>7. RefusalInHand' BY <1>1, <2>2 DEF RefusalInHand
  <2>8. ~ spoiled' => /\ up => Kept(announced, journal)
                      /\ Kept(announced, stateFile')
                      /\ todo = <<"send", "persist">> => Kept(refusal, stateFile')
    BY <1>1, <2>4, <2>5
  <2>. QED BY <1>1, <2>2, <2>6, <2>7, <2>8 DEF RefusalsInv, Kept, Stands
<1>6. CASE Tick
  <2>1. /\ now' = now + 1
        /\ UNCHANGED <<up, journal, stateFile, shape, announced, spoiled, refusal, todo>>
    BY <1>6 DEF Tick, memory, disk, job, history
  <2>2. ASSUME NEW V, NEW j, V \subseteq Refusal, Kept(V, j)
        PROVE  \A v \in V : /\ v.until > now' => j.failures[v.ip].cooldownUntil >= v.until
                            /\ v.locked => j.lockdown
    <3>1. ASSUME NEW v \in V, v.until > now'
          PROVE  v.until > now
      <4>1. v.until \in Nat BY <2>2 DEF Refusal
      <4>2. now \in Nat BY DEF TypeOK
      <4>. QED BY <2>1, <3>1, <4>1, <4>2
    <3>. QED BY <2>2, <3>1 DEF Kept, Stands
  <2>3. announced \subseteq Refusal /\ refusal \subseteq Refusal BY DEF TypeOK
  <2>4. RefusalInHand' BY <1>1, <2>1 DEF RefusalInHand
  <2>. QED BY <1>1, <2>1, <2>2, <2>3, <2>4 DEF RefusalsInv, Kept, Stands
<1>7. CASE Reboot \/ \E what \in Commands : AdminLoads(what)
  <2>1. UNCHANGED <<now, up, journal, stateFile, shape, announced, spoiled, refusal, todo>>
    BY <1>7 DEF Reboot, AdminLoads, memory, disk, job, history
  <2>. QED BY <1>1, <2>1 DEF RefusalsInv, RefusalInHand, Kept, Stands
<1>. QED BY <1>2, <1>3, <1>4, <1>5, <1>6, <1>7

\* Nobody was told anything yet.
LEMMA RefusalsInit == Init => RefusalsInv
BY DEF Init, RefusalsInv, RefusalInHand, Kept

\* No step, and no pause, breaks the inductive invariant.
LEMMA RefusalsStep == TypeOK /\ TypeOK' /\ RefusalsInv /\ [Next]_vars => RefusalsInv'
<1>1. RefusalsInv /\ UNCHANGED vars => RefusalsInv'
  BY DEF vars, memory, disk, job, history, RefusalsInv, RefusalInHand, Kept, Stands
<1>. QED BY <1>1, RefusalsHandle, RefusalsEffect, RefusalsHost DEF Next

(***************************************************************************)
(* A refusal that a client was told of outlives the daemon, however often  *)
(* and wherever it stops.                                                  *)
(***************************************************************************)
THEOREM RefusalsOutliveTheDaemon == Spec => []RefusalsHold
<1>1. RefusalsInv => RefusalsHold BY DEF RefusalsInv, RefusalsHold, Kept
<1>2. Spec => []RefusalsInv
  BY RefusalsInit, RefusalsStep, ServerTypeCorrect, PTL DEF Spec
<1>. QED BY <1>1, <1>2, PTL

-----------------------------------------------------------------------------
(***************************************************************************)
(* The server hands out its addresses as LeasePool says.                   *)
(***************************************************************************)

\* No address is held twice, and no client holds two.
Exclusive(S) ==
    \A s, t \in S : s.host = t.host \/ s.client = t.client => s = t

\* The pool shows what the session of an address says: whose it is and when
\* it ends.
LEMMA PoolShowsSession ==
    ASSUME Exclusive(sessions), NEW s \in sessions
    PROVE  HolderOf(s.host) = {s.client} /\ EndOf(s.host) = s.expires
<1>1. {t \in sessions : t.host = s.host} = {s} BY DEF Exclusive
<1>2. (CHOOSE t \in {s} : TRUE) = s OBVIOUS
<1>. QED BY <1>1, <1>2 DEF HolderOf, EndOf

\* An address without a session is nobody's.
LEMMA PoolShowsFree ==
    ASSUME NEW h, \A s \in sessions : s.host # h
    PROVE  HolderOf(h) = {} /\ EndOf(h) = 0
<1>1. {t \in sessions : t.host = h} = {} OBVIOUS
<1>. QED BY <1>1 DEF HolderOf, EndOf

\* What has lapsed, and what a client holds, in terms of sessions.
LEMMA PoolSets ==
    ASSUME Exclusive(sessions), sessions \subseteq Session, now \in Nat
    PROVE  /\ \A s \in sessions : s.host \in Pool!Lapsed <=> ~ (s.expires > now)
           /\ \A s \in sessions : \A c : s.host \in Pool!OwnedBy(c) <=> s.client = c
           /\ \A h \in Hosts : (\A s \in sessions : s.host # h) => h \in Pool!Lapsed
           /\ \A c : \A h \in Pool!OwnedBy(c) :
                 \E s \in sessions : s.host = h /\ s.client = c
<1>1. ASSUME NEW s \in sessions
      PROVE  s.host \in Pool!Lapsed <=> ~ (s.expires > now)
  <2>1. s.host \in Hosts /\ s.expires \in Nat BY DEF Session
  <2>2. EndOf(s.host) = s.expires BY PoolShowsSession
  <2>. QED BY <2>1, <2>2 DEF Pool!Lapsed
<1>2. ASSUME NEW s \in sessions, NEW c
      PROVE  s.host \in Pool!OwnedBy(c) <=> s.client = c
  <2>1. s.host \in Hosts BY DEF Session
  <2>2. HolderOf(s.host) = {s.client} BY PoolShowsSession
  <2>. QED BY <2>1, <2>2 DEF Pool!OwnedBy
<1>3. ASSUME NEW h \in Hosts, \A s \in sessions : s.host # h
      PROVE  h \in Pool!Lapsed
  <2>1. EndOf(h) = 0 BY <1>3, PoolShowsFree
  <2>. QED BY <2>1 DEF Pool!Lapsed
<1>4. ASSUME NEW c, NEW h \in Pool!OwnedBy(c)
      PROVE  \E s \in sessions : s.host = h /\ s.client = c
  <2>1. h \in Hosts /\ HolderOf(h) = {c} BY DEF Pool!OwnedBy
  <2>. QED BY <2>1 DEF HolderOf
<1>. QED BY <1>1, <1>2, <1>3, <1>4

\* A step of the server reassigns addresses in the pool when the sessions of
\* the addresses that it neither takes nor gives stay, those it takes are
\* gone and those it gives are c's for a time to live.
LEMMA PoolReassigns ==
    ASSUME Exclusive(sessions), Exclusive(sessions'), now' = now,
           NEW taken, NEW given, NEW c,
           \A h \in given : \E s \in sessions' :
               s.host = h /\ s.client = c /\ s.expires = now + SessionTtl,
           \A s \in sessions' : s.host \notin given =>
               s.host \notin taken /\ s \in sessions,
           \A s \in sessions : s.host \notin given /\ s.host \notin taken =>
               s \in sessions'
    PROVE  Pool!Reassign(taken, given, c)
<1>1. ASSUME NEW s \in sessions'
      PROVE  HolderOf(s.host)' = {s.client} /\ EndOf(s.host)' = s.expires
  <2>1. {t \in sessions' : t.host = s.host} = {s} BY DEF Exclusive
  <2>2. (CHOOSE t \in {s} : TRUE) = s OBVIOUS
  <2>. QED BY <2>1, <2>2 DEF HolderOf, EndOf
<1>2. ASSUME NEW h, \A s \in sessions' : s.host # h
      PROVE  HolderOf(h)' = {} /\ EndOf(h)' = 0
  <2>1. {t \in sessions' : t.host = h} = {} BY <1>2
  <2>. QED BY <2>1 DEF HolderOf, EndOf
<1>3. ASSUME NEW h \in Hosts
      PROVE  /\ HolderOf(h)' = IF h \in given THEN {c}
                               ELSE IF h \in taken THEN {} ELSE HolderOf(h)
             /\ EndOf(h)' = IF h \in given THEN now + SessionTtl
                            ELSE IF h \in taken THEN 0 ELSE EndOf(h)
  <2>1. CASE h \in given
    <3>1. PICK s \in sessions' : s.host = h /\ s.client = c /\ s.expires = now + SessionTtl
      BY <2>1
    <3>. QED BY <1>1, <2>1, <3>1
  <2>2. CASE h \notin given /\ h \in taken BY <1>2, <2>2
  <2>3. CASE h \notin given /\ h \notin taken
    <3>1. CASE \E s \in sessions : s.host = h
      <4>1. PICK s \in sessions : s.host = h BY <3>1
      <4>2. s \in sessions' BY <2>3, <4>1
      <4>. QED BY <1>1, <2>3, <4>1, <4>2, PoolShowsSession
    <3>2. CASE \A s \in sessions : s.host # h
      <4>1. \A s \in sessions' : s.host # h BY <2>3, <3>2
      <4>. QED BY <1>2, <2>3, <3>2, <4>1, PoolShowsFree
    <3>. QED BY <3>1, <3>2
  <2>. QED BY <2>1, <2>2, <2>3
<1>. QED BY <1>3 DEF Pool!Reassign

\* The pool does not change with anything but the sessions and the clock.
LEMMA PoolStutters ==
    ASSUME UNCHANGED <<now, sessions>>
    PROVE  UNCHANGED Pool!vars
<1>1. \A h : HolderOf(h)' = HolderOf(h) /\ EndOf(h)' = EndOf(h)
  BY DEF HolderOf, EndOf
<1>. QED BY <1>1 DEF Pool!vars

\* The clean-up alone lets addresses lapse.
LEMMA PoolLapses ==
    ASSUME Exclusive(sessions), sessions \subseteq Session, now \in Nat, now' = now,
           sessions' = Live(sessions, now)
    PROVE  Pool!Lapse \/ UNCHANGED Pool!vars
<1>1. CASE sessions = {}
  <2>1. sessions' = sessions BY <1>1 DEF Live
  <2>. QED BY <2>1, PoolStutters
<1>2. CASE sessions # {}
  <2>1. PICK s \in sessions : TRUE BY <1>2
  <2>2. s.client \in Clients BY DEF Session
  <2>3. Exclusive(sessions') BY DEF Exclusive, Live
  <2>4. \A t \in sessions' : t.host \notin Pool!Lapsed /\ t \in sessions
    BY PoolSets DEF Live
  <2>5. \A t \in sessions : t.host \notin Pool!Lapsed => t \in sessions'
    BY PoolSets DEF Live
  <2>6. Pool!Reassign(Pool!Lapsed, {}, s.client)
    BY <2>3, <2>4, <2>5, PoolReassigns
  <2>. QED BY <2>2, <2>6 DEF Pool!Lapse
<1>. QED BY <1>1, <1>2

\* When every session goes, every address comes back.
LEMMA PoolRevokes ==
    ASSUME Exclusive(sessions), sessions \subseteq Session, now' = now, sessions' = {}
    PROVE  Pool!Revoke \/ UNCHANGED Pool!vars
<1>1. CASE sessions = {} BY <1>1, PoolStutters
<1>2. CASE sessions # {}
  <2>1. PICK s \in sessions : TRUE BY <1>2
  <2>2. s.client \in Clients BY DEF Session
  <2>3. \A t \in sessions : t.host \in Hosts BY DEF Session
  <2>4. Exclusive(sessions') BY DEF Exclusive
  <2>5. Pool!Reassign(Hosts, {}, s.client) BY <2>3, <2>4, PoolReassigns
  <2>. QED BY <2>2, <2>5 DEF Pool!Revoke
<1>. QED BY <1>1, <1>2

\* The clean-up and the removal of a client's sessions release its address.
LEMMA PoolReleases ==
    ASSUME Exclusive(sessions), sessions \subseteq Session, now \in Nat, now' = now,
           NEW c \in Clients, sessions' = Without(Live(sessions, now), c)
    PROVE  Pool!Release(c)
<1>1. Exclusive(sessions') BY DEF Exclusive, Without, Live
<1>2. \A t \in sessions' : /\ t \in sessions
                           /\ t.host \notin Pool!Lapsed \cup Pool!OwnedBy(c)
  BY PoolSets DEF Live, Without
<1>3. \A t \in sessions : t.host \notin Pool!Lapsed \cup Pool!OwnedBy(c) => t \in sessions'
  BY PoolSets DEF Live, Without
<1>4. Pool!Reassign(Pool!Lapsed \cup Pool!OwnedBy(c), {}, c)
  BY <1>1, <1>2, <1>3, PoolReassigns
<1>. QED BY <1>4 DEF Pool!Release

\* A login grants an address that nobody else holds.
LEMMA PoolGrants ==
    ASSUME Exclusive(sessions), sessions \subseteq Session, now \in Nat, now' = now,
           Exclusive(sessions'),
           NEW c \in Clients, NEW new \in Session, new.client = c,
           new.expires = now + SessionTtl,
           \A s \in Without(Live(sessions, now), c) : s.host # new.host,
           sessions' = Without(Live(sessions, now), c) \cup {new}
    PROVE  Pool!Grant(c, new.host)
<1>1. new.host \in Hosts BY DEF Session
<1>2. new.host \in Pool!Lapsed \cup Pool!OwnedBy(c)
  <2>1. CASE \E s \in sessions : s.host = new.host
    <3>1. PICK s \in sessions : s.host = new.host BY <2>1
    <3>2. ~ (s.expires > now) \/ s.client = c BY <3>1 DEF Live, Without
    <3>. QED BY <3>1, <3>2, PoolSets
  <2>2. CASE \A s \in sessions : s.host # new.host BY <1>1, <2>2, PoolSets
  <2>. QED BY <2>1, <2>2
<1>3. \A h \in {new.host} : \E s \in sessions' :
          s.host = h /\ s.client = c /\ s.expires = now + SessionTtl
  OBVIOUS
<1>4. \A s \in sessions' : s.host \notin {new.host} =>
          s.host \notin Pool!Lapsed \cup Pool!OwnedBy(c) /\ s \in sessions
  BY PoolSets DEF Live, Without
<1>5. \A s \in sessions :
          s.host \notin {new.host} /\ s.host \notin Pool!Lapsed \cup Pool!OwnedBy(c)
              => s \in sessions'
  BY PoolSets DEF Live, Without
<1>6. Pool!Reassign(Pool!Lapsed \cup Pool!OwnedBy(c), {new.host}, c)
  BY <1>3, <1>4, <1>5, PoolReassigns
<1>. QED BY <1>2, <1>6 DEF Pool!Grant

\* A refresh renews a grant that has not ended.
LEMMA PoolRenews ==
    ASSUME Exclusive(sessions), sessions \subseteq Session, now \in Nat, now' = now,
           Exclusive(sessions'), NEW s \in Live(sessions, now),
           sessions' = (Live(sessions, now) \ {s})
                           \cup {[s EXCEPT !.expires = now + SessionTtl]}
    PROVE  Pool!Renew(s.client, s.host)
<1> DEFINE new == [s EXCEPT !.expires = now + SessionTtl]
<1>1. s \in sessions /\ s.expires > now /\ s \in Session BY DEF Live
<1>2. new.host = s.host /\ new.client = s.client /\ new.expires = now + SessionTtl
  BY <1>1 DEF Session
<1> HIDE DEF new
<1>3. s.host \in Pool!OwnedBy(s.client) \ Pool!Lapsed BY <1>1, PoolSets
<1>4. new \in sessions' BY DEF new
<1>5. \A h \in {s.host} : \E t \in sessions' :
          t.host = h /\ t.client = s.client /\ t.expires = now + SessionTtl
  BY <1>2, <1>4
<1>6. \A t \in sessions' : t = new \/ t \in Live(sessions, now) BY DEF new
<1>7. \A t \in sessions' : t.host \notin {s.host} => t.host \notin Pool!Lapsed /\ t \in sessions
  BY <1>2, <1>6, PoolSets DEF Live
<1>8. \A t \in sessions : t.host \notin {s.host} /\ t.host \notin Pool!Lapsed => t \in sessions'
  BY PoolSets DEF Live
<1>9. Pool!Reassign(Pool!Lapsed, {s.host}, s.client)
  BY <1>5, <1>7, <1>8, PoolReassigns
<1>. QED BY <1>3, <1>9 DEF Pool!Renew

\* Every handler is a step of the pool, or changes nothing there.
LEMMA PoolHandle ==
    ASSUME TypeOK, TypeOK', LeasesExclusive, LeasesExclusive', Handle
    PROVE  [Pool!Next]_Pool!vars
<1>1. /\ Exclusive(sessions) /\ Exclusive(sessions') /\ now \in Nat
      /\ sessions \subseteq Session /\ sessions' \subseteq Session
  BY DEF TypeOK, LeasesExclusive, Exclusive
<1>2. ASSUME now' = now, sessions' = Live(sessions, now)
      PROVE  [Pool!Next]_Pool!vars
  BY <1>1, <1>2, PoolLapses DEF Pool!Next
<1>3. CASE Ignore \/ Inform BY <1>2, <1>3 DEF Ignore, Inform, Answer
<1>4. ASSUME NEW ip \in IPs, AuthDropped(ip) \/ AuthErrs(ip)
      PROVE  [Pool!Next]_Pool!vars
  BY <1>2, <1>4 DEF AuthDropped, AuthErrs, Answer
<1>5. ASSUME NEW ip \in IPs, AuthRejected(ip) PROVE [Pool!Next]_Pool!vars
  <2>1. now' = now /\ (sessions' = {} \/ sessions' = Live(sessions, now))
    BY <1>5 DEF AuthRejected, Answer
  <2>2. sessions' = {} => [Pool!Next]_Pool!vars
    BY <1>1, <2>1, PoolRevokes DEF Pool!Next
  <2>. QED BY <1>2, <2>1, <2>2
<1>6. ASSUME NEW ip \in IPs, NEW c \in Clients, AuthAccepted(ip, c)
      PROVE  [Pool!Next]_Pool!vars
  <2> DEFINE others == Without(Live(sessions, now), c)
             new == [sid |-> lastSid + 1, client |-> c, remote |-> ip,
                     host |-> LowestFree(others), expires |-> now + SessionTtl]
  <2>1. FreeHosts(others) # {} /\ now' = now /\ sessions' = others \cup {new}
    BY <1>6 DEF AuthAccepted, Answer
  <2>2. new.host \in FreeHosts(others) BY <2>1, LowestFreeIsFree
  <2>3. \A s \in others : s.host # new.host BY <2>2 DEF FreeHosts
  <2>4. new \in Session BY <1>1, <2>1
  <2>5. new.client = c /\ new.expires = now + SessionTtl OBVIOUS
  <2> HIDE DEF new
  <2>6. Pool!Grant(c, new.host) BY <1>1, <2>1, <2>3, <2>4, <2>5, PoolGrants
  <2>7. new.host \in Hosts BY <2>4 DEF Session
  <2>. QED BY <2>6, <2>7 DEF Pool!Next
<1>7. ASSUME NEW ip \in IPs, NEW c \in Clients, AuthNoAddress(ip, c)
      PROVE  [Pool!Next]_Pool!vars
  <2>1. now' = now /\ sessions' = Without(Live(sessions, now), c)
    BY <1>7 DEF AuthNoAddress
  <2>. QED BY <1>1, <2>1, PoolReleases DEF Pool!Next
<1>8. ASSUME NEW ip \in IPs, NEW sid, NEW d, StatusQuery(sid, ip, d)
      PROVE  [Pool!Next]_Pool!vars
  <2>1. PICK s \in Live(sessions, now) :
            /\ now' = now
            /\ sessions' = (Live(sessions, now) \ {s})
                               \cup {[s EXCEPT !.expires = now + SessionTtl]}
    BY <1>8 DEF StatusQuery, Answer, Queried
  <2>2. Pool!Renew(s.client, s.host) BY <1>1, <2>1, PoolRenews
  <2>3. s.client \in Clients /\ s.host \in Hosts BY <1>1, <2>1 DEF Live, Session
  <2>. QED BY <2>2, <2>3 DEF Pool!Next
<1>9. ASSUME NEW ip \in IPs, NEW c, NEW sids, Disconnect(sids, ip, c)
      PROVE  [Pool!Next]_Pool!vars
  <2>1. PICK s \in Named(sids, ip, c) :
            now' = now /\ sessions' = Live(sessions, now) \ {s}
    BY <1>9 DEF Disconnect, Answer
  <2>2. s \in sessions /\ s.client = c BY <2>1 DEF Named, Live
  <2>3. Live(sessions, now) \ {s} = Without(Live(sessions, now), c)
    BY <1>1, <2>2 DEF Live, Without, Exclusive
  <2>4. c \in Clients BY <1>1, <2>2 DEF Session
  <2>. QED BY <1>1, <2>1, <2>3, <2>4, PoolReleases DEF Pool!Next
<1>. QED BY <1>3, <1>4, <1>5, <1>6, <1>7, <1>8, <1>9 DEF Handle

\* The end of the daemon takes every address back, the clock passes, and the
\* rest is nothing to the pool.
LEMMA PoolOthers ==
    ASSUME TypeOK, LeasesExclusive,
           Effect \/ Stop \/ Start \/ Reboot \/ Repair \/ AdminSaves \/ Tick
                  \/ (\E what \in Commands : AdminLoads(what)) \/ UNCHANGED vars
    PROVE  [Pool!Next]_Pool!vars
<1>1. /\ Exclusive(sessions) /\ now \in Nat /\ sessions \subseteq Session
  BY DEF TypeOK, LeasesExclusive, Exclusive
<1>2. CASE Effect
  <2>1. UNCHANGED <<now, sessions>>
    BY <1>2 DEF Effect, ApplyPeer, RemovePeer, SaveJournal, Send, PersistRuntime,
                EffectFails, memory
  <2>. QED BY <2>1, PoolStutters
<1>3. CASE Start \/ Reboot \/ Repair \/ AdminSaves
           \/ (\E what \in Commands : AdminLoads(what)) \/ UNCHANGED vars
  <2>1. UNCHANGED <<now, sessions>>
    BY <1>3 DEF Start, Reboot, Repair, AdminSaves, AdminLoads, memory, vars
  <2>. QED BY <2>1, PoolStutters
<1>4. CASE Stop
  <2>1. now' = now /\ sessions' = {} BY <1>4 DEF Stop
  <2>. QED BY <1>1, <2>1, PoolRevokes DEF Pool!Next
<1>5. CASE Tick
  <2>1. now' > now /\ sessions' = sessions BY <1>1, <1>5 DEF Tick, memory
  <2>2. \A h : HolderOf(h)' = HolderOf(h) /\ EndOf(h)' = EndOf(h)
    BY <2>1 DEF HolderOf, EndOf
  <2>3. Pool!Pass BY <2>1, <2>2 DEF Pool!Pass
  <2>. QED BY <2>3 DEF Pool!Next
<1>. QED BY <1>2, <1>3, <1>4, <1>5

\* A server without sessions is a pool without grants.
LEMMA PoolInit == Init => Pool!Init
<1> SUFFICES ASSUME Init PROVE Pool!Init
  OBVIOUS
<1>1. now \in Nat /\ sessions = {} BY DEF Init
<1>2. \A h : HolderOf(h) = {} /\ EndOf(h) = 0 BY <1>1, PoolShowsFree
<1>. QED BY <1>1, <1>2 DEF Pool!Init

(***************************************************************************)
(* The server implements the pool: an address is granted to one client     *)
(* until its session ends, and a login is never given one that somebody    *)
(* else's session still holds.                                             *)
(***************************************************************************)
THEOREM ServerImplementsPool == Spec => PoolSpec
<1>1. ServerInv => LeasesExclusive BY DEF ServerInv, Table
<1>2. TypeOK /\ TypeOK' /\ ServerInv /\ ServerInv' /\ [Next]_vars => [Pool!Next]_Pool!vars
  <2> SUFFICES ASSUME TypeOK, TypeOK', ServerInv, ServerInv', [Next]_vars
               PROVE  [Pool!Next]_Pool!vars
    OBVIOUS
  <2>1. LeasesExclusive /\ LeasesExclusive' BY DEF ServerInv, Table
  <2>. QED BY <2>1, PoolHandle, PoolOthers DEF Next
<1>. QED BY <1>2, PoolInit, ServerInvariant, ServerTypeCorrect, PTL
         DEF Spec, PoolSpec, Pool!Spec

-----------------------------------------------------------------------------
(***************************************************************************)
(* The server with its clients.                                            *)
(***************************************************************************)

\* What the simulation rests on: a request is of a client and a session it
\* names was created.
Joint == TypeOK /\ ServerInv /\ PlaneTypeOK

-----------------------------------------------------------------------------
(***************************************************************************)
(* Every step is one of the server or leaves it alone.                     *)
(***************************************************************************)

\* A session that a request names, and the server knows, was created.
LEMMA NamedWasCreated ==
    ASSUME TypeOK, ServerInv, NEW sid, NEW ip, NEW c, NEW d,
           Queried(sid, ip, d) # {} \/ Named({sid}, ip, c) # {}
    PROVE  sid \in 0 .. lastSid
<1>1. PICK s \in sessions : s.sid = sid
  BY DEF Queried, Named, Live
<1>2. s.sid \in Nat /\ s.sid <= lastSid /\ lastSid \in Nat
  BY <1>1 DEF TypeOK, Session, ServerInv, Table, SidsUsed
<1>. QED BY <1>1, <1>2

\* The handlers that the network drives are handlers of the server.
LEMMA DeliverIsHandle == Joint /\ Deliver => Handle
<1> SUFFICES ASSUME Joint, Deliver PROVE Handle
  OBVIOUS
<1>1. PICK m \in wire : OnLogin(m) \/ OnWrongLogin(m) \/ OnStatus(m) \/ OnDisconnect(m)
  BY DEF Deliver
<1>2. m.from \in Clients /\ Home[m.from] \in IPs
  BY PlaneAssumption DEF Joint, PlaneTypeOK, Request
<1>3. CASE OnLogin(m)
  BY <1>2, <1>3 DEF OnLogin, Handle
<1>4. CASE OnWrongLogin(m)
  BY <1>2, <1>4 DEF OnWrongLogin, Handle
<1>5. CASE OnStatus(m)
  <2>1. CASE Queried(m.sid, Home[m.from], {m.from}) = {}
    BY <1>5, <2>1 DEF OnStatus, Handle
  <2>2. CASE Queried(m.sid, Home[m.from], {m.from}) # {}
    <3>1. m.sid \in 0 .. lastSid
      BY <2>2, NamedWasCreated DEF Joint
    <3>. QED BY <1>2, <1>5, <2>2, <3>1 DEF OnStatus, Handle
  <2>. QED BY <2>1, <2>2
<1>6. CASE OnDisconnect(m)
  <2>1. CASE Named({m.sid}, Home[m.from], m.from) = {}
    BY <1>6, <2>1 DEF OnDisconnect, Handle
  <2>2. CASE Named({m.sid}, Home[m.from], m.from) # {}
    <3>1. m.sid \in 0 .. lastSid
      BY <2>2, NamedWasCreated DEF Joint
    <3>. QED BY <1>2, <1>6, <2>2, <3>1 DEF OnDisconnect, Handle
  <2>. QED BY <2>1, <2>2
<1>. QED BY <1>1, <1>3, <1>4, <1>5, <1>6

\* What a client does, the server does not notice.
LEMMA ClientLeavesServer ==
    ASSUME NEW c \in Clients, ClientSteps(c)
    PROVE  UNCHANGED vars
BY DEF ClientSteps, AttemptAuth, QueryServerStatus, SendDisconnectNotice, Resend, TimesOut,
       TakeAuthResult, TakeStatus

LEMMA PlaneStepIsServerStep == Joint /\ [PlaneNext]_planeVars => [Next]_vars
<1>1. Joint /\ Deliver => Next
  BY DeliverIsHandle DEF Next
<1>2. ServerSends \/ ServerSetsPeer \/ ServerGivesUp \/ ServerStops \/ ServerAlone => Next
  BY DEF ServerSends, ServerSetsPeer, ServerGivesUp, ServerStops, ServerAlone, Next, Effect
<1>3. UNCHANGED planeVars => UNCHANGED vars
  BY DEF planeVars
<1>. QED BY <1>1, <1>2, <1>3, ClientLeavesServer DEF PlaneNext

-----------------------------------------------------------------------------
(***************************************************************************)
(* Type correctness of the clients and the network.                        *)
(***************************************************************************)

\* What a client does keeps the types.
LEMMA ClientType ==
    ASSUME Joint, NEW c \in Clients, ClientSteps(c)
    PROVE  PlaneTypeOK'
<1> USE PlaneAssumption
<1>1. ASSUME NEW good \in BOOLEAN, AttemptAuth(c, good) PROVE PlaneTypeOK'
  <2>1. call' \in [Clients -> Call] /\ calls' \in [Clients -> Nat]
    BY <1>1 DEF AttemptAuth, Waits, Runs, Joint, PlaneTypeOK, Call
  <2>2. NewRequest(c, "login", 1, 0) \in Request
    BY <2>1 DEF NewRequest, Request, Call
  <2>3. mistakes' \in [IPs -> Nat]
    BY <1>1 DEF AttemptAuth, Joint, PlaneTypeOK
  <2>. QED BY <1>1, <2>1, <2>2, <2>3 DEF AttemptAuth, SendRequest, Joint, PlaneTypeOK
<1>2. ASSUME QueryServerStatus(c) PROVE PlaneTypeOK'
  <2>1. call' \in [Clients -> Call] /\ calls' \in [Clients -> Nat]
    BY <1>2 DEF QueryServerStatus, Waits, Runs, Joint, PlaneTypeOK, Call
  <2>2. ASSUME NEW k \in cached[c] PROVE NewRequest(c, "status", 1, k.sid) \in Request
    <3>1. k.sid \in Nat BY DEF Joint, PlaneTypeOK, Connection
    <3>. QED BY <2>1, <3>1 DEF NewRequest, Request, Call
  <2>. QED BY <1>2, <2>1, <2>2 DEF QueryServerStatus, SendRequest, Joint, PlaneTypeOK
<1>3. ASSUME SendDisconnectNotice(c) PROVE PlaneTypeOK'
  <2>1. call' \in [Clients -> Call] /\ calls' \in [Clients -> Nat]
    BY <1>3 DEF SendDisconnectNotice, Runs, Joint, PlaneTypeOK
  <2>2. ASSUME NEW k \in cached[c] PROVE NewRequest(c, "disconnect", 1, k.sid) \in Request
    <3>1. k.sid \in Nat BY DEF Joint, PlaneTypeOK, Connection
    <3>. QED BY <2>1, <3>1 DEF NewRequest, Request, Call
  <2>3. cached' \in [Clients -> SUBSET Connection]
    BY <1>3 DEF SendDisconnectNotice, Joint, PlaneTypeOK
  <2>. QED BY <1>3, <2>1, <2>2, <2>3 DEF SendDisconnectNotice, SendRequest, Joint, PlaneTypeOK
<1>4. ASSUME Resend(c) PROVE PlaneTypeOK'
  <2>1. call[c].sends \in 0 .. MaxSends /\ call[c].good \in BOOLEAN
    BY DEF Joint, PlaneTypeOK, Call
  <2>2. call'[c].sends \in 1 .. MaxSends /\ call' \in [Clients -> Call]
    BY <1>4, <2>1 DEF Resend, Joint, PlaneTypeOK, Call
  <2>3. NewRequest(c, "login", call'[c].sends, 0) \in Request
    BY <1>4, <2>2 DEF Resend, NewRequest, Request, Call, Joint, PlaneTypeOK
  <2>. QED BY <1>4, <2>2, <2>3 DEF Resend, SendRequest, Joint, PlaneTypeOK
<1>5. CallOver(c) => call' \in [Clients -> Call] /\ back' \subseteq Reply
  <2>1. Idle \in Call BY DEF Idle, Call
  <2>. QED BY <2>1 DEF CallOver, CloseSocket, Joint, PlaneTypeOK
<1>6. ASSUME TimesOut(c) PROVE PlaneTypeOK'
  BY <1>5, <1>6 DEF TimesOut, Joint, PlaneTypeOK
<1>7. ASSUME NEW a \in Heard(c) PROVE {Connected(s) : s \in a.lease} \subseteq Connection
  <2>1. a.lease \subseteq Session BY DEF Heard, Joint, PlaneTypeOK, Reply
  <2>. QED BY <2>1 DEF Connected, Connection, Session
<1>8. ASSUME TakeAuthResult(c) PROVE PlaneTypeOK'
  <2>1. PICK a \in Heard(c) :
          IF a.lease # {}
          THEN /\ cached' = [cached EXCEPT ![c] = {Connected(s) : s \in a.lease}]
               /\ cooldowns' = [cooldowns EXCEPT ![c] = NoCooldown]
          ELSE /\ cooldowns' = [cooldowns EXCEPT ![c] = IF a.until = NoCooldown THEN @ ELSE a.until]
               /\ UNCHANGED cached
    BY <1>8 DEF TakeAuthResult
  <2>2. a.until \in Nat BY DEF Heard, Joint, PlaneTypeOK, Reply
  <2>3. cached' \in [Clients -> SUBSET Connection]
    BY <1>7, <2>1 DEF Joint, PlaneTypeOK
  <2>4. cooldowns' \in [Clients -> Nat]
    BY <2>1, <2>2 DEF NoCooldown, Joint, PlaneTypeOK
  <2>. QED BY <1>5, <1>8, <2>3, <2>4 DEF TakeAuthResult, Joint, PlaneTypeOK
<1>9. ASSUME TakeStatus(c) PROVE PlaneTypeOK'
  <2>1. PICK a \in Heard(c) : cached' = [cached EXCEPT ![c] =
              IF a.locked THEN {[k EXCEPT !.phase = "error"] : k \in @}
                          ELSE {Connected(s) : s \in a.lease}]
    BY <1>9 DEF TakeStatus
  <2>2. {[k EXCEPT !.phase = "error"] : k \in cached[c]} \subseteq Connection
    BY DEF Joint, PlaneTypeOK, Connection
  <2>3. cached' \in [Clients -> SUBSET Connection]
    BY <1>7, <2>1, <2>2 DEF Joint, PlaneTypeOK
  <2>. QED BY <1>5, <1>9, <2>3 DEF TakeStatus, Joint, PlaneTypeOK
<1>. QED BY <1>1, <1>2, <1>3, <1>4, <1>6, <1>8, <1>9 DEF ClientSteps

\* So does what the network delivers.
LEMMA DeliverType == Joint /\ TypeOK' /\ Deliver => PlaneTypeOK'
<1> SUFFICES ASSUME Joint, TypeOK', Deliver PROVE PlaneTypeOK'
  OBVIOUS
<1>1. PICK m \in wire : /\ OnLogin(m) \/ OnWrongLogin(m) \/ OnStatus(m) \/ OnDisconnect(m)
                        /\ wire' = wire \ {m}
  BY DEF Deliver
<1>2. m \in Request BY DEF Joint, PlaneTypeOK
<1>3. m.kind \in {"login", "status"} =>
        \A l \in SUBSET Session, u \in Nat, b \in BOOLEAN : Replied(m, l, u, b) \subseteq Reply
  BY <1>2 DEF Request, Replied, Reply
<1>4. answer' \subseteq Reply /\ floor' \in Nat
  <2>1. lease' \subseteq Session /\ refusal' \subseteq Refusal /\ sessions' \subseteq Session
    BY DEF TypeOK
  <2>2. journal.lockdown \in BOOLEAN /\ lastSid \in Nat /\ floor \in Nat
    BY DEF Joint, PlaneTypeOK, TypeOK, Journal
  <2>3. CASE OnLogin(m)
    BY <1>3, <2>1, <2>2, <2>3 DEF OnLogin, NoCooldown
  <2>4. CASE OnWrongLogin(m)
    <3>1. \A v \in refusal' : Replied(m, {}, v.until, v.locked) \subseteq Reply
      BY <1>3, <2>1, <2>4 DEF OnWrongLogin, Refusal
    <3>. QED BY <2>2, <2>4, <3>1 DEF OnWrongLogin
  <2>5. CASE OnStatus(m)
    <3>1. {s \in sessions' : s.sid = m.sid /\ s.client = m.from} \in SUBSET Session
      BY <2>1
    <3>. QED BY <1>3, <2>2, <2>5, <3>1 DEF OnStatus, NoCooldown
  <2>6. CASE OnDisconnect(m)
    BY <2>2, <2>6 DEF OnDisconnect
  <2>. QED BY <1>1, <2>3, <2>4, <2>5, <2>6
<1>. QED BY <1>1, <1>4 DEF Deliver, Joint, PlaneTypeOK, client

\* And so does what the server does.
LEMMA ServerSideType ==
    Joint /\ (ServerSends \/ ServerSetsPeer \/ ServerGivesUp \/ ServerStops \/ ServerAlone)
        => PlaneTypeOK'
<1> SUFFICES ASSUME Joint, ServerSends \/ ServerSetsPeer \/ ServerGivesUp \/ ServerStops \/ ServerAlone
             PROVE  PlaneTypeOK'
  OBVIOUS
<1>1. lastSid \in Nat /\ MaxFaults \in Nat BY PlaneAssumption DEF Joint, TypeOK
<1>2. CASE ServerSends
  BY <1>2 DEF ServerSends, Joint, PlaneTypeOK, client
<1>3. CASE ServerSetsPeer
  BY <1>3 DEF ServerSetsPeer, Fault, Joint, PlaneTypeOK, client, network
<1>4. CASE ServerGivesUp
  BY <1>4 DEF ServerGivesUp, Fault, Joint, PlaneTypeOK, client
<1>5. CASE ServerStops
  BY <1>1, <1>5 DEF ServerStops, Fault, Joint, PlaneTypeOK, client
<1>6. CASE ServerAlone
  BY <1>6 DEF ServerAlone, Joint, PlaneTypeOK, client, network
<1>. QED BY <1>2, <1>3, <1>4, <1>5, <1>6

-----------------------------------------------------------------------------
(***************************************************************************)
(* Together: the simulation needs the invariants, and the invariants need  *)
(* the simulation.                                                         *)
(***************************************************************************)
LEMMA JointHolds == PlaneSpec => []Joint
<1>1. PlaneInit => Joint
  <2> SUFFICES ASSUME PlaneInit PROVE Joint
    OBVIOUS
  <2>1. TypeOK /\ ServerInv
    BY InitType, InitInv DEF PlaneInit
  <2>2. Idle \in Call BY PlaneAssumption DEF Idle, Call
  <2>. QED BY <2>1, <2>2 DEF Joint, PlaneInit, PlaneTypeOK, NoCooldown
<1>2. Joint /\ [PlaneNext]_planeVars => Joint'
  <2> SUFFICES ASSUME Joint, [PlaneNext]_planeVars PROVE Joint'
    OBVIOUS
  <2>1. TypeOK' /\ ServerInv'
    BY PlaneStepIsServerStep, StepType, StepInv DEF Joint
  <2>2. UNCHANGED planeVars => PlaneTypeOK'
    BY DEF planeVars, network, client, Joint, PlaneTypeOK
  <2>3. PlaneTypeOK'
    BY <2>1, <2>2, ClientType, DeliverType, ServerSideType DEF PlaneNext
  <2>. QED BY <2>1, <2>3 DEF Joint
<1>. QED BY <1>1, <1>2, PTL DEF PlaneSpec

(***************************************************************************)
(* Clients, requests and answers keep their types, whatever is late, lost  *)
(* or sent again.                                                          *)
(***************************************************************************)
THEOREM PlaneTypeCorrect == PlaneSpec => []PlaneTypeOK
<1>1. Joint => PlaneTypeOK BY DEF Joint
<1>. QED BY <1>1, JointHolds, PTL

(***************************************************************************)
(* The composition implements the server: what is proved of the server on  *)
(* its own holds with any number of clients that send again, give up and   *)
(* come back, over a network that delays, reorders and loses.              *)
(***************************************************************************)
THEOREM PlaneImplementsServer == PlaneSpec => Spec
<1>1. PlaneInit => Init BY DEF PlaneInit
<1>. QED BY <1>1, PlaneStepIsServerStep, JointHolds, PTL DEF PlaneSpec, Spec

-----------------------------------------------------------------------------
(***************************************************************************)
(* Cooldowns.                                                              *)
(***************************************************************************)

\* One of the refusals in V gives the address of client c this cooldown.
Explains(V, c, until) ==
    until # NoCooldown => \E v \in V : v.ip = Home[c] /\ v.until = until

(***************************************************************************)
(* What CooldownAgreed rests on: a cooldown that a client remembers, or    *)
(* that an answer on the way to it names, is one that was announced, and   *)
(* one that is about to be answered is the refusal in hand.  No fault of   *)
(* the composition spoils the file.                                        *)
(***************************************************************************)
CooldownInv ==
    /\ shape = "whole" /\ admin = {} /\ ~ spoiled
    /\ \A a \in answer : Explains(refusal, a.to, a.until)
    /\ \A a \in back : Explains(announced, a.to, a.until)
    /\ \A c \in Clients : Explains(announced, c, cooldowns[c])

\* What a client does takes its cooldown from an answer on the way.
LEMMA CooldownClient ==
    ASSUME PlaneTypeOK, CooldownInv, NEW c \in Clients, ClientSteps(c)
    PROVE  CooldownInv'
<1>1. UNCHANGED <<vars, answer>>
  BY ClientLeavesServer DEF ClientSteps, AttemptAuth, QueryServerStatus, SendDisconnectNotice,
     Resend, TimesOut, TakeAuthResult, TakeStatus
<1>2. /\ shape' = shape /\ admin' = admin /\ spoiled' = spoiled
      /\ refusal' = refusal /\ announced' = announced
  BY <1>1 DEF vars, disk, command, history, job
<1>3. back' \subseteq back
  BY DEF ClientSteps, AttemptAuth, QueryServerStatus, SendDisconnectNotice,
     Resend, TimesOut, TakeAuthResult, TakeStatus, CallOver, CloseSocket
<1>4. \A d \in Clients : \/ cooldowns'[d] = cooldowns[d]
                         \/ cooldowns'[d] = NoCooldown
                         \/ d = c /\ \E a \in Heard(c) : cooldowns'[d] = a.until
  <2>1. CASE TakeAuthResult(c)
    <3>1. PICK a \in Heard(c) :
            IF a.lease # {}
            THEN cooldowns' = [cooldowns EXCEPT ![c] = NoCooldown]
            ELSE cooldowns' = [cooldowns EXCEPT ![c] = IF a.until = NoCooldown THEN @ ELSE a.until]
      BY <2>1 DEF TakeAuthResult
    <3>2. cooldowns \in [Clients -> Nat] BY DEF PlaneTypeOK
    <3>. QED BY <3>1, <3>2
  <2>2. CASE ~ TakeAuthResult(c)
    <3>1. cooldowns' = cooldowns
      BY <2>2 DEF ClientSteps, AttemptAuth, QueryServerStatus, SendDisconnectNotice,
         Resend, TimesOut, TakeStatus
    <3>. QED BY <3>1
  <2>. QED BY <2>1, <2>2
<1>5. \A a \in Heard(c) : a \in back /\ a.to = c BY DEF Heard
<1>6. \A d \in Clients : Explains(announced, d, cooldowns'[d])
  BY <1>4, <1>5 DEF CooldownInv, Explains
<1>. QED BY <1>1, <1>2, <1>3, <1>6 DEF CooldownInv, Explains

\* A refusal is decided and answered in one step.
LEMMA CooldownDeliver == PlaneTypeOK /\ CooldownInv /\ Deliver => CooldownInv'
<1> SUFFICES ASSUME PlaneTypeOK, CooldownInv, Deliver PROVE CooldownInv'
  OBVIOUS
<1>1. PICK m \in wire : OnLogin(m) \/ OnWrongLogin(m) \/ OnStatus(m) \/ OnDisconnect(m)
  BY DEF Deliver
<1>2. /\ shape' = shape /\ admin' = admin /\ spoiled' = spoiled /\ announced' = announced
  <2>1. CASE OnLogin(m)
    BY <2>1 DEF OnLogin, AuthDropped, AuthNoAddress, AuthAccepted, Answer, disk, command
  <2>2. CASE OnWrongLogin(m)
    BY <2>2 DEF OnWrongLogin, AuthRejected, Answer, disk, command
  <2>3. CASE OnStatus(m)
    BY <2>3 DEF OnStatus, Inform, StatusQuery, Answer, disk, command
  <2>4. CASE OnDisconnect(m)
    BY <2>4 DEF OnDisconnect, Ignore, Disconnect, Answer, disk, command
  <2>. QED BY <1>1, <2>1, <2>2, <2>3, <2>4
<1>3. back' = back /\ cooldowns' = cooldowns BY DEF Deliver, client
<1>4. \A a \in answer' : Explains(refusal', a.to, a.until)
  <2>1. CASE OnLogin(m)
    <3>1. \A a \in answer' : a.until = NoCooldown
      BY <2>1 DEF OnLogin, Replied
    <3>. QED BY <3>1 DEF Explains
  <2>2. CASE OnWrongLogin(m)
    <3>1. \A v \in refusal' : v.ip = Home[m.from]
      BY <2>2 DEF OnWrongLogin, AuthRejected, RefusalOn
    <3>2. \A a \in answer' : a.to = m.from /\ \E v \in refusal' : a.until = v.until
      BY <2>2 DEF OnWrongLogin, Replied
    <3>. QED BY <3>1, <3>2 DEF Explains
  <2>3. CASE OnStatus(m)
    <3>1. \A a \in answer' : a.until = NoCooldown
      BY <2>3 DEF OnStatus, Replied
    <3>. QED BY <3>1 DEF Explains
  <2>4. CASE OnDisconnect(m)
    BY <2>4 DEF OnDisconnect
  <2>. QED BY <1>1, <2>1, <2>2, <2>3, <2>4
<1>. QED BY <1>2, <1>3, <1>4 DEF CooldownInv, Explains

\* It is announced in the step that sends the answer, and dropped with it.
LEMMA CooldownServer ==
    CooldownInv /\ (ServerSends \/ ServerSetsPeer \/ ServerGivesUp \/ ServerStops \/ ServerAlone)
        => CooldownInv'
<1> SUFFICES ASSUME CooldownInv,
                    ServerSends \/ ServerSetsPeer \/ ServerGivesUp \/ ServerStops \/ ServerAlone
             PROVE  CooldownInv'
  OBVIOUS
<1>1. CASE ServerSends
  <2>1. /\ announced' = announced \cup refusal /\ refusal' = {} /\ answer' = {}
        /\ shape' = shape /\ admin' = admin /\ spoiled' = spoiled
        /\ back' \subseteq back \cup answer /\ cooldowns' = cooldowns
    BY <1>1 DEF ServerSends, Send, disk, command, client
  <2>. QED BY <2>1 DEF CooldownInv, Explains
<1>2. CASE ServerSetsPeer
  BY <1>2 DEF ServerSetsPeer, ApplyPeer, RemovePeer, CooldownInv, Explains, network, client,
     disk, command, history
<1>3. CASE ServerGivesUp
  BY <1>3 DEF ServerGivesUp, Fault, EffectFails, CooldownInv, Explains, client, command
<1>4. CASE ServerStops
  BY <1>4 DEF ServerStops, Fault, Stop, CooldownInv, Explains, client, command
<1>5. CASE ServerAlone
  <2>1. CASE SaveJournal
    BY <1>5, <2>1 DEF ServerAlone, SaveJournal, CooldownInv, Explains, network, client, command,
       history
  <2>2. CASE PersistRuntime
    BY <1>5, <2>2 DEF ServerAlone, PersistRuntime, CooldownInv, Explains, network, client,
       command, history
  <2>3. CASE Start
    BY <1>5, <2>3 DEF ServerAlone, Start, CooldownInv, Explains, network, client, command, job
  <2>4. CASE Tick
    BY <1>5, <2>4 DEF ServerAlone, Tick, CooldownInv, Explains, network, client, command, job,
       history, disk
  <2>. QED BY <1>5, <2>1, <2>2, <2>3, <2>4 DEF ServerAlone
<1>. QED BY <1>1, <1>2, <1>3, <1>4, <1>5

LEMMA CooldownStep == Joint /\ CooldownInv /\ [PlaneNext]_planeVars => CooldownInv'
<1> SUFFICES ASSUME Joint, CooldownInv, [PlaneNext]_planeVars PROVE CooldownInv'
  OBVIOUS
<1>1. UNCHANGED planeVars => CooldownInv'
  BY DEF planeVars, vars, network, client, disk, command, history, job, CooldownInv, Explains
<1>. QED BY <1>1, CooldownClient, CooldownDeliver, CooldownServer DEF PlaneNext, Joint

(***************************************************************************)
(* A cooldown that keeps a client from logging in is one that the journal  *)
(* of the server holds, in memory and on disk.  The server's own proof     *)
(* says that what it announced outlives it (RefusalsHold); what is left is *)
(* that clients remember nothing else.                                     *)
(***************************************************************************)
THEOREM CooldownsAgree == PlaneSpec => []CooldownAgreed
<1>1. PlaneInit => CooldownInv
  BY DEF PlaneInit, Init, CooldownInv, Explains
<1>2. Joint /\ CooldownInv /\ [PlaneNext]_planeVars => CooldownInv'
  BY CooldownStep
<1>3. Joint /\ CooldownInv /\ RefusalsHold => CooldownAgreed
  <2> SUFFICES ASSUME Joint, CooldownInv, RefusalsHold,
                      NEW c \in Clients, cooldowns[c] > now
               PROVE  /\ up => journal.failures[Home[c]].cooldownUntil >= cooldowns[c]
                      /\ stateFile.failures[Home[c]].cooldownUntil >= cooldowns[c]
    BY DEF CooldownAgreed
  <2>1. cooldowns[c] # NoCooldown
    BY DEF Joint, TypeOK, PlaneTypeOK, NoCooldown
  <2>2. PICK v \in announced : v.ip = Home[c] /\ v.until = cooldowns[c]
    BY <2>1 DEF CooldownInv, Explains
  <2>. QED BY <2>2 DEF RefusalsHold, CooldownInv, Stands
<1>. QED BY <1>1, <1>2, <1>3, JointHolds, PlaneImplementsServer, RefusalsOutliveTheDaemon, PTL
         DEF PlaneSpec

-----------------------------------------------------------------------------
(***************************************************************************)
(* Leases.                                                                 *)
(***************************************************************************)

\* Session t stands for lease k: it is k's, or a later one of the same client.
StandsFor(t, c, k) ==
    /\ t.client = c /\ t.sid >= k.sid /\ t.expires >= k.expires
    /\ t.sid = k.sid => t.host = k.host

\* The server keeps the lease k of client c, unless a stop or a lockdown ended it.
Promised(c, k) ==
    k.expires > now /\ k.sid > floor => \E t \in sessions : StandsFor(t, c, k)

Notices(c) == {m \in wire : m.kind = "disconnect" /\ m.from = c}

\* A message that belongs to the call that client c is waiting in.
Current(kind, c, no) == kind = call[c].what /\ no = calls[c]

\* A lease that its client holds, or may yet be given: no notice that is still
\* on its way names it or a later one.
Secure(c, k) ==
    /\ k.sid <= lastSid /\ Promised(c, k)
    /\ \A d \in Notices(c) : d.sid < k.sid

\* Messages are of calls that were made, and what is on its way to a socket is
\* of the call that has it open.
CallsInv ==
    /\ \A m \in wire : m.no <= calls[m.from]
    /\ \A a \in answer : a.no <= calls[a.to]
    /\ \A a \in back : Awaited(a)

(***************************************************************************)
(* What LeaseKept rests on.  A late notice is dangerous only to the lease  *)
(* that it names, and its client has forgotten that one: what the client   *)
(* holds, what it asks the server about, and what an answer it still waits *)
(* for would make it hold, are all later than every notice under way.      *)
(***************************************************************************)
LeaseInv ==
    /\ CallsInv
    /\ \A s \in sessions : s.expires <= now + SessionTtl
    /\ \A m \in wire : m.kind = "disconnect" => m.sid <= lastSid
    /\ \A m \in wire : m.kind = "status" /\ Current("status", m.from, m.no)
          => \A d \in Notices(m.from) : d.sid < m.sid
    /\ \A c \in Clients : \A k \in cached[c] : Secure(c, k)
    /\ \A a \in back \cup answer : Awaited(a) => \A k \in a.lease : Secure(a.to, k)


\* The parts of a step that no other client can see.
OnlyClient(c) ==
    /\ UNCHANGED <<vars, answer, floor>>
    /\ \A d \in Clients \ {c} : call'[d] = call[d] /\ calls'[d] = calls[d] /\ cached'[d] = cached[d]

\* What a lease is secured by, and what makes it so after a step that the
\* server has no part in.
LEMMA SecureStays ==
    ASSUME NEW c \in Clients, NEW k, Secure(c, k), UNCHANGED vars, floor' = floor,
           Notices(c)' \subseteq Notices(c)
    PROVE  Secure(c, k)'
BY DEF vars, memory, Secure, Promised, StandsFor

\* What the messages of the invariant are made of.
LEMMA MessageTypes ==
    ASSUME PlaneTypeOK
    PROVE  /\ \A m \in wire : m.from \in Clients /\ m.no \in Nat /\ m.sid \in Nat
           /\ \A a \in back \cup answer :
                 a.to \in Clients /\ a.no \in Nat /\ a.kind \in {"login", "status"}
                 /\ a.lease \subseteq Session
           /\ \A c \in Clients : calls[c] \in Nat /\ call[c].what \in {"idle", "login", "status"}
           /\ \A c \in Clients : \A k \in cached[c] : k.sid \in Nat /\ k.expires \in Nat
BY DEF PlaneTypeOK, Request, Reply, Call, Connection

\* Nothing is on its way to a client that waits for nothing.
LEMMA NothingForIdle ==
    ASSUME PlaneTypeOK, CallsInv, NEW c \in Clients, call[c] = Idle
    PROVE  \A a \in back : a.to # c
<1>1. call[c].what = "idle" BY DEF Idle
<1>. QED BY <1>1, MessageTypes DEF CallsInv, Awaited

\* A client begins a call.
LEMMA LeaseAsks ==
    ASSUME PlaneTypeOK, LeaseInv, NEW c \in Clients, OnlyClient(c), call[c] = Idle,
           calls'[c] = calls[c] + 1, cached'[c] = cached[c], back' = back,
           NEW m, wire' = wire \cup {m}, m.from = c, m.no = calls'[c],
           m.kind \in {"login", "status"},
           m.kind = "status" => \E k \in cached[c] : m.sid = k.sid
    PROVE  LeaseInv'
<1>1. \A d \in Clients : Notices(d)' = Notices(d)
  BY DEF Notices
<1>2. \A d \in Clients : \A k : Secure(d, k) => Secure(d, k)'
  BY <1>1, SecureStays DEF OnlyClient
<1>3. \A a \in back \cup answer : Awaited(a)' => Awaited(a)
  <2> SUFFICES ASSUME NEW a \in back \cup answer, Awaited(a)' PROVE Awaited(a)
    OBVIOUS
  <2>1. a.no <= calls[a.to]
    BY MessageTypes DEF LeaseInv, CallsInv, Awaited
  <2>2. a.to # c
    BY <2>1, MessageTypes DEF Awaited
  <2>. QED BY <2>2, MessageTypes DEF OnlyClient, Awaited
<1>4. CallsInv'
  <2>1. \A d \in Clients : calls'[d] \in Nat /\ calls'[d] >= calls[d]
    BY MessageTypes DEF OnlyClient
  <2>2. \A x \in wire' : x.no <= calls'[x.from]
    <3>1. \A x \in wire : x.no <= calls'[x.from]
      BY <2>1, MessageTypes DEF LeaseInv, CallsInv
    <3>2. m.no <= calls'[m.from] BY <2>1
    <3>. QED BY <3>1, <3>2
  <2>3. \A a \in answer' : a.no <= calls'[a.to]
    BY <2>1, MessageTypes DEF LeaseInv, CallsInv, OnlyClient
  <2>4. \A a \in back' : Awaited(a)'
    <3>1. \A a \in back : a.to # c BY NothingForIdle DEF LeaseInv
    <3>. QED BY <3>1, MessageTypes DEF LeaseInv, CallsInv, OnlyClient, Awaited
  <2>. QED BY <2>2, <2>3, <2>4 DEF CallsInv
<1>5. \A x \in wire' : x.kind = "status" /\ Current("status", x.from, x.no)'
          => \A d \in Notices(x.from)' : d.sid < x.sid
  <2> SUFFICES ASSUME NEW x \in wire', x.kind = "status", Current("status", x.from, x.no)',
                      NEW d \in Notices(x.from)'
               PROVE  d.sid < x.sid
    OBVIOUS
  <2>1. CASE x = m
    <3>1. d \in Notices(c) BY <1>1, <2>1
    <3>2. PICK k \in cached[c] : m.sid = k.sid BY <2>1
    <3>. QED BY <2>1, <3>1, <3>2 DEF LeaseInv, Secure
  <2>2. CASE x # m
    <3>1. x \in wire /\ x.from \in Clients /\ x.no <= calls[x.from]
      BY <2>2, MessageTypes DEF LeaseInv, CallsInv
    <3>2. x.from # c
      BY <3>1, MessageTypes DEF Current
    <3>. QED BY <1>1, <3>1, <3>2 DEF OnlyClient, Current, LeaseInv
  <2>. QED BY <2>1, <2>2
<1>6. \A d \in Clients : \A k \in cached'[d] : Secure(d, k)'
  BY <1>2 DEF OnlyClient, LeaseInv
<1>7. \A a \in back' \cup answer' : Awaited(a)' => \A k \in a.lease : Secure(a.to, k)'
  BY <1>2, <1>3, MessageTypes DEF OnlyClient, LeaseInv
<1>8. /\ \A s \in sessions' : s.expires <= now' + SessionTtl
      /\ \A x \in wire' : x.kind = "disconnect" => x.sid <= lastSid'
  BY DEF OnlyClient, vars, memory, LeaseInv
<1>. QED BY <1>4, <1>5, <1>6, <1>7, <1>8 DEF LeaseInv

\* A client gives its session up: it holds and awaits nothing from then on.
LEMMA LeaseNotice ==
    ASSUME PlaneTypeOK, LeaseInv, NEW c \in Clients, OnlyClient(c), call[c] = Idle,
           call'[c] = call[c], calls'[c] = calls[c] + 1, cached'[c] = {}, back' = back,
           NEW m, wire' = wire \cup {m}, m.from = c, m.no = calls'[c], m.kind = "disconnect",
           \E k \in cached[c] : m.sid = k.sid
    PROVE  LeaseInv'
<1>1. \A d \in Clients \ {c} : Notices(d)' = Notices(d)
  BY DEF Notices
<1>2. \A d \in Clients \ {c} : \A k : Secure(d, k) => Secure(d, k)'
  BY <1>1, SecureStays DEF OnlyClient
<1>0. call'[c].what = "idle" BY DEF Idle
<1>3. \A a \in back \cup answer : Awaited(a)' => Awaited(a) /\ a.to # c
  BY <1>0, MessageTypes DEF OnlyClient, Awaited
<1>4. CallsInv'
  <2>1. \A d \in Clients : calls'[d] \in Nat /\ calls'[d] >= calls[d]
    BY MessageTypes DEF OnlyClient
  <2>2. \A x \in wire' : x.no <= calls'[x.from]
    <3>1. \A x \in wire : x.no <= calls'[x.from]
      BY <2>1, MessageTypes DEF LeaseInv, CallsInv
    <3>2. m.no <= calls'[m.from] BY <2>1
    <3>. QED BY <3>1, <3>2
  <2>3. \A a \in answer' : a.no <= calls'[a.to]
    BY <2>1, MessageTypes DEF LeaseInv, CallsInv, OnlyClient
  <2>4. \A a \in back' : Awaited(a)'
    <3>1. \A a \in back : a.to # c BY NothingForIdle DEF LeaseInv
    <3>. QED BY <3>1, MessageTypes DEF LeaseInv, CallsInv, OnlyClient, Awaited
  <2>. QED BY <2>2, <2>3, <2>4 DEF CallsInv
<1>5. \A x \in wire' : x.kind = "status" /\ Current("status", x.from, x.no)'
          => \A d \in Notices(x.from)' : d.sid < x.sid
  <2> SUFFICES ASSUME NEW x \in wire', x.kind = "status", Current("status", x.from, x.no)'
               PROVE  \A d \in Notices(x.from)' : d.sid < x.sid
    OBVIOUS
  <2>1. x.from # c BY <1>0 DEF Current
  <2>2. x \in wire /\ x.from \in Clients BY MessageTypes
  <2>. QED BY <1>1, <2>1, <2>2 DEF OnlyClient, Current, LeaseInv
<1>6. \A d \in Clients : \A k \in cached'[d] : Secure(d, k)'
  BY <1>2 DEF OnlyClient, LeaseInv
<1>7. \A a \in back' \cup answer' : Awaited(a)' => \A k \in a.lease : Secure(a.to, k)'
  BY <1>2, <1>3, MessageTypes DEF OnlyClient, LeaseInv
<1>8. /\ \A s \in sessions' : s.expires <= now' + SessionTtl
      /\ \A x \in wire' : x.kind = "disconnect" => x.sid <= lastSid'
  BY DEF OnlyClient, vars, memory, LeaseInv, Secure
<1>. QED BY <1>4, <1>5, <1>6, <1>7, <1>8 DEF LeaseInv

\* A client waits on, with one more copy of its request under way.
LEMMA LeaseResend ==
    ASSUME PlaneTypeOK, LeaseInv, NEW c \in Clients, OnlyClient(c),
           call'[c].what = call[c].what, calls'[c] = calls[c], cached'[c] = cached[c],
           back' = back,
           NEW m, wire' = wire \cup {m}, m.from = c, m.no = calls'[c], m.kind = "login"
    PROVE  LeaseInv'
<1>1. \A d \in Clients : Notices(d)' = Notices(d)
  BY DEF Notices
<1>2. \A d \in Clients : \A k : Secure(d, k) => Secure(d, k)'
  BY <1>1, SecureStays DEF OnlyClient
<1>3. \A d \in Clients : call'[d].what = call[d].what /\ calls'[d] = calls[d] /\ cached'[d] = cached[d]
  BY DEF OnlyClient
<1>4. \A a \in back \cup answer : Awaited(a)' <=> Awaited(a)
  BY <1>3, MessageTypes DEF Awaited
<1>5. CallsInv'
  BY <1>3, <1>4, MessageTypes DEF LeaseInv, CallsInv, OnlyClient
<1>6. \A x \in wire' : x.kind = "status" /\ Current("status", x.from, x.no)'
          => \A d \in Notices(x.from)' : d.sid < x.sid
  BY <1>1, <1>3, MessageTypes DEF LeaseInv, Current
<1>7. \A d \in Clients : \A k \in cached'[d] : Secure(d, k)'
  BY <1>2, <1>3 DEF LeaseInv
<1>8. \A a \in back' \cup answer' : Awaited(a)' => \A k \in a.lease : Secure(a.to, k)'
  BY <1>2, <1>4, MessageTypes DEF OnlyClient, LeaseInv
<1>9. /\ \A s \in sessions' : s.expires <= now' + SessionTtl
      /\ \A x \in wire' : x.kind = "disconnect" => x.sid <= lastSid'
  BY DEF OnlyClient, vars, memory, LeaseInv
<1>. QED BY <1>5, <1>6, <1>7, <1>8, <1>9 DEF LeaseInv

\* Two records of one lease.
SameLease(k, l) == k.sid = l.sid /\ k.host = l.host /\ k.expires = l.expires

LEMMA SameLeaseSecure ==
    ASSUME NEW c \in Clients, NEW k, NEW l, SameLease(k, l), Secure(c, l)'
    PROVE  Secure(c, k)'
BY DEF SameLease, Secure, Promised, StandsFor

\* A call is over, and what its client holds now it held or was answered.
LEMMA LeaseCallOver ==
    ASSUME PlaneTypeOK, LeaseInv, NEW c \in Clients, OnlyClient(c), CallOver(c),
           calls'[c] = calls[c], wire' = wire,
           \A k \in cached'[c] :
              \/ \E l \in cached[c] : SameLease(k, l)
              \/ \E a \in Heard(c) : \E l \in a.lease : SameLease(k, l)
    PROVE  LeaseInv'
<1>1. \A d \in Clients : Notices(d)' = Notices(d)
  BY DEF Notices
<1>2. \A d \in Clients : \A k : Secure(d, k) => Secure(d, k)'
  BY <1>1, SecureStays DEF OnlyClient
<1>3. call'[c].what = "idle" /\ back' = {a \in back : a.to # c}
  BY DEF CallOver, CloseSocket, PlaneTypeOK, Idle
<1>4. \A a \in back \cup answer : Awaited(a)' => Awaited(a)
  BY <1>3, MessageTypes DEF OnlyClient, Awaited
<1>5. CallsInv'
  <2>1. \A d \in Clients : calls'[d] = calls[d] BY DEF OnlyClient
  <2>2. \A a \in back' : Awaited(a)'
    BY <1>3, MessageTypes DEF LeaseInv, CallsInv, OnlyClient, Awaited
  <2>. QED BY <2>1, <2>2, MessageTypes DEF LeaseInv, CallsInv, OnlyClient
<1>6. \A x \in wire' : x.kind = "status" /\ Current("status", x.from, x.no)'
          => \A d \in Notices(x.from)' : d.sid < x.sid
  BY <1>1, <1>3, MessageTypes DEF LeaseInv, OnlyClient, Current
<1>7. \A d \in Clients : \A k \in cached'[d] : Secure(d, k)'
  <2> SUFFICES ASSUME NEW d \in Clients, NEW k \in cached'[d] PROVE Secure(d, k)'
    OBVIOUS
  <2>1. CASE d # c
    BY <1>2, <2>1 DEF OnlyClient, LeaseInv
  <2>2. CASE d = c
    <3>1. CASE \E l \in cached[c] : SameLease(k, l)
      <4>1. PICK l \in cached[c] : SameLease(k, l) BY <3>1
      <4>2. Secure(c, l)' BY <1>2, <4>1 DEF LeaseInv
      <4>. QED BY <2>2, <4>1, <4>2, SameLeaseSecure
    <3>2. CASE \E a \in Heard(c) : \E l \in a.lease : SameLease(k, l)
      <4>1. PICK a \in Heard(c) : \E l \in a.lease : SameLease(k, l) BY <3>2
      <4>2. PICK l \in a.lease : SameLease(k, l) BY <4>1
      <4>3. Secure(c, l) BY <4>1, <4>2 DEF Heard, LeaseInv, CallsInv
      <4>4. Secure(c, l)' BY <1>2, <4>3
      <4>. QED BY <2>2, <4>2, <4>4, SameLeaseSecure
    <3>. QED BY <2>2, <3>1, <3>2
  <2>. QED BY <2>1, <2>2
<1>8. \A a \in back' \cup answer' : Awaited(a)' => \A k \in a.lease : Secure(a.to, k)'
  BY <1>2, <1>3, <1>4, MessageTypes DEF OnlyClient, LeaseInv
<1>9. /\ \A s \in sessions' : s.expires <= now' + SessionTtl
      /\ \A x \in wire' : x.kind = "disconnect" => x.sid <= lastSid'
  BY DEF OnlyClient, vars, memory, LeaseInv
<1>. QED BY <1>5, <1>6, <1>7, <1>8, <1>9 DEF LeaseInv


\* Every command of a client, and every answer it takes, is one of these.
LEMMA LeaseClient ==
    ASSUME PlaneTypeOK, LeaseInv, NEW c \in Clients, ClientSteps(c)
    PROVE  LeaseInv'
<1>0. /\ call \in [Clients -> Call] /\ calls \in [Clients -> Nat]
      /\ cached \in [Clients -> SUBSET Connection]
  BY DEF PlaneTypeOK
<1>1. OnlyClient(c)
  <2>1. UNCHANGED <<vars, answer, floor>>
    BY ClientLeavesServer DEF ClientSteps, AttemptAuth, QueryServerStatus, SendDisconnectNotice,
       Resend, TimesOut, TakeAuthResult, TakeStatus
  <2>2. \A d \in Clients \ {c} : call'[d] = call[d]
    BY <1>0 DEF ClientSteps, AttemptAuth, QueryServerStatus, SendDisconnectNotice,
       Resend, TimesOut, TakeAuthResult, TakeStatus, Waits, CallOver
  <2>3. \A d \in Clients \ {c} : calls'[d] = calls[d]
    BY <1>0 DEF ClientSteps, AttemptAuth, QueryServerStatus, SendDisconnectNotice,
       Resend, TimesOut, TakeAuthResult, TakeStatus, Runs
  <2>4. \A d \in Clients \ {c} : cached'[d] = cached[d]
    <3>1. CASE TakeAuthResult(c) BY <1>0, <3>1 DEF TakeAuthResult
    <3>2. CASE TakeStatus(c) BY <1>0, <3>2 DEF TakeStatus
    <3>3. CASE SendDisconnectNotice(c) BY <1>0, <3>3 DEF SendDisconnectNotice
    <3>. QED BY <3>1, <3>2, <3>3 DEF ClientSteps, AttemptAuth, QueryServerStatus, Resend, TimesOut
  <2>. QED BY <2>1, <2>2, <2>3, <2>4 DEF OnlyClient
<1>2. ASSUME NEW good \in BOOLEAN, AttemptAuth(c, good) PROVE LeaseInv'
  <2> DEFINE m == NewRequest(c, "login", 1, 0)
  <2>1. m.from = c /\ m.no = calls'[c] /\ m.kind = "login" BY DEF NewRequest
  <2>2. call[c] = Idle /\ calls'[c] = calls[c] + 1 /\ cached'[c] = cached[c] /\ back' = back
        /\ wire' = wire \cup {m}
    BY <1>0, <1>2 DEF AttemptAuth, CanRun, Runs, SendRequest
  <2>. HIDE DEF m
  <2>. QED BY <1>1, <2>1, <2>2, LeaseAsks
<1>3. ASSUME QueryServerStatus(c) PROVE LeaseInv'
  <2>1. PICK k \in cached[c] : SendRequest(NewRequest(c, "status", 1, k.sid))
    BY <1>3 DEF QueryServerStatus
  <2> DEFINE m == NewRequest(c, "status", 1, k.sid)
  <2>2. m.from = c /\ m.no = calls'[c] /\ m.kind = "status" /\ m.sid = k.sid BY DEF NewRequest
  <2>3. call[c] = Idle /\ calls'[c] = calls[c] + 1 /\ cached'[c] = cached[c] /\ back' = back
        /\ wire' = wire \cup {m}
    BY <1>0, <1>3, <2>1 DEF QueryServerStatus, CanRun, Runs, SendRequest
  <2>. HIDE DEF m
  <2>. QED BY <1>1, <2>1, <2>2, <2>3, LeaseAsks
<1>4. ASSUME SendDisconnectNotice(c) PROVE LeaseInv'
  <2>1. PICK k \in cached[c] : SendRequest(NewRequest(c, "disconnect", 1, k.sid))
    BY <1>4 DEF SendDisconnectNotice
  <2> DEFINE m == NewRequest(c, "disconnect", 1, k.sid)
  <2>2. m.from = c /\ m.no = calls'[c] /\ m.kind = "disconnect" /\ m.sid = k.sid BY DEF NewRequest
  <2>3. call[c] = Idle /\ call'[c] = call[c] /\ calls'[c] = calls[c] + 1 /\ cached'[c] = {}
        /\ back' = back /\ wire' = wire \cup {m}
    BY <1>0, <1>4, <2>1 DEF SendDisconnectNotice, CanRun, Runs, SendRequest
  <2>. HIDE DEF m
  <2>. QED BY <1>1, <2>1, <2>2, <2>3, LeaseNotice
<1>5. ASSUME Resend(c) PROVE LeaseInv'
  <2> DEFINE m == NewRequest(c, "login", call'[c].sends, 0)
  <2>1. m.from = c /\ m.no = calls'[c] /\ m.kind = "login" BY DEF NewRequest
  <2>2. call'[c] = [call[c] EXCEPT !.sends = @ + 1] /\ call[c] \in Call
    BY <1>0, <1>5 DEF Resend
  <2>3. call'[c].what = call[c].what BY <2>2 DEF Call
  <2>4. calls'[c] = calls[c] /\ cached'[c] = cached[c] /\ back' = back
        /\ wire' = wire \cup {m}
    BY <1>5 DEF Resend, SendRequest
  <2>. HIDE DEF m
  <2>. QED BY <1>1, <2>1, <2>3, <2>4, LeaseResend
<1>6. ASSUME TimesOut(c) PROVE LeaseInv'
  <2>1. \A k \in cached'[c] : \E l \in cached[c] : SameLease(k, l)
    BY <1>6 DEF TimesOut, SameLease
  <2>2. CallOver(c) /\ calls'[c] = calls[c] /\ wire' = wire
    BY <1>6 DEF TimesOut
  <2>. QED BY <1>1, <2>1, <2>2, LeaseCallOver
<1>7. ASSUME TakeAuthResult(c) PROVE LeaseInv'
  <2>1. PICK a \in Heard(c) :
          IF a.lease # {} THEN cached' = [cached EXCEPT ![c] = {Connected(s) : s \in a.lease}]
          ELSE UNCHANGED cached
    BY <1>7 DEF TakeAuthResult
  <2>2. \A k \in cached'[c] : (\E l \in cached[c] : SameLease(k, l))
                               \/ \E l \in a.lease : SameLease(k, l)
    BY <1>0, <2>1 DEF Connected, SameLease
  <2>3. CallOver(c) /\ calls'[c] = calls[c] /\ wire' = wire
    BY <1>7 DEF TakeAuthResult
  <2>. QED BY <1>1, <2>2, <2>3, LeaseCallOver
<1>8. ASSUME TakeStatus(c) PROVE LeaseInv'
  <2>1. PICK a \in Heard(c) : cached' = [cached EXCEPT ![c] =
              IF a.locked THEN {[k EXCEPT !.phase = "error"] : k \in @}
                          ELSE {Connected(s) : s \in a.lease}]
    BY <1>8 DEF TakeStatus
  <2>2. \A l \in cached[c] : SameLease([l EXCEPT !.phase = "error"], l)
    BY <1>0 DEF SameLease, Connection
  <2>3. \A k \in cached'[c] : (\E l \in cached[c] : SameLease(k, l))
                               \/ \E l \in a.lease : SameLease(k, l)
    <3>1. CASE a.locked
      <4>1. cached'[c] = {[k EXCEPT !.phase = "error"] : k \in cached[c]}
        BY <1>0, <2>1, <3>1
      <4>. QED BY <2>2, <4>1
    <3>2. CASE ~ a.locked
      <4>1. cached'[c] = {Connected(s) : s \in a.lease}
        BY <1>0, <2>1, <3>2
      <4>. QED BY <4>1 DEF Connected, SameLease
    <3>. QED BY <3>1, <3>2
  <2>4. CallOver(c) /\ calls'[c] = calls[c] /\ wire' = wire
    BY <1>8 DEF TakeStatus
  <2>. QED BY <1>1, <2>3, <2>4, LeaseCallOver
<1>. QED BY <1>2, <1>3, <1>4, <1>5, <1>6, <1>7, <1>8 DEF ClientSteps


\* Each session that runs is carried over a step of the server: by itself, by a
\* later one of its client, or else a notice that was under way has ended it.
Carried ==
    \A s \in sessions : s.expires > now /\ s.sid > floor' =>
        \/ \E t \in sessions' : StandsFor(t, s.client, s)
        \/ \E d \in Notices(s.client) : d.sid = s.sid

Onward ==
    /\ now' \in Nat /\ now' >= now
    /\ lastSid' \in Nat /\ lastSid' >= lastSid
    /\ floor' \in {floor, lastSid}
    /\ wire' \subseteq wire
    /\ UNCHANGED client

LEMMA StandsForLater ==
    ASSUME NEW c, NEW k, NEW s, NEW t, StandsFor(s, c, k), StandsFor(t, c, s),
           k.sid \in Nat, k.expires \in Nat, s.sid \in Nat, s.expires \in Nat,
           t.sid \in Nat, t.expires \in Nat
    PROVE  StandsFor(t, c, k)
BY DEF StandsFor

LEMMA SecureCarried ==
    ASSUME Joint, TypeOK', Carried, Onward,
           NEW c \in Clients, NEW k, k.sid \in Nat, k.expires \in Nat, Secure(c, k)
    PROVE  Secure(c, k)'
<1>1. now \in Nat /\ lastSid \in Nat /\ floor \in Nat
      /\ \A s \in sessions : s.sid \in Nat /\ s.expires \in Nat
  BY DEF Joint, TypeOK, PlaneTypeOK, Session
<1>2. k.sid <= lastSid'
  BY <1>1 DEF Secure, Onward
<1>3. \A d \in Notices(c)' : d.sid < k.sid
  BY DEF Notices, Secure, Onward
<1>4. ASSUME k.expires > now', k.sid > floor' PROVE \E t \in sessions' : StandsFor(t, c, k)
  <2>1. k.expires > now /\ floor' = floor
    BY <1>1, <1>4 DEF Secure, Onward
  <2>2. PICK s \in sessions : StandsFor(s, c, k)
    BY <1>4, <2>1 DEF Secure, Promised
  <2>3. s.expires > now /\ s.sid > floor' /\ s.client = c
    BY <1>1, <1>4, <2>1, <2>2 DEF StandsFor
  <2>4. ~ \E d \in Notices(c) : d.sid = s.sid
    BY <1>1, <2>2 DEF Secure, StandsFor
  <2>5. PICK t \in sessions' : StandsFor(t, c, s)
    BY <2>3, <2>4 DEF Carried
  <2>6. t.sid \in Nat /\ t.expires \in Nat
    BY DEF TypeOK, Session
  <2>. QED BY <1>1, <2>2, <2>5, <2>6, StandsForLater
<1>. QED BY <1>2, <1>3, <1>4 DEF Secure, Promised

\* A step of the server that carries the sessions, and answers with nothing but
\* leases that are secure.
LEMMA LeaseServerStep ==
    ASSUME Joint, TypeOK', PlaneTypeOK', LeaseInv, Carried, Onward,
           \A s \in sessions' : s.expires <= now' + SessionTtl,
           \A a \in answer' : \/ a \in answer
                              \/ /\ a.no <= calls[a.to]
                                 /\ Awaited(a) => \A k \in a.lease : Secure(a.to, k)',
           back' \subseteq back \cup {a \in answer : Awaited(a)}
    PROVE  LeaseInv'
<1>1. \A a \in back' \cup answer' : Awaited(a)' <=> Awaited(a)
  BY DEF Onward, client, Awaited
<1>2. /\ \A a \in back \cup answer : a.to \in Clients /\ a.lease \subseteq Session
      /\ \A c \in Clients : \A k \in cached[c] : k.sid \in Nat /\ k.expires \in Nat
  BY MessageTypes DEF Joint
<1>3. \A c \in Clients : \A k \in cached'[c] : Secure(c, k)'
  BY <1>2, SecureCarried DEF Onward, client, LeaseInv
<1>4. \A a \in back \cup answer : Awaited(a) => \A k \in a.lease : Secure(a.to, k)'
  <2> SUFFICES ASSUME NEW a \in back \cup answer, Awaited(a), NEW k \in a.lease
               PROVE  Secure(a.to, k)'
    OBVIOUS
  <2>1. k.sid \in Nat /\ k.expires \in Nat BY <1>2 DEF Session
  <2>2. a.to \in Clients /\ Secure(a.to, k) BY <1>2 DEF LeaseInv
  <2>. QED BY <2>1, <2>2, SecureCarried
<1>5. \A a \in back' \cup answer' : Awaited(a)' => \A k \in a.lease : Secure(a.to, k)'
  BY <1>1, <1>4
<1>6. CallsInv'
  BY <1>1 DEF LeaseInv, CallsInv, Onward, client
<1>7. \A m \in wire' : m.kind = "disconnect" => m.sid <= lastSid'
  <2>1. lastSid \in Nat /\ \A m \in wire : m.sid \in Nat
    BY MessageTypes DEF Joint, TypeOK
  <2>. QED BY <2>1 DEF LeaseInv, Onward
<1>8. \A m \in wire' : m.kind = "status" /\ Current("status", m.from, m.no)'
          => \A d \in Notices(m.from)' : d.sid < m.sid
  BY DEF LeaseInv, Onward, client, Current, Notices
<1>. QED BY <1>3, <1>5, <1>6, <1>7, <1>8 DEF LeaseInv

\* A session is carried by itself as long as it is live and not touched.
LEMMA LiveCarries ==
    ASSUME Joint, \A s \in Live(sessions, now) : s \in sessions'
    PROVE  Carried
<1>1. \A s \in sessions : s.sid \in Nat /\ s.expires \in Nat /\ now \in Nat
  BY DEF Joint, TypeOK, Session
<1>. QED BY <1>1 DEF Live, Carried, StandsFor

\* A login: the client's session before it is replaced, and a login that finds
\* no address found no session of its client either.
LEMMA LeaseOnLogin ==
    ASSUME Joint, TypeOK', PlaneTypeOK', LeaseInv, NEW m \in wire, OnLogin(m),
           wire' = wire \ {m}, UNCHANGED <<back, client, faults>>
    PROVE  LeaseInv'
<1>0. /\ now \in Nat /\ lastSid \in Nat /\ m.from \in Clients /\ SessionTtl \in Nat
      /\ sessions \subseteq Session
      /\ \A s \in sessions : s.sid \in Nat /\ s.sid <= lastSid /\ s.expires \in Nat
                               /\ s.expires <= now + SessionTtl /\ s.host \in Hosts
  BY ServerAssumption, MessageTypes
     DEF Joint, TypeOK, Session, ServerInv, Table, SidsUsed, LeaseInv
<1>1. now' = now /\ floor' = floor /\ lastSid' \in {lastSid, lastSid + 1}
  BY DEF OnLogin, AuthDropped, AuthNoAddress, AuthAccepted, Answer
<1>2. Onward
  BY <1>0, <1>1 DEF Onward
<1>3. CASE AuthDropped(Home[m.from]) /\ answer' = {}
  <2>1. sessions' = Live(sessions, now) BY <1>3 DEF AuthDropped, Answer
  <2>2. Carried BY <2>1, LiveCarries
  <2>. QED BY <1>0, <1>1, <1>2, <1>3, <2>1, <2>2, LeaseServerStep DEF Live
<1>4. CASE AuthNoAddress(Home[m.from], m.from) /\ answer' = {}
  <2> DEFINE others == Without(Live(sessions, now), m.from)
  <2>1. sessions' = others /\ FreeHosts(others) = {} BY <1>4 DEF AuthNoAddress
  <2>2. \A s \in Live(sessions, now) : s.client # m.from
    <3> SUFFICES ASSUME NEW s \in Live(sessions, now), s.client = m.from PROVE FALSE
      OBVIOUS
    <3>1. s \in sessions /\ s.host \in Hosts BY <1>0 DEF Live
    <3>2. \A t \in others : t.host # s.host
      BY <3>1 DEF Without, Live, Joint, ServerInv, Table, LeasesExclusive
    <3>3. s.host \in FreeHosts(others) BY <3>1, <3>2 DEF FreeHosts
    <3>. QED BY <2>1, <3>3
  <2>3. Carried BY <2>1, <2>2, LiveCarries DEF Without
  <2>. QED BY <1>0, <1>1, <1>2, <1>4, <2>1, <2>3, LeaseServerStep DEF Live, Without
<1>5. CASE /\ AuthAccepted(Home[m.from], m.from)
           /\ answer' = Replied(m, lease', NoCooldown, FALSE)
  <2> DEFINE others == Without(Live(sessions, now), m.from)
  <2>0. PICK new : new = [sid |-> lastSid + 1, client |-> m.from, remote |-> Home[m.from],
                          host |-> LowestFree(others), expires |-> now + SessionTtl]
    OBVIOUS
  <2>1. sessions' = others \cup {new} /\ lease' = {new} /\ lastSid' = lastSid + 1
    BY <1>5, <2>0 DEF AuthAccepted, Answer
  <2>2. new.sid = lastSid + 1 /\ new.client = m.from /\ new.expires = now + SessionTtl
    BY <2>0
  <2>3. Carried
    <3> SUFFICES ASSUME NEW s \in sessions, s.expires > now
                 PROVE  \E t \in sessions' : StandsFor(t, s.client, s)
      BY DEF Carried
    <3>1. CASE s.client = m.from
      <4>1. StandsFor(new, s.client, s) BY <1>0, <2>2, <3>1 DEF StandsFor
      <4>. QED BY <2>1, <4>1
    <3>2. CASE s.client # m.from
      <4>1. s \in sessions' BY <2>1, <3>2 DEF Without, Live
      <4>. QED BY <1>0, <4>1 DEF StandsFor
    <3>. QED BY <3>1, <3>2
  <2>4. \A s \in sessions' : s.expires <= now' + SessionTtl
    BY <1>0, <1>1, <2>1, <2>2 DEF Without, Live
  <2>5. \A a \in answer' : a.to = m.from /\ a.no = m.no /\ a.lease = {new}
    BY <1>5, <2>1 DEF Replied
  <2>6. Secure(m.from, new)'
    <3>1. \A d \in Notices(m.from)' : d.sid < new.sid
      <4>1. \A d \in wire : d.sid \in Nat /\ (d.kind = "disconnect" => d.sid <= lastSid)
        BY MessageTypes DEF Joint, LeaseInv
      <4>. QED BY <1>0, <2>2, <4>1 DEF Notices
    <3>2. StandsFor(new, m.from, new)
      BY <1>0, <2>2 DEF StandsFor
    <3>3. new.sid <= lastSid' BY <1>0, <2>1, <2>2
    <3>. QED BY <2>1, <3>1, <3>2, <3>3 DEF Secure, Promised
  <2>7. m.no <= calls[m.from] BY DEF LeaseInv, CallsInv
  <2>. QED BY <1>2, <2>3, <2>4, <2>5, <2>6, <2>7, LeaseServerStep
<1>. QED BY <1>3, <1>4, <1>5 DEF OnLogin


\* A wrong login ends sessions in a lockdown only.
LEMMA LeaseOnWrongLogin ==
    ASSUME Joint, TypeOK', PlaneTypeOK', LeaseInv, NEW m \in wire, OnWrongLogin(m),
           wire' = wire \ {m}, UNCHANGED <<back, client, faults>>
    PROVE  LeaseInv'
<1>1. /\ now \in Nat /\ lastSid \in Nat /\ now' = now /\ lastSid' = lastSid
      /\ \A s \in sessions : s.sid \in Nat /\ s.sid <= lastSid
  BY DEF Joint, TypeOK, Session, ServerInv, Table, SidsUsed, OnWrongLogin, AuthRejected, Answer
<1>2. Onward
  BY <1>1 DEF Onward, OnWrongLogin
<1>3. sessions' \subseteq Live(sessions, now)
  BY DEF OnWrongLogin, AuthRejected, Answer
<1>4. Carried
  <2>1. CASE journal'.lockdown
    BY <1>1, <2>1 DEF OnWrongLogin, Carried
  <2>2. CASE ~ journal'.lockdown
    <3>1. sessions' = Live(sessions, now)
      BY <2>2 DEF OnWrongLogin, AuthRejected, Answer
    <3>. QED BY <3>1, LiveCarries
  <2>. QED BY <2>1, <2>2
<1>5. \A a \in answer' : a.to = m.from /\ a.no = m.no /\ a.lease = {}
  BY DEF OnWrongLogin, Replied
<1>6. \A a \in answer' : a.no <= calls[a.to]
  BY <1>5 DEF LeaseInv, CallsInv
<1>7. \A s \in sessions' : s.expires <= now' + SessionTtl
  BY <1>1, <1>3 DEF LeaseInv, Live
<1>. QED BY <1>2, <1>4, <1>5, <1>6, <1>7, LeaseServerStep

\* A query prolongs the session it names, and is answered with no other one.
LEMMA LeaseOnStatus ==
    ASSUME Joint, TypeOK', PlaneTypeOK', LeaseInv, NEW m \in wire, OnStatus(m),
           wire' = wire \ {m}, UNCHANGED <<back, client, faults>>
    PROVE  LeaseInv'
<1>0. /\ now \in Nat /\ lastSid \in Nat /\ floor \in Nat /\ SessionTtl \in Nat
      /\ m.from \in Clients /\ m.no \in Nat /\ m.sid \in Nat
      /\ sessions \subseteq Session
      /\ \A s \in sessions : s.sid \in Nat /\ s.sid <= lastSid /\ s.expires \in Nat
                               /\ s.expires <= now + SessionTtl
  BY ServerAssumption, MessageTypes
     DEF Joint, TypeOK, PlaneTypeOK, Session, ServerInv, Table, SidsUsed, LeaseInv
<1>1. now' = now /\ floor' = floor /\ lastSid' = lastSid
  BY DEF OnStatus, Inform, StatusQuery, Answer
<1>2. Onward
  BY <1>0, <1>1 DEF Onward
<1> DEFINE Longer(S) == {[s EXCEPT !.expires = now + SessionTtl] : s \in S}
<1>3. PICK S \in SUBSET sessions :
         (\A s \in S : s.expires > now) /\ sessions' = (Live(sessions, now) \ S) \cup Longer(S)
  <2>1. CASE Inform
    <3>1. sessions' = Live(sessions, now) BY <2>1 DEF Inform, Answer
    <3>2. Longer({}) = {} OBVIOUS
    <3>3. sessions' = (Live(sessions, now) \ {}) \cup Longer({}) BY <3>1, <3>2
    <3>. HIDE DEF Longer
    <3>. QED BY <3>3
  <2>2. CASE StatusQuery(m.sid, Home[m.from], {m.from})
    <3>1. PICK s \in Queried(m.sid, Home[m.from], {m.from}) :
             sessions' = (Live(sessions, now) \ {s}) \cup {[s EXCEPT !.expires = now + SessionTtl]}
      BY <2>2 DEF StatusQuery, Answer
    <3>2. s \in sessions /\ s.expires > now BY <3>1 DEF Queried, Live
    <3>3. Longer({s}) = {[s EXCEPT !.expires = now + SessionTtl]} OBVIOUS
    <3>. HIDE DEF Longer
    <3>. QED BY <3>1, <3>2, <3>3
  <2>. QED BY <2>1, <2>2 DEF OnStatus
<1>4. \A s \in S : LET t == [s EXCEPT !.expires = now + SessionTtl]
                   IN  t.sid = s.sid /\ t.client = s.client /\ t.host = s.host
                       /\ t.expires = now + SessionTtl
  BY <1>0 DEF Session
<1>5. Carried
  <2> SUFFICES ASSUME NEW s \in sessions, s.expires > now
               PROVE  \E t \in sessions' : StandsFor(t, s.client, s)
    BY DEF Carried
  <2>1. CASE s \in S
    <3>1. StandsFor([s EXCEPT !.expires = now + SessionTtl], s.client, s)
      BY <1>0, <1>4, <2>1 DEF StandsFor
    <3>. QED BY <1>3, <2>1, <3>1
  <2>2. CASE s \notin S
    <3>1. s \in sessions' BY <1>3, <2>2 DEF Live
    <3>. QED BY <1>0, <3>1 DEF StandsFor
  <2>. QED BY <2>1, <2>2
<1>6. \A t \in sessions' : t.expires <= now' + SessionTtl /\ t.sid <= lastSid'
  <2>1. \A t \in Live(sessions, now) : t.expires <= now' + SessionTtl /\ t.sid <= lastSid'
    BY <1>0, <1>1 DEF Live
  <2>2. \A t \in Longer(S) : t.expires = now + SessionTtl /\ t.sid <= lastSid'
    BY ZenonT(60), <1>0, <1>1, <1>4
  <2>. QED BY <1>0, <1>1, <1>3, <2>1, <2>2
<1>7. m.kind = "status" /\ m.no <= calls[m.from]
  BY DEF OnStatus, LeaseInv, CallsInv
<1>8. \A a \in answer' : /\ a.to = m.from /\ a.no = m.no /\ a.kind = "status"
                         /\ \A k \in a.lease : k \in sessions' /\ k.sid = m.sid /\ k.client = m.from
  BY <1>7 DEF OnStatus, Replied
<1>9. ASSUME NEW a \in answer', Awaited(a), NEW k \in a.lease PROVE Secure(a.to, k)'
  <2>1. Current("status", m.from, m.no) BY <1>8, <1>9 DEF Awaited, Current
  <2>2. \A d \in Notices(m.from)' : d.sid < k.sid
    BY <1>7, <1>8, <1>9, <2>1 DEF LeaseInv, Notices
  <2>3. k \in sessions' /\ k.sid \in Nat /\ k.expires \in Nat
    BY <1>8, <1>9 DEF TypeOK, Session
  <2>4. StandsFor(k, m.from, k) BY <1>8, <1>9, <2>3 DEF StandsFor
  <2>. QED BY <1>6, <1>8, <1>9, <2>2, <2>3, <2>4 DEF Secure, Promised
<1>10. \A a \in answer' : a.no <= calls[a.to]
  BY <1>7, <1>8
<1>. QED BY <1>2, <1>5, <1>6, <1>9, <1>10, LeaseServerStep

\* A notice ends the session that it names.
LEMMA LeaseOnDisconnect ==
    ASSUME Joint, TypeOK', PlaneTypeOK', LeaseInv, NEW m \in wire, OnDisconnect(m),
           wire' = wire \ {m}, UNCHANGED <<back, client, faults>>
    PROVE  LeaseInv'
<1>0. /\ now \in Nat /\ lastSid \in Nat
      /\ \A s \in sessions : s.sid \in Nat /\ s.expires \in Nat
  BY DEF Joint, TypeOK, Session
<1>1. now' = now /\ floor' = floor /\ lastSid' = lastSid /\ answer' = {}
  BY DEF OnDisconnect, Ignore, Disconnect, Answer
<1>2. Onward
  BY <1>0, <1>1 DEF Onward
<1>3. sessions' \subseteq Live(sessions, now)
  BY DEF OnDisconnect, Ignore, Disconnect, Answer
<1>4. \A s \in Live(sessions, now) : s \in sessions' \/ (s.sid = m.sid /\ s.client = m.from)
  <2>1. CASE Ignore BY <2>1 DEF Ignore, Answer
  <2>2. CASE Disconnect({m.sid}, Home[m.from], m.from)
    BY <2>2 DEF Disconnect, Answer, Named
  <2>. QED BY <2>1, <2>2 DEF OnDisconnect
<1>5. Carried
  <2>1. m \in Notices(m.from) BY DEF OnDisconnect, Notices
  <2>. QED BY <1>0, <1>4, <2>1 DEF Carried, Live, StandsFor
<1>6. \A s \in sessions' : s.expires <= now' + SessionTtl
  BY <1>1, <1>3 DEF LeaseInv, Live
<1>. QED BY <1>1, <1>2, <1>5, <1>6, LeaseServerStep

LEMMA LeaseDeliver ==
    Joint /\ TypeOK' /\ PlaneTypeOK' /\ LeaseInv /\ Deliver => LeaseInv'
BY LeaseOnLogin, LeaseOnWrongLogin, LeaseOnStatus, LeaseOnDisconnect DEF Deliver

\* Between the packets the sessions stay, unless the daemon stops.
LEMMA LeaseServer ==
    ASSUME Joint, TypeOK', PlaneTypeOK', LeaseInv,
           ServerSends \/ ServerSetsPeer \/ ServerGivesUp \/ ServerStops \/ ServerAlone
    PROVE  LeaseInv'
<1>0. /\ now \in Nat /\ lastSid \in Nat /\ SessionTtl \in Nat
      /\ \A s \in sessions : s.sid \in Nat /\ s.sid <= lastSid /\ s.expires \in Nat
  BY ServerAssumption DEF Joint, TypeOK, Session, ServerInv, Table, SidsUsed
<1>1. CASE ServerStops
  <2>1. /\ sessions' = {} /\ floor' = lastSid /\ answer' = {}
        /\ UNCHANGED <<now, lastSid, wire, back, client>>
    BY <1>1 DEF ServerStops, Stop
  <2>2. Onward /\ Carried
    BY <1>0, <2>1 DEF Onward, Carried
  <2>. QED BY <2>1, <2>2, LeaseServerStep
<1>2. CASE ~ ServerStops
  <2>1. sessions' = sessions /\ lastSid' = lastSid /\ floor' = floor /\ client' = client
        /\ wire' = wire
    BY <1>2 DEF ServerSends, ServerSetsPeer, ServerGivesUp, ServerAlone, Send, ApplyPeer,
       RemovePeer, EffectFails, SaveJournal, PersistRuntime, Start, Tick, memory, network
  <2>2. now' \in {now, now + 1}
    BY <1>2 DEF ServerSends, ServerSetsPeer, ServerGivesUp, ServerAlone, Send, ApplyPeer,
       RemovePeer, EffectFails, SaveJournal, PersistRuntime, Start, Tick
  <2>3. answer' \subseteq answer /\ back' \subseteq back \cup {a \in answer : Awaited(a)}
    BY <1>2 DEF ServerSends, ServerSetsPeer, ServerGivesUp, ServerAlone, network
  <2>4. Onward /\ Carried
    BY <1>0, <2>1, <2>2 DEF Onward, Carried, StandsFor
  <2>5. \A s \in sessions' : s.expires <= now' + SessionTtl
    BY <1>0, <2>1, <2>2 DEF LeaseInv
  <2>. QED BY <2>3, <2>4, <2>5, LeaseServerStep
<1>. QED BY <1>1, <1>2

(***************************************************************************)
(* The server keeps a connected client's lease until the time it told the  *)
(* client, whatever requests, copies and notices of any client arrive, and *)
(* in whatever order.                                                      *)
(***************************************************************************)
THEOREM LeasesAreKept == PlaneSpec => []LeaseKept
<1>1. PlaneInit => LeaseInv
  BY DEF PlaneInit, Init, LeaseInv, CallsInv
<1>2. Joint /\ Joint' /\ LeaseInv /\ [PlaneNext]_planeVars => LeaseInv'
  <2> SUFFICES ASSUME Joint, Joint', LeaseInv, [PlaneNext]_planeVars PROVE LeaseInv'
    OBVIOUS
  <2>1. CASE UNCHANGED planeVars
    <3>1. UNCHANGED <<vars, network, client, faults, floor>> BY <2>1 DEF planeVars
    <3>. QED BY <3>1 DEF vars, memory, network, client, LeaseInv, CallsInv, Awaited, Current,
             Secure, Promised, StandsFor, Notices
  <2>2. TypeOK' /\ PlaneTypeOK' /\ PlaneTypeOK BY DEF Joint
  <2>. QED BY <2>1, <2>2, LeaseClient, LeaseDeliver, LeaseServer DEF PlaneNext
<1>3. Joint /\ LeaseInv => LeaseKept
  BY DEF Joint, LeaseInv, Secure, Promised, StandsFor, LeaseKept
<1>. QED BY <1>1, <1>2, <1>3, JointHolds, PTL DEF PlaneSpec

-----------------------------------------------------------------------------
(***************************************************************************)
(* Mistakes.                                                               *)
(***************************************************************************)

\* The failures of address ip that journal j still counts.
Logged(ip, j) == {i \in 1 .. Len(j.recent) : j.recent[i].ip = ip}

\* The copies of wrong logins that are under way from an address, and those that
\* may still be sent.
Wrong(ip) == {m \in wire : m.kind = "login" /\ ~ m.good /\ Home[m.from] = ip}

Mistaken(c) == call[c].what = "login" /\ ~ call[c].good

Left(ip) ==
    {p \in Clients \X (1 .. MaxSends) :
        Home[p[1]] = ip /\ Mistaken(p[1]) /\ p[2] > call[p[1]].sends}

\* The failures of journal j and those to come are paid for.
Paid(ip, j) ==
    Cardinality(Logged(ip, j)) + Cardinality(Wrong(ip)) + Cardinality(Left(ip))
        <= MaxSends * mistakes[ip]

(***************************************************************************)
(* What MistakesBounded rests on: a copy is counted once, while it may be  *)
(* sent, then while it is under way, then in the journal.  The journal on  *)
(* disk is an earlier one, and what is to come after it only gets less.    *)
(***************************************************************************)
MistakesInv ==
    \A ip \in IPs :
        /\ IsFiniteSet(Wrong(ip)) /\ IsFiniteSet(Left(ip))
        /\ Paid(ip, journal) /\ Paid(ip, stateFile)


\* The log is finite, and two sets hold no more than what each of them holds.
LEMMA LoggedFinite ==
    ASSUME NEW j \in Journal, NEW ip
    PROVE  IsFiniteSet(Logged(ip, j)) /\ Cardinality(Logged(ip, j)) \in Nat
<1>1. Len(j.recent) \in Nat BY DEF Journal
<1>2. IsFiniteSet(1 .. Len(j.recent)) BY <1>1, FS_Interval
<1>3. Logged(ip, j) \in SUBSET (1 .. Len(j.recent)) BY DEF Logged
<1>. QED BY <1>2, <1>3, FS_Subset, FS_CardinalityType

LEMMA FewerOrSame ==
    ASSUME NEW S, NEW T, IsFiniteSet(T), S \subseteq T
    PROVE  /\ IsFiniteSet(S) /\ Cardinality(S) \in Nat /\ Cardinality(T) \in Nat
           /\ Cardinality(S) <= Cardinality(T)
BY FS_Subset, FS_CardinalityType

LEMMA OneMore ==
    ASSUME NEW S, NEW T, NEW x, IsFiniteSet(T), S \subseteq T \cup {x}
    PROVE  /\ IsFiniteSet(S) /\ Cardinality(S) \in Nat /\ Cardinality(T) \in Nat
           /\ Cardinality(S) <= Cardinality(T) + 1
<1>1. IsFiniteSet(T \cup {x}) /\ Cardinality(T) \in Nat
      /\ Cardinality(T \cup {x}) <= Cardinality(T) + 1
  BY FS_AddElement, FS_CardinalityType
<1>. QED BY <1>1, FewerOrSame

\* What trim_recent leaves of an address's failures.
LEMMA TrimLogsFewer ==
    ASSUME NEW j \in Journal, NEW k \in Journal, NEW t \in Nat, NEW ip,
           k.recent = Trimmed(j.recent, t)
    PROVE  Cardinality(Logged(ip, k)) <= Cardinality(Logged(ip, j))
<1>1. j.recent \in Seq(FailureEvent) /\ k.recent \in Seq(FailureEvent) BY DEF Journal
<1>0. PICK d \in 0 .. Len(j.recent) :
         /\ Len(Trimmed(j.recent, t)) = Len(j.recent) - d
         /\ \A i \in 1 .. Len(Trimmed(j.recent, t)) : Trimmed(j.recent, t)[i] = j.recent[i + d]
         /\ \A i \in 1 .. d : Aged(j.recent[i], t)
         /\ d < Len(j.recent) => ~ Aged(j.recent[d + 1], t)
  BY <1>1, TrimmedIsSuffix
<1>2. /\ Len(k.recent) = Len(j.recent) - d
      /\ \A i \in 1 .. Len(k.recent) : k.recent[i] = j.recent[i + d]
  BY <1>0
<1>3. Len(j.recent) \in Nat /\ Len(k.recent) \in Nat BY <1>1
<1> DEFINE f == [i \in Logged(ip, k) |-> i + d]
<1>4. \A i \in Logged(ip, k) : i \in 1 .. Len(k.recent) /\ i + d \in Logged(ip, j)
  BY <1>2, <1>3 DEF Logged
<1>5. f \in Injection(Logged(ip, k), Logged(ip, j))
  <2>1. f \in [Logged(ip, k) -> Logged(ip, j)] BY <1>4
  <2>2. \A a, b \in Logged(ip, k) : f[a] = f[b] => a = b BY <1>3, <1>4
  <2>. QED BY <2>1, <2>2 DEF Injection, IsInjective
<1>. QED BY <1>5, LoggedFinite, FS_Injection

\* What one more failure makes of them.
LEMMA AppendLogsOne ==
    ASSUME NEW j \in Journal, NEW k \in Journal, NEW e \in FailureEvent, NEW ip,
           k.recent = Append(j.recent, e)
    PROVE  /\ e.ip # ip => Cardinality(Logged(ip, k)) <= Cardinality(Logged(ip, j))
           /\ Cardinality(Logged(ip, k)) <= Cardinality(Logged(ip, j)) + 1
<1>1. j.recent \in Seq(FailureEvent) BY DEF Journal
<1>2. /\ Len(j.recent) \in Nat /\ Len(k.recent) = Len(j.recent) + 1
      /\ \A i \in 1 .. Len(j.recent) : k.recent[i] = j.recent[i]
      /\ k.recent[Len(j.recent) + 1] = e
  BY <1>1
<1>3. Logged(ip, k) \subseteq Logged(ip, j) \cup {Len(j.recent) + 1}
  BY <1>2 DEF Logged
<1>4. e.ip # ip => Logged(ip, k) \subseteq Logged(ip, j)
  BY <1>2 DEF Logged
<1>. QED BY <1>3, <1>4, LoggedFinite, FewerOrSame, OneMore

\* register_failure adds one for its address and none for another.
LEMMA FailureLogsOne ==
    ASSUME NEW j \in Journal, NEW a \in IPs, NEW t \in Nat, NEW ip
    PROVE  LET k == RegisterFailure(TrimRecent(j, t), a, t)
           IN  /\ a # ip => Cardinality(Logged(ip, k)) <= Cardinality(Logged(ip, j))
               /\ Cardinality(Logged(ip, k)) <= Cardinality(Logged(ip, j)) + 1
<1> DEFINE once == TrimRecent(j, t)
           twice == TrimRecent(once, t)
           event == [ip |-> a, at |-> t]
           k == RegisterFailure(once, a, t)
<1>1. once \in Journal /\ once.recent = Trimmed(j.recent, t) BY TrimType
<1>2. twice \in Journal /\ twice.recent = Trimmed(once.recent, t) BY <1>1, TrimType
<1>3. k \in Journal BY <1>1, FailureType
<1>4. k.recent = Append(twice.recent, event)
  BY <1>1, <1>2, FailureEffect
<1>5. event \in FailureEvent /\ event.ip = a BY DEF FailureEvent
<1>6. Cardinality(Logged(ip, once)) <= Cardinality(Logged(ip, j))
  BY <1>1, TrimLogsFewer
<1>7. Cardinality(Logged(ip, twice)) <= Cardinality(Logged(ip, once))
  BY <1>1, <1>2, TrimLogsFewer
<1>8. /\ a # ip => Cardinality(Logged(ip, k)) <= Cardinality(Logged(ip, twice))
      /\ Cardinality(Logged(ip, k)) <= Cardinality(Logged(ip, twice)) + 1
  BY <1>2, <1>3, <1>4, <1>5, AppendLogsOne
<1>9. /\ Cardinality(Logged(ip, j)) \in Nat /\ Cardinality(Logged(ip, once)) \in Nat
      /\ Cardinality(Logged(ip, twice)) \in Nat /\ Cardinality(Logged(ip, k)) \in Nat
  BY <1>1, <1>2, <1>3, LoggedFinite
<1>. HIDE DEF once, twice, k, event
<1>10. /\ a # ip => Cardinality(Logged(ip, k)) <= Cardinality(Logged(ip, j))
       /\ Cardinality(Logged(ip, k)) <= Cardinality(Logged(ip, j)) + 1
  BY <1>6, <1>7, <1>8, <1>9
<1>. QED BY <1>10 DEF k, once


\* Nothing that is counted becomes more, and nothing that was paid is taken back.
LEMMA PaidStays ==
    ASSUME PlaneTypeOK, MistakesInv, NEW ip \in IPs, NEW j \in Journal, Paid(ip, j), mistakes'[ip] = mistakes[ip],
           Wrong(ip)' \subseteq Wrong(ip), Left(ip)' \subseteq Left(ip)
    PROVE  /\ IsFiniteSet(Wrong(ip)') /\ IsFiniteSet(Left(ip)')
           /\ \A k \in Journal :
                 Cardinality(Logged(ip, k)) <= Cardinality(Logged(ip, j)) =>
                     Cardinality(Logged(ip, k)) + Cardinality(Wrong(ip)') + Cardinality(Left(ip)')
                         <= MaxSends * mistakes'[ip]
<1>1. /\ IsFiniteSet(Wrong(ip)') /\ Cardinality(Wrong(ip)') \in Nat
      /\ Cardinality(Wrong(ip)') <= Cardinality(Wrong(ip)) /\ Cardinality(Wrong(ip)) \in Nat
  BY FewerOrSame DEF MistakesInv
<1>2. /\ IsFiniteSet(Left(ip)') /\ Cardinality(Left(ip)') \in Nat
      /\ Cardinality(Left(ip)') <= Cardinality(Left(ip)) /\ Cardinality(Left(ip)) \in Nat
  BY FewerOrSame DEF MistakesInv
<1>3. ASSUME NEW k \in Journal, Cardinality(Logged(ip, k)) <= Cardinality(Logged(ip, j))
      PROVE  Cardinality(Logged(ip, k)) + Cardinality(Wrong(ip)') + Cardinality(Left(ip)')
                 <= MaxSends * mistakes'[ip]
  <2>1. Cardinality(Logged(ip, k)) \in Nat /\ Cardinality(Logged(ip, j)) \in Nat
    BY LoggedFinite
  <2> DEFINE bound == MaxSends * mistakes[ip]
  <2>2. Cardinality(Logged(ip, j)) + Cardinality(Wrong(ip)) + Cardinality(Left(ip)) <= bound
    BY DEF Paid
  <2>3. bound \in Nat BY PlaneAssumption DEF PlaneTypeOK
  <2>. HIDE DEF bound
  <2>4. bound = MaxSends * mistakes'[ip] BY DEF bound
  <2>. QED BY <1>1, <1>2, <1>3, <2>1, <2>2, <2>3, <2>4
<1>. QED BY <1>1, <1>2, <1>3

\* A client that sends nothing new of a wrong login leaves what is counted.
LEMMA MistakesFewer ==
    ASSUME Joint, Joint', MistakesInv, UNCHANGED <<journal, stateFile, mistakes>>,
           \A ip \in IPs : Wrong(ip)' \subseteq Wrong(ip) /\ Left(ip)' \subseteq Left(ip)
    PROVE  MistakesInv'
<1> SUFFICES ASSUME NEW ip \in IPs
             PROVE  /\ IsFiniteSet(Wrong(ip)') /\ IsFiniteSet(Left(ip)')
                    /\ Paid(ip, journal)' /\ Paid(ip, stateFile)'
  BY DEF MistakesInv
<1>1. PlaneTypeOK /\ journal \in Journal /\ stateFile \in Journal
  BY DEF Joint, TypeOK
<1>2. \A j \in Journal : Cardinality(Logged(ip, j)) <= Cardinality(Logged(ip, j))
  BY LoggedFinite
<1>3. Logged(ip, journal)' = Logged(ip, journal) /\ Logged(ip, stateFile)' = Logged(ip, stateFile)
  BY DEF Logged
<1>4. Paid(ip, journal) /\ Paid(ip, stateFile) BY DEF MistakesInv
<1>. QED BY <1>1, <1>2, <1>3, <1>4, PaidStays DEF Paid

\* A wrong login begins: it is paid for all the copies that may be sent.
LEMMA MistakesAttempt ==
    ASSUME Joint, MistakesInv, NEW c \in Clients, AttemptAuth(c, FALSE)
    PROVE  MistakesInv'
<1> DEFINE m == NewRequest(c, "login", 1, 0)
<1>0. call \in [Clients -> Call] /\ mistakes \in [IPs -> Nat] /\ MaxSends \in Nat \ {0}
      /\ Home[c] \in IPs /\ calls \in [Clients -> Nat]
  BY PlaneAssumption DEF Joint, PlaneTypeOK
<1>1. /\ wire' = wire \cup {m} /\ call[c].what = "idle"
      /\ call' = [call EXCEPT ![c] = [what |-> "login", good |-> FALSE, sends |-> 1]]
      /\ mistakes' = [mistakes EXCEPT ![Home[c]] = @ + 1]
      /\ UNCHANGED vars
  BY DEF AttemptAuth, CanRun, SendRequest, Waits, Idle
<1>2. m.from = c BY DEF NewRequest
<1>3. journal' = journal /\ stateFile' = stateFile BY <1>1 DEF vars, memory, disk
<1>. SUFFICES ASSUME NEW ip \in IPs
             PROVE  /\ IsFiniteSet(Wrong(ip)') /\ IsFiniteSet(Left(ip)')
                    /\ Paid(ip, journal)' /\ Paid(ip, stateFile)'
  BY DEF MistakesInv
<1>4. IsFiniteSet(Wrong(ip)) /\ IsFiniteSet(Left(ip)) /\ Paid(ip, journal) /\ Paid(ip, stateFile)
  BY DEF MistakesInv
<1>5. journal \in Journal /\ stateFile \in Journal /\ PlaneTypeOK BY DEF Joint, TypeOK
<1>6. Logged(ip, journal)' = Logged(ip, journal) /\ Logged(ip, stateFile)' = Logged(ip, stateFile)
  BY <1>3 DEF Logged
<1>. HIDE DEF m
<1>7. CASE Home[c] # ip
  <2>1. Wrong(ip)' = Wrong(ip) BY <1>1, <1>2, <1>7 DEF Wrong
  <2>2. Left(ip)' = Left(ip)
    <3>1. \A d \in Clients : Home[d] = ip => call'[d] = call[d] BY <1>0, <1>1, <1>7
    <3>. QED BY <3>1 DEF Left, Mistaken
  <2>3. mistakes'[ip] = mistakes[ip] BY <1>0, <1>1, <1>7
  <2>. QED BY <1>4, <1>6, <2>1, <2>2, <2>3 DEF Paid
<1>8. CASE Home[c] = ip
  <2> DEFINE new == {c} \X (2 .. MaxSends)
  <2>1. Wrong(ip)' \subseteq Wrong(ip) \cup {m} BY <1>1 DEF Wrong
  <2>2. /\ IsFiniteSet(Wrong(ip)') /\ Cardinality(Wrong(ip)') \in Nat
        /\ Cardinality(Wrong(ip)) \in Nat
        /\ Cardinality(Wrong(ip)') <= Cardinality(Wrong(ip)) + 1
    BY <1>4, <2>1, OneMore
  <2>3. Left(ip)' \subseteq Left(ip) \cup new
    <3> SUFFICES ASSUME NEW p \in Left(ip)', p \notin Left(ip) PROVE p \in new
      OBVIOUS
    <3>1. p \in Clients \X (1 .. MaxSends) /\ Home[p[1]] = ip /\ p[2] > call'[p[1]].sends
          /\ Mistaken(p[1])'
      BY DEF Left
    <3>2. p[1] \in Clients /\ p[2] \in 1 .. MaxSends /\ p = <<p[1], p[2]>>
      BY <3>1
    <3>3. p[1] = c
      <4>1. p[1] # c => call'[p[1]] = call[p[1]] BY <1>0, <1>1, <3>2
      <4>. QED BY <3>1, <3>2, <4>1 DEF Left, Mistaken
    <3>4. call'[c].sends = 1 BY <1>0, <1>1
    <3>. QED BY <1>0, <3>1, <3>2, <3>3, <3>4
  <2>4. IsFiniteSet(new) /\ Cardinality(new) = MaxSends - 1
    <3>1. IsFiniteSet({c}) /\ Cardinality({c}) = 1 BY FS_Singleton
    <3>2. IsFiniteSet(2 .. MaxSends) /\ Cardinality(2 .. MaxSends) = MaxSends - 1
      <4>1. 2 \in Int /\ MaxSends \in Int BY <1>0
      <4>2. /\ IsFiniteSet(2 .. MaxSends)
            /\ Cardinality(2 .. MaxSends) = IF 2 > MaxSends THEN 0 ELSE MaxSends - 2 + 1
        BY <4>1, FS_Interval
      <4>. QED BY <1>0, <4>2
    <3>3. /\ IsFiniteSet({c} \X (2 .. MaxSends))
          /\ Cardinality({c} \X (2 .. MaxSends)) = Cardinality({c}) * Cardinality(2 .. MaxSends)
      BY <3>1, <3>2, FS_Product
    <3>. QED BY <1>0, <3>1, <3>2, <3>3
  <2>. HIDE DEF new
  <2>5. /\ IsFiniteSet(Left(ip) \cup new) /\ Cardinality(Left(ip)) \in Nat
        /\ Cardinality(Left(ip) \cup new) <= Cardinality(Left(ip)) + (MaxSends - 1)
    <3>1. /\ Cardinality(Left(ip) \cap new) \in Nat /\ Cardinality(Left(ip)) \in Nat
          /\ IsFiniteSet(Left(ip) \cup new) /\ Cardinality(Left(ip) \cup new) \in Nat
          /\ Cardinality(Left(ip) \cup new)
                = Cardinality(Left(ip)) + Cardinality(new) - Cardinality(Left(ip) \cap new)
      BY <1>4, <2>4, FS_Union, FS_Intersection, FS_CardinalityType
    <3>. QED BY <1>0, <2>4, <3>1
  <2>6. /\ IsFiniteSet(Left(ip)') /\ Cardinality(Left(ip)') \in Nat
        /\ Cardinality(Left(ip)') <= Cardinality(Left(ip)) + (MaxSends - 1)
    <3>1. /\ IsFiniteSet(Left(ip)') /\ Cardinality(Left(ip)') \in Nat
          /\ Cardinality(Left(ip) \cup new) \in Nat
          /\ Cardinality(Left(ip)') <= Cardinality(Left(ip) \cup new)
      BY <2>3, <2>5, FewerOrSame
    <3>. QED BY <1>0, <2>5, <3>1
  <2>7. MaxSends * mistakes'[ip] = MaxSends * mistakes[ip] + MaxSends
    <3>1. mistakes'[ip] = mistakes[ip] + 1 /\ mistakes[ip] \in Nat BY <1>0, <1>1, <1>8
    <3>. QED BY <1>0, <3>1
  <2>8. \A j \in Journal : Paid(ip, j) =>
          Cardinality(Logged(ip, j)) + Cardinality(Wrong(ip)') + Cardinality(Left(ip)')
              <= MaxSends * mistakes'[ip]
    <3> SUFFICES ASSUME NEW j \in Journal, Paid(ip, j)
                 PROVE  Cardinality(Logged(ip, j)) + Cardinality(Wrong(ip)') + Cardinality(Left(ip)')
                            <= MaxSends * mistakes'[ip]
      OBVIOUS
    <3> DEFINE bound == MaxSends * mistakes[ip]
    <3>1. bound \in Nat /\ Cardinality(Logged(ip, j)) \in Nat BY <1>0, LoggedFinite
    <3>2. Cardinality(Logged(ip, j)) + Cardinality(Wrong(ip)) + Cardinality(Left(ip)) <= bound
      BY DEF Paid
    <3>3. MaxSends * mistakes'[ip] = bound + MaxSends BY <2>7
    <3>. HIDE DEF bound
    <3>. QED BY <1>0, <2>2, <2>5, <2>6, <3>1, <3>2, <3>3
  <2>. QED BY <1>4, <1>5, <1>6, <2>2, <2>6, <2>8 DEF Paid
<1>. QED BY <1>7, <1>8


\* One more copy: it was to come, and now it is under way.
LEMMA MistakesResend ==
    ASSUME Joint, MistakesInv, NEW c \in Clients, Resend(c)
    PROVE  MistakesInv'
<1> DEFINE m == NewRequest(c, "login", call'[c].sends, 0)
<1>0. call \in [Clients -> Call] /\ MaxSends \in Nat \ {0} /\ Home[c] \in IPs
  BY PlaneAssumption DEF Joint, PlaneTypeOK
<1>1. /\ wire' = wire \cup {m} /\ call[c].what = "login"
      /\ call' = [call EXCEPT ![c].sends = @ + 1]
      /\ UNCHANGED <<vars, mistakes>>
  BY DEF Resend, SendRequest
<1>2. call[c].sends \in 0 .. MaxSends /\ call[c].sends < MaxSends /\ call[c] \in Call
  BY <1>0 DEF Resend, Call
<1>3. /\ call'[c].what = "login" /\ call'[c].good = call[c].good
      /\ call'[c].sends = call[c].sends + 1
      /\ \A d \in Clients \ {c} : call'[d] = call[d]
  BY <1>0, <1>1, <1>2 DEF Call
<1>4. m.from = c /\ m.good = call[c].good BY <1>3 DEF NewRequest
<1>. HIDE DEF m
<1>5. journal' = journal /\ stateFile' = stateFile BY <1>1 DEF vars, memory, disk
<1>6. \A d \in Clients : /\ Mistaken(d)' <=> Mistaken(d)
                         /\ call'[d].sends >= call[d].sends
  <2>1. \A d \in Clients : call[d].sends \in 0 .. MaxSends BY <1>0 DEF Call
  <2>. QED BY <1>1, <1>2, <1>3, <2>1 DEF Mistaken
<1>7. \A ip \in IPs : Left(ip)' \subseteq Left(ip)
  <2>1. \A d \in Clients : call[d].sends \in Nat /\ call'[d].sends \in Nat
    <3>1. \A d \in Clients : call[d].sends \in 0 .. MaxSends BY <1>0 DEF Call
    <3>. QED BY <1>2, <1>3, <3>1
  <2>2. SUFFICES ASSUME NEW ip \in IPs, NEW p \in Left(ip)' PROVE p \in Left(ip)
    OBVIOUS
  <2>3. p \in Clients \X (1 .. MaxSends) /\ Home[p[1]] = ip /\ Mistaken(p[1])'
        /\ p[2] > call'[p[1]].sends
    BY DEF Left
  <2>4. p[1] \in Clients /\ p[2] \in Nat BY <2>3
  <2>. QED BY <1>6, <2>1, <2>3, <2>4 DEF Left
<1>8. SUFFICES ASSUME NEW ip \in IPs
               PROVE  /\ IsFiniteSet(Wrong(ip)') /\ IsFiniteSet(Left(ip)')
                      /\ Paid(ip, journal)' /\ Paid(ip, stateFile)'
  BY DEF MistakesInv
<1>9. IsFiniteSet(Wrong(ip)) /\ IsFiniteSet(Left(ip)) /\ Paid(ip, journal) /\ Paid(ip, stateFile)
  BY DEF MistakesInv
<1>10. journal \in Journal /\ stateFile \in Journal /\ PlaneTypeOK BY DEF Joint, TypeOK
<1>11. Logged(ip, journal)' = Logged(ip, journal) /\ Logged(ip, stateFile)' = Logged(ip, stateFile)
  BY <1>5 DEF Logged
<1>12. mistakes'[ip] = mistakes[ip] BY <1>1
<1>13. CASE Home[c] = ip /\ Mistaken(c)
  <2> DEFINE p == <<c, call[c].sends + 1>>
  <2>1. p \in Left(ip) /\ p \notin Left(ip)'
    <3>1. p[1] = c /\ p[2] = call[c].sends + 1 /\ p \in Clients \X (1 .. MaxSends)
      BY <1>0, <1>2
    <3>2. p[2] > call[c].sends /\ ~ (p[2] > call'[c].sends) BY <1>2, <1>3, <3>1
    <3>. HIDE DEF p
    <3>3. p \in Left(ip) BY <1>13, <3>1, <3>2 DEF Left
    <3>4. p \notin Left(ip)' BY <3>1, <3>2 DEF Left
    <3>. QED BY <3>3, <3>4
  <2>2. IsFiniteSet(Left(ip) \ {p}) /\ Cardinality(Left(ip) \ {p}) = Cardinality(Left(ip)) - 1
    BY SMTT(30), <1>9, <2>1, FS_RemoveElement
  <2>3. Left(ip)' \subseteq Left(ip) \ {p}
    BY <1>7, <2>1
  <2>4. /\ IsFiniteSet(Left(ip)') /\ Cardinality(Left(ip)') \in Nat /\ Cardinality(Left(ip)) \in Nat
        /\ Cardinality(Left(ip)') <= Cardinality(Left(ip)) - 1
    BY <1>9, <2>2, <2>3, FewerOrSame, FS_CardinalityType
  <2>5. Wrong(ip)' \subseteq Wrong(ip) \cup {m} BY <1>1 DEF Wrong
  <2>6. /\ IsFiniteSet(Wrong(ip)') /\ Cardinality(Wrong(ip)') \in Nat
        /\ Cardinality(Wrong(ip)) \in Nat
        /\ Cardinality(Wrong(ip)') <= Cardinality(Wrong(ip)) + 1
    BY <1>9, <2>5, OneMore
  <2>7. \A j \in Journal : Paid(ip, j) =>
          Cardinality(Logged(ip, j)) + Cardinality(Wrong(ip)') + Cardinality(Left(ip)')
              <= MaxSends * mistakes'[ip]
    <3> SUFFICES ASSUME NEW j \in Journal, Paid(ip, j)
                 PROVE  Cardinality(Logged(ip, j)) + Cardinality(Wrong(ip)') + Cardinality(Left(ip)')
                            <= MaxSends * mistakes'[ip]
      OBVIOUS
    <3> DEFINE bound == MaxSends * mistakes[ip]
    <3>1. bound \in Nat /\ Cardinality(Logged(ip, j)) \in Nat
      BY <1>0, <1>10, LoggedFinite DEF PlaneTypeOK
    <3>2. Cardinality(Logged(ip, j)) + Cardinality(Wrong(ip)) + Cardinality(Left(ip)) <= bound
      BY DEF Paid
    <3>3. MaxSends * mistakes'[ip] = bound BY <1>12
    <3>. HIDE DEF bound
    <3>. QED BY <2>4, <2>6, <3>1, <3>2, <3>3
  <2>. QED BY <1>9, <1>10, <1>11, <2>4, <2>6, <2>7 DEF Paid
<1>14. CASE ~ (Home[c] = ip /\ Mistaken(c))
  <2>1. Wrong(ip)' \subseteq Wrong(ip)
    BY <1>1, <1>4, <1>14 DEF Wrong, Mistaken
  <2>2. \A j \in Journal : Cardinality(Logged(ip, j)) <= Cardinality(Logged(ip, j))
    BY LoggedFinite
  <2>. QED BY <1>7, <1>9, <1>10, <1>11, <1>12, <2>1, <2>2, PaidStays DEF Paid
<1>. QED BY <1>13, <1>14

\* Every step of a client.
LEMMA MistakesClient ==
    ASSUME Joint, Joint', MistakesInv, NEW c \in Clients, ClientSteps(c)
    PROVE  MistakesInv'
<1>0. call \in [Clients -> Call] /\ mistakes \in [IPs -> Nat] /\ Home[c] \in IPs
  BY PlaneAssumption DEF Joint, PlaneTypeOK
<1>1. journal' = journal /\ stateFile' = stateFile
  BY ClientLeavesServer DEF vars, memory, disk
<1>2. ASSUME call'[c].what # "login" \/ call'[c].good, \A d \in Clients \ {c} : call'[d] = call[d],
             mistakes' = mistakes, NEW m, wire' \subseteq wire \cup {m}, m.kind # "login" \/ m.good
      PROVE  MistakesInv'
  <2>1. \A ip \in IPs : Wrong(ip)' \subseteq Wrong(ip) BY <1>2 DEF Wrong
  <2>2. \A d \in Clients : Mistaken(d)' => call'[d] = call[d] /\ Mistaken(d)
    BY <1>2 DEF Mistaken
  <2>3. \A ip \in IPs : Left(ip)' \subseteq Left(ip)
    <3> SUFFICES ASSUME NEW ip \in IPs, NEW p \in Left(ip)' PROVE p \in Left(ip)
      OBVIOUS
    <3>1. p \in Clients \X (1 .. MaxSends) /\ Home[p[1]] = ip /\ Mistaken(p[1])'
          /\ p[2] > call'[p[1]].sends
      BY DEF Left
    <3>2. p[1] \in Clients BY <3>1
    <3>. QED BY <2>2, <3>1, <3>2 DEF Left
  <2>. QED BY <1>1, <1>2, <2>1, <2>3, MistakesFewer
<1>3. ASSUME AttemptAuth(c, TRUE) PROVE MistakesInv'
  <2>1. /\ call' = [call EXCEPT ![c] = [what |-> "login", good |-> TRUE, sends |-> 1]]
        /\ mistakes' = [mistakes EXCEPT ![Home[c]] = @ + 0]
        /\ wire' = wire \cup {NewRequest(c, "login", 1, 0)}
    BY <1>3 DEF AttemptAuth, Waits, SendRequest
  <2>2. call'[c].good /\ \A d \in Clients \ {c} : call'[d] = call[d] BY <1>0, <2>1
  <2>3. NewRequest(c, "login", 1, 0).good BY <2>2 DEF NewRequest
  <2>4. mistakes' = mistakes BY <1>0, <2>1
  <2>. QED BY <1>2, <2>1, <2>2, <2>3, <2>4
<1>4. ASSUME QueryServerStatus(c) PROVE MistakesInv'
  <2>1. PICK k \in cached[c] : SendRequest(NewRequest(c, "status", 1, k.sid))
    BY <1>4 DEF QueryServerStatus
  <2>2. call'[c].what = "status" /\ (\A d \in Clients \ {c} : call'[d] = call[d])
        /\ mistakes' = mistakes
    BY <1>0, <1>4 DEF QueryServerStatus, Waits
  <2>3. NewRequest(c, "status", 1, k.sid).kind = "status" BY DEF NewRequest
  <2>. QED BY <1>2, <2>1, <2>2, <2>3 DEF SendRequest
<1>5. ASSUME SendDisconnectNotice(c) PROVE MistakesInv'
  <2>1. PICK k \in cached[c] : SendRequest(NewRequest(c, "disconnect", 1, k.sid))
    BY <1>5 DEF SendDisconnectNotice
  <2>2. call'[c].what = "idle" /\ (\A d \in Clients \ {c} : call'[d] = call[d])
        /\ mistakes' = mistakes
    BY <1>0, <1>5 DEF SendDisconnectNotice, CanRun, Idle
  <2>3. NewRequest(c, "disconnect", 1, k.sid).kind = "disconnect" BY DEF NewRequest
  <2>. QED BY <1>2, <2>1, <2>2, <2>3 DEF SendRequest
<1>6. ASSUME CallOver(c), mistakes' = mistakes, wire' = wire PROVE MistakesInv'
  <2>1. call'[c].what = "idle" /\ (\A d \in Clients \ {c} : call'[d] = call[d])
    BY <1>0, <1>6 DEF CallOver, Idle
  <2> DEFINE m == [kind |-> "status"]
  <2>2. wire' \subseteq wire \cup {m} /\ m.kind # "login" BY <1>6
  <2>. HIDE DEF m
  <2>. QED BY <1>2, <1>6, <2>1, <2>2
<1>7. TimesOut(c) \/ TakeAuthResult(c) \/ TakeStatus(c) => MistakesInv'
  BY <1>6 DEF TimesOut, TakeAuthResult, TakeStatus
<1>. QED BY <1>3, <1>4, <1>5, <1>7, MistakesAttempt, MistakesResend DEF ClientSteps


\* A copy that arrives is under way no more; it is in the journal when the login
\* is decided, and nowhere when the address is refused.
LEMMA MistakesDeliver == Joint /\ Joint' /\ MistakesInv /\ Deliver => MistakesInv'
<1> SUFFICES ASSUME Joint, Joint', MistakesInv, Deliver PROVE MistakesInv'
  OBVIOUS
<1>1. PICK m \in wire : /\ OnLogin(m) \/ OnWrongLogin(m) \/ OnStatus(m) \/ OnDisconnect(m)
                        /\ wire' = wire \ {m} /\ UNCHANGED <<back, client, faults>>
  BY DEF Deliver
<1>2. call' = call /\ mistakes' = mistakes BY <1>1 DEF client
<1>3. /\ m.from \in Clients /\ Home[m.from] \in IPs /\ now \in Nat /\ mistakes \in [IPs -> Nat]
      /\ journal \in Journal /\ journal' \in Journal /\ stateFile \in Journal /\ PlaneTypeOK
      /\ MaxSends \in Nat
  BY MessageTypes, PlaneAssumption DEF Joint, TypeOK, PlaneTypeOK
<1>4. stateFile' = stateFile
  <2>1. CASE OnLogin(m)
    BY <2>1 DEF OnLogin, AuthDropped, AuthNoAddress, AuthAccepted, Answer, disk
  <2>2. CASE OnWrongLogin(m)
    BY <2>2 DEF OnWrongLogin, AuthRejected, Answer, disk
  <2>3. CASE OnStatus(m)
    BY <2>3 DEF OnStatus, Inform, StatusQuery, Answer, disk
  <2>4. CASE OnDisconnect(m)
    BY <2>4 DEF OnDisconnect, Ignore, Disconnect, Answer, disk
  <2>. QED BY <1>1, <2>1, <2>2, <2>3, <2>4
<1>. SUFFICES ASSUME NEW ip \in IPs
             PROVE  /\ IsFiniteSet(Wrong(ip)') /\ IsFiniteSet(Left(ip)')
                    /\ Paid(ip, journal)' /\ Paid(ip, stateFile)'
  BY DEF MistakesInv
<1>5. Left(ip)' = Left(ip) /\ Wrong(ip)' = Wrong(ip) \ {m}
  BY <1>1, <1>2 DEF Left, Mistaken, Wrong
<1>6. /\ IsFiniteSet(Wrong(ip)) /\ IsFiniteSet(Left(ip))
      /\ Paid(ip, journal) /\ Paid(ip, stateFile)
  BY DEF MistakesInv
<1>7. /\ IsFiniteSet(Wrong(ip)') /\ IsFiniteSet(Left(ip)')
      /\ \A j, k \in Journal :
            Paid(ip, j) /\ Cardinality(Logged(ip, k)) <= Cardinality(Logged(ip, j)) =>
                 Cardinality(Logged(ip, k)) + Cardinality(Wrong(ip)') + Cardinality(Left(ip)')
                     <= MaxSends * mistakes'[ip]
  BY <1>2, <1>3, <1>5, <1>6, PaidStays
<1>8. Paid(ip, stateFile)'
  <2>1. Logged(ip, stateFile)' = Logged(ip, stateFile) BY <1>4 DEF Logged
  <2>2. Cardinality(Logged(ip, stateFile)) <= Cardinality(Logged(ip, stateFile))
    BY <1>3, LoggedFinite
  <2>. QED BY <1>3, <1>6, <1>7, <2>1, <2>2 DEF Paid
<1>9. Logged(ip, journal)' = Logged(ip, journal') BY DEF Logged
<1>10. ASSUME Cardinality(Logged(ip, journal')) <= Cardinality(Logged(ip, journal))
       PROVE  Paid(ip, journal)'
  BY <1>3, <1>6, <1>7, <1>9, <1>10 DEF Paid
<1>11. CASE OnWrongLogin(m) /\ Home[m.from] = ip
  <2>1. journal' = RegisterFailure(TrimRecent(journal, now), ip, now)
        /\ m.kind = "login" /\ ~ m.good
    BY <1>11 DEF OnWrongLogin, AuthRejected
  <2>2. Cardinality(Logged(ip, journal')) <= Cardinality(Logged(ip, journal)) + 1
    BY <1>3, <2>1, FailureLogsOne
  <2>3. Cardinality(Wrong(ip)') = Cardinality(Wrong(ip)) - 1
    <3>1. m \in Wrong(ip) BY <1>11, <2>1 DEF Wrong
    <3>. QED BY <1>5, <1>6, <3>1, FS_RemoveElement
  <2>4. /\ Cardinality(Logged(ip, journal')) \in Nat /\ Cardinality(Logged(ip, journal)) \in Nat
        /\ Cardinality(Wrong(ip)') \in Nat /\ Cardinality(Wrong(ip)) \in Nat
        /\ Cardinality(Left(ip)) \in Nat
    BY <1>3, <1>6, <1>7, LoggedFinite, FS_CardinalityType
  <2> DEFINE bound == MaxSends * mistakes[ip]
  <2>5. bound \in Nat BY <1>3
  <2>6. Cardinality(Logged(ip, journal)) + Cardinality(Wrong(ip)) + Cardinality(Left(ip)) <= bound
    BY <1>6 DEF Paid
  <2>7. MaxSends * mistakes'[ip] = bound BY <1>2
  <2>. HIDE DEF bound
  <2>8. Cardinality(Logged(ip, journal')) + Cardinality(Wrong(ip)') + Cardinality(Left(ip)) <= bound
    BY <2>2, <2>3, <2>4, <2>5, <2>6
  <2>9. Paid(ip, journal)' BY <1>5, <1>9, <2>7, <2>8 DEF Paid
  <2>. QED BY <1>7, <1>8, <2>9
<1>12. CASE OnWrongLogin(m) /\ Home[m.from] # ip
  <2>1. journal' = RegisterFailure(TrimRecent(journal, now), Home[m.from], now)
    BY <1>12 DEF OnWrongLogin, AuthRejected
  <2>2. Cardinality(Logged(ip, journal')) <= Cardinality(Logged(ip, journal))
    BY <1>3, <1>12, <2>1, FailureLogsOne
  <2>. QED BY <1>7, <1>8, <1>10, <2>2
<1>13. CASE OnLogin(m)
  <2>1. journal'.recent = Trimmed(journal.recent, now)
    <3>1. TrimRecent(journal, now) \in Journal
          /\ TrimRecent(journal, now).recent = Trimmed(journal.recent, now)
      BY <1>3, TrimType
    <3>2. RegisterSuccess(TrimRecent(journal, now), Home[m.from]).recent
            = TrimRecent(journal, now).recent
      BY <3>1 DEF RegisterSuccess, Journal
    <3>. QED BY <1>13, <3>1, <3>2 DEF OnLogin, AuthDropped, AuthNoAddress, AuthAccepted
  <2>2. Cardinality(Logged(ip, journal')) <= Cardinality(Logged(ip, journal))
    BY <1>3, <2>1, TrimLogsFewer
  <2>. QED BY <1>7, <1>8, <1>10, <2>2
<1>14. CASE OnStatus(m) \/ OnDisconnect(m)
  <2>1. journal' = journal
    BY <1>14 DEF OnStatus, OnDisconnect, Inform, StatusQuery, Ignore, Disconnect
  <2>2. Cardinality(Logged(ip, journal')) <= Cardinality(Logged(ip, journal))
    BY <1>3, <2>1, LoggedFinite
  <2>. QED BY <1>7, <1>8, <1>10, <2>2
<1>. QED BY <1>1, <1>11, <1>12, <1>13, <1>14

\* The journal is written, dropped and read back: each is one that was paid for.
LEMMA MistakesServer ==
    ASSUME Joint, Joint', MistakesInv, shape = "whole", shape' = "whole",
           ServerSends \/ ServerSetsPeer \/ ServerGivesUp \/ ServerStops \/ ServerAlone
    PROVE  MistakesInv'
<1>1. wire' = wire /\ call' = call /\ mistakes' = mistakes
  BY DEF ServerSends, ServerSetsPeer, ServerGivesUp, ServerStops, ServerAlone, client, network
<1>2. ~ WriteCutShort BY DEF WriteCutShort
<1>3. journal' \in {journal, stateFile, EmptyJournal} /\ stateFile' \in {journal, stateFile}
  <2>1. CASE ServerAlone
    BY <2>1 DEF ServerAlone, SaveJournal, PersistRuntime, Start, Tick, memory, disk
  <2>2. CASE ServerGivesUp \/ ServerStops
    BY <1>2, <2>2 DEF ServerGivesUp, ServerStops, EffectFails, Stop, memory
  <2>3. CASE ServerSends \/ ServerSetsPeer
    BY <2>3 DEF ServerSends, ServerSetsPeer, Send, ApplyPeer, RemovePeer, memory, disk
  <2>. QED BY <2>1, <2>2, <2>3
<1>4. journal \in Journal /\ stateFile \in Journal /\ EmptyJournal \in Journal /\ PlaneTypeOK
  BY EmptyJournalType DEF Joint, TypeOK
<1>. SUFFICES ASSUME NEW ip \in IPs
             PROVE  /\ IsFiniteSet(Wrong(ip)') /\ IsFiniteSet(Left(ip)')
                    /\ Paid(ip, journal)' /\ Paid(ip, stateFile)'
  BY DEF MistakesInv
<1>5. Left(ip)' = Left(ip) /\ Wrong(ip)' = Wrong(ip)
  BY <1>1 DEF Left, Mistaken, Wrong
<1>6. /\ IsFiniteSet(Wrong(ip)) /\ IsFiniteSet(Left(ip))
      /\ Paid(ip, journal) /\ Paid(ip, stateFile)
  BY DEF MistakesInv
<1>7. Paid(ip, EmptyJournal)
  <2>1. Logged(ip, EmptyJournal) = {} BY DEF Logged, EmptyJournal
  <2>2. Cardinality(Logged(ip, EmptyJournal)) = 0 BY <2>1, FS_EmptySet
  <2>3. Cardinality(Logged(ip, journal)) \in Nat BY <1>4, LoggedFinite
  <2>4. Cardinality(Logged(ip, EmptyJournal)) <= Cardinality(Logged(ip, journal))
    BY <2>2, <2>3
  <2>5. mistakes[ip] = mistakes'[ip] BY <1>1
  <2>6. Cardinality(Logged(ip, EmptyJournal)) + Cardinality(Wrong(ip)') + Cardinality(Left(ip)')
            <= MaxSends * mistakes'[ip]
    BY <1>4, <1>5, <1>6, <2>4, <2>5, PaidStays
  <2>. QED BY <1>5, <2>5, <2>6 DEF Paid
<1>8. \A j : Paid(ip, j) =>
          Cardinality(Logged(ip, j)) + Cardinality(Wrong(ip)') + Cardinality(Left(ip)')
              <= MaxSends * mistakes'[ip]
  BY <1>1, <1>5 DEF Paid
<1>9. Logged(ip, journal)' = Logged(ip, journal') /\ Logged(ip, stateFile)' = Logged(ip, stateFile')
  BY DEF Logged
<1>10. Paid(ip, journal)' BY <1>3, <1>6, <1>7, <1>8, <1>9 DEF Paid
<1>11. Paid(ip, stateFile)' BY <1>3, <1>6, <1>8, <1>9 DEF Paid
<1>. QED BY <1>5, <1>6, <1>10, <1>11

(***************************************************************************)
(* The journal never counts more failures of an address than max_attempts  *)
(* for each wrong password that was typed behind it, however its copies    *)
(* are delayed, and whatever the daemon forgets or reads back in between.  *)
(***************************************************************************)
THEOREM MistakesStayBounded == PlaneSpec => []MistakesBounded
<1>1. PlaneInit => MistakesInv
  <2> SUFFICES ASSUME PlaneInit, NEW ip \in IPs
               PROVE  /\ IsFiniteSet(Wrong(ip)) /\ IsFiniteSet(Left(ip))
                      /\ Paid(ip, journal) /\ Paid(ip, stateFile)
    BY DEF MistakesInv
  <2>1. Wrong(ip) = {} /\ Left(ip) = {}
    BY DEF PlaneInit, Wrong, Left, Mistaken, Idle
  <2>2. Logged(ip, journal) = {} /\ Logged(ip, stateFile) = {}
    BY DEF PlaneInit, Init, Logged, EmptyJournal
  <2>3. mistakes[ip] = 0 /\ MaxSends \in Nat /\ MaxSends * 0 = 0
    BY PlaneAssumption DEF PlaneInit
  <2>. QED BY <2>1, <2>2, <2>3, FS_EmptySet DEF Paid
<1>2. PlaneInit => CooldownInv
  BY DEF PlaneInit, Init, CooldownInv, Explains
<1>3. Joint /\ CooldownInv /\ [PlaneNext]_planeVars => CooldownInv'
  BY CooldownStep
<1>4. Joint /\ Joint' /\ CooldownInv /\ CooldownInv' /\ MistakesInv /\ [PlaneNext]_planeVars
         => MistakesInv'
  <2> SUFFICES ASSUME Joint, Joint', CooldownInv, CooldownInv', MistakesInv,
                      [PlaneNext]_planeVars
               PROVE  MistakesInv'
    OBVIOUS
  <2>1. CASE UNCHANGED planeVars
    BY <2>1 DEF planeVars, vars, memory, disk, network, client, MistakesInv, Paid, Logged, Wrong,
       Left, Mistaken
  <2>2. shape = "whole" /\ shape' = "whole" BY DEF CooldownInv
  <2>. QED BY <2>1, <2>2, MistakesClient, MistakesDeliver, MistakesServer DEF PlaneNext
<1>5. Joint /\ MistakesInv => MistakesBounded
  <2> SUFFICES ASSUME Joint, MistakesInv, NEW ip \in IPs
               PROVE  Cardinality(Logged(ip, journal)) <= MaxSends * mistakes[ip]
    BY DEF MistakesBounded, Logged
  <2>1. /\ Cardinality(Logged(ip, journal)) \in Nat /\ Cardinality(Wrong(ip)) \in Nat
        /\ Cardinality(Left(ip)) \in Nat
    BY LoggedFinite, FS_CardinalityType DEF Joint, TypeOK, MistakesInv
  <2> DEFINE bound == MaxSends * mistakes[ip]
  <2>2. bound \in Nat BY PlaneAssumption DEF Joint, PlaneTypeOK
  <2>3. Cardinality(Logged(ip, journal)) + Cardinality(Wrong(ip)) + Cardinality(Left(ip)) <= bound
    BY DEF MistakesInv, Paid
  <2>. HIDE DEF bound
  <2>4. Cardinality(Logged(ip, journal)) <= bound BY <2>1, <2>2, <2>3
  <2>. QED BY <2>4 DEF bound
<1>. QED BY <1>1, <1>2, <1>3, <1>4, <1>5, JointHolds, PTL DEF PlaneSpec

=============================================================================
