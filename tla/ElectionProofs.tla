--------------------------- MODULE ElectionProofs ---------------------------
(***************************************************************************)
(* No lease is taken before it has expired, and none from a leader that    *)
(* acts unless answers came late, for any replicas and all durations that  *)
(* NewLeaderElector accepts.  The argument: a candidate's age of a record  *)
(* is never above the age of the lease; the lease is not older than a      *)
(* leader knows by more than the delay of its answers; and the leader ends *)
(* by itself at the deadline.                                              *)
(***************************************************************************)
EXTENDS LeaderElection, TLAPS

\* What replica p in state s knows of a lease of age a held by h.
Knows(p, s, h, a) ==
  /\ s.seen = TRUE /\ s.call # "applied" =>
       /\ s.age <= a /\ s.observed # "none"
       /\ s.observed = "self" => h = p
       /\ s.observed = "free" => h = "free"
  /\ s.seen = TRUE /\ s.call = "applied" => h = p
  /\ s.call = "update" /\ s.seen = TRUE => h \in {"free", p} \/ a = LeaseDuration
  /\ s.call = "releasing" => s.observed = "self"

\* The lease is p's and not older than p thinks, unless answers came too late.
Owns(p, s, h, a) ==
  /\ s.call = "applied" => (h = p /\ a <= s.callAge) \/ s.callAge = Slack
  /\ s.phase = "leader" /\ s.call # "released" =>
       (h = p /\ a <= s.since + Delay(s)) \/ Delay(s) >= Slack

Local(p, s, h, a) == Knows(p, s, h, a) /\ Owns(p, s, h, a)

\* The inductive invariant.
ElectionInv == TypeOK /\ \A p \in Replica : Local(p, rep[p], holder, leaseAge)

\* The next state of the lease and of every replica.
AllKept ==
  /\ holder' \in Replica \cup {"free", "gone"} /\ leaseAge' \in 0..LeaseDuration
  /\ rep' \in [Replica -> State]
  /\ \A p \in Replica : Local(p, rep'[p], holder', leaseAge')

-----------------------------------------------------------------------------
\* The other replicas.

LEMMA Durations ==
  /\ LeaseDuration \in Nat \ {0} /\ Deadline \in Nat \ {0} /\ Slack \in Nat
  /\ RetryPeriod \in 0..Deadline
  /\ Slack < LeaseDuration /\ LeaseDuration <= Deadline + Slack
BY DurationAssumption DEF Deadline, Slack

LEMMA DelayTyped == ASSUME NEW s \in State PROVE Delay(s) \in Nat
BY Durations DEF State, Delay

\* q has nothing to lose: it does not act, or answers came too late for it.
Waived(s) ==
  /\ s.call = "applied" => s.callAge = Slack
  /\ s.phase = "leader" /\ s.call # "released" => Delay(s) >= Slack

\* A lease that p may write is not owned by q.
LEMMA NotOwned ==
  ASSUME NEW p \in Replica, NEW q \in Replica, p # q, NEW s \in State,
         NEW a \in 0..LeaseDuration, Local(q, s, holder, a),
         holder \in {"free", p} \/ a = LeaseDuration
  PROVE  Waived(s)
<1>1. s.callAge \in 0..Slack /\ s.since \in 0..Deadline /\ Delay(s) \in Nat
  BY DelayTyped DEF State
<1>2. q \notin {"free", p}
  BY NameAssumption
<1>3. s.call = "applied" => s.callAge = Slack
  BY <1>1, <1>2, Durations DEF Local, Owns
<1>4. s.phase = "leader" /\ s.call # "released" => Delay(s) >= Slack
  BY <1>1, <1>2, DurationAssumption DEF Local, Owns, Deadline, Slack
<1> QED
  BY <1>3, <1>4 DEF Waived

\* What a write does to a replica that does not own the lease.
LEMMA Unseen ==
  ASSUME NEW q, NEW s \in State, NEW h, NEW a, NEW i, NEW b, Local(q, s, h, a), Waived(s)
  PROVE  [s EXCEPT !.seen = FALSE] \in State /\ Local(q, [s EXCEPT !.seen = FALSE], i, b)
<1> DEFINE t == [s EXCEPT !.seen = FALSE]
<1>1. /\ t \in State /\ t.seen = FALSE /\ t.call = s.call /\ t.phase = s.phase
      /\ t.observed = s.observed /\ t.callAge = s.callAge /\ t.lag = s.lag
  BY DEF State
<1> HIDE DEF t
<1>2. Delay(t) = Delay(s)
  BY <1>1 DEF Delay
<1>3. Local(q, t, i, b)
  BY <1>1, <1>2 DEF Local, Knows, Owns, Waived
<1> QED
  BY <1>1, <1>3 DEF t

LEMMA WriteKept ==
  ASSUME ElectionInv, NEW p \in Replica, NEW h \in Replica \cup {"free", "gone"}, NEW s \in State,
         Local(p, s, h, 0), Write(p, h, s), holder \in {"free", p} \/ leaseAge = LeaseDuration
  PROVE  AllKept
<1>1. /\ holder' = h /\ leaseAge' = 0 /\ leaseAge \in 0..LeaseDuration
      /\ rep' = [q \in Replica |-> IF q = p THEN s ELSE [rep[q] EXCEPT !.seen = FALSE]]
      /\ rep \in [Replica -> State]
  BY DEF Write, ElectionInv, TypeOK
<1>2. ASSUME NEW q \in Replica, q # p
      PROVE  /\ [rep[q] EXCEPT !.seen = FALSE] \in State
             /\ Local(q, [rep[q] EXCEPT !.seen = FALSE], h, 0)
  <2>1. rep[q] \in State /\ Local(q, rep[q], holder, leaseAge)
    BY <1>1 DEF ElectionInv
  <2>2. Waived(rep[q])
    BY <1>1, <1>2, <2>1, NotOwned
  <2> QED
    BY <2>1, <2>2, Unseen
<1> QED
  BY <1>1, <1>2, Durations DEF AllKept

LEMMA SetKept ==
  ASSUME ElectionInv, NEW p \in Replica, NEW s \in State, Local(p, s, holder, leaseAge),
         Set(p, s), UNCHANGED <<holder, leaseAge>>
  PROVE  AllKept
<1>1. \A q \in Replica : rep'[q] = IF q = p THEN s ELSE rep[q]
  BY DEF Set, ElectionInv, TypeOK
<1> QED
  BY <1>1 DEF Set, ElectionInv, TypeOK, AllKept

LEMMA FreshLocal == ASSUME NEW p, NEW h, NEW a PROVE Fresh \in State /\ Local(p, Fresh, h, a)
BY Durations DEF Fresh, State, Local, Knows, Owns

LEMMA EndedKept ==
  ASSUME ElectionInv, NEW p \in Replica, Ended(p)
  PROVE  AllKept
<1>1. /\ holder' = IF holder = p THEN "gone" ELSE holder
      /\ leaseAge' = leaseAge /\ rep' = [rep EXCEPT ![p] = Fresh]
      /\ rep \in [Replica -> State] /\ holder \in Replica \cup {"free", "gone"}
      /\ leaseAge \in 0..LeaseDuration
  BY DEF Ended, Set, ElectionInv, TypeOK
<1>2. \A q \in Replica : rep'[q] = IF q = p THEN Fresh ELSE rep[q]
  BY <1>1
<1>3. ASSUME NEW q \in Replica, q # p PROVE Local(q, rep[q], holder', leaseAge)
  <2>1. Local(q, rep[q], holder, leaseAge)
    BY DEF ElectionInv
  <2>2. q # "gone" /\ p # "free"
    BY NameAssumption
  <2> QED
    BY <1>1, <1>3, <2>1, <2>2 DEF Local, Knows, Owns
<1>4. rep' \in [Replica -> State]
  BY <1>1, FreshLocal
<1> QED
  BY <1>1, <1>2, <1>3, <1>4, FreshLocal DEF AllKept

-----------------------------------------------------------------------------
\* The replica that acts.

LEMMA Typed ==
  ASSUME ElectionInv, NEW p \in Replica
  PROVE  /\ rep[p] \in State /\ Local(p, rep[p], holder, leaseAge)
         /\ holder \in Replica \cup {"free", "gone"} /\ leaseAge \in 0..LeaseDuration
         /\ rep[p].seen \in BOOLEAN /\ rep[p].age \in 0..LeaseDuration
         /\ rep[p].callAge \in 0..Slack /\ rep[p].since \in 0..Deadline
         /\ rep[p].lag \in 0..Slack /\ Delay(rep[p]) \in Nat
         /\ LeaseDuration \in Nat /\ Deadline \in Nat /\ Slack \in Nat
BY Durations, DelayTyped DEF ElectionInv, TypeOK, State

LEMMA Observed ==
  ASSUME ElectionInv, NEW p \in Replica, rep[p].call = "none"
  PROVE  /\ Observe(p) \in State /\ Local(p, Observe(p), holder, leaseAge)
         /\ Observe(p).seen = TRUE /\ Observe(p).call = "none"
<1>1. CASE rep[p].seen
  BY <1>1, Typed DEF Observe
<1>2. CASE ~rep[p].seen
  <2> DEFINE who == IF holder = p THEN "self" ELSE IF holder = "free" THEN "free" ELSE "other"
             t == [rep[p] EXCEPT !.observed = who, !.seen = TRUE, !.age = 0]
  <2>0. /\ rep[p] \in State /\ Local(p, rep[p], holder, leaseAge)
        /\ 0 \in 0..LeaseDuration /\ 0 <= leaseAge
    BY Typed
  <2>1. Observe(p) = t
    BY <1>2 DEF Observe
  <2>2. who \in {"free", "self", "other"} /\ (who = "self" => holder = p)
                                          /\ (who = "free" => holder = "free")
    OBVIOUS
  <2> HIDE DEF who
  <2>3. /\ t \in State /\ t.observed = who /\ t.seen = TRUE /\ t.age = 0
        /\ t.call = "none" /\ t.phase = rep[p].phase /\ t.since = rep[p].since
        /\ t.callAge = rep[p].callAge /\ Delay(t) = Delay(rep[p])
    BY <2>0, <2>2 DEF State, Delay
  <2> HIDE DEF t
  <2>4. Local(p, t, holder, leaseAge)
    BY <2>0, <2>2, <2>3 DEF Local, Knows, Owns
  <2> QED
    BY <2>1, <2>3, <2>4
<1> QED
  BY <1>1, <1>2, Typed

LEMMA GetKept ==
  ASSUME ElectionInv, NEW p \in Replica, Get(p)
  PROVE  AllKept
<1> DEFINE s == Observe(p)
           t == [s EXCEPT !.call = "update"]
<1>1. /\ s \in State /\ Local(p, s, holder, leaseAge) /\ s.seen = TRUE /\ s.call = "none"
  BY Observed DEF Get
<1>2. Set(p, IF Held(s) THEN s ELSE t) /\ UNCHANGED <<holder, leaseAge>>
  BY DEF Get
<1> HIDE DEF s
<1>3. /\ t \in State /\ t.call = "update" /\ t.phase = s.phase /\ t.since = s.since
      /\ t.observed = s.observed /\ t.seen = TRUE /\ t.age = s.age /\ Delay(t) = Delay(s)
  BY <1>1 DEF State, Delay
<1> HIDE DEF t
<1>4. ASSUME ~Held(s) PROVE Local(p, t, holder, leaseAge)
  <2>1. s.observed \in {"none", "free", "self", "other"} /\ s.age \in 0..LeaseDuration
    BY <1>1 DEF State
  <2>2. s.age <= leaseAge /\ s.observed # "none" /\ (s.observed = "self" => holder = p)
                          /\ (s.observed = "free" => holder = "free")
    BY <1>1 DEF Local, Knows
  <2>3. holder \in {"free", p} \/ leaseAge = LeaseDuration
    BY <1>4, <2>1, <2>2, Typed DEF Held
  <2> QED
    BY <1>1, <1>3, <2>3 DEF Local, Knows, Owns
<1> QED
  BY <1>1, <1>2, <1>3, <1>4, SetKept

LEMMA UpdateKept ==
  ASSUME ElectionInv, NEW p \in Replica, Update(p)
  PROVE  AllKept
<1> DEFINE s == rep[p]
           t == [s EXCEPT !.call = "applied", !.callAge = 0]
           u == [s EXCEPT !.call = "none"]
<1>1. s \in State /\ Local(p, s, holder, leaseAge) /\ s.call = "update"
  BY Typed DEF Update
<1>2. CASE s.seen /\ Write(p, p, t)
  <2>1. 0 \in 0..Slack
    BY Durations
  <2>2. /\ t \in State /\ t.call = "applied" /\ t.callAge = 0 /\ t.phase = s.phase
        /\ t.since = s.since /\ Delay(t) = Delay(s)
    BY <1>1, <2>1 DEF State, Delay
  <2>3. s.since \in 0..Deadline /\ Delay(s) \in Nat /\ Deadline \in Nat
    BY Typed
  <2> HIDE DEF t, s
  <2>4. Local(p, t, p, 0)
    BY <1>1, <2>2, <2>3 DEF Local, Knows, Owns
  <2>5. holder \in {"free", p} \/ leaseAge = LeaseDuration
    BY <1>1, <1>2 DEF Local, Knows
  <2> QED
    BY <1>2, <2>2, <2>4, <2>5, WriteKept
<1>3. CASE Set(p, u) /\ UNCHANGED <<holder, leaseAge>>
  <2>1. /\ u \in State /\ u.call = "none" /\ u.phase = s.phase /\ u.since = s.since
        /\ u.seen = s.seen /\ u.age = s.age /\ u.observed = s.observed /\ Delay(u) = Delay(s)
    BY <1>1 DEF State, Delay
  <2> HIDE DEF u, s
  <2>2. Local(p, u, holder, leaseAge)
    BY <1>1, <2>1 DEF Local, Knows, Owns
  <2> QED
    BY <1>3, <2>1, <2>2, SetKept
<1> QED
  BY <1>2, <1>3 DEF Update

LEMMA AnswerKept ==
  ASSUME ElectionInv, NEW p \in Replica, Answer(p)
  PROVE  AllKept
<1> DEFINE s == rep[p]
           n == IF s.phase = "leader" THEN 0 ELSE RetryPeriod
           t == [s EXCEPT !.call = "none", !.observed = "self", !.age = 0, !.phase = "leader",
                          !.since = n, !.lag = s.callAge]
           u == [s EXCEPT !.call = "none", !.seen = FALSE]
<1>1. /\ s \in State /\ Local(p, s, holder, leaseAge) /\ s.call = "applied"
      /\ UNCHANGED <<holder, leaseAge>>
  BY Typed DEF Answer
<1>2. CASE Set(p, t)
  <2>1. 0 \in 0..LeaseDuration /\ n \in 0..Deadline /\ n \in Nat
    BY Durations
  <2> HIDE DEF n
  <2>2. /\ t \in State /\ t.call = "none" /\ t.observed = "self" /\ t.age = 0
        /\ t.phase = "leader" /\ t.since = n /\ t.seen = s.seen /\ Delay(t) = s.callAge
    <3>1. s.callAge \in 0..Slack /\ s.callAge + 0 = s.callAge
      BY Typed
    <3>2. /\ t \in State /\ t.call = "none" /\ t.observed = "self" /\ t.age = 0
          /\ t.phase = "leader" /\ t.since = n /\ t.seen = s.seen /\ t.lag = s.callAge
      BY <1>1, <2>1, <3>1 DEF State
    <3> HIDE DEF t, s
    <3> QED
      BY <3>1, <3>2 DEF Delay
  <2>3. /\ (holder = p /\ leaseAge <= s.callAge) \/ s.callAge = Slack
        /\ s.seen = TRUE => holder = p
        /\ leaseAge \in Nat /\ s.callAge \in Nat /\ Slack \in Nat
    <3>1. leaseAge \in Nat /\ s.callAge \in Nat /\ Slack \in Nat
      BY Typed
    <3>2. Knows(p, s, holder, leaseAge) /\ Owns(p, s, holder, leaseAge) /\ s.call = "applied"
      BY <1>1 DEF Local
    <3> HIDE DEF s
    <3> QED
      BY <3>1, <3>2 DEF Knows, Owns
  <2> HIDE DEF t, s
  <2>4. Local(p, t, holder, leaseAge)
    BY <2>1, <2>2, <2>3 DEF Local, Knows, Owns
  <2> QED
    BY <1>1, <1>2, <2>2, <2>4, SetKept
<1>3. CASE Set(p, u)
  <2>1. /\ u \in State /\ u.call = "none" /\ u.phase = s.phase /\ u.since = s.since
        /\ u.seen = FALSE /\ Delay(u) = Delay(s)
    BY <1>1 DEF State, Delay
  <2> HIDE DEF u, s
  <2>2. Local(p, u, holder, leaseAge)
    BY <1>1, <2>1 DEF Local, Knows, Owns
  <2> QED
    BY <1>1, <1>3, <2>1, <2>2, SetKept
<1> QED
  BY <1>2, <1>3 DEF Answer

LEMMA AppliedLateKept ==
  ASSUME ElectionInv, NEW p \in Replica, AppliedLate(p)
  PROVE  AllKept
<1>1. holder \in {"free", p} \/ leaseAge = LeaseDuration
  BY Typed DEF AppliedLate, Local, Knows
<1> QED
  BY <1>1, FreshLocal, WriteKept DEF AppliedLate

LEMMA GiveUpKept ==
  ASSUME ElectionInv, NEW p \in Replica, GiveUp(p)
  PROVE  AllKept
<1> DEFINE s == rep[p]
           known == s.seen /\ s.call = "none"
           t == [s EXCEPT !.call = "releasing", !.callAge = 0, !.seen = known]
<1>1. /\ s \in State /\ Local(p, s, holder, leaseAge) /\ s.phase = "leader"
      /\ s.call \notin {"releasing", "released"} /\ s.since = Deadline
  BY Typed DEF GiveUp, Renewing
<1>2. /\ 0 \in 0..Slack /\ known \in BOOLEAN
      /\ Deadline \in Nat /\ Slack \in Nat /\ s.lag \in Nat /\ Delay(s) = s.lag
  BY <1>1, Typed DEF Delay
<1>3. known = TRUE => s.seen = TRUE /\ s.call = "none"
  BY Typed
<1> HIDE DEF known
<1>4. /\ t \in State /\ t.call = "releasing" /\ t.callAge = 0 /\ t.seen = known
      /\ t.phase = s.phase /\ t.since = s.since /\ t.age = s.age /\ t.observed = s.observed
      /\ Delay(t) = s.lag
  BY <1>1, <1>2 DEF State, Delay
<1>5. CASE s.observed = "self" /\ Set(p, t) /\ UNCHANGED <<holder, leaseAge>>
  <2> HIDE DEF t, s
  <2>1. Local(p, t, holder, leaseAge)
    BY <1>1, <1>2, <1>3, <1>4, <1>5 DEF Local, Knows, Owns
  <2> QED
    BY <1>4, <1>5, <2>1, SetKept
<1>6. CASE s.observed = "self" /\ s.call = "update" /\ s.seen /\ Write(p, p, t)
  <2>1. known = FALSE /\ (holder \in {"free", p} \/ leaseAge = LeaseDuration)
    BY <1>1, <1>2, <1>3, <1>6 DEF Local, Knows
  <2> HIDE DEF t, s
  <2>2. Local(p, t, p, 0)
    BY <1>1, <1>2, <1>4, <1>6, <2>1 DEF Local, Knows, Owns
  <2> QED
    BY <1>4, <1>6, <2>1, <2>2, WriteKept
<1>7. CASE Ended(p) \/ AppliedLate(p)
  BY <1>7, EndedKept, AppliedLateKept
<1> QED
  BY <1>5, <1>6, <1>7 DEF GiveUp, known

LEMMA ReleaseKept ==
  ASSUME ElectionInv, NEW p \in Replica, Release(p)
  PROVE  AllKept
<1> DEFINE s == rep[p]
           t == [s EXCEPT !.call = "released", !.seen = FALSE]
<1>1. s \in State /\ Local(p, s, holder, leaseAge) /\ s.call = "releasing"
  BY Typed DEF Release
<1>2. CASE s.seen /\ Write(p, "free", t)
  <2>1. /\ t \in State /\ t.call = "released" /\ t.seen = FALSE /\ t.phase = s.phase
        /\ t.since = s.since /\ t.callAge = s.callAge
    BY <1>1 DEF State
  <2> HIDE DEF t, s
  <2>2. Local(p, t, "free", 0)
    BY <1>1, <2>1 DEF Local, Knows, Owns
  <2>3. holder = p
    BY <1>1, <1>2 DEF Local, Knows
  <2> QED
    BY <1>2, <2>1, <2>2, <2>3, WriteKept
<1>3. CASE Ended(p)
  BY <1>3, EndedKept
<1> QED
  BY <1>2, <1>3 DEF Release

LEMMA DisruptedKept ==
  ASSUME ElectionInv, NEW p \in Replica, Shutdown(p) \/ Crash(p)
  PROVE  AllKept
<1> DEFINE s == rep[p]
           t == [s EXCEPT !.phase = "leaving", !.call = "releasing", !.callAge = 0]
<1>1. s \in State /\ Local(p, s, holder, leaseAge)
  BY Typed
<1>2. CASE Shutdown(p)
  <2>1. /\ s.call = "none" /\ s.observed = "self" /\ 0 \in 0..Slack
        /\ Set(p, t) /\ UNCHANGED <<holder, leaseAge>>
    BY <1>2, Durations DEF Shutdown
  <2>2. /\ t \in State /\ t.call = "releasing" /\ t.phase = "leaving" /\ t.seen = s.seen
        /\ t.age = s.age /\ t.observed = s.observed
    BY <1>1, <2>1 DEF State
  <2> HIDE DEF t, s
  <2>3. Local(p, t, holder, leaseAge)
    BY <1>1, <2>1, <2>2 DEF Local, Knows, Owns
  <2> QED
    BY <2>1, <2>2, <2>3, SetKept
<1>3. CASE Ended(p)
  BY <1>3, EndedKept
<1>4. CASE AppliedLate(p)
  BY <1>4, AppliedLateKept
<1> QED
  BY <1>2, <1>3, <1>4 DEF Crash

-----------------------------------------------------------------------------
\* Time.

LEMMA OlderTyped ==
  ASSUME NEW limit \in Nat, NEW a \in 0..limit, NEW b \in 0..limit
  PROVE  /\ Older(a, limit) \in 0..limit /\ Older(a, limit) <= a + 1
         /\ a <= b => Older(a, limit) <= Older(b, limit)
         /\ a = limit => Older(a, limit) = limit
BY DEF Older

LEMMA TickKept ==
  ASSUME ElectionInv, Tick
  PROVE  AllKept
<1> DEFINE older == Older(leaseAge, LeaseDuration)
<1>1. /\ holder' = holder /\ holder \in Replica \cup {"free", "gone"}
      /\ leaseAge' = older /\ leaseAge \in 0..LeaseDuration /\ LeaseDuration \in Nat
      /\ rep' = [p \in Replica |-> Aged(p)]
  BY Durations DEF Tick, ElectionInv, TypeOK
<1>2. older \in 0..LeaseDuration /\ older <= leaseAge + 1
  BY <1>1, OlderTyped
<1>3. ASSUME NEW p \in Replica
      PROVE  Aged(p) \in State /\ Local(p, Aged(p), holder, older)
  <2> DEFINE s == rep[p]
             running == s.call \in {"applied", "releasing", "released"}
             a == Older(s.age, LeaseDuration)
             c == IF running THEN Older(s.callAge, Slack) ELSE 0
             n == IF Renewing(p) THEN s.since + 1 ELSE s.since
             t == [s EXCEPT !.age = a, !.callAge = c, !.since = n]
  <2>1. /\ s \in State /\ Local(p, s, holder, leaseAge) /\ s.age \in 0..LeaseDuration
        /\ s.callAge \in 0..Slack /\ s.since \in 0..Deadline /\ s.lag \in 0..Slack
        /\ Slack \in Nat /\ Deadline \in Nat
    BY Typed
  <2>2. Renewing(p) => s.since < Deadline
    BY DEF Tick
  <2>3. /\ a \in 0..LeaseDuration
        /\ s.age <= leaseAge => a <= older
        /\ leaseAge = LeaseDuration => older = LeaseDuration
    BY <1>1, <2>1, OlderTyped
  <2>4. c \in 0..Slack /\ n \in 0..Deadline
    <3>1. Older(s.callAge, Slack) \in 0..Slack /\ 0 \in 0..Slack
      BY <2>1, OlderTyped
    <3>2. n \in 0..Deadline
      BY <2>1, <2>2
    <3> QED
      BY <3>1, <3>2
  <2>5. running => c = s.callAge + 1 \/ c = Slack
    BY <2>1 DEF Older
  <2>6. Renewing(p) <=> s.phase = "leader" /\ s.call \notin {"releasing", "released"}
    BY DEF Renewing
  <2>7. t = Aged(p)
    BY DEF Aged
  <2> HIDE DEF a, c, n, older
  <2>8. /\ t \in State /\ t.age = a /\ t.callAge = c /\ t.since = n /\ t.lag = s.lag
        /\ t.phase = s.phase /\ t.call = s.call /\ t.seen = s.seen /\ t.observed = s.observed
    BY <2>1, <2>3, <2>4 DEF State
  <2> HIDE DEF t, s
  <2>9. Knows(p, t, holder, older)
    BY <2>1, <2>3, <2>8 DEF Local, Knows
  <2>10. Owns(p, t, holder, older)
    <3>1. t.call = "applied" => (holder = p /\ older <= t.callAge) \/ t.callAge = Slack
      BY <1>1, <1>2, <2>1, <2>4, <2>5, <2>8 DEF Local, Owns
    <3>2. ASSUME t.phase = "leader", t.call # "released"
          PROVE  (holder = p /\ older <= t.since + Delay(t)) \/ Delay(t) >= Slack
      <4>1. CASE t.call = "releasing"
        <5>1. Delay(s) = s.lag + s.callAge /\ Delay(t) = s.lag + c /\ t.since = s.since
          BY <2>6, <2>8, <4>1 DEF Delay, n
        <5> QED
          BY <1>1, <1>2, <2>1, <2>4, <2>5, <2>8, <3>2, <4>1, <5>1 DEF Local, Owns
      <4>2. CASE t.call # "releasing"
        <5>1. Delay(s) = s.lag /\ Delay(t) = s.lag /\ t.since = s.since + 1
          BY <2>1, <2>6, <2>8, <3>2, <4>2 DEF Delay, n
        <5> QED
          BY <1>1, <1>2, <2>1, <2>8, <3>2, <5>1 DEF Local, Owns
      <4> QED
        BY <4>1, <4>2
    <3> QED
      BY <3>1, <3>2 DEF Owns
  <2> QED
    BY <2>7, <2>8, <2>9, <2>10 DEF Local
<1> HIDE DEF older
<1> QED
  BY <1>1, <1>2, <1>3 DEF AllKept

-----------------------------------------------------------------------------
\* Everything together.

LEMMA ElectionStep == ElectionInv /\ [Next]_vars => ElectionInv'
<1> SUFFICES ASSUME ElectionInv, [Next]_vars PROVE ElectionInv'
  OBVIOUS
<1>1. TypeOK
  BY DEF ElectionInv
<1>2. CASE UNCHANGED vars
  BY <1>2 DEF ElectionInv, TypeOK, vars, boundVars
<1>3. CASE Next
  <2>1. faults' \in 0..MaxFaults /\ disruptions' \in 0..MaxDisruptions
    <3>1. NoFault \/ Fault \/ Disruption
      BY <1>3 DEF Next, Tick, renew, Get, Update, Answer, GiveUp, Release, Stop, Shutdown,
        Crash, NoFault
    <3> QED
      BY <1>1, <3>1, ElectionBoundAssumption DEF TypeOK, NoFault, Fault, Disruption, boundVars
  <2>2. AllKept
    <3>1. ASSUME NEW p \in Replica, Stop(p) PROVE AllKept
      BY <3>1, EndedKept DEF Stop
    <3> QED
      BY <1>3, <3>1, TickKept, GetKept, UpdateKept, AnswerKept, GiveUpKept, ReleaseKept,
        DisruptedKept DEF Next, renew
  <2> QED
    BY <2>1, <2>2 DEF ElectionInv, TypeOK, AllKept
<1> QED
  BY <1>2, <1>3

LEMMA ElectionInit == Init => ElectionInv
<1> SUFFICES ASSUME Init PROVE ElectionInv
  OBVIOUS
<1> QED
  BY FreshLocal, Durations, ElectionBoundAssumption DEF Init, ElectionInv, TypeOK

LEMMA ElectionInvariant == Spec => []ElectionInv
  BY ElectionInit, ElectionStep, PTL DEF Spec

\* Every reachable state of the election is well typed.
THEOREM ElectionTyped == Spec => []TypeOK
<1>1. ElectionInv => TypeOK
  BY DEF ElectionInv
<1> QED
  BY <1>1, ElectionInvariant, PTL

\* Two replicas act at the same time only when one of them waits for the answer
\* to its release, or answers to it took as long as the durations leave (renew and
\* release of leaderelection.go).
THEOREM OneLeaderAtATime == Spec => []OneLeader
<1>1. ASSUME ElectionInv PROVE OneLeader
  <2> SUFFICES ASSUME NEW p \in Replica, NEW q \in Replica, p # q, Acting(p), Acting(q),
                      \A x \in {p, q} : rep[x].call # "released" /\ ~(Delay(rep[x]) >= Slack)
               PROVE  FALSE
    BY DEF OneLeader
  <2>1. ASSUME NEW x \in {p, q} PROVE holder = x
    <3>1. rep[x].phase = "leader" /\ rep[x].call # "released" /\ ~(Delay(rep[x]) >= Slack)
      BY DEF Acting
    <3>2. Local(x, rep[x], holder, leaseAge)
      BY <1>1 DEF ElectionInv
    <3> QED
      BY <3>1, <3>2 DEF Local, Owns
  <2> QED
    BY <2>1
<1> QED
  BY <1>1, ElectionInvariant, PTL

\* A lease that was not released changes hands only after LeaseDuration without a
\* renewal, however late calls are answered (observedTime of leaderelection.go).
THEOREM LeasesRespected == Spec => LeaseRespected
<1>1. ASSUME ElectionInv, [Next]_vars
      PROVE  [holder' \in Replica /\ holder' # holder
               => holder = "free" \/ leaseAge = LeaseDuration]_vars
  <2> SUFFICES ASSUME Next, holder' \in Replica, holder' # holder
               PROVE  holder = "free" \/ leaseAge = LeaseDuration
    BY <1>1
  <2>1. ASSUME NEW p \in Replica, Ended(p) PROVE FALSE
    BY <2>1, NameAssumption DEF Ended
  <2>2. ASSUME NEW p \in Replica, NEW h, NEW s, Write(p, h, s), rep[p].call = "update", rep[p].seen,
               h = p \/ h = "gone"
        PROVE  holder = "free" \/ leaseAge = LeaseDuration
    <3>1. h = p /\ holder # p
      BY <2>2, NameAssumption DEF Write
    <3> QED
      BY <1>1, <2>2, <3>1, Typed DEF Local, Knows
  <2>3. ASSUME NEW p \in Replica, NEW s, Write(p, "free", s) PROVE FALSE
    BY <2>3, NameAssumption DEF Write
  <2>4. PICK p \in Replica : renew(p) \/ Crash(p)
    BY DEF Next, Tick, Shutdown
  <2>5. CASE Update(p) \/ AppliedLate(p)
    BY <2>2, <2>5 DEF Update, AppliedLate
  <2>6. CASE GiveUp(p)
    BY <2>1, <2>2, <2>6 DEF GiveUp, AppliedLate
  <2>7. CASE Release(p) \/ Stop(p) \/ Crash(p)
    BY <2>1, <2>2, <2>3, <2>7 DEF Release, Stop, Crash, AppliedLate
  <2> QED
    BY <2>4, <2>5, <2>6, <2>7 DEF renew, Get, Answer
<1> QED
  BY <1>1, ElectionInvariant, PTL DEF Spec, LeaseRespected
=============================================================================
