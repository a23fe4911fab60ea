---------------------------- MODULE StatusProofs ----------------------------
(***************************************************************************)
(* The status controller loses no reason to sync and counts its retries    *)
(* exactly, for any number of replicas, retries, faults and edits.         *)
(* Neither is inductive: a conflict is harmless when the retries run out   *)
(* because whatever caused it is on its way to the informer already, or is *)
(* marked in the queue behind the worker's back.                           *)
(***************************************************************************)
EXTENDS StatusController, TLAPS

\* A change is on its way to the replica, has marked its key, or was missed.
Coming(s) == s.inFlight > 0 \/ queueKey \in s.wq.dirty \/ s.unseen

\* The rate limiter's count is the number of failures since the last success or
\* since the key was dropped.
Counts(s) ==
  /\ s.requeues <= MaxRetries
  /\ s.dropped = "no" => s.failed = s.requeues
  /\ s.dropped # "no" => s.failed = MaxRetries + 1 /\ s.requeues = 0

\* What the worker of a replica relies on between two of its calls.
Worker(s, exists) ==
  /\ s.phase # "running" => s.pc = "idle" /\ s.triggers > 0
  /\ s.pc # "idle" => s.dropped = "no"
  /\ s.pc = "update" => s.read.exists
  /\ s.pc = "update" /\ ~s.current => Coming(s)
  /\ s.pc = "create" /\ exists => Coming(s)

\* NoLostTrigger of one replica, for its state s and the object c.
Shows(p, c) == c.exists /\ c.conditions = "asExpected" /\ c.version = p
Follows(s) ==
  \/ s.triggers > 0 \/ s.inFlight > 0 \/ s.waiting
  \/ queueKey \in s.wq.dirty
  \/ s.pc \in {"get", "create"}
  \/ s.pc = "update" /\ s.current
Followed(p, s, c) ==
  s.phase = "running" => Shows(p, c) \/ Follows(s) \/ s.dropped = "fault" \/ s.unseen

Ok(p, s, c) == Counts(s) /\ Worker(s, c.exists) /\ Followed(p, s, c)

\* The inductive invariant.
StatusInv == TypeOK /\ \A p \in Replica : Ok(p, proc[p], co)

-----------------------------------------------------------------------------
\* The queue, which has only one key.

LEMMA QueueTyped ==
  ASSUME NEW q \in WQType({queueKey})
  PROVE  /\ WQAdd(q, queueKey) \in WQType({queueKey})
         /\ queueKey \in WQAdd(q, queueKey).dirty
         /\ WQDone(q, queueKey) \in WQType({queueKey})
         /\ WQDone(q, queueKey).dirty = q.dirty
BY DEF WQType, WQAdd, WQDone

LEMMA QueueGetTyped ==
  ASSUME NEW q \in WQType({queueKey}), WQCanGet(q)
  PROVE  WQGet(q) \in WQType({queueKey})
<1>1. q.queue \in Seq({queueKey}) /\ q.queue # <<>>
  BY DEF WQType, WQCanGet
<1>2. Head(q.queue) \in {queueKey} /\ Tail(q.queue) \in Seq({queueKey})
  BY <1>1
<1> QED
  BY <1>2 DEF WQType, WQGet

-----------------------------------------------------------------------------
\* What the steps do to one replica.

\* A change of the object, whatever it is, keeps a replica on its feet.
LEMMA NotifyOk ==
  ASSUME NEW p, NEW s \in Process, NEW c \in ClusterOperator, NEW d \in ClusterOperator,
         Ok(p, s, c)
  PROVE  Notify(s) \in Process /\ Ok(p, Notify(s), d)
<1>1. CASE s.phase # "running"
  BY <1>1 DEF Notify, Ok, Counts, Worker, Followed, Coming
<1>2. CASE s.phase = "running"
  <2> DEFINE t == Notify(s)
             n == IF s.inFlight < MaxInFlight THEN s.inFlight + 1 ELSE s.inFlight
  <2>0. n \in 0..MaxInFlight /\ n > 0
    BY InFlightAssumption DEF Process
  <2>1. t = [s EXCEPT !.inFlight = n, !.current = FALSE, !.unseen = FALSE]
    BY <1>2 DEF Notify
  <2> HIDE DEF n
  <2>2. /\ t \in Process /\ t.inFlight = n
        /\ t.phase = s.phase /\ t.requeues = s.requeues /\ t.dropped = s.dropped
        /\ t.failed = s.failed /\ t.pc = s.pc /\ t.read = s.read
    BY <2>0, <2>1 DEF Process
  <2> HIDE DEF t
  <2>3. Counts(t) /\ Worker(t, d.exists)
    BY <1>2, <2>0, <2>2 DEF Ok, Counts, Worker, Coming
  <2>4. Followed(p, t, d)
    BY <2>0, <2>2 DEF Followed, Follows
  <2> QED
    BY <2>2, <2>3, <2>4 DEF Ok, t
<1> QED
  BY <1>1, <1>2

\* So does adding the key, on whatever occasion.
LEMMA WokenOk ==
  ASSUME NEW p, NEW s \in Process, NEW t \in Process, NEW c \in ClusterOperator,
         Ok(p, s, c), queueKey \in t.wq.dirty, t.phase = "running",
         t.requeues = s.requeues, t.dropped = s.dropped, t.failed = s.failed,
         t.pc = s.pc, t.read = s.read
  PROVE  Ok(p, t, c)
BY DEF Ok, Counts, Worker, Followed, Follows, Coming

\* The end of a sync: it succeeded and the status shows, a call failed, or there
\* was a conflict and its cause is known.
LEMMA FinishedOk ==
  ASSUME NEW p, NEW s \in Process, NEW c \in ClusterOperator, NEW d \in ClusterOperator,
         Ok(p, s, c), s.pc # "idle", NEW err \in {"none", "conflict", "fault"},
         err = "none" => Shows(p, d), err = "conflict" => Coming(s)
  PROVE  Finished(s, err) \in Process /\ Ok(p, Finished(s, err), d)
<1> DEFINE h == handleErr(s, err)
           t == Finished(s, err)
           done == WQDone(h.wq, queueKey)
<1>1. s.phase = "running" /\ s.dropped = "no" /\ s.failed = s.requeues
  BY DEF Ok, Worker, Counts
<1>2. /\ s.requeues \in Nat /\ s.requeues <= MaxRetries /\ MaxRetries \in Nat
  BY RetryAssumption DEF Ok, Counts, Process
<1>3. h \in Process
  <2>1. CASE err = "none"
    BY <2>1 DEF handleErr, Process
  <2>2. CASE err # "none" /\ s.requeues < MaxRetries
    <3>1. s.requeues + 1 \in Nat /\ s.failed + 1 \in Nat
      BY DEF Process
    <3>2. h = [s EXCEPT !.requeues = s.requeues + 1, !.waiting = TRUE, !.failed = s.failed + 1]
      BY <2>2 DEF handleErr
    <3> QED
      BY <3>1, <3>2 DEF Process
  <2>3. CASE err # "none" /\ ~(s.requeues < MaxRetries)
    <3>1. s.failed + 1 \in Nat
      BY DEF Process
    <3>2. h = [s EXCEPT !.requeues = 0, !.failed = s.failed + 1, !.dropped = err]
      BY <2>3 DEF handleErr
    <3>3. err \in {"no", "conflict", "fault"} /\ 0 \in Nat
      BY <2>3
    <3> QED
      BY <3>1, <3>2, <3>3 DEF Process
  <2> QED
    BY <2>1, <2>2, <2>3
<1>4. /\ h.phase = s.phase /\ h.inFlight = s.inFlight /\ h.unseen = s.unseen /\ h.wq = s.wq
      /\ h.triggers = s.triggers
  BY <1>1 DEF handleErr, Process
<1>5. Counts(h)
  BY <1>1, <1>2 DEF handleErr, Process, Counts
<1>6. \/ err = "none"
      \/ h.waiting
      \/ h.dropped = err
  BY <1>1 DEF handleErr, Process
<1>7. h.wq \in WQType({queueKey}) /\ Absent \in ClusterOperator
  BY <1>3 DEF Process, Absent, ClusterOperator
<1> HIDE DEF h
<1>8. t = [h EXCEPT !.wq = done, !.pc = "idle", !.read = Absent, !.current = FALSE]
  BY DEF Finished, h
<1>8a. done \in WQType({queueKey}) /\ done.dirty = s.wq.dirty
  BY <1>4, <1>7, QueueTyped
<1> HIDE DEF t, done
<1>9. /\ t \in Process /\ t.pc = "idle" /\ t.wq.dirty = s.wq.dirty
      /\ t.phase = h.phase /\ t.inFlight = h.inFlight /\ t.unseen = h.unseen
      /\ t.requeues = h.requeues /\ t.dropped = h.dropped /\ t.failed = h.failed
      /\ t.waiting = h.waiting
  BY <1>3, <1>7, <1>8, <1>8a DEF Process
<1>10. Counts(t) /\ Worker(t, d.exists)
  BY <1>1, <1>4, <1>5, <1>9 DEF Counts, Worker
<1>11. Followed(p, t, d)
  BY <1>4, <1>6, <1>9 DEF Followed, Follows, Coming
<1> QED
  BY <1>9, <1>10, <1>11 DEF Ok, t

-----------------------------------------------------------------------------
\* From one replica to all of them.

AllKept == proc' \in [Replica -> Process] /\ \A q \in Replica : Ok(q, proc'[q], co')

LEMMA SetOk ==
  ASSUME StatusInv, NEW p \in Replica, NEW t \in Process, Ok(p, t, co), Set(p, t), UNCHANGED co
  PROVE  AllKept
<1>1. proc' = [proc EXCEPT ![p] = t] /\ proc \in [Replica -> Process]
  BY DEF Set, StatusInv, TypeOK
<1>2. \A q \in Replica : proc'[q] = IF q = p THEN t ELSE proc[q]
  BY <1>1
<1> QED
  BY <1>1, <1>2 DEF AllKept, StatusInv

LEMMA AllNotified ==
  ASSUME NEW procs \in [Replica -> Process], NEW c \in ClusterOperator, NEW d \in ClusterOperator,
         NEW P, \A q \in Replica \ P : Ok(q, procs[q], c), \A q \in Replica \cap P : Ok(q, procs[q], d)
  PROVE  \A q \in Replica : Notify(procs[q]) \in Process /\ Ok(q, Notify(procs[q]), d)
BY NotifyOk

LEMMA StoreOk ==
  ASSUME StatusInv, NEW p \in Replica, NEW t \in Process, NEW d \in ClusterOperator,
         Ok(p, t, d), Store(d, [proc EXCEPT ![p] = t])
  PROVE  AllKept
<1> DEFINE procs == [proc EXCEPT ![p] = t]
<1>1. procs \in [Replica -> Process] /\ co \in ClusterOperator /\ co' = d
  BY DEF StatusInv, TypeOK, Store
<1>2. \A q \in Replica : procs[q] = IF q = p THEN t ELSE proc[q]
  BY DEF StatusInv, TypeOK
<1>3. proc' = IF d = co THEN procs ELSE [q \in Replica |-> Notify(procs[q])]
  BY DEF Store
<1>4. \A q \in Replica \ {p} : Ok(q, procs[q], co)
  BY <1>2 DEF StatusInv
<1>5. \A q \in Replica \cap {p} : Ok(q, procs[q], d)
  BY <1>2
<1> HIDE DEF procs
<1>6. CASE d = co
  BY <1>1, <1>3, <1>4, <1>5, <1>6 DEF AllKept
<1>7. CASE d # co
  <2>1. \A q \in Replica : Notify(procs[q]) \in Process /\ Ok(q, Notify(procs[q]), d)
    BY <1>1, <1>4, <1>5, AllNotified
  <2> QED
    BY <1>1, <1>3, <1>7, <2>1 DEF AllKept
<1> QED
  BY <1>6, <1>7

LEMMA BoundsTyped ==
  ASSUME TypeOK, NoFault \/ Fault \/ Disruption
  PROVE  faults' \in 0..MaxFaults /\ edits' \in 0..MaxEdits /\ disruptions' \in 0..MaxDisruptions
BY StatusBoundAssumption DEF TypeOK, NoFault, Fault, Disruption, boundVars

-----------------------------------------------------------------------------
\* The process and its informer.

LEMMA StartedOk ==
  ASSUME NEW p, NEW c
  PROVE  Started \in Process /\ Ok(p, Started, c)
<1>1. WQEmpty \in WQType({queueKey}) /\ Absent \in ClusterOperator
  BY DEF WQEmpty, WQType, Absent, ClusterOperator
<1>2. Started \in Process
  BY <1>1, InFlightAssumption DEF Started, Process
<1> QED
  BY <1>2, RetryAssumption DEF Started, Ok, Counts, Worker, Followed

\* Adding the key to a state that differs from s in what a worker does not use.
LEMMA TriggerOk ==
  ASSUME NEW p, NEW s \in Process, NEW u \in Process, NEW c \in ClusterOperator,
         Ok(p, s, c), u.phase = "running", u.requeues = s.requeues, u.dropped = s.dropped,
         u.failed = s.failed, u.pc = s.pc, u.read = s.read
  PROVE  Trigger(u) \in Process /\ Ok(p, Trigger(u), c)
<1>1. u.wq \in WQType({queueKey})
  BY DEF Process
<1>2. /\ Trigger(u) \in Process /\ queueKey \in Trigger(u).wq.dirty
      /\ Trigger(u).phase = u.phase /\ Trigger(u).requeues = u.requeues
      /\ Trigger(u).dropped = u.dropped /\ Trigger(u).failed = u.failed
      /\ Trigger(u).pc = u.pc /\ Trigger(u).read = u.read
  BY <1>1, QueueTyped DEF Trigger, Process
<1> QED
  BY <1>2, WokenOk

LEMMA LifeSteps ==
  ASSUME StatusInv, NEW p \in Replica, Elect(p) \/ Exit(p) \/ Crash(p)
  PROVE  AllKept
<1>1. co \in ClusterOperator /\ proc[p] \in Process /\ Ok(p, proc[p], co)
  BY DEF StatusInv, TypeOK
<1>2. CASE Elect(p)
  <2> DEFINE t == [proc[p] EXCEPT !.phase = "elected"]
  <2>1. t \in Process
    BY <1>1 DEF Process
  <2>2. Ok(p, t, co)
    BY <1>1, <1>2 DEF Elect, Process, Ok, Counts, Worker, Followed, Coming
  <2> QED
    BY <1>2, <2>1, <2>2, SetOk DEF Elect
<1>3. CASE Exit(p) \/ Crash(p)
  BY <1>3, StartedOk, SetOk DEF Exit, Crash
<1> QED
  BY <1>2, <1>3

LEMMA RunStep ==
  ASSUME StatusInv, NEW p \in Replica, Run(p)
  PROVE  AllKept
<1> DEFINE s == proc[p]
           u == [s EXCEPT !.phase = "running", !.cached = co.exists]
<1>1. co \in ClusterOperator /\ s \in Process /\ Ok(p, s, co) /\ co.exists \in BOOLEAN
  BY DEF StatusInv, TypeOK, ClusterOperator
<1>2. s.phase = "elected" /\ Set(p, IF co.exists THEN Trigger(u) ELSE u) /\ UNCHANGED co
  BY DEF Run
<1>3. /\ u \in Process /\ u.phase = "running" /\ u.requeues = s.requeues
      /\ u.dropped = s.dropped /\ u.failed = s.failed /\ u.pc = s.pc /\ u.read = s.read
      /\ u.triggers = s.triggers
  BY <1>1 DEF Process
<1>4. s.pc = "idle" /\ s.triggers > 0
  BY <1>1, <1>2 DEF Ok, Worker
<1> HIDE DEF u, s
<1>5. Ok(p, u, co)
  BY <1>1, <1>3, <1>4 DEF Ok, Counts, Worker, Followed, Follows
<1>6. Trigger(u) \in Process /\ Ok(p, Trigger(u), co)
  BY <1>1, <1>3, TriggerOk
<1> QED
  BY <1>2, <1>3, <1>5, <1>6, SetOk

LEMMA InformerSteps ==
  ASSUME StatusInv, NEW p \in Replica,
         watchVersionGetter(p) \/ Deliver(p) \/ Relist(p) \/ AddAfterBackoff(p)
  PROVE  AllKept
<1> DEFINE s == proc[p]
<1>1. /\ co \in ClusterOperator /\ s \in Process /\ Ok(p, s, co) /\ co.exists \in BOOLEAN
      /\ s.phase = "running"
  BY DEF StatusInv, TypeOK, ClusterOperator, watchVersionGetter, Deliver, Relist,
    AddAfterBackoff, Running
<1>2. CASE watchVersionGetter(p)
  <2> DEFINE u == [s EXCEPT !.triggers = s.triggers - 1]
  <2>1. s.triggers - 1 \in 0..2
    BY <1>1, <1>2 DEF watchVersionGetter, Process
  <2>2. /\ u \in Process /\ u.phase = s.phase /\ u.requeues = s.requeues
        /\ u.dropped = s.dropped /\ u.failed = s.failed /\ u.pc = s.pc /\ u.read = s.read
    BY <1>1, <2>1 DEF Process
  <2>3. Set(p, Trigger(u)) /\ UNCHANGED co
    BY <1>2 DEF watchVersionGetter
  <2> HIDE DEF u, s
  <2> QED
    BY <1>1, <2>2, <2>3, TriggerOk, SetOk
<1>3. CASE Deliver(p)
  <2>1. PICK known \in BOOLEAN :
          Set(p, Trigger([s EXCEPT !.inFlight = s.inFlight - 1, !.cached = known]))
    BY <1>1, <1>3 DEF Deliver
  <2> DEFINE u == [s EXCEPT !.inFlight = s.inFlight - 1, !.cached = known]
  <2>2. s.inFlight - 1 \in 0..MaxInFlight
    <3>1. s.inFlight > 0
      BY <1>3 DEF Deliver
    <3>2. s.inFlight \in 0..MaxInFlight
      BY <1>1 DEF Process
    <3> QED
      BY <3>1, <3>2, InFlightAssumption
  <2>3. /\ u \in Process /\ u.phase = s.phase /\ u.requeues = s.requeues
        /\ u.dropped = s.dropped /\ u.failed = s.failed /\ u.pc = s.pc /\ u.read = s.read
    BY <1>1, <2>2 DEF Process
  <2>4. Set(p, Trigger(u)) /\ UNCHANGED co
    BY <1>3, <2>1 DEF Deliver
  <2> HIDE DEF u, s
  <2> QED
    BY <1>1, <2>3, <2>4, TriggerOk, SetOk
<1>4. CASE Relist(p)
  <2> DEFINE u == [s EXCEPT !.inFlight = 0, !.cached = co.exists]
             v == [u EXCEPT !.unseen = TRUE]
  <2>1. 0 \in 0..MaxInFlight
    BY InFlightAssumption
  <2>2. /\ u \in Process /\ u.phase = s.phase /\ u.requeues = s.requeues
        /\ u.dropped = s.dropped /\ u.failed = s.failed /\ u.pc = s.pc /\ u.read = s.read
    BY <1>1, <2>1 DEF Process
  <2>3. Set(p, IF co.exists \/ s.cached THEN Trigger(u) ELSE v) /\ UNCHANGED co
    BY <1>4 DEF Relist
  <2> HIDE DEF u
  <2>4. /\ v \in Process /\ v.phase = u.phase /\ v.requeues = u.requeues
        /\ v.dropped = u.dropped /\ v.failed = u.failed /\ v.pc = u.pc /\ v.read = u.read
        /\ v.unseen = TRUE
    BY <2>2 DEF Process
  <2> HIDE DEF v, s
  <2>5. Trigger(u) \in Process /\ Ok(p, Trigger(u), co)
    BY <1>1, <2>2, TriggerOk
  <2>6. Ok(p, v, co)
    BY <1>1, <2>2, <2>4 DEF Ok, Counts, Worker, Followed, Coming
  <2> QED
    BY <2>3, <2>4, <2>5, <2>6, SetOk
<1>5. CASE AddAfterBackoff(p)
  <2> DEFINE u == [s EXCEPT !.waiting = FALSE]
  <2>1. /\ u \in Process /\ u.phase = s.phase /\ u.requeues = s.requeues
        /\ u.dropped = s.dropped /\ u.failed = s.failed /\ u.pc = s.pc /\ u.read = s.read
    BY <1>1 DEF Process
  <2>2. Set(p, Trigger(u)) /\ UNCHANGED co
    BY <1>5 DEF AddAfterBackoff
  <2> HIDE DEF u, s
  <2> QED
    BY <1>1, <2>1, <2>2, TriggerOk, SetOk
<1> QED
  BY <1>2, <1>3, <1>4, <1>5

-----------------------------------------------------------------------------
\* The worker.

LEMMA DequeueStep ==
  ASSUME StatusInv, NEW p \in Replica, Dequeue(p)
  PROVE  AllKept
<1> DEFINE s == proc[p]
           n == IF s.dropped = "no" THEN s.failed ELSE 0
           t == [s EXCEPT !.wq = WQGet(s.wq), !.pc = "get", !.dropped = "no",
                          !.unseen = FALSE, !.failed = n]
<1>1. s \in Process /\ Ok(p, s, co) /\ s.phase = "running" /\ WQCanGet(s.wq)
  BY DEF StatusInv, TypeOK, Dequeue, Running
<1>2. WQGet(s.wq) \in WQType({queueKey}) /\ n \in Nat
  BY <1>1, QueueGetTyped DEF Process
<1>3. n = s.requeues
  BY <1>1 DEF Ok, Counts
<1>4. Set(p, t) /\ UNCHANGED co
  BY DEF Dequeue
<1> HIDE DEF n
<1>5. /\ t \in Process /\ t.pc = "get" /\ t.dropped = "no" /\ t.failed = n
      /\ t.requeues = s.requeues /\ t.phase = s.phase
  BY <1>1, <1>2 DEF Process
<1> HIDE DEF t, s
<1>6. Ok(p, t, co)
  BY <1>1, <1>3, <1>5 DEF Ok, Counts, Worker, Followed, Follows
<1> QED
  BY <1>4, <1>5, <1>6, SetOk

\* A call of a sync that ends it with an error and changes nothing.
LEMMA FailedStep ==
  ASSUME StatusInv, NEW p \in Replica, proc[p].pc # "idle", NEW err \in {"conflict", "fault"},
         err = "conflict" => Coming(proc[p]), Finish(p, err), UNCHANGED co
  PROVE  AllKept
<1>1. co \in ClusterOperator /\ proc[p] \in Process /\ Ok(p, proc[p], co)
  BY DEF StatusInv, TypeOK
<1>2. Finished(proc[p], err) \in Process /\ Ok(p, Finished(proc[p], err), co)
  BY <1>1, FinishedOk
<1> QED
  BY <1>2, SetOk DEF Finish

\* Taking up what was read or created.
LEMMA ReadOk ==
  ASSUME NEW p, NEW s \in Process, NEW c \in ClusterOperator, Ok(p, s, c),
         s.pc # "idle", NEW d \in ClusterOperator, d.exists
  PROVE  LET t == [s EXCEPT !.pc = "update", !.read = d, !.current = TRUE]
         IN  t \in Process /\ Ok(p, t, d)
<1> DEFINE t == [s EXCEPT !.pc = "update", !.read = d, !.current = TRUE]
<1>1. /\ t \in Process /\ t.pc = "update" /\ t.read = d /\ t.current = TRUE
      /\ t.phase = s.phase /\ t.requeues = s.requeues /\ t.dropped = s.dropped
      /\ t.failed = s.failed
  BY DEF Process
<1>2. s.phase = "running" /\ s.dropped = "no"
  BY DEF Ok, Worker
<1> HIDE DEF t
<1>3. Counts(t) /\ Worker(t, d.exists) /\ Followed(p, t, d)
  BY <1>1, <1>2 DEF Ok, Counts, Worker, Followed, Follows
<1> QED
  BY <1>1, <1>3 DEF Ok, t

LEMMA GetStep ==
  ASSUME StatusInv, NEW p \in Replica, Get(p)
  PROVE  AllKept
<1> DEFINE s == proc[p]
<1>1. co \in ClusterOperator /\ s \in Process /\ Ok(p, s, co) /\ s.pc = "get" /\ UNCHANGED co
  BY DEF StatusInv, TypeOK, Get
<1>2. CASE co.exists /\ Set(p, [s EXCEPT !.pc = "update", !.read = co, !.current = TRUE])
  BY <1>1, <1>2, ReadOk, SetOk
<1>3. CASE ~co.exists /\ Set(p, [s EXCEPT !.pc = "create"])
  <2> DEFINE t == [s EXCEPT !.pc = "create"]
  <2>1. /\ t \in Process /\ t.pc = "create" /\ t.phase = s.phase /\ t.requeues = s.requeues
        /\ t.dropped = s.dropped /\ t.failed = s.failed
    BY <1>1 DEF Process
  <2> HIDE DEF t, s
  <2>2. Ok(p, t, co)
    BY <1>1, <1>3, <2>1 DEF Ok, Counts, Worker, Followed, Follows
  <2> QED
    BY <1>1, <1>3, <2>1, <2>2, SetOk DEF t
<1>4. CASE Finish(p, "fault")
  BY <1>1, <1>4, FailedStep
<1> QED
  BY <1>2, <1>3, <1>4 DEF Get

LEMMA BlankTyped == Blank \in ClusterOperator /\ Blank.exists = TRUE
BY DEF Blank, Absent, ClusterOperator

LEMMA CreateStep ==
  ASSUME StatusInv, NEW p \in Replica, Create(p)
  PROVE  AllKept
<1> DEFINE s == proc[p]
<1>1. co \in ClusterOperator /\ s \in Process /\ Ok(p, s, co) /\ s.pc = "create"
  BY DEF StatusInv, TypeOK, Create
<1>2. CASE /\ co' = Blank
           /\ proc' = [[q \in Replica |-> Notify(proc[q])] EXCEPT
                         ![p] = [@ EXCEPT !.pc = "update", !.read = Blank, !.current = TRUE]]
  <2> DEFINE n == Notify(s)
             t == [n EXCEPT !.pc = "update", !.read = Blank, !.current = TRUE]
  <2>1. \A q \in Replica : Notify(proc[q]) \in Process /\ Ok(q, Notify(proc[q]), Blank)
    BY BlankTyped, NotifyOk DEF StatusInv, TypeOK
  <2>2. n.pc = "create"
    BY <1>1 DEF Notify, Process
  <2>3. t \in Process /\ Ok(p, t, Blank)
    BY <2>1, <2>2, BlankTyped, ReadOk
  <2>4. proc' = [q \in Replica |-> IF q = p THEN t ELSE Notify(proc[q])]
    BY <1>2
  <2> HIDE DEF t
  <2> QED
    BY <1>2, <2>1, <2>3, <2>4 DEF AllKept
<1>3. CASE co.exists /\ UNCHANGED co /\ Finish(p, "conflict")
  <2>1. Coming(s)
    BY <1>1, <1>3 DEF Ok, Worker
  <2> QED
    BY <1>1, <1>3, <2>1, FailedStep
<1>4. CASE UNCHANGED co /\ Finish(p, "fault")
  BY <1>1, <1>4, FailedStep
<1>5. CASE Store(Blank, [proc EXCEPT ![p] = Finished(@, "fault")])
  <2> DEFINE t == Finished(s, "fault")
  <2>1. t \in Process /\ Ok(p, t, Blank)
    BY <1>1, BlankTyped, FinishedOk
  <2>2. Store(Blank, [proc EXCEPT ![p] = t])
    BY <1>5
  <2> HIDE DEF t
  <2> QED
    BY <2>1, <2>2, BlankTyped, StoreOk
<1> QED
  BY <1>2, <1>3, <1>4, <1>5 DEF Create

\* What is sent shows the replica's version.
LEMMA SentShows ==
  ASSUME NEW p \in Replica, NEW c \in ClusterOperator, c.exists
  PROVE  statusAvailable(p, c) \in ClusterOperator /\ Shows(p, statusAvailable(p, c))
<1> DEFINE n == IF c.conditions = "asExpected" THEN c.since ELSE 1 - c.since
           d == [c EXCEPT !.conditions = "asExpected", !.since = n]
<1>1. n \in {0, 1}
  BY DEF ClusterOperator
<1>2. SetStatusCondition(c) = d
  BY DEF SetStatusCondition
<1> HIDE DEF n
<1>3. d \in ClusterOperator /\ d.exists = TRUE /\ d.conditions = "asExpected"
  BY <1>1 DEF ClusterOperator
<1> HIDE DEF d
<1>4. statusAvailable(p, c) = [d EXCEPT !.version = p]
  BY <1>2 DEF statusAvailable
<1> QED
  BY <1>3, <1>4 DEF ClusterOperator, Shows

LEMMA UpdateStep ==
  ASSUME StatusInv, NEW p \in Replica, UpdateStatus(p)
  PROVE  AllKept
<1> DEFINE s == proc[p]
           sent == statusAvailable(p, s.read)
<1>1. co \in ClusterOperator /\ s \in Process /\ Ok(p, s, co) /\ s.pc = "update"
  BY DEF StatusInv, TypeOK, UpdateStatus
<1>2. s.read \in ClusterOperator /\ s.read.exists /\ s.current \in BOOLEAN
  BY <1>1 DEF Ok, Worker, Process
<1>3. sent \in ClusterOperator /\ Shows(p, sent)
  BY <1>2, SentShows
<1>4. \/ Store(sent, [proc EXCEPT ![p] = Finished(@, "none")])
      \/ ~s.current /\ UNCHANGED co /\ Finish(p, "conflict")
      \/ UNCHANGED co /\ Finish(p, "fault")
      \/ Store(sent, [proc EXCEPT ![p] = Finished(@, "fault")])
  BY DEF UpdateStatus
<1> HIDE DEF sent
<1>5. ASSUME NEW err \in {"none", "fault"}, Store(sent, [proc EXCEPT ![p] = Finished(@, err)])
      PROVE  AllKept
  <2> DEFINE t == Finished(s, err)
  <2>1. t \in Process /\ Ok(p, t, sent)
    BY <1>1, <1>3, FinishedOk
  <2>2. Store(sent, [proc EXCEPT ![p] = t])
    BY <1>5
  <2> HIDE DEF t
  <2> QED
    BY <1>3, <2>1, <2>2, StoreOk
<1>6. ASSUME ~s.current, UNCHANGED co, Finish(p, "conflict") PROVE AllKept
  <2>1. Coming(s)
    BY <1>1, <1>6 DEF Ok, Worker
  <2> QED
    BY <1>1, <1>6, <2>1, FailedStep
<1>7. ASSUME UNCHANGED co, Finish(p, "fault") PROVE AllKept
  BY <1>1, <1>7, FailedStep
<1> QED
  BY <1>4, <1>5, <1>6, <1>7

-----------------------------------------------------------------------------
\* Everything together.

LEMMA EditStep ==
  ASSUME StatusInv, CreateExternally \/ EditMetadata \/ EditStatus \/ DeleteExternally
  PROVE  AllKept /\ co' \in ClusterOperator /\ holder' = holder /\ faults' = faults
           /\ disruptions' = disruptions /\ edits' \in 0..MaxEdits
<1>1. co \in ClusterOperator /\ edits \in 0..MaxEdits /\ proc \in [Replica -> Process]
  BY DEF StatusInv, TypeOK
<1>2. PICK d \in ClusterOperator : Edit(d)
  <2>1. Absent \in ClusterOperator /\ [co EXCEPT !.conditions = "other"] \in ClusterOperator
    BY <1>1 DEF Absent, ClusterOperator
  <2> QED
    BY <1>1, <2>1, BlankTyped DEF CreateExternally, EditMetadata, EditStatus, DeleteExternally
<1>3. \A q \in Replica : Notify(proc[q]) \in Process /\ Ok(q, Notify(proc[q]), d)
  BY <1>1, NotifyOk DEF StatusInv
<1> QED
  BY <1>1, <1>2, <1>3, StatusBoundAssumption DEF Edit, AllKept

LEMMA CoTyped ==
  ASSUME StatusInv, NEW p \in Replica, Create(p) \/ UpdateStatus(p)
  PROVE  co' \in ClusterOperator
<1>1. co \in ClusterOperator /\ proc[p] \in Process /\ Ok(p, proc[p], co)
  BY DEF StatusInv, TypeOK
<1>2. CASE Create(p)
  BY <1>1, <1>2, BlankTyped DEF Create, Store
<1>3. CASE UpdateStatus(p)
  <2>1. proc[p].read \in ClusterOperator /\ proc[p].read.exists
    BY <1>1, <1>3 DEF UpdateStatus, Ok, Worker, Process
  <2> QED
    BY <1>1, <1>3, <2>1, SentShows DEF UpdateStatus, Store
<1> QED
  BY <1>2, <1>3

LEMMA StatusStep == StatusInv /\ [Next]_vars => StatusInv'
<1> SUFFICES ASSUME StatusInv, [Next]_vars PROVE StatusInv'
  OBVIOUS
<1>1. TypeOK /\ co \in ClusterOperator
  BY DEF StatusInv, TypeOK
<1>2. CASE UNCHANGED vars
  BY <1>2 DEF StatusInv, TypeOK, vars, boundVars
<1>3. CASE CreateExternally \/ EditMetadata \/ EditStatus \/ DeleteExternally
  BY <1>1, <1>3, EditStep DEF StatusInv, TypeOK, AllKept
<1>4. ASSUME NEW p \in Replica,
             \/ Elect(p) \/ Release(p) \/ Exit(p) \/ Crash(p) \/ Run(p)
             \/ watchVersionGetter(p) \/ Deliver(p) \/ Relist(p) \/ AddAfterBackoff(p)
             \/ processNextItem(p)
      PROVE  StatusInv'
  <2>1. NoFault \/ Fault \/ Disruption
    BY <1>4 DEF Elect, Release, Exit, Crash, Run, watchVersionGetter, Deliver, Relist,
      AddAfterBackoff, processNextItem, Dequeue, Get, Create, UpdateStatus, NoFault
  <2>2. holder' \in Replica \cup {NoReplica}
    BY <1>1, <1>4 DEF TypeOK, Elect, Release, Exit, Crash, Run, watchVersionGetter, Deliver,
      Relist, AddAfterBackoff, processNextItem, Dequeue, Get, Create, UpdateStatus
  <2>3. co' \in ClusterOperator
    BY <1>1, <1>4, CoTyped DEF Elect, Release, Exit, Crash, Run, watchVersionGetter, Deliver,
      Relist, AddAfterBackoff, processNextItem, Dequeue, Get
  <2>4. AllKept
    <3>1. CASE Release(p)
      BY <3>1 DEF Release, AllKept, StatusInv, TypeOK
    <3> QED
      BY <1>4, <3>1, LifeSteps, RunStep, InformerSteps, DequeueStep, GetStep, CreateStep,
        UpdateStep DEF processNextItem
  <2> QED
    BY <1>1, <2>1, <2>2, <2>3, <2>4, BoundsTyped DEF StatusInv, TypeOK, AllKept
<1> QED
  BY <1>2, <1>3, <1>4 DEF Next

LEMMA StatusInit == Init => StatusInv
<1> SUFFICES ASSUME Init PROVE StatusInv
  OBVIOUS
<1>0. Absent \in ClusterOperator
  BY DEF Absent, ClusterOperator
<1>1. co \in ClusterOperator
  BY <1>0, BlankTyped DEF Init
<1> QED
  BY <1>1, StartedOk, StatusBoundAssumption DEF Init, StatusInv, TypeOK

LEMMA StatusInvariant == Spec => []StatusInv
  BY StatusInit, StatusStep, PTL DEF Spec

\* Every reachable state of the status controller is well typed.
THEOREM StatusTyped == Spec => []TypeOK
<1>1. StatusInv => TypeOK
  BY DEF StatusInv
<1> QED
  BY <1>1, StatusInvariant, PTL

\* Whatever is written, lost or broken in between, a running replica shows its
\* status, is on its way to a sync that will, or was let go for one of the two
\* reasons named.
THEOREM TriggersKept == Spec => []NoLostTrigger
<1>1. StatusInv => NoLostTrigger
  BY DEF StatusInv, Ok, Followed, Follows, Shows, NoLostTrigger, Running, Published, Tracked, LetGo
<1> QED
  BY <1>1, StatusInvariant, PTL

\* The key is dropped after exactly MaxRetries + 1 failures in a row.
THEOREM RetriesCounted == Spec => []RetriesExact
<1>1. StatusInv => RetriesExact
  BY RetryAssumption DEF StatusInv, TypeOK, Process, Ok, Counts, RetriesExact
<1> QED
  BY <1>1, StatusInvariant, PTL
=============================================================================
