---------------------------- MODULE WakeupProofs ----------------------------
(***************************************************************************)
(* No pending CSR is forgotten and no decision is overwritten, for every   *)
(* cluster.  Neither is inductive: both rest on what the controller's      *)
(* stale copies of a CSR can still be trusted for.  A copy that exists, or *)
(* that is settled (approved or deleted), stays true of the API server,    *)
(* because creation, approval and deletion are never undone.               *)
(***************************************************************************)
EXTENDS ApproverProofs

Born(o) == o.phase # "unborn"
Settled(o) == o.phase = "deleted" \/ (o.phase = "present" /\ isApproved(o))

\* What a copy o of an object says of its later version l.
Behind(o, l) == (Born(o) => Born(l)) /\ (Settled(o) => Settled(l))

EventBehind(e, objs) == Born(e.obj) /\ Behind(e.obj, objs[e.csr])

WatchBehind == \A i \in 1..Len(watch) : EventBehind(watch[i], live)
NotifsBehind ==
  \A i \in 1..Len(notifs) : EventBehind(notifs[i], live) /\ Born(cache[notifs[i].csr])
CacheBehind == \A c \in CSR : Behind(cache[c], live[c])

\* Everything on its way to a reconcile is in the cache.
QueueKnown == \A c \in wq.dirty \cup wq.processing \cup waiting : Born(cache[c])

WorkerBehind ==
  /\ pc \notin {"idle", "listCSRs"} => Born(r.csrs[cur]) /\ Behind(r.csrs[cur], live[cur])
  /\ pc \in {"reconcileCSR", "getServingCert", "dial", "authorize", "approve"} =>
       r.csrs[cur].phase = "present"
  /\ pc \in {"getServingCert", "dial", "authorize", "approve"} => ~isApproved(r.csrs[cur])

\* Why the worker is about to let go of its CSR.
WorkerReason ==
  /\ r.declined => pc = "closingList" /\ ~ValidServing(Request[cur])
  /\ pc = "closingList" /\ ~r.declined => Settled(live[cur])

\* A CSR that was not created yet is neither approved nor denied.
LiveBorn == \A c \in CSR : ~Born(live[c]) => ~isApproved(live[c]) /\ ~live[c].denied

Decided(o) == isApproved(o) \/ o.denied
Kept(o, l) == Decided(o) => l.by = o.by /\ l.at = o.at /\ l.denied = o.denied

\* obj is stored as the next version of CSR c.
Stored(c, obj) == Store(c, obj) /\ Born(obj) /\ Behind(live[c], obj) /\ Kept(live[c], obj)

\* No CSR goes backwards.
Onward == \A c \in CSR : Behind(live[c], live'[c]) /\ Kept(live[c], live'[c])

StaleInv == WatchBehind /\ NotifsBehind /\ CacheBehind /\ QueueKnown /\ WorkerBehind
            /\ WorkerReason /\ LiveBorn

\* The inductive invariant.
WakeupInv == TypeOK /\ QueueConsistent /\ StaleInv /\ NoLostWakeup

-----------------------------------------------------------------------------
\* The work queue.

\* Add marks the key and keeps the queue consistent.
LEMMA AddConsistent ==
  ASSUME NEW Key, NEW q \in WQType(Key), NEW k \in Key, WQConsistent(q)
  PROVE  /\ WQConsistent(WQAdd(q, k))
         /\ WQAdd(q, k).dirty = q.dirty \cup {k}
         /\ WQAdd(q, k).processing = q.processing
<1>1. CASE k \in q.dirty
  BY <1>1 DEF WQAdd
<1>2. CASE k \notin q.dirty /\ k \in q.processing
  BY <1>2 DEF WQAdd, WQConsistent, WQType
<1>3. CASE k \notin q.dirty /\ k \notin q.processing
  <2> DEFINE s == Append(q.queue, k)
             n == Len(q.queue)
  <2>1. /\ n \in Nat /\ Len(s) = n + 1 /\ s[n + 1] = k
        /\ \A i \in 1..n : s[i] = q.queue[i]
    BY DEF WQType
  <2>2. \A i \in 1..n : q.queue[i] \in q.dirty \ q.processing /\ q.queue[i] # k
    BY <1>3 DEF WQConsistent
  <2>3. WQAdd(q, k) = [queue |-> s, dirty |-> q.dirty \cup {k}, processing |-> q.processing]
    BY <1>3 DEF WQAdd
  <2> HIDE DEF s, n
  <2>4. {s[i] : i \in 1..(n + 1)} = (q.dirty \cup {k}) \ q.processing
    <3>1. ASSUME NEW x \in q.dirty \ q.processing PROVE \E i \in 1..(n + 1) : x = s[i]
      <4>1. PICK i \in 1..n : q.queue[i] = x
        BY <3>1 DEF WQConsistent, n
      <4> QED
        BY <2>1, <4>1
    <3>2. ASSUME NEW i \in 1..(n + 1) PROVE s[i] \in (q.dirty \cup {k}) \ q.processing
      BY <1>3, <2>1, <2>2
    <3> QED
      BY <1>3, <2>1, <3>1, <3>2
  <2>5. \A i, j \in 1..(n + 1) : s[i] = s[j] => i = j
    <3>1. \A i, j \in 1..n : q.queue[i] = q.queue[j] => i = j
      BY DEF WQConsistent, n
    <3> QED
      BY <2>1, <2>2, <3>1
  <2> QED
    BY <2>1, <2>3, <2>4, <2>5 DEF WQConsistent
<1> QED
  BY <1>1, <1>2, <1>3

\* Get hands out a dirty key that nobody holds.
LEMMA GetConsistent ==
  ASSUME NEW Key, NEW q \in WQType(Key), WQConsistent(q), WQCanGet(q)
  PROVE  /\ WQConsistent(WQGet(q))
         /\ Head(q.queue) \in q.dirty
         /\ WQGet(q).dirty = q.dirty \ {Head(q.queue)}
         /\ WQGet(q).processing = q.processing \cup {Head(q.queue)}
<1> DEFINE s == q.queue
           t == Tail(q.queue)
           h == Head(q.queue)
           n == Len(q.queue)
<1>1. /\ n \in Nat \ {0} /\ Len(t) = n - 1 /\ h = s[1]
      /\ \A i \in 1..(n - 1) : t[i] = s[i + 1]
  BY DEF WQType, WQCanGet
<1>2. \A i \in 1..n : s[i] \in q.dirty \ q.processing
  BY DEF WQConsistent
<1>3. \A i, j \in 1..n : s[i] = s[j] => i = j
  BY DEF WQConsistent
<1>4. \A x \in q.dirty \ q.processing : \E i \in 1..n : s[i] = x
  BY DEF WQConsistent
<1>5. WQGet(q) = [queue |-> t, dirty |-> q.dirty \ {h}, processing |-> q.processing \cup {h}]
  BY DEF WQGet
<1> HIDE DEF s, t, n, h
<1>6. h \in q.dirty
  BY <1>1, <1>2
<1>7. {t[i] : i \in 1..(n - 1)} = (q.dirty \ {h}) \ (q.processing \cup {h})
  <2>1. ASSUME NEW i \in 1..(n - 1) PROVE t[i] \in (q.dirty \ {h}) \ (q.processing \cup {h})
    <3>1. i + 1 \in 1..n /\ i + 1 # 1 /\ t[i] = s[i + 1] /\ 1 \in 1..n
      BY <1>1
    <3>2. s[i + 1] # s[1]
      BY <1>3, <3>1
    <3> QED
      BY <1>1, <1>2, <3>1, <3>2
  <2>2. ASSUME NEW x \in q.dirty \ q.processing, x # h PROVE \E i \in 1..(n - 1) : t[i] = x
    <3>1. PICK i \in 1..n : s[i] = x
      BY <1>4, <2>2
    <3>2. i # 1
      BY <1>1, <2>2, <3>1
    <3>3. i - 1 \in 1..(n - 1) /\ t[i - 1] = x
      BY <1>1, <3>1, <3>2
    <3> QED
      BY <3>3
  <2> QED
    BY <2>1, <2>2
<1>8. \A i, j \in 1..(n - 1) : t[i] = t[j] => i = j
  BY <1>1, <1>3
<1> QED
  BY <1>1, <1>5, <1>6, <1>7, <1>8 DEF WQConsistent, h

\* Done gives a held key back to the queue if it was marked meanwhile.
LEMMA DoneConsistent ==
  ASSUME NEW Key, NEW q \in WQType(Key), NEW k \in q.processing, WQConsistent(q)
  PROVE  /\ WQConsistent(WQDone(q, k))
         /\ WQDone(q, k).dirty = q.dirty
         /\ WQDone(q, k).processing = q.processing \ {k}
<1>1. CASE k \notin q.dirty
  <2>1. q.dirty \ (q.processing \ {k}) = q.dirty \ q.processing
    BY <1>1
  <2> QED
    BY <1>1, <2>1 DEF WQDone, WQConsistent
<1>2. CASE k \in q.dirty
  <2> DEFINE s == Append(q.queue, k)
             n == Len(q.queue)
  <2>1. /\ n \in Nat /\ Len(s) = n + 1 /\ s[n + 1] = k
        /\ \A i \in 1..n : s[i] = q.queue[i]
    BY DEF WQType
  <2>2. \A i \in 1..n : q.queue[i] \in q.dirty \ q.processing /\ q.queue[i] # k
    BY DEF WQConsistent
  <2>3. WQDone(q, k) = [queue |-> s, dirty |-> q.dirty, processing |-> q.processing \ {k}]
    BY <1>2 DEF WQDone
  <2> HIDE DEF s, n
  <2>4. {s[i] : i \in 1..(n + 1)} = q.dirty \ (q.processing \ {k})
    <3>1. ASSUME NEW x \in q.dirty \ q.processing PROVE \E i \in 1..(n + 1) : x = s[i]
      <4>1. PICK i \in 1..n : q.queue[i] = x
        BY <3>1 DEF WQConsistent, n
      <4> QED
        BY <2>1, <4>1
    <3>2. ASSUME NEW i \in 1..(n + 1) PROVE s[i] \in q.dirty \ (q.processing \ {k})
      BY <1>2, <2>1, <2>2
    <3> QED
      BY <1>2, <2>1, <3>1, <3>2
  <2>5. \A i, j \in 1..(n + 1) : s[i] = s[j] => i = j
    <3>1. \A i, j \in 1..n : q.queue[i] = q.queue[j] => i = j
      BY DEF WQConsistent, n
    <3> QED
      BY <2>1, <2>2, <3>1
  <2> QED
    BY <2>1, <2>3, <2>4, <2>5 DEF WQConsistent
<1> QED
  BY <1>1, <1>2

\* So does adding a set of keys in any order.
LEMMA AddAllConsistent ==
  ASSUME NEW Key, NEW q \in WQType(Key), NEW S \in SUBSET Key, IsFiniteSet(Key),
         NEW order \in WQOrders(q, S), WQConsistent(q)
  PROVE  /\ WQConsistent(WQAddAll(q, S, order))
         /\ WQAddAll(q, S, order).dirty = q.dirty \cup S
         /\ WQAddAll(q, S, order).processing = q.processing
<1> DEFINE s == q.queue \o order
           n == Len(q.queue)
           m == Len(order)
           New == S \ (q.dirty \cup q.processing)
<1>0. New \in SUBSET Key /\ order \in SetToSeqs(New)
  BY DEF WQOrders
<1> HIDE DEF New
<1>1. /\ order \in Seq(Key)
      /\ \A i \in 1..m : order[i] \in New
      /\ \A x \in New : \E i \in 1..m : order[i] = x
      /\ \A i, j \in 1..m : order[i] = order[j] => i = j
  BY <1>0, OrderTyped DEF m
<1>2. /\ n \in Nat /\ m \in Nat /\ Len(s) = n + m
      /\ \A i \in 1..n : s[i] = q.queue[i]
      /\ \A i \in 1..m : s[n + i] = order[i]
      /\ \A i \in (n + 1)..(n + m) : s[i] = order[i - n]
  BY <1>1 DEF WQType
<1>3. /\ \A i \in 1..n : q.queue[i] \in q.dirty \ q.processing
      /\ \A x \in q.dirty \ q.processing : \E i \in 1..n : q.queue[i] = x
      /\ \A i, j \in 1..n : q.queue[i] = q.queue[j] => i = j
  BY DEF WQConsistent
<1>4. WQAddAll(q, S, order) = [queue |-> s, dirty |-> q.dirty \cup S, processing |-> q.processing]
  BY DEF WQAddAll
<1> HIDE DEF s, n, m
<1>5. {s[i] : i \in 1..(n + m)} = (q.dirty \cup S) \ q.processing
  <2>1. ASSUME NEW i \in 1..(n + m) PROVE s[i] \in (q.dirty \cup S) \ q.processing
    <3>1. CASE i \in 1..n
      BY <1>2, <1>3, <3>1
    <3>2. CASE i \in (n + 1)..(n + m)
      <4>1. i - n \in 1..m
        BY <1>2, <3>2
      <4> QED
        BY <1>1, <1>2, <3>2, <4>1 DEF New
    <3> QED
      BY <1>2, <3>1, <3>2
  <2>2. ASSUME NEW x \in (q.dirty \cup S) \ q.processing PROVE \E i \in 1..(n + m) : s[i] = x
    <3>1. CASE x \in q.dirty
      <4>1. PICK i \in 1..n : q.queue[i] = x
        BY <1>3, <2>2, <3>1
      <4> QED
        BY <1>2, <4>1
    <3>2. CASE x \notin q.dirty
      <4>1. PICK i \in 1..m : order[i] = x
        BY <1>1, <2>2, <3>2 DEF New
      <4>2. n + i \in 1..(n + m)
        BY <1>2
      <4> QED
        BY <1>2, <4>1, <4>2
    <3> QED
      BY <3>1, <3>2
  <2> QED
    BY <2>1, <2>2
<1>6. ASSUME NEW i \in 1..(n + m), NEW j \in 1..(n + m), s[i] = s[j] PROVE i = j
  <2>1. ASSUME NEW k \in 1..(n + m)
        PROVE  \/ k \in 1..n /\ s[k] = q.queue[k] /\ s[k] \in q.dirty
               \/ k - n \in 1..m /\ s[k] = order[k - n] /\ s[k] \notin q.dirty
    <3>1. k \in 1..n \/ (k \in (n + 1)..(n + m) /\ k - n \in 1..m)
      BY <1>2
    <3> QED
      BY <1>1, <1>2, <1>3, <3>1 DEF New
  <2>2. CASE s[i] \in q.dirty
    BY <1>3, <1>6, <2>1, <2>2
  <2>3. CASE s[i] \notin q.dirty
    <3>1. i - n = j - n
      BY <1>1, <1>6, <2>1, <2>3
    <3> QED
      BY <1>2, <3>1
  <2> QED
    BY <2>2, <2>3
<1> QED
  BY <1>2, <1>4, <1>5, <1>6 DEF WQConsistent

-----------------------------------------------------------------------------
\* The queue and the worker.

\* A step of the worker takes a key, goes on with it, or gives it back.
LEMMA WorkerMoves ==
  ASSUME TypeOK, Reconcile
  PROVE  \/ Dequeue
         \/ /\ pc # "idle" /\ cur \in CSR
            /\ (\E label \in PC \ {"idle"} : Go(label)) \/ (\E why : Finish(why))
<1>1. pc # "idle" => cur \in CSR
  BY DEF TypeOK, TypeWorker
<1>2. CASE Dequeue
  BY <1>2
<1>3. CASE ListCSRs
  BY <1>1, <1>3 DEF ListCSRs, PC
<1>4. CASE ListMachines
  BY <1>1, <1>4 DEF ListMachines, PC
<1>5. CASE ListNodes
  BY <1>1, <1>5 DEF ListNodes, PC
<1>6. CASE ReconcileCSR
  BY <1>1, <1>6 DEF ReconcileCSR, PC
<1>7. CASE GetNode \/ DialKubelet
  BY <1>1, <1>7 DEF GetNode, DialKubelet, PC
<1>8. CASE Authorize
  BY <1>1, <1>8 DEF Authorize, Decide, PC
<1>9. CASE Approve
  BY <1>1, <1>9 DEF Approve, PC
<1>10. CASE ReconcileLimitsUncached
  BY <1>1, <1>10 DEF ReconcileLimitsUncached
<1> QED
  BY <1>2, <1>3, <1>4, <1>5, <1>6, <1>7, <1>8, <1>9, <1>10 DEF Reconcile

\* Every step keeps the queue consistent.
LEMMA QueueStep ==
  ASSUME TypeOK, QueueConsistent, [Next]_vars
  PROVE  QueueConsistent'
<1>0. wq \in WQType(CSR) /\ waiting \in SUBSET CSR
  BY DEF TypeOK, TypeQueue
<1>1. ASSUME UNCHANGED <<wq, pc, cur>> PROVE QueueConsistent'
  BY <1>1 DEF QueueConsistent
<1>2. ASSUME WQConsistent(wq'), wq'.processing = wq.processing, UNCHANGED <<pc, cur>>
      PROVE  QueueConsistent'
  BY <1>2 DEF QueueConsistent
<1>3. ASSUME NEW c \in CSR, wq' = WQAdd(wq, c), UNCHANGED <<pc, cur>> PROVE QueueConsistent'
  BY <1>0, <1>2, <1>3, AddConsistent DEF QueueConsistent
<1>4. CASE Environment
  <2>1. CASE Restart
    BY <2>1 DEF Restart, QueueConsistent, WQConsistent, WQEmpty
  <2>2. CASE ~Restart
    BY <1>1, <1>4, <2>2 DEF Environment, OthersWrite, CreateCSR, ApproveExternally, ApproveByPeer, DenyExternally, DeleteCSR,
      CreateMachine, ProvisionMachine, DeleteMachine, LinkNode, ToggleNode, Listen, Tick, RotateCA,
      InformerRelist, othersThanAPI, othersThanWorld, queueVars, workVars
  <2> QED
    BY <2>1, <2>2
<1>5. CASE Informer
  <2>1. CASE DeliverChange \/ DeliverCA \/ Resync
    BY <1>1, <2>1 DEF DeliverChange, DeliverCA, Resync, queueVars, workVars
  <2>2. CASE HandleChange
    <3>1. Head(notifs) \in Change
      BY <2>2 DEF HandleChange, TypeOK, TypeInformer
    <3>2. Head(notifs).csr \in CSR
      BY <3>1 DEF Change
    <3> QED
      BY <1>1, <1>3, <2>2, <3>2 DEF HandleChange, workVars
  <2>3. CASE HandleCA
    <3>1. CASE UNCHANGED wq
      BY <1>1, <2>3, <3>1 DEF HandleCA, workVars
    <3>2. ASSUME NEW S \in SUBSET CSR, NEW order \in WQOrders(wq, S), wq' = WQAddAll(wq, S, order)
          PROVE  QueueConsistent'
      <4>1. WQConsistent(wq') /\ wq'.processing = wq.processing
        BY <1>0, <3>2, AddAllConsistent, CSRAssumption DEF QueueConsistent
      <4> QED
        BY <1>2, <2>3, <4>1 DEF HandleCA, workVars
    <3>3. toCSRs \in SUBSET CSR /\ {} \in SUBSET CSR
      BY DEF toCSRs, Present
    <3> QED
      BY <2>3, <3>1, <3>2, <3>3 DEF HandleCA
  <2> QED
    BY <1>5, <2>1, <2>2, <2>3 DEF Informer
<1>6. ASSUME NEW c \in CSR, AddAfterBackoff(c) PROVE QueueConsistent'
  BY <1>3, <1>6 DEF AddAfterBackoff, workVars
<1>7. CASE Reconcile
  <2>1. CASE Dequeue
    <3>1. WQConsistent(WQGet(wq)) /\ WQGet(wq).processing = wq.processing \cup {Head(wq.queue)}
      BY <1>0, <2>1, GetConsistent DEF Dequeue, QueueConsistent
    <3> QED
      BY <2>1, <3>1 DEF Dequeue, QueueConsistent
  <2>2. ASSUME pc # "idle", NEW label \in PC \ {"idle"}, Go(label) PROVE QueueConsistent'
    BY <2>2 DEF Go, queueVars, QueueConsistent
  <2>3. ASSUME pc # "idle", NEW why, Finish(why) PROVE QueueConsistent'
    <3>1. cur \in wq.processing /\ wq.processing \ {cur} = {}
      BY <2>3 DEF QueueConsistent
    <3>2. WQConsistent(WQDone(wq, cur)) /\ WQDone(wq, cur).processing = wq.processing \ {cur}
      BY <1>0, <3>1, DoneConsistent DEF QueueConsistent
    <3> QED
      BY <2>3, <3>1, <3>2 DEF Finish, QueueConsistent
  <2> QED
    BY <1>7, <2>1, <2>2, <2>3, WorkerMoves
<1>8. CASE UNCHANGED vars
  BY <1>1, <1>8 DEF vars, queueVars, workVars
<1> QED
  BY <1>4, <1>5, <1>6, <1>7, <1>8 DEF Next

\* The work queue neither loses nor repeats a key, and the one worker holds
\* exactly the key that counts as being processed, for any number of CSRs.
THEOREM QueueSound == Spec => []QueueConsistent
<1>1. Init => QueueConsistent
  BY DEF Init, QueueConsistent, WQConsistent, WQEmpty
<1>2. TypeOK /\ QueueConsistent /\ [Next]_vars => QueueConsistent'
  BY QueueStep
<1> QED
  BY <1>1, <1>2, TypeCorrect, PTL DEF Spec

-----------------------------------------------------------------------------
\* The API server.

\* Whoever writes a CSR writes a later version of it.
LEMMA OthersStore ==
  ASSUME TypeOK, LiveBorn, NEW c \in CSR,
         OthersWrite(c)
  PROVE  \E obj \in Obj : Stored(c, obj)
<1>0. live[c] \in Obj /\ now \in Time /\ Unborn \in Obj
  BY BoundAssumption DEF TypeOK, TypeAPI, TypeCluster, Unborn, Obj, Time
<1>1. CASE CreateCSR(c)
  <2> DEFINE obj == [Unborn EXCEPT !.phase = "present", !.created = now]
  <2>1. obj \in Obj /\ obj.phase = "present"
    BY <1>0 DEF Obj
  <2>2. ~Born(live[c]) /\ ~Settled(live[c]) /\ ~Decided(live[c])
    BY <1>1 DEF CreateCSR, LiveBorn, Born, Settled, Decided
  <2>3. Stored(c, obj)
    BY <1>1, <2>1, <2>2 DEF CreateCSR, Stored, Behind, Kept, Born
  <2> QED
    BY <2>1, <2>3
<1>2. CASE ApproveExternally(c)
  <2> DEFINE obj == [live[c] EXCEPT !.by = "other", !.at = now]
  <2>1. obj \in Obj /\ obj.phase = "present"
    BY <1>0, <1>2 DEF Obj, ApproveExternally
  <2>2. ~Settled(live[c]) /\ ~Decided(live[c])
    BY <1>2 DEF ApproveExternally, Settled, Decided
  <2>3. Stored(c, obj)
    BY <1>2, <2>1, <2>2 DEF ApproveExternally, Stored, Behind, Kept, Born
  <2> QED
    BY <2>1, <2>3
<1>3. CASE DenyExternally(c)
  <2> DEFINE obj == [live[c] EXCEPT !.denied = TRUE]
  <2>1. obj \in Obj /\ obj.phase = "present"
    BY <1>0, <1>3 DEF Obj, DenyExternally
  <2>2. ~Settled(live[c]) /\ ~Decided(live[c])
    BY <1>3 DEF DenyExternally, Settled, Decided
  <2>3. Stored(c, obj)
    BY <1>3, <2>1, <2>2 DEF DenyExternally, Stored, Behind, Kept, Born
  <2> QED
    BY <2>1, <2>3
<1>4. CASE DeleteCSR(c)
  <2> DEFINE obj == [live[c] EXCEPT !.phase = "deleted"]
  <2>1. obj \in Obj /\ obj.phase = "deleted"
    BY <1>0 DEF Obj
  <2>2. obj.by = live[c].by /\ obj.at = live[c].at /\ obj.denied = live[c].denied
    BY <1>0 DEF Obj
  <2>3. Stored(c, obj)
    BY <1>4, <2>1, <2>2 DEF DeleteCSR, Stored, Behind, Kept, Born, Settled
  <2> QED
    BY <2>1, <2>3
<1>5. CASE ApproveByPeer(c)
  <2> DEFINE obj == [live[c] EXCEPT !.by = "cma", !.at = now]
  <2>1. obj \in Obj /\ obj.phase = "present"
    BY <1>0, <1>5 DEF Obj, ApproveByPeer
  <2>2. ~Settled(live[c]) /\ ~Decided(live[c])
    BY <1>5 DEF ApproveByPeer, Settled, Decided
  <2>3. Stored(c, obj)
    BY <1>5, <2>1, <2>2 DEF ApproveByPeer, Stored, Behind, Kept, Born
  <2> QED
    BY <2>1, <2>3
<1> QED
  BY <1>1, <1>2, <1>3, <1>4, <1>5 DEF OthersWrite

\* The controller stores an approval only over the version it decided on.
LEMMA ControllerStores ==
  ASSUME TypeOK, WorkerBehind, pc = "approve", Accepts(r.csrs[cur]),
         Store(cur, [r.csrs[cur] EXCEPT !.by = "cma", !.at = now])
  PROVE  \E obj \in Obj : Stored(cur, obj) /\ Settled(obj)
<1> DEFINE obj == [r.csrs[cur] EXCEPT !.by = "cma", !.at = now]
<1>0. cur \in CSR /\ r.csrs[cur] \in Obj /\ now \in Time
  BY DEF TypeOK, TypeWorker, Locals, TypeCluster
<1>1. obj \in Obj /\ obj.phase = "present" /\ obj.by = "cma"
  BY <1>0 DEF Obj, WorkerBehind
<1>2. Settled(obj) /\ Born(obj)
  BY <1>1 DEF Settled, Born, isApproved
<1>3. ~Decided(live[cur])
  BY DEF Accepts, WorkerBehind, Decided
<1>4. Stored(cur, obj)
  BY <1>2, <1>3 DEF Stored, Behind, Kept
<1> QED
  BY <1>1, <1>2, <1>4

\* What a stored version changes.
LEMMA StoredEffect ==
  ASSUME TypeOK, LiveBorn, WatchBehind, NEW c \in CSR, NEW obj \in Obj, Stored(c, obj)
  PROVE  /\ Onward /\ LiveBorn' /\ WatchBehind'
         /\ live'[c] = obj /\ \A d \in CSR \ {c} : live'[d] = live[d]
         /\ \E i \in 1..Len(watch') : watch'[i].csr = c
         /\ \A d : (\E i \in 1..Len(watch) : watch[i].csr = d) =>
                     \E i \in 1..Len(watch') : watch'[i].csr = d
<1> DEFINE e == [csr |-> c, obj |-> obj]
           n == Len(watch)
<1>0. live \in [CSR -> Obj] /\ watch \in Seq(Change)
  BY DEF TypeOK, TypeAPI
<1>1. live' = [live EXCEPT ![c] = obj] /\ watch' = Append(watch, e)
  BY DEF Stored, Store
<1>2. live'[c] = obj /\ \A d \in CSR \ {c} : live'[d] = live[d]
  BY <1>0, <1>1
<1>3. Onward
  BY <1>2 DEF Onward, Stored, Behind, Kept
<1>4. LiveBorn'
  BY <1>2 DEF LiveBorn, Stored
<1>5. e \in Change /\ e.csr = c /\ e.obj = obj
  BY DEF Change
<1> HIDE DEF e
<1>6. /\ n \in Nat /\ Len(watch') = n + 1 /\ watch'[n + 1] = e
      /\ \A i \in 1..n : watch'[i] = watch[i] /\ watch[i] \in Change
  BY <1>0, <1>1, <1>5
<1> HIDE DEF n
<1>7. WatchBehind'
  <2>1. EventBehind(e, live')
    BY <1>2, <1>5 DEF EventBehind, Stored, Behind
  <2>2. ASSUME NEW i \in 1..n PROVE EventBehind(watch[i], live')
    <3>1. watch[i].csr \in CSR
      BY <1>6 DEF Change
    <3>2. EventBehind(watch[i], live)
      BY DEF WatchBehind, n
    <3> QED
      BY <1>3, <3>1, <3>2 DEF EventBehind, Onward, Behind
  <2>3. \A i \in 1..(n + 1) : EventBehind(watch'[i], live')
    BY <1>6, <2>1, <2>2
  <2> QED
    BY <1>6, <2>3 DEF WatchBehind
<1>8. \E i \in 1..Len(watch') : watch'[i].csr = c
  BY <1>5, <1>6
<1>9. \A d : (\E i \in 1..n : watch[i].csr = d) => \E i \in 1..(n + 1) : watch'[i].csr = d
  BY <1>6
<1> QED
  BY <1>2, <1>3, <1>4, <1>6, <1>7, <1>8, <1>9 DEF n

-----------------------------------------------------------------------------
\* The worker.

\* The reasons for which a reconcile ends.
Reason(why) ==
  /\ why \in {"error", "ignored", "notfound", "declined", "done"}
  /\ why \in {"notfound", "done"} => Settled(live'[cur])
  /\ why = "declined" => ~ValidServing(Request[cur])

\* Only a request that is not for a serving certificate, or not a well-formed
\* one, can be declined.
LEMMA DeclineReason ==
  ASSUME NEW disabled, NEW machines, NEW req, NEW created, NEW pool, NEW seen,
         authorizeCSR(disabled, machines, req, created, pool, seen) = "decline"
  PROVE  ~ValidServing(req)
BY DEF authorizeCSR, authorizeServingCSR, ValidServing

\* The worker writes nothing but approvals.
LEMMA WorkerWrites ==
  ASSUME TypeOK, WorkerBehind, Reconcile
  PROVE  /\ UNCHANGED infVars
         /\ UNCHANGED apiVars \/ (cur \in CSR /\ \E obj \in Obj : Stored(cur, obj))
<1>1. CASE Approve
  <2>1. cur \in CSR
    BY <1>1 DEF Approve, TypeOK, TypeWorker
  <2> QED
    BY <1>1, <2>1, ControllerStores DEF Approve
<1>2. CASE ~Approve
  BY <1>2 DEF Reconcile, Dequeue, ListCSRs, ListMachines, ListNodes, ReconcileCSR, GetNode, DialKubelet,
    Authorize, ReconcileLimitsUncached
<1> QED
  BY <1>1, <1>2

\* The worker knows what it has to know at each of its steps, and lets go of a
\* CSR only for one of the reasons.
LEMMA WorkerSound ==
  ASSUME TypeOK, QueueConsistent, StaleInv, Reconcile, pc # "idle"
  PROVE  /\ cur \in CSR /\ cur \in wq.processing
         /\ \/ (\E label \in PC \ {"idle"} : Go(label)) /\ WorkerBehind' /\ WorkerReason'
            \/ \E why : Finish(why) /\ Reason(why)
<1> USE DEF StaleInv
<1>0. /\ cur \in CSR /\ cur \in wq.processing /\ wq.processing = {cur}
      /\ r \in Locals /\ r.csrs[cur] \in Obj
  BY DEF TypeOK, TypeWorker, QueueConsistent, Locals
<1>1. ASSUME Finish("error") \/ Finish("ignored") PROVE \E why : Finish(why) /\ Reason(why)
  BY <1>1 DEF Reason
<1>2. ASSUME pc # "closingList" PROVE ~r.declined
  BY <1>2 DEF WorkerReason
<1>3. CASE ListCSRs
  <2>1. Born(cache[cur]) /\ Behind(cache[cur], live[cur])
    BY <1>0 DEF QueueKnown, CacheBehind
  <2>2. CASE r' = [r EXCEPT !.csrs = cache] /\ Go("listMachines")
    <3>1. r'.csrs = cache /\ r'.declined = r.declined
      BY <1>0, <2>2 DEF Locals
    <3>2. cur' = cur /\ pc' = "listMachines" /\ live' = live /\ ~r.declined
      BY <1>2, <1>3, <2>2 DEF ListCSRs, Go, apiVars
    <3> QED
      BY <1>0, <2>1, <2>2, <3>1, <3>2 DEF WorkerBehind, WorkerReason, PC
  <2> QED
    BY <1>0, <1>1, <1>3, <2>2 DEF ListCSRs
<1>4. ASSUME NEW label \in PC \ {"idle", "closingList", "listCSRs"}, Go(label), UNCHANGED live,
             r'.csrs = r.csrs, r'.declined = r.declined, pc \notin {"listCSRs", "closingList"},
             label \in {"reconcileCSR", "getServingCert", "dial", "authorize", "approve"} =>
               r.csrs[cur].phase = "present",
             label \in {"getServingCert", "dial", "authorize", "approve"} => ~isApproved(r.csrs[cur])
      PROVE  (\E l \in PC \ {"idle"} : Go(l)) /\ WorkerBehind' /\ WorkerReason'
  BY <1>2, <1>4 DEF WorkerBehind, WorkerReason, Go
<1>5. CASE ListMachines
  <2>1. (r'.csrs = r.csrs /\ r'.declined = r.declined) \/ Finish("error")
    BY <1>0, <1>5 DEF ListMachines, Locals
  <2> QED
    BY <1>0, <1>1, <1>4, <1>5, <2>1 DEF ListMachines, PC, apiVars
<1>6. CASE ListNodes
  <2>1. CASE Finish("notfound") /\ r.csrs[cur].phase # "present"
    <3>1. r.csrs[cur].phase = "deleted"
      BY <1>0, <1>6, <2>1 DEF ListNodes, WorkerBehind, Born, Obj
    <3>2. Settled(live[cur]) /\ live' = live
      BY <1>6, <3>1 DEF ListNodes, WorkerBehind, Behind, Settled, apiVars
    <3> QED
      BY <1>0, <2>1, <3>2 DEF Reason
  <2>2. CASE /\ r.csrs[cur].phase = "present" /\ Go("reconcileCSR")
             /\ r' = [r EXCEPT !.nodes = Cardinality({n \in Node : node[n]})]
    <3>1. r'.csrs = r.csrs /\ r'.declined = r.declined
      BY <1>0, <2>2 DEF Locals
    <3> QED
      BY <1>0, <1>4, <1>6, <2>2, <3>1 DEF ListNodes, PC, apiVars
  <2> QED
    BY <1>0, <1>1, <1>6, <2>1, <2>2 DEF ListNodes
<1>7. CASE ReconcileCSR
  <2>1. r.csrs[cur].phase = "present" /\ live' = live /\ ~r.declined
    BY <1>2, <1>7 DEF ReconcileCSR, WorkerBehind, apiVars
  <2>2. CASE isApproved(r.csrs[cur]) /\ Go("closingList") /\ UNCHANGED r
    <3>1. Settled(live[cur])
      BY <1>7, <2>1, <2>2 DEF ReconcileCSR, WorkerBehind, Behind, Settled
    <3>2. Born(r.csrs[cur]) /\ Behind(r.csrs[cur], live[cur])
      BY <1>7 DEF ReconcileCSR, WorkerBehind
    <3> QED
      BY <1>0, <2>1, <2>2, <3>1, <3>2 DEF WorkerBehind, WorkerReason, Go, PC
  <2>3. CASE /\ ~isApproved(r.csrs[cur])
             /\ r' = [r EXCEPT !.ca = getKubeletCA(CAHistory[cachedCA])]
             /\ Go(IF isNodeClientCert(Request[cur]) THEN "authorize" ELSE "getServingCert")
    <3>1. r'.csrs = r.csrs /\ r'.declined = r.declined
      BY <1>0, <2>3 DEF Locals
    <3> QED
      BY <1>0, <1>4, <1>7, <2>1, <2>3, <3>1 DEF ReconcileCSR, PC
  <2> QED
    BY <1>0, <1>1, <1>7, <2>2, <2>3 DEF ReconcileCSR
<1>8. CASE GetNode \/ DialKubelet
  <2>1. r'.csrs = r.csrs /\ r'.declined = r.declined
    BY <1>0, <1>8 DEF GetNode, DialKubelet, Locals
  <2>2. r.csrs[cur].phase = "present" /\ ~isApproved(r.csrs[cur])
    BY <1>8 DEF GetNode, DialKubelet, WorkerBehind
  <2> QED
    BY <1>0, <1>4, <1>8, <2>1, <2>2 DEF GetNode, DialKubelet, PC, apiVars
<1>9. CASE Authorize
  <2>0. r.csrs[cur].phase = "present" /\ ~isApproved(r.csrs[cur]) /\ live' = live
        /\ Born(r.csrs[cur]) /\ Behind(r.csrs[cur], live[cur])
    BY <1>9 DEF Authorize, WorkerBehind, apiVars
  <2>1. ASSUME NEW failed, Decide(failed)
        PROVE  \/ (\E label \in PC \ {"idle"} : Go(label)) /\ WorkerBehind' /\ WorkerReason'
               \/ \E why : Finish(why) /\ Reason(why)
    <3> DEFINE verdict == authorizeCSR(Disabled, r.machines, Request[cur], r.csrs[cur].created,
                                       r.ca, Observed(failed))
    <3>1. verdict = "decline" => ~ValidServing(Request[cur])
      BY DeclineReason
    <3>2. \/ Go("approve") /\ UNCHANGED r
          \/ verdict = "decline" /\ Go("closingList") /\ r' = [r EXCEPT !.declined = TRUE]
          \/ Finish("error")
      BY <2>1 DEF Decide
    <3> HIDE DEF verdict
    <3>3. CASE Go("approve") /\ UNCHANGED r
      BY <1>4, <1>9, <2>0, <3>3 DEF Authorize, PC
    <3>4. CASE verdict = "decline" /\ Go("closingList") /\ r' = [r EXCEPT !.declined = TRUE]
      <4>1. r'.csrs = r.csrs /\ r'.declined = TRUE
        BY <1>0, <3>4 DEF Locals
      <4> QED
        BY <2>0, <3>1, <3>4, <4>1 DEF WorkerBehind, WorkerReason, Go, PC
    <3> QED
      BY <1>1, <3>2, <3>3, <3>4
  <2> QED
    BY <1>0, <1>9, <2>1 DEF Authorize
<1>10. CASE Approve
  <2>1. CASE /\ Accepts(r.csrs[cur]) /\ Go("closingList") /\ UNCHANGED r
             /\ Store(cur, [r.csrs[cur] EXCEPT !.by = "cma", !.at = now])
    <3>1. PICK obj \in Obj : Stored(cur, obj) /\ Settled(obj)
      BY <1>10, <2>1, ControllerStores DEF Approve
    <3>2. Onward /\ live'[cur] = obj
      BY <1>0, <3>1, StoredEffect
    <3>3. Born(r.csrs[cur]) /\ Behind(r.csrs[cur], live'[cur]) /\ ~r.declined
      BY <1>0, <1>2, <1>10, <3>2 DEF Approve, WorkerBehind, Onward, Behind
    <3>4. pc' = "closingList" /\ cur' = cur /\ r' = r
      BY <2>1 DEF Go
    <3>5. WorkerBehind'
      BY <3>3, <3>4 DEF WorkerBehind
    <3>6. WorkerReason'
      BY <3>1, <3>2, <3>3, <3>4 DEF WorkerReason
    <3> QED
      BY <1>0, <2>1, <3>5, <3>6 DEF PC
  <2> QED
    BY <1>0, <1>1, <1>10, <2>1 DEF Approve
<1>11. CASE ReconcileLimitsUncached
  <2>1. live' = live
    BY <1>11 DEF ReconcileLimitsUncached, apiVars
  <2>2. pc = "closingList" /\ (Finish("error") \/ Finish(IF r.declined THEN "declined" ELSE "done"))
    BY <1>11 DEF ReconcileLimitsUncached
  <2>3. CASE Finish("declined") /\ r.declined
    <3>1. Reason("declined")
      BY <2>3 DEF WorkerReason, Reason
    <3> QED
      BY <1>0, <2>3, <3>1
  <2>4. CASE Finish("done") /\ ~r.declined
    <3>1. Reason("done")
      BY <2>1, <2>2, <2>4 DEF WorkerReason, Reason
    <3> QED
      BY <1>0, <2>4, <3>1
  <2> QED
    BY <1>0, <1>1, <2>2, <2>3, <2>4
<1> QED
  BY <1>3, <1>5, <1>6, <1>7, <1>8, <1>9, <1>10, <1>11 DEF Reconcile, Dequeue

-----------------------------------------------------------------------------
\* Changes on their way.

\* Taking the first change leaves the others.
LEMMA HeadTail ==
  ASSUME NEW T, NEW q \in Seq(T), q # <<>>
  PROVE  /\ Head(q) \in T /\ Tail(q) \in Seq(T)
         /\ \E i \in 1..Len(q) : q[i] = Head(q)
         /\ \A i \in 1..Len(q) : q[i] = Head(q) \/ \E j \in 1..Len(Tail(q)) : Tail(q)[j] = q[i]
         /\ \A j \in 1..Len(Tail(q)) : \E i \in 1..Len(q) : q[i] = Tail(q)[j]
<1> DEFINE n == Len(q)
           t == Tail(q)
<1>1. /\ n \in Nat \ {0} /\ Len(t) = n - 1 /\ Head(q) = q[1] /\ t \in Seq(T) /\ q[1] \in T
      /\ \A i \in 1..(n - 1) : t[i] = q[i + 1]
  OBVIOUS
<1> HIDE DEF n, t
<1>2. ASSUME NEW i \in 1..n, i # 1 PROVE \E j \in 1..(n - 1) : t[j] = q[i]
  <2>1. i - 1 \in 1..(n - 1) /\ t[i - 1] = q[i]
    BY <1>1, <1>2
  <2> QED
    BY <2>1
<1>3. ASSUME NEW j \in 1..(n - 1) PROVE \E i \in 1..n : q[i] = t[j]
  BY <1>1
<1>4. 1 \in 1..n
  BY <1>1
<1> QED
  BY <1>1, <1>2, <1>3, <1>4 DEF n, t

\* Appending changes keeps the ones before.
LEMMA Concatenated ==
  ASSUME NEW T, NEW q \in Seq(T), NEW t \in Seq(T), NEW s, s = q \o t
  PROVE  /\ \A i \in 1..Len(q) : \E k \in 1..Len(s) : s[k] = q[i]
         /\ \A i \in 1..Len(t) : \E k \in 1..Len(s) : s[k] = t[i]
         /\ \A k \in 1..Len(s) : \/ \E i \in 1..Len(q) : q[i] = s[k]
                                 \/ \E i \in 1..Len(t) : t[i] = s[k]
<1> DEFINE n == Len(q)
           m == Len(t)
<1>1. /\ n \in Nat /\ m \in Nat /\ Len(s) = n + m
      /\ \A i \in 1..n : s[i] = q[i]
      /\ \A i \in 1..m : s[n + i] = t[i]
      /\ \A i \in (n + 1)..(n + m) : s[i] = t[i - n]
  OBVIOUS
<1> HIDE DEF n, m
<1>2. \A i \in 1..n : \E k \in 1..(n + m) : s[k] = q[i]
  BY <1>1
<1>3. \A i \in 1..m : n + i \in 1..(n + m)
  BY <1>1
<1>4. \A k \in 1..(n + m) : k \in 1..n \/ (k \in (n + 1)..(n + m) /\ k - n \in 1..m)
  BY <1>1
<1>5. \A i \in 1..m : \E k \in 1..(n + m) : s[k] = t[i]
  BY <1>1, <1>3
<1>6. \A k \in 1..(n + m) : (\E i \in 1..n : q[i] = s[k]) \/ (\E i \in 1..m : t[i] = s[k])
  BY <1>1, <1>4
<1>7. Len(s) = n + m
  BY <1>1
<1> QED
  BY <1>2, <1>5, <1>6, <1>7, Zenon DEF n, m

\* So does appending one.
LEMMA Appended ==
  ASSUME NEW T, NEW q \in Seq(T), NEW e \in T, NEW s, s = Append(q, e)
  PROVE  /\ \A i \in 1..Len(q) : \E k \in 1..Len(s) : s[k] = q[i]
         /\ \E k \in 1..Len(s) : s[k] = e
         /\ \A k \in 1..Len(s) : (\E i \in 1..Len(q) : q[i] = s[k]) \/ s[k] = e
<1> DEFINE n == Len(q)
<1>1. n \in Nat /\ Len(s) = n + 1 /\ s[n + 1] = e /\ \A i \in 1..n : s[i] = q[i]
  OBVIOUS
<1> HIDE DEF n
<1>2. \A i \in 1..n : \E k \in 1..(n + 1) : s[k] = q[i]
  BY <1>1
<1>3. n + 1 \in 1..(n + 1) /\ \A k \in 1..(n + 1) : k \in 1..n \/ k = n + 1
  BY <1>1
<1> QED
  BY <1>1, <1>2, <1>3 DEF n

\* What a change is about.
LEMMA ChangeParts ==
  ASSUME NEW q \in Seq(Change), NEW i \in 1..Len(q)
  PROVE  q[i] \in Change /\ q[i].csr \in CSR /\ q[i].obj \in Obj
<1>1. q[i] \in Change
  OBVIOUS
<1> QED
  BY <1>1 DEF Change

\* A listing reports each present object once, as it is.
LEMMA ListingReports ==
  ASSUME NEW objs \in [CSR -> Obj], NEW s \in SetToSeqs(Present(objs))
  PROVE  /\ Listing(s, objs) \in Seq(Change)
         /\ \A i \in 1..Len(Listing(s, objs)) :
              /\ Listing(s, objs)[i].csr \in Present(objs)
              /\ Listing(s, objs)[i].obj = objs[Listing(s, objs)[i].csr]
         /\ \A c \in Present(objs) : \E i \in 1..Len(Listing(s, objs)) : Listing(s, objs)[i].csr = c
<1>1. Present(objs) \in SUBSET CSR
  BY DEF Present
<1>2. /\ s \in Seq(CSR) /\ DOMAIN s = 1..Len(s)
      /\ \A i \in 1..Len(s) : s[i] \in Present(objs)
      /\ \A x \in Present(objs) : \E i \in 1..Len(s) : s[i] = x
  BY <1>1, CSRAssumption, OrderTyped
<1>3. Listing(s, objs) \in Seq(Change)
  BY ListingTyped
<1>4. DOMAIN Listing(s, objs) = 1..Len(s)
  BY <1>2 DEF Listing
<1>5. Len(Listing(s, objs)) = Len(s)
  BY <1>2, <1>3, <1>4
<1> DEFINE l == Listing(s, objs)
<1>6. \A i \in 1..Len(s) : l[i].csr = s[i] /\ l[i].obj = objs[s[i]]
  BY <1>2 DEF Listing
<1> HIDE DEF l
<1> QED
  BY <1>2, <1>3, <1>5, <1>6 DEF l

-----------------------------------------------------------------------------
\* Stale copies stay behind.

\* While the API server moves on, the informer's copies fall behind no further
\* than they may.
LEMMA InformerCarried ==
  ASSUME TypeOK, Onward, NotifsBehind, CacheBehind, UNCHANGED <<cache, notifs>>
  PROVE  NotifsBehind' /\ CacheBehind'
<1>1. ASSUME NEW i \in 1..Len(notifs)
      PROVE  EventBehind(notifs[i], live') /\ Born(cache[notifs[i].csr])
  <2>1. notifs[i].csr \in CSR
    BY ChangeParts DEF TypeOK, TypeInformer
  <2> QED
    BY <2>1 DEF NotifsBehind, EventBehind, Behind, Onward
<1>2. NotifsBehind'
  BY <1>1 DEF NotifsBehind
<1> QED
  BY <1>2 DEF CacheBehind, Behind, Onward

\* Neither does the copy the worker holds.
LEMMA WorkerCarried ==
  ASSUME TypeOK, Onward, WorkerBehind, WorkerReason, UNCHANGED <<pc, cur, r>>
  PROVE  WorkerBehind' /\ WorkerReason'
<1>1. pc # "idle" => Behind(live[cur], live'[cur])
  BY DEF TypeOK, TypeWorker, Onward
<1>2. WorkerBehind'
  BY <1>1 DEF WorkerBehind, Behind
<1>3. WorkerReason'
  BY <1>1 DEF WorkerReason, Behind
<1> QED
  BY <1>2, <1>3

\* An idle worker holds none.
LEMMA IdleWorker ==
  ASSUME pc' = "idle", r' = InitLocals
  PROVE  WorkerBehind' /\ WorkerReason'
<1>1. ~r'.declined
  BY DEF InitLocals
<1> QED
  BY <1>1 DEF WorkerBehind, WorkerReason

\* Without a write nothing goes backwards.
LEMMA LiveUnchanged ==
  ASSUME LiveBorn, UNCHANGED live
  PROVE  Onward /\ LiveBorn'
BY DEF Onward, Behind, Kept, LiveBorn

\* A write by anyone but the worker.
LEMMA StaleStore ==
  ASSUME TypeOK, StaleInv, NEW c \in CSR, NEW obj \in Obj, Stored(c, obj), UNCHANGED othersThanAPI
  PROVE  StaleInv' /\ Onward
<1> USE DEF StaleInv
<1>1. Onward /\ LiveBorn' /\ WatchBehind'
  BY StoredEffect
<1>2. NotifsBehind' /\ CacheBehind'
  BY <1>1, InformerCarried DEF othersThanAPI, infVars
<1>3. WorkerBehind' /\ WorkerReason'
  BY <1>1, WorkerCarried DEF othersThanAPI, workVars
<1>4. QueueKnown'
  BY DEF QueueKnown, othersThanAPI, infVars, queueVars
<1> QED
  BY <1>1, <1>2, <1>3, <1>4

\* The informer passes a change on.
LEMMA StaleDeliver ==
  ASSUME TypeOK, StaleInv, DeliverChange
  PROVE  StaleInv' /\ Onward
<1> USE DEF StaleInv
<1> DEFINE e == Head(watch)
<1>0. /\ live \in [CSR -> Obj] /\ watch \in Seq(Change) /\ watch # <<>>
      /\ cache \in [CSR -> Obj] /\ notifs \in Seq(Change) /\ UNCHANGED live
  BY DEF TypeOK, TypeAPI, TypeInformer, DeliverChange
<1>1. e \in Change /\ e.csr \in CSR /\ EventBehind(e, live)
  <2>1. PICK i \in 1..Len(watch) : watch[i] = e
    BY <1>0, HeadTail
  <2> QED
    BY <1>0, <2>1, ChangeParts DEF WatchBehind
<1>2. /\ cache' = [cache EXCEPT ![e.csr] = e.obj] /\ watch' = Tail(watch)
      /\ notifs' = Append(notifs, e)
  BY DEF DeliverChange
<1> HIDE DEF e
<1>3. /\ cache'[e.csr] = e.obj /\ \A c \in CSR \ {e.csr} : cache'[c] = cache[c]
      /\ \A c \in CSR : Born(cache[c]) => Born(cache'[c])
  BY <1>0, <1>1, <1>2 DEF EventBehind
<1>4. WatchBehind'
  BY <1>0, <1>2, HeadTail DEF WatchBehind
<1>5. NotifsBehind'
  <2>1. ASSUME NEW k \in 1..Len(notifs')
        PROVE  EventBehind(notifs'[k], live) /\ Born(cache'[notifs'[k].csr])
    <3>1. CASE notifs'[k] = e
      BY <1>1, <1>3, <3>1 DEF EventBehind
    <3>2. ASSUME NEW i \in 1..Len(notifs), notifs[i] = notifs'[k]
          PROVE  EventBehind(notifs'[k], live) /\ Born(cache'[notifs'[k].csr])
      <4>1. notifs[i].csr \in CSR
        BY <1>0, ChangeParts
      <4> QED
        BY <1>3, <3>2, <4>1 DEF NotifsBehind
    <3>3. (\E i \in 1..Len(notifs) : notifs[i] = notifs'[k]) \/ notifs'[k] = e
      BY <1>0, <1>1, <1>2, Appended
    <3> QED
      BY <3>1, <3>2, <3>3
  <2> QED
    BY <1>0, <2>1 DEF NotifsBehind
<1>6. CacheBehind'
  BY <1>0, <1>1, <1>3 DEF CacheBehind, EventBehind
<1>7. QueueKnown'
  <2>1. UNCHANGED <<wq, waiting>> /\ wq.dirty \cup wq.processing \cup waiting \in SUBSET CSR
    BY DEF DeliverChange, queueVars, TypeOK, TypeQueue, WQType
  <2> QED
    BY <1>3, <2>1 DEF QueueKnown
<1>8. Onward /\ LiveBorn'
  BY <1>0, LiveUnchanged
<1>9. WorkerBehind' /\ WorkerReason'
  BY <1>8, WorkerCarried DEF DeliverChange, workVars
<1> QED
  BY <1>4, <1>5, <1>6, <1>7, <1>8, <1>9

\* The caches are filled from a list.
LEMMA StaleListed ==
  ASSUME TypeOK, StaleInv, InformerRelist \/ Restart
  PROVE  StaleInv' /\ Onward
<1> USE DEF StaleInv
<1>0. live \in [CSR -> Obj] /\ cache \in [CSR -> Obj] /\ notifs \in Seq(Change)
  BY DEF TypeOK, TypeAPI, TypeInformer
<1>1. watch' = <<>> /\ cache' = live /\ UNCHANGED live
  BY DEF InformerRelist, Restart
<1>2. Onward /\ LiveBorn'
  BY <1>1, LiveUnchanged
<1>3. WatchBehind'
  BY <1>1 DEF WatchBehind
<1>4. CacheBehind'
  BY <1>1 DEF CacheBehind, Behind
<1>5. NotifsBehind'
  <2>1. PICK s \in SetToSeqs(Present(live)) :
          notifs' = notifs \o Listing(s, live) \/ notifs' = Listing(s, live)
    BY DEF InformerRelist, Restart
  <2> DEFINE l == Listing(s, live)
  <2>2. l \in Seq(Change)
    BY <1>0, ListingReports
  <2>3. ASSUME NEW i \in 1..Len(l) PROVE EventBehind(l[i], live) /\ Born(live[l[i].csr])
    <3>1. l[i].csr \in Present(live) /\ l[i].obj = live[l[i].csr]
      BY <1>0, ListingReports
    <3> QED
      BY <3>1 DEF EventBehind, Behind, Born, Present
  <2> HIDE DEF l
  <2>4. ASSUME NEW i \in 1..Len(notifs) PROVE EventBehind(notifs[i], live) /\ Born(live[notifs[i].csr])
    <3>1. notifs[i].csr \in CSR
      BY <1>0, ChangeParts
    <3> QED
      BY <3>1 DEF NotifsBehind, CacheBehind, Behind
  <2>5. \A k \in 1..Len(notifs') : \/ \E i \in 1..Len(notifs) : notifs[i] = notifs'[k]
                                   \/ \E i \in 1..Len(l) : l[i] = notifs'[k]
    <3>1. CASE notifs' = l
      BY <3>1
    <3>2. CASE notifs' = notifs \o l
      BY <1>0, <2>2, <3>2, Concatenated
    <3> QED
      BY <2>1, <3>1, <3>2 DEF l
  <2> QED
    BY <1>1, <2>3, <2>4, <2>5 DEF NotifsBehind
<1>6. CASE InformerRelist
  <2>1. QueueKnown'
    <3>1. UNCHANGED <<wq, waiting>> /\ wq.dirty \cup wq.processing \cup waiting \in SUBSET CSR
      BY <1>6 DEF InformerRelist, queueVars, TypeOK, TypeQueue, WQType
    <3> QED
      BY <1>1, <3>1 DEF QueueKnown, CacheBehind, Behind
  <2>2. WorkerBehind' /\ WorkerReason'
    BY <1>2, <1>6, WorkerCarried DEF InformerRelist, workVars
  <2> QED
    BY <1>2, <1>3, <1>4, <1>5, <2>1, <2>2
<1>7. CASE Restart
  <2>1. QueueKnown'
    BY <1>7 DEF Restart, QueueKnown, WQEmpty
  <2>2. WorkerBehind' /\ WorkerReason'
    BY <1>7, IdleWorker DEF Restart
  <2> QED
    BY <1>2, <1>3, <1>4, <1>5, <2>1, <2>2
<1> QED
  BY <1>6, <1>7

\* The handlers only move what the informer told them into the queue.
LEMMA StaleQueued ==
  ASSUME TypeOK, StaleInv, UNCHANGED <<live, watch, cache, pc, cur, r>>, NotifsBehind',
         \A c \in wq'.dirty \cup wq'.processing \cup waiting' :
           c \in wq.dirty \cup wq.processing \cup waiting \/ Born(cache[c])
  PROVE  StaleInv' /\ Onward
<1> USE DEF StaleInv
<1>1. Onward /\ LiveBorn'
  BY LiveUnchanged
<1>2. WatchBehind' /\ CacheBehind' /\ QueueKnown'
  BY DEF WatchBehind, CacheBehind, QueueKnown
<1>3. WorkerBehind' /\ WorkerReason'
  BY <1>1, WorkerCarried
<1> QED
  BY <1>1, <1>2, <1>3

LEMMA StaleHandled ==
  ASSUME TypeOK, QueueConsistent, StaleInv,
         HandleChange \/ HandleCA \/ Resync \/ \E c \in CSR : AddAfterBackoff(c)
  PROVE  StaleInv' /\ Onward
<1>0. /\ wq \in WQType(CSR) /\ WQConsistent(wq) /\ UNCHANGED <<live, watch, cache, pc, cur, r>>
      /\ cache \in [CSR -> Obj] /\ notifs \in Seq(Change)
  BY DEF TypeOK, TypeQueue, TypeInformer, QueueConsistent, HandleChange, HandleCA, Resync,
    AddAfterBackoff, apiVars, infVars, workVars
<1>1. CASE HandleChange
  <2> DEFINE e == Head(notifs)
  <2>1. PICK i \in 1..Len(notifs) : notifs[i] = e
    BY <1>0, <1>1, HeadTail DEF HandleChange
  <2>2. e.csr \in CSR /\ Born(cache[e.csr])
    BY <1>0, <2>1, ChangeParts DEF StaleInv, NotifsBehind
  <2>3. NotifsBehind'
    <3>1. \A j \in 1..Len(notifs') : \E k \in 1..Len(notifs) : notifs[k] = notifs'[j]
      BY <1>0, <1>1, HeadTail DEF HandleChange
    <3> QED
      BY <1>0, <3>1 DEF StaleInv, NotifsBehind
  <2>4. UNCHANGED waiting /\ (wq' = wq \/ wq' = WQAdd(wq, e.csr))
    BY <1>1 DEF HandleChange
  <2> HIDE DEF e
  <2>5. \/ wq' = wq
        \/ wq'.dirty = wq.dirty \cup {e.csr} /\ wq'.processing = wq.processing
    BY <1>0, <2>2, <2>4, AddConsistent
  <2> QED
    BY <1>0, <2>2, <2>3, <2>4, <2>5, StaleQueued
<1>2. CASE HandleCA
  <2>1. NotifsBehind' /\ UNCHANGED waiting
    BY <1>0, <1>2 DEF HandleCA, infVars, StaleInv, NotifsBehind
  <2>2. ASSUME NEW S \in SUBSET toCSRs, NEW order \in WQOrders(wq, S), wq' = WQAddAll(wq, S, order)
        PROVE  StaleInv' /\ Onward
    <3>1. S \in SUBSET CSR /\ \A c \in S : Born(cache[c])
      BY DEF toCSRs, Present, Born
    <3>2. wq'.dirty = wq.dirty \cup S /\ wq'.processing = wq.processing
      BY <1>0, <2>2, <3>1, AddAllConsistent, CSRAssumption
    <3> QED
      BY <1>0, <2>1, <3>1, <3>2, StaleQueued
  <2>3. CASE UNCHANGED wq
    BY <1>0, <2>1, <2>3, StaleQueued
  <2>4. toCSRs \in SUBSET toCSRs /\ {} \in SUBSET toCSRs
    OBVIOUS
  <2> QED
    BY <1>2, <2>2, <2>3, <2>4 DEF HandleCA
<1>3. CASE Resync
  <2>1. PICK s \in SetToSeqs(Present(cache)) : notifs' = Listing(s, cache)
    BY <1>3 DEF Resync
  <2>2. ASSUME NEW i \in 1..Len(notifs')
        PROVE  EventBehind(notifs'[i], live) /\ Born(cache[notifs'[i].csr])
    <3>1. notifs'[i].csr \in Present(cache) /\ notifs'[i].obj = cache[notifs'[i].csr]
      BY <1>0, <2>1, ListingReports
    <3> QED
      BY <3>1 DEF EventBehind, Born, Present, StaleInv, CacheBehind
  <2>3. NotifsBehind'
    BY <1>0, <2>2 DEF NotifsBehind
  <2> QED
    BY <1>0, <1>3, <2>3, StaleQueued DEF Resync, queueVars
<1>4. ASSUME NEW c \in CSR, AddAfterBackoff(c) PROVE StaleInv' /\ Onward
  <2>1. NotifsBehind' /\ waiting' = waiting \ {c} /\ c \in waiting /\ wq' = WQAdd(wq, c)
    BY <1>0, <1>4 DEF AddAfterBackoff, infVars, StaleInv, NotifsBehind
  <2>2. wq'.dirty = wq.dirty \cup {c} /\ wq'.processing = wq.processing
    BY <1>0, <2>1, AddConsistent
  <2> QED
    BY <1>0, <2>1, <2>2, StaleQueued
<1> QED
  BY <1>1, <1>2, <1>3, <1>4

\* A step of the worker.
LEMMA StaleReconcile ==
  ASSUME TypeOK, QueueConsistent, StaleInv, Reconcile
  PROVE  StaleInv' /\ Onward
<1> USE DEF StaleInv
<1>0. wq \in WQType(CSR) /\ WQConsistent(wq) /\ UNCHANGED <<cache, notifs>>
  BY WorkerWrites DEF TypeOK, TypeQueue, QueueConsistent, infVars
<1>1. Onward /\ LiveBorn' /\ WatchBehind'
  <2>1. CASE UNCHANGED apiVars
    BY <2>1, LiveUnchanged DEF WatchBehind, apiVars
  <2>2. CASE cur \in CSR /\ \E obj \in Obj : Stored(cur, obj)
    BY <2>2, StoredEffect
  <2> QED
    BY <2>1, <2>2, WorkerWrites
<1>2. NotifsBehind' /\ CacheBehind'
  BY <1>0, <1>1, InformerCarried
<1>3. CASE pc = "idle"
  <2>1. Dequeue
    BY <1>3, WorkerMoves
  <2>2. /\ Head(wq.queue) \in wq.dirty /\ waiting' = waiting
        /\ wq'.dirty = wq.dirty \ {Head(wq.queue)}
        /\ wq'.processing = wq.processing \cup {Head(wq.queue)}
    BY <1>0, <2>1, GetConsistent DEF Dequeue
  <2>3. QueueKnown'
    BY <1>0, <2>2 DEF QueueKnown
  <2>4. WorkerBehind' /\ WorkerReason'
    BY <1>3, <2>1 DEF Dequeue, WorkerBehind, WorkerReason
  <2> QED
    BY <1>1, <1>2, <2>3, <2>4
<1>4. CASE pc # "idle"
  <2>1. CASE (\E label \in PC \ {"idle"} : Go(label)) /\ WorkerBehind' /\ WorkerReason'
    <3>1. QueueKnown'
      BY <1>0, <2>1 DEF QueueKnown, Go, queueVars
    <3> QED
      BY <1>1, <1>2, <2>1, <3>1
  <2>2. ASSUME NEW why, Finish(why) PROVE StaleInv'
    <3>1. cur \in wq.processing
      BY <1>4, WorkerSound
    <3>2. wq'.dirty = wq.dirty /\ wq'.processing = wq.processing \ {cur}
      BY <1>0, <2>2, <3>1, DoneConsistent DEF Finish
    <3>3. waiting' \in {waiting, waiting \cup {cur}}
      BY <2>2 DEF Finish
    <3>4. QueueKnown'
      BY <1>0, <3>1, <3>2, <3>3 DEF QueueKnown
    <3>5. WorkerBehind' /\ WorkerReason'
      BY <2>2, IdleWorker DEF Finish
    <3> QED
      BY <1>1, <1>2, <3>4, <3>5
  <2> QED
    BY <1>1, <1>4, <2>1, <2>2, WorkerSound
<1> QED
  BY <1>3, <1>4

\* The part of the state that wakeups depend on.
wakeVars == <<live, watch, cache, notifs, wq, waiting, pc, cur, r, dropped>>

\* The other steps do not touch it.
LEMMA WakeSteps ==
  ASSUME [Next]_vars
  PROVE  \/ UNCHANGED wakeVars
         \/ /\ UNCHANGED othersThanAPI
            /\ \E c \in CSR : OthersWrite(c)
         \/ DeliverChange
         \/ InformerRelist \/ Restart
         \/ HandleChange \/ HandleCA \/ Resync \/ \E c \in CSR : AddAfterBackoff(c)
         \/ Reconcile
<1>1. CASE Environment
  BY <1>1 DEF Environment, OthersWrite, CreateCSR, ApproveExternally, ApproveByPeer, DenyExternally, DeleteCSR,
    CreateMachine, ProvisionMachine, DeleteMachine, LinkNode, ToggleNode, Listen, Tick, RotateCA,
    othersThanWorld, wakeVars, apiVars, infVars, queueVars, workVars
<1>2. CASE DeliverCA
  BY <1>2 DEF DeliverCA, wakeVars, apiVars, infVars, queueVars, workVars
<1>3. CASE UNCHANGED vars
  BY <1>3 DEF vars, wakeVars, apiVars, infVars, queueVars, workVars
<1> QED
  BY <1>1, <1>2, <1>3 DEF Next, Informer

\* Every step leaves the stale copies behind, and no CSR goes backwards.
LEMMA StaleStep ==
  ASSUME TypeOK, QueueConsistent, StaleInv, [Next]_vars
  PROVE  StaleInv' /\ Onward
<1>1. CASE UNCHANGED wakeVars
  BY <1>1 DEF wakeVars, StaleInv, WatchBehind, NotifsBehind, CacheBehind, QueueKnown, WorkerBehind,
    WorkerReason, LiveBorn, Onward, Behind, Kept
<1>2. ASSUME UNCHANGED othersThanAPI, NEW c \in CSR,
             OthersWrite(c)
      PROVE  StaleInv' /\ Onward
  <2>1. PICK obj \in Obj : Stored(c, obj)
    BY <1>2, OthersStore DEF StaleInv
  <2> QED
    BY <1>2, <2>1, StaleStore
<1> QED
  BY <1>1, <1>2, WakeSteps, StaleDeliver, StaleListed, StaleHandled, StaleReconcile

-----------------------------------------------------------------------------
\* No wakeup is lost.

\* A copy of a pending CSR that exists passes the filter.
LEMMA PendingPasses ==
  ASSUME NEW o \in Obj, NEW l, Born(o), Behind(o, l), ~Settled(l)
  PROVE  o.phase # "deleted" /\ pendingCertFilter(o, now)
<1>1. o.phase = "present" /\ ~Settled(o)
  BY DEF Obj, Born, Behind, Settled
<1> QED
  BY <1>1 DEF Settled, pendingCertFilter

\* A write by anyone but the worker, and a step of the informer or the handlers.
LEMMA WakeupStore ==
  ASSUME TypeOK, StaleInv, NoLostWakeup, NEW c \in CSR, NEW obj \in Obj, Stored(c, obj),
         UNCHANGED othersThanAPI
  PROVE  NoLostWakeup'
<1> SUFFICES ASSUME NEW d \in CSR, Pending(d)', ~LetGo(d)' PROVE Tracked(d)'
  BY DEF NoLostWakeup
<1>1. /\ live'[c] = obj /\ \A x \in CSR \ {c} : live'[x] = live[x]
      /\ \E i \in 1..Len(watch') : watch'[i].csr = c
      /\ \A x : (\E i \in 1..Len(watch) : watch[i].csr = x) =>
                  \E i \in 1..Len(watch') : watch'[i].csr = x
  BY StoredEffect DEF StaleInv
<1>2. UNCHANGED <<notifs, wq, waiting, dropped>>
  BY DEF othersThanAPI, infVars, queueVars
<1>3. CASE d = c
  BY <1>1, <1>3 DEF Tracked
<1>4. CASE d # c
  <2>1. Pending(d) /\ ~LetGo(d)
    BY <1>1, <1>2, <1>4 DEF Pending, LetGo
  <2>2. Tracked(d)
    BY <2>1 DEF NoLostWakeup
  <2> QED
    BY <1>1, <1>2, <2>2 DEF Tracked
<1> QED
  BY <1>3, <1>4

LEMMA WakeupInformer ==
  ASSUME TypeOK, QueueConsistent, StaleInv, NoLostWakeup,
         \/ DeliverChange
         \/ HandleChange \/ HandleCA \/ Resync \/ \E c \in CSR : AddAfterBackoff(c)
  PROVE  NoLostWakeup'
<1> SUFFICES ASSUME NEW d \in CSR, Pending(d)', ~LetGo(d)' PROVE Tracked(d)'
  BY DEF NoLostWakeup
<1>0. /\ wq \in WQType(CSR) /\ WQConsistent(wq) /\ UNCHANGED <<live, dropped>>
      /\ watch \in Seq(Change) /\ notifs \in Seq(Change)
  BY DEF TypeOK, TypeQueue, TypeAPI, TypeInformer, QueueConsistent, DeliverChange, HandleChange,
    HandleCA, Resync, AddAfterBackoff, apiVars
<1>1. Tracked(d) /\ ~Settled(live[d])
  <2>1. Pending(d) /\ ~LetGo(d)
    BY <1>0 DEF Pending, LetGo
  <2> QED
    BY <2>1 DEF NoLostWakeup, Pending, Settled
<1>2. CASE DeliverChange
  <2> DEFINE e == Head(watch)
  <2>1. /\ watch # <<>> /\ watch' = Tail(watch) /\ notifs' = Append(notifs, e)
        /\ UNCHANGED <<wq, waiting>>
    BY <1>2 DEF DeliverChange, queueVars
  <2>2. /\ e \in Change
        /\ \A i \in 1..Len(watch) : watch[i] = e \/ \E j \in 1..Len(watch') : watch'[j] = watch[i]
    BY <1>0, <2>1, HeadTail
  <2> HIDE DEF e
  <2>3. /\ \A i \in 1..Len(notifs) : \E k \in 1..Len(notifs') : notifs'[k] = notifs[i]
        /\ \E k \in 1..Len(notifs') : notifs'[k] = e
    BY <1>0, <2>1, <2>2, Appended
  <2>4. ASSUME NEW i \in 1..Len(watch), watch[i].csr = d PROVE Tracked(d)'
    <3>1. CASE watch[i] = e
      BY <2>3, <2>4, <3>1 DEF Tracked
    <3>2. CASE \E j \in 1..Len(watch') : watch'[j] = watch[i]
      BY <2>4, <3>2 DEF Tracked
    <3> QED
      BY <2>2, <3>1, <3>2
  <2>5. ASSUME NEW i \in 1..Len(notifs), notifs[i].csr = d PROVE Tracked(d)'
    BY <2>3, <2>5 DEF Tracked
  <2> QED
    BY <1>1, <2>1, <2>4, <2>5 DEF Tracked
<1>3. CASE HandleChange
  <2> DEFINE e == Head(notifs)
  <2>1. notifs # <<>> /\ notifs' = Tail(notifs) /\ UNCHANGED <<watch, waiting>>
    BY <1>3 DEF HandleChange, apiVars
  <2>2. /\ \E i \in 1..Len(notifs) : notifs[i] = e
        /\ \A i \in 1..Len(notifs) : notifs[i] = e \/ \E j \in 1..Len(notifs') : notifs'[j] = notifs[i]
    BY <1>0, <2>1, HeadTail
  <2>3. e.csr \in CSR /\ e.obj \in Obj /\ EventBehind(e, live)
    BY <1>0, <2>2, ChangeParts DEF StaleInv, NotifsBehind
  <2>4. wq' = IF e.obj.phase # "deleted" /\ pendingCertFilter(e.obj, now) THEN WQAdd(wq, e.csr) ELSE wq
    BY <1>3 DEF HandleChange
  <2> HIDE DEF e
  <2>5. wq.dirty \in SUBSET wq'.dirty /\ wq'.processing = wq.processing
    BY <1>0, <2>3, <2>4, AddConsistent
  <2>6. e.csr = d => d \in wq'.dirty
    <3> HAVE e.csr = d
    <3>1. e.obj.phase # "deleted" /\ pendingCertFilter(e.obj, now)
      BY <1>1, <2>3, PendingPasses DEF EventBehind
    <3> QED
      BY <1>0, <2>3, <2>4, <3>1, AddConsistent
  <2> QED
    BY <1>1, <2>1, <2>2, <2>5, <2>6 DEF Tracked
<1>4. CASE HandleCA
  <2>1. UNCHANGED <<watch, notifs, waiting>>
    BY <1>4 DEF HandleCA, apiVars, infVars
  <2>2. ASSUME NEW S \in SUBSET CSR, NEW order \in WQOrders(wq, S), wq' = WQAddAll(wq, S, order)
        PROVE  wq.dirty \in SUBSET wq'.dirty /\ wq'.processing = wq.processing
    BY <1>0, <2>2, AddAllConsistent, CSRAssumption
  <2>3. toCSRs \in SUBSET CSR /\ {} \in SUBSET CSR
    BY DEF toCSRs, Present
  <2>4. wq.dirty \in SUBSET wq'.dirty /\ wq'.processing = wq.processing
    BY <1>4, <2>2, <2>3 DEF HandleCA
  <2> QED
    BY <1>1, <2>1, <2>4 DEF Tracked
<1>5. CASE Resync
  <2>1. notifs = <<>> /\ UNCHANGED <<watch, wq, waiting>>
    BY <1>5 DEF Resync, apiVars, queueVars
  <2> QED
    BY <1>1, <2>1 DEF Tracked
<1>6. ASSUME NEW c \in CSR, AddAfterBackoff(c) PROVE Tracked(d)'
  <2>1. UNCHANGED <<watch, notifs>> /\ waiting' = waiting \ {c} /\ wq' = WQAdd(wq, c)
    BY <1>6 DEF AddAfterBackoff, apiVars, infVars
  <2>2. wq'.dirty = wq.dirty \cup {c} /\ wq'.processing = wq.processing
    BY <1>0, <2>1, AddConsistent
  <2> QED
    BY <1>1, <2>1, <2>2 DEF Tracked
<1> QED
  BY <1>2, <1>3, <1>4, <1>5, <1>6

\* A list reports every pending CSR.
LEMMA WakeupListed ==
  ASSUME TypeOK, InformerRelist \/ Restart
  PROVE  NoLostWakeup'
<1> SUFFICES ASSUME NEW d \in CSR, Pending(d)' PROVE Tracked(d)'
  BY DEF NoLostWakeup
<1>0. live \in [CSR -> Obj] /\ notifs \in Seq(Change) /\ UNCHANGED live
  BY DEF TypeOK, TypeAPI, TypeInformer, InformerRelist, Restart
<1>1. PICK s \in SetToSeqs(Present(live)) :
        notifs' = notifs \o Listing(s, live) \/ notifs' = Listing(s, live)
  BY DEF InformerRelist, Restart
<1> DEFINE l == Listing(s, live)
<1>2. l \in Seq(Change)
  BY <1>0, ListingReports
<1>3. d \in Present(live)
  BY <1>0 DEF Pending, Present
<1>4. PICK i \in 1..Len(l) : l[i].csr = d
  BY <1>0, <1>3, ListingReports
<1> HIDE DEF l
<1>5. \E k \in 1..Len(notifs') : notifs'[k] = l[i]
  <2>1. CASE notifs' = l
    BY <2>1
  <2>2. CASE notifs' = notifs \o l
    <3>1. \A j \in 1..Len(l) : \E k \in 1..Len(notifs') : notifs'[k] = l[j]
      <4>1. notifs \in Seq(Change) /\ l \in Seq(Change)
        BY <1>0, <1>2
      <4> QED
        BY <2>2, <4>1, Concatenated
    <3> QED
      BY <3>1
  <2> QED
    BY <1>1, <2>1, <2>2 DEF l
<1> QED
  BY <1>4, <1>5 DEF Tracked

\* The worker keeps its CSR, or lets go of it for one of the reasons.
LEMMA WakeupReconcile ==
  ASSUME TypeOK, QueueConsistent, StaleInv, NoLostWakeup, Reconcile
  PROVE  NoLostWakeup'
<1> SUFFICES ASSUME NEW d \in CSR, Pending(d)', ~LetGo(d)' PROVE Tracked(d)'
  BY DEF NoLostWakeup
<1>0. /\ wq \in WQType(CSR) /\ WQConsistent(wq) /\ UNCHANGED notifs
      /\ dropped \in [CSR -> {"no", "ignored", "declined"}]
  BY WorkerWrites DEF StaleInv, TypeOK, TypeQueue, TypeHistory, QueueConsistent, infVars
<1>1. /\ \A x : (\E i \in 1..Len(watch) : watch[i].csr = x) =>
                  \E i \in 1..Len(watch') : watch'[i].csr = x
      /\ live'[d] = live[d] \/ \E i \in 1..Len(watch') : watch'[i].csr = d
  <2>1. CASE UNCHANGED apiVars
    BY <2>1 DEF apiVars
  <2>2. ASSUME cur \in CSR, NEW obj \in Obj, Stored(cur, obj)
        PROVE  /\ \A x : (\E i \in 1..Len(watch) : watch[i].csr = x) =>
                           \E i \in 1..Len(watch') : watch'[i].csr = x
               /\ live'[d] = live[d] \/ \E i \in 1..Len(watch') : watch'[i].csr = d
    <3>1. /\ \A x \in CSR \ {cur} : live'[x] = live[x]
          /\ \E i \in 1..Len(watch') : watch'[i].csr = cur
          /\ \A x : (\E i \in 1..Len(watch) : watch[i].csr = x) =>
                      \E i \in 1..Len(watch') : watch'[i].csr = x
      BY <2>2, StoredEffect DEF StaleInv
    <3>2. CASE d = cur
      BY <3>1, <3>2, Zenon
    <3>3. CASE d # cur
      BY <3>1, <3>3, Zenon
    <3> QED
      BY <3>2, <3>3
  <2> QED
    BY <2>1, <2>2, WorkerWrites DEF StaleInv
<1>2. CASE \E i \in 1..Len(watch') : watch'[i].csr = d
  BY <1>2 DEF Tracked
<1>3. CASE live'[d] = live[d]
  <2>0. dropped'[d] = dropped[d] => Tracked(d)
    <3> HAVE dropped'[d] = dropped[d]
    <3>1. Pending(d) /\ ~LetGo(d)
      BY <1>3 DEF Pending, LetGo
    <3> QED
      BY <3>1 DEF NoLostWakeup
  <2>1. CASE pc = "idle"
    <3> DEFINE h == Head(wq.queue)
    <3>1. Dequeue
      BY <2>1, WorkerMoves
    <3>2. /\ h \in wq.dirty /\ wq'.dirty = wq.dirty \ {h}
          /\ wq'.processing = wq.processing \cup {h}
      BY <1>0, <3>1, GetConsistent DEF Dequeue
    <3>3. waiting' = waiting /\ dropped' = [dropped EXCEPT ![h] = "no"]
      BY <3>1 DEF Dequeue
    <3> HIDE DEF h
    <3>4. CASE d = h
      BY <3>2, <3>4 DEF Tracked
    <3>5. CASE d # h
      <4>1. Tracked(d)
        BY <1>0, <2>0, <3>3, <3>5
      <4> QED
        BY <1>0, <1>1, <3>2, <3>3, <4>1 DEF Tracked
    <3> QED
      BY <3>4, <3>5
  <2>2. CASE pc # "idle" /\ \E label \in PC \ {"idle"} : Go(label)
    <3>1. UNCHANGED <<wq, waiting, dropped>>
      BY <2>2 DEF Go, queueVars
    <3> QED
      BY <1>0, <1>1, <2>0, <3>1 DEF Tracked
  <2>3. ASSUME pc # "idle", NEW why, Finish(why), Reason(why) PROVE Tracked(d)'
    <3>1. cur \in CSR /\ cur \in wq.processing
      BY <2>3, WorkerSound
    <3>2. wq'.dirty = wq.dirty /\ wq'.processing = wq.processing \ {cur}
      BY <1>0, <2>3, <3>1, DoneConsistent DEF Finish
    <3>3. /\ waiting' = IF why = "error" THEN waiting \cup {cur} ELSE waiting
          /\ dropped' = IF why \in {"ignored", "declined"} THEN [dropped EXCEPT ![cur] = why]
                        ELSE dropped
      BY <2>3 DEF Finish
    <3>4. CASE d = cur
      <4>1. CASE why = "error"
        BY <3>3, <3>4, <4>1 DEF Tracked
      <4>2. CASE why \in {"ignored", "declined"}
        <5>1. dropped'[d] = why
          BY <1>0, <3>1, <3>3, <3>4, <4>2
        <5> QED
          BY <2>3, <3>4, <4>2, <5>1 DEF LetGo, Reason
      <4>3. CASE why \in {"notfound", "done"}
        BY <2>3, <3>4, <4>3 DEF Reason, Pending, Settled
      <4> QED
        BY <2>3, <4>1, <4>2, <4>3 DEF Reason
    <3>5. CASE d # cur
      <4>1. dropped'[d] = dropped[d]
        BY <1>0, <3>3, <3>5
      <4> QED
        BY <1>0, <1>1, <2>0, <3>2, <3>3, <3>5, <4>1 DEF Tracked
    <3> QED
      BY <3>4, <3>5
  <2> QED
    BY <2>1, <2>2, <2>3, WorkerSound
<1> QED
  BY <1>1, <1>2, <1>3

\* Every step keeps the invariant.
LEMMA WakeupStep ==
  ASSUME TypeOK, QueueConsistent, StaleInv, NoLostWakeup, [Next]_vars
  PROVE  NoLostWakeup'
<1>1. CASE UNCHANGED wakeVars
  BY <1>1 DEF wakeVars, NoLostWakeup, Pending, LetGo, Tracked
<1>2. ASSUME UNCHANGED othersThanAPI, NEW c \in CSR,
             OthersWrite(c)
      PROVE  NoLostWakeup'
  <2>1. PICK obj \in Obj : Stored(c, obj)
    BY <1>2, OthersStore DEF StaleInv
  <2> QED
    BY <1>2, <2>1, WakeupStore
<1> QED
  BY <1>1, <1>2, WakeSteps, WakeupInformer, WakeupListed, WakeupReconcile

\* The invariant holds to begin with.
LEMMA WakeupInit == Init => StaleInv /\ NoLostWakeup
<1> SUFFICES ASSUME Init PROVE StaleInv /\ NoLostWakeup
  OBVIOUS
<1>1. \A c \in CSR : live[c] = Unborn
  BY DEF Init
<1>2. /\ Unborn.phase = "unborn" /\ ~Born(Unborn) /\ ~Settled(Unborn)
      /\ ~isApproved(Unborn) /\ ~Unborn.denied
  BY DEF Unborn, Born, Settled, isApproved
<1>3. WatchBehind /\ NotifsBehind /\ QueueKnown
  BY DEF Init, WatchBehind, NotifsBehind, QueueKnown, WQEmpty
<1>4. CacheBehind /\ LiveBorn
  BY <1>1, <1>2 DEF Init, CacheBehind, Behind, LiveBorn
<1>5. WorkerBehind /\ WorkerReason
  BY DEF Init, WorkerBehind, WorkerReason, InitLocals
<1>6. NoLostWakeup
  BY <1>1, <1>2 DEF NoLostWakeup, Pending
<1> QED
  BY <1>3, <1>4, <1>5, <1>6 DEF StaleInv

\* The inductive invariant is an invariant.
LEMMA WakeupInvariant == Spec => []WakeupInv
<1>1. TypeOK /\ QueueConsistent /\ (StaleInv /\ NoLostWakeup) /\ [Next]_vars
        => (StaleInv /\ NoLostWakeup)'
  BY StaleStep, WakeupStep
<1> QED
  BY <1>1, WakeupInit, TypeCorrect, QueueSound, PTL DEF Spec, WakeupInv

\* Whatever is stale, lost, late or retried, a CSR that is pending in the API
\* server and that the controller did not let go on purpose is on its way to a
\* reconcile: on the watch, with the handler, in the queue, in the worker's
\* hands or in back-off.
THEOREM Wakeup == Spec => []NoLostWakeup
BY WakeupInvariant, PTL DEF WakeupInv

\* An approval or a denial, whoever made it, is never changed by a reconcile
\* that still works on an older version of the object.
THEOREM DecisionsKept == Spec => DecisionFinal
<1> DEFINE Final == \A c \in CSR : isApproved(live[c]) \/ live[c].denied =>
                      /\ live'[c].by = live[c].by /\ live'[c].at = live[c].at
                      /\ live'[c].denied = live[c].denied
<1>1. WakeupInv /\ [Next]_vars => [Final]_vars
  <2> SUFFICES ASSUME TypeOK, QueueConsistent, StaleInv, [Next]_vars PROVE Final
    BY DEF WakeupInv
  <2>1. Onward
    BY StaleStep
  <2> QED
    BY <2>1 DEF Onward, Kept, Decided
<1>2. Spec => [][Final]_vars
  BY <1>1, WakeupInvariant, PTL DEF Spec
<1> QED
  BY <1>2 DEF DecisionFinal
=============================================================================
