-------------------------- MODULE ControllerProofs --------------------------
(***************************************************************************)
(* What those who do not look inside the controller can rely on, for every *)
(* cluster: the CSRs follow their life cycle (CSRLifecycle), and the       *)
(* pending metric settles.  Besides what stale copies can be trusted for   *)
(* (WakeupProofs) the first needs that nobody approves what is denied, and *)
(* that a worker about to approve has the request of a node before it; the *)
(* second that whatever makes the metric wrong also wakes the worker, and  *)
(* that every reconcile that ends well ends with an uncached list.         *)
(***************************************************************************)
EXTENDS WakeupProofs

-----------------------------------------------------------------------------
\* The life cycle of a CSR.

\* A decision is an approval or a denial, and only an approval has a time.
OneDecision ==
  \A c \in CSR : /\ live[c].denied => live[c].by = "none"
                 /\ live[c].by = "none" => live[c].at = 0

\* What the checks before each step of the worker have established.
WorkerChecked ==
  /\ pc \in {"getServingCert", "dial", "authorize"} => Request[cur].parses
  /\ pc = "approve" => NodeRequest(Request[cur])

\* The inductive invariant, together with that of WakeupProofs.
LifeInv == OneDecision /\ WorkerChecked

-----------------------------------------------------------------------------
\* The states of the abstract specification.

LEMMA States ==
  ASSUME NEW obj \in Obj
  PROVE  /\ obj.phase = "unborn" =>
              StateOf(obj) = [stage |-> "unborn", by |-> "none", at |-> 0]
         /\ obj.phase = "deleted" =>
              StateOf(obj) = [stage |-> "gone", by |-> "none", at |-> 0]
         /\ obj.phase = "present" /\ obj.denied =>
              StateOf(obj) = [stage |-> "denied", by |-> obj.by, at |-> obj.at]
         /\ obj.phase = "present" /\ ~obj.denied /\ isApproved(obj) =>
              StateOf(obj) = [stage |-> "approved", by |-> obj.by, at |-> obj.at]
         /\ obj.phase = "present" /\ ~obj.denied /\ ~isApproved(obj) =>
              StateOf(obj) = [stage |-> "pending", by |-> obj.by, at |-> obj.at]
<1>1. CASE obj.phase = "unborn"
  BY <1>1 DEF StateOf
<1>2. CASE obj.phase = "deleted"
  BY <1>2 DEF StateOf
<1>3. CASE obj.phase = "present" /\ obj.denied
  BY <1>3 DEF StateOf
<1>4. CASE obj.phase = "present" /\ ~obj.denied /\ isApproved(obj)
  BY <1>4 DEF StateOf
<1>5. CASE obj.phase = "present" /\ ~obj.denied /\ ~isApproved(obj)
  BY <1>5 DEF StateOf
<1>6. obj.phase \in {"unborn", "present", "deleted"}
  BY DEF Obj
<1> QED
  BY <1>1, <1>2, <1>3, <1>4, <1>5, <1>6

\* A store of one CSR changes the state of that CSR.
LEMMA StoreBecomes ==
  ASSUME TypeOK, NEW c \in CSR, NEW obj \in Obj, Store(c, obj)
  PROVE  Lifecycle!Become(c, StateOf(obj))
<1>1. live \in [CSR -> Obj] /\ live' = [live EXCEPT ![c] = obj]
  BY DEF TypeOK, TypeAPI, Store
<1>2. [d \in CSR |-> StateOf(live'[d])] =
        [[d \in CSR |-> StateOf(live[d])] EXCEPT ![c] = StateOf(obj)]
  BY <1>1
<1> QED
  BY <1>2 DEF Lifecycle!Become

\* What others write is a step of the life cycle.
LEMMA OthersImplement ==
  ASSUME TypeOK, LiveBorn, OneDecision, NEW c \in CSR, OthersWrite(c)
  PROVE  Lifecycle!Next
<1>0. /\ live[c] \in Obj /\ now \in Time /\ Unborn \in Obj
      /\ live[c].denied \in BOOLEAN /\ live[c].by \in {"none", "cma", "other"}
  BY BoundAssumption DEF TypeOK, TypeAPI, TypeCluster, Unborn, Obj, Time
<1> DEFINE L == [d \in CSR |-> StateOf(live[d])]
<1>1. L[c] = StateOf(live[c])
  OBVIOUS
<1>2. CASE CreateCSR(c)
  <2> DEFINE obj == [Unborn EXCEPT !.phase = "present", !.created = now]
  <2>1. obj \in Obj /\ obj.phase = "present" /\ ~obj.denied /\ obj.by = "none" /\ obj.at = 0
    BY <1>0 DEF Obj, Unborn
  <2>2. StateOf(obj) = Lifecycle!Undecided("pending")
    BY <2>1, States DEF isApproved, Lifecycle!Undecided
  <2>3. StateOf(live[c]).stage = "unborn"
    BY <1>0, <1>2, States DEF CreateCSR
  <2>4. Lifecycle!Become(c, StateOf(obj))
    BY <1>2, <2>1, StoreBecomes DEF CreateCSR
  <2>5. Lifecycle!Create(c)
    BY <1>1, <2>2, <2>3, <2>4 DEF Lifecycle!Create
  <2> QED
    BY <2>5 DEF Lifecycle!Next
<1>3. ASSUME NEW by \in {"cma", "other"}, by = "cma" => NodeRequest(Request[c]),
             live[c].phase = "present", ~isApproved(live[c]), ~live[c].denied,
             Store(c, [live[c] EXCEPT !.by = by, !.at = now])
      PROVE  Lifecycle!Next
  <2> DEFINE obj == [live[c] EXCEPT !.by = by, !.at = now]
  <2>1. /\ obj \in Obj /\ obj.phase = "present" /\ ~obj.denied /\ isApproved(obj)
        /\ obj.by = by /\ obj.at = now
    BY <1>0, <1>3 DEF Obj, isApproved
  <2>2. StateOf(obj) = [stage |-> "approved", by |-> by, at |-> now]
    BY <2>1, States
  <2>3. StateOf(live[c]).stage = "pending"
    BY <1>0, <1>3, States
  <2>4. Lifecycle!Become(c, StateOf(obj))
    BY <1>3, <2>1, StoreBecomes
  <2>5. Lifecycle!Approve(c, by)
    BY <1>0, <1>1, <1>3, <2>2, <2>3, <2>4 DEF Lifecycle!Approve
  <2> QED
    BY <2>5 DEF Lifecycle!Next
<1>4. CASE ApproveExternally(c)
  BY <1>3, <1>4 DEF ApproveExternally
<1>5. CASE ApproveByPeer(c)
  BY <1>3, <1>5 DEF ApproveByPeer
<1>6. CASE DenyExternally(c)
  <2> DEFINE obj == [live[c] EXCEPT !.denied = TRUE]
  <2>1. obj \in Obj /\ obj.phase = "present" /\ obj.denied /\ obj.by = "none" /\ obj.at = 0
    BY <1>0, <1>6 DEF Obj, DenyExternally, isApproved, OneDecision
  <2>2. StateOf(obj) = Lifecycle!Undecided("denied")
    BY <2>1, States DEF Lifecycle!Undecided
  <2>3. StateOf(live[c]).stage = "pending"
    BY <1>0, <1>6, States DEF DenyExternally
  <2>4. Lifecycle!Become(c, StateOf(obj))
    BY <1>6, <2>1, StoreBecomes DEF DenyExternally
  <2>5. Lifecycle!Deny(c)
    BY <1>1, <2>2, <2>3, <2>4 DEF Lifecycle!Deny
  <2> QED
    BY <2>5 DEF Lifecycle!Next
<1>7. CASE DeleteCSR(c)
  <2> DEFINE obj == [live[c] EXCEPT !.phase = "deleted"]
  <2>1. obj \in Obj /\ obj.phase = "deleted"
    BY <1>0 DEF Obj
  <2>2. StateOf(obj) = Lifecycle!Undecided("gone")
    BY <2>1, States DEF Lifecycle!Undecided
  <2>3. StateOf(live[c]).stage \in {"pending", "approved", "denied"}
    BY <1>0, <1>7, States DEF DeleteCSR
  <2>4. Lifecycle!Become(c, StateOf(obj))
    BY <1>7, <2>1, StoreBecomes DEF DeleteCSR
  <2>5. Lifecycle!Collect(c)
    BY <1>1, <2>2, <2>3, <2>4 DEF Lifecycle!Collect
  <2> QED
    BY <2>5 DEF Lifecycle!Next
<1> QED
  BY <1>2, <1>4, <1>5, <1>6, <1>7 DEF OthersWrite

-----------------------------------------------------------------------------
\* The worker.

LEMMA FewAreFinite ==
  ASSUME NEW a, NEW b, NEW c
  PROVE  IsFiniteSet({b, c}) /\ IsFiniteSet({a, b, c})
<1>1. \A x : IsFiniteSet({x})
  BY FS_Singleton
<1>2. IsFiniteSet({b} \cup {c})
  BY <1>1, FS_Union
<1>3. {b} \cup {c} = {b, c}
  OBVIOUS
<1>4. IsFiniteSet({b, c})
  BY <1>2, <1>3
<1>5. IsFiniteSet({a} \cup {b, c})
  BY <1>1, <1>4, FS_Union
<1>6. {a} \cup {b, c} = {a, b, c}
  OBVIOUS
<1> QED
  BY <1>4, <1>5, <1>6

\* As many usages as allowed and none besides them: all of them.
LEMMA ExactUsages ==
  ASSUME NEW req, NEW usages, IsFiniteSet(usages), hasExactUsages(req, usages)
  PROVE  req.usages = usages
BY FS_Subset, FS_CardinalityType DEF hasExactUsages

\* Only the request of a node can be approved.
LEMMA ApproveReason ==
  ASSUME NEW machines, NEW req, NEW created, NEW pool, NEW seen, req.parses,
         authorizeCSR(Disabled, machines, req, created, pool, seen) = "approve"
  PROVE  NodeRequest(req)
<1>1. CASE isNodeClientCert(req)
  <2>1. ~Disabled /\ isReqFromNodeBootstrapper(req)
    BY <1>1 DEF authorizeCSR, authorizeNodeClientCSR
  <2>2. IsFiniteSet(kubeletClientUsagesLegacy) /\ IsFiniteSet(kubeletClientUsages)
    BY FewAreFinite DEF kubeletClientUsagesLegacy, kubeletClientUsages
  <2>3. req.usages = kubeletClientUsagesLegacy \/ req.usages = kubeletClientUsages
    BY <1>1, <2>2, ExactUsages DEF isNodeClientCert
  <2>4. "client auth" \in req.usages
    BY <2>3 DEF kubeletClientUsagesLegacy, kubeletClientUsages
  <2> QED
    BY <1>1, <2>1, <2>4 DEF NodeRequest, isNodeClientCert, isReqFromNodeBootstrapper
<1>2. CASE ~isNodeClientCert(req)
  <2>1. validateCSRContents(req) # ""
    BY <1>2 DEF authorizeCSR, authorizeServingCSR
  <2>2. /\ HasNodePrefix(req.username) /\ req.cn = req.username
        /\ validationUsageSet \subseteq req.usages \/ validationUsageSetLegacy \subseteq req.usages
    BY <2>1 DEF validateCSRContents
  <2>3. "server auth" \in req.usages
    BY <2>2 DEF validationUsageSet, validationUsageSetLegacy
  <2> QED
    BY <2>2, <2>3 DEF NodeRequest
<1> QED
  BY <1>1, <1>2

\* What the controller writes is an approval of a pending CSR.
LEMMA ControllerImplements ==
  ASSUME TypeOK, WorkerBehind, LifeInv, pc = "approve", Accepts(r.csrs[cur]),
         Store(cur, [r.csrs[cur] EXCEPT !.by = "cma", !.at = now])
  PROVE  Lifecycle!Next /\ OneDecision'
<1> DEFINE obj == [r.csrs[cur] EXCEPT !.by = "cma", !.at = now]
           L == [d \in CSR |-> StateOf(live[d])]
<1>0. /\ cur \in CSR /\ r.csrs[cur] \in Obj /\ now \in Time /\ live \in [CSR -> Obj]
      /\ r.csrs[cur].denied \in BOOLEAN
  BY DEF TypeOK, TypeAPI, TypeWorker, Locals, TypeCluster, Obj
<1>1. /\ live[cur] = r.csrs[cur] /\ live[cur].phase = "present"
      /\ ~isApproved(live[cur]) /\ ~live[cur].denied
  BY DEF Accepts, WorkerBehind
<1>2. /\ obj \in Obj /\ obj.phase = "present" /\ ~obj.denied /\ isApproved(obj)
      /\ obj.by = "cma" /\ obj.at = now
  BY <1>0, <1>1 DEF Obj, isApproved
<1>3. StateOf(obj) = [stage |-> "approved", by |-> "cma", at |-> now]
  BY <1>2, States
<1>4. StateOf(live[cur]).stage = "pending"
  BY <1>0, <1>1, States
<1>5. Lifecycle!Become(cur, StateOf(obj))
  BY <1>0, <1>2, StoreBecomes
<1>6. NodeRequest(Request[cur]) /\ L[cur] = StateOf(live[cur])
  BY <1>0 DEF LifeInv, WorkerChecked
<1>7. Lifecycle!Approve(cur, "cma")
  BY <1>0, <1>3, <1>4, <1>5, <1>6 DEF Lifecycle!Approve
<1>8. live' = [live EXCEPT ![cur] = obj]
  BY DEF Store
<1>9. OneDecision'
  BY <1>0, <1>2, <1>8 DEF LifeInv, OneDecision
<1> QED
  BY <1>0, <1>7, <1>9 DEF Lifecycle!Next

\* Each step of the worker checks what the next one relies on.
LEMMA WorkerChecks ==
  ASSUME TypeOK, WorkerChecked, Reconcile
  PROVE  WorkerChecked'
<1>1. ASSUME NEW why, Finish(why) PROVE WorkerChecked'
  BY <1>1 DEF Finish, WorkerChecked
<1>2. ASSUME NEW label \in PC \ {"getServingCert", "dial", "authorize", "approve"}, Go(label)
      PROVE  WorkerChecked'
  BY <1>2 DEF Go, WorkerChecked
<1>3. CASE Dequeue
  BY <1>3 DEF Dequeue, WorkerChecked
<1>4. CASE ListCSRs
  BY <1>1, <1>2, <1>4 DEF ListCSRs, PC
<1>5. CASE ListMachines
  BY <1>1, <1>2, <1>5 DEF ListMachines, PC
<1>6. CASE ListNodes
  BY <1>1, <1>2, <1>6 DEF ListNodes, PC
<1>7. CASE ReconcileCSR
  <2>1. ASSUME Request[cur].parses,
               Go(IF isNodeClientCert(Request[cur]) THEN "authorize" ELSE "getServingCert")
        PROVE  WorkerChecked'
    BY <2>1 DEF Go, WorkerChecked
  <2> QED
    BY <1>1, <1>2, <1>7, <2>1 DEF ReconcileCSR, PC
<1>8. CASE GetNode \/ DialKubelet
  BY <1>8 DEF GetNode, DialKubelet, Go, WorkerChecked
<1>9. CASE Authorize
  <2>1. ASSUME NEW failed, Decide(failed) PROVE WorkerChecked'
    <3> DEFINE verdict == authorizeCSR(Disabled, r.machines, Request[cur], r.csrs[cur].created,
                                       r.ca, Observed(failed))
    <3>1. Request[cur].parses
      BY <1>9 DEF Authorize, WorkerChecked
    <3>2. verdict = "approve" => NodeRequest(Request[cur])
      BY <3>1, ApproveReason
    <3>3. CASE verdict = "approve" /\ Go("approve")
      BY <3>2, <3>3 DEF Go, WorkerChecked
    <3>4. CASE Go("closingList")
      BY <1>2, <3>4 DEF PC
    <3>5. CASE Finish("error")
      BY <1>1, <3>5
    <3> HIDE DEF verdict
    <3> QED
      BY <2>1, <3>3, <3>4, <3>5 DEF Decide, verdict
  <2> QED
    BY <1>9, <2>1 DEF Authorize
<1>10. CASE Approve
  BY <1>1, <1>2, <1>10 DEF Approve, PC
<1>11. CASE ReconcileLimitsUncached
  BY <1>1, <1>11 DEF ReconcileLimitsUncached
<1> QED
  BY <1>3, <1>4, <1>5, <1>6, <1>7, <1>8, <1>9, <1>10, <1>11 DEF Reconcile

-----------------------------------------------------------------------------
\* Every step.

\* The steps that leave the CSRs of the API server alone are stutters.
LEMMA Stutters ==
  ASSUME UNCHANGED live, LifeInv
  PROVE  OneDecision' /\ [Lifecycle!Next]_([c \in CSR |-> StateOf(live[c])])
BY DEF LifeInv, OneDecision

\* What others write keeps the decisions apart.
LEMMA OthersDecide ==
  ASSUME TypeOK, LiveBorn, OneDecision, NEW c \in CSR, OthersWrite(c)
  PROVE  OneDecision'
<1>0. live \in [CSR -> Obj] /\ live[c] \in Obj /\ now \in Time
  BY DEF TypeOK, TypeAPI, TypeCluster
<1>1. ASSUME NEW obj, Store(c, obj), obj.denied => obj.by = "none", obj.by = "none" => obj.at = 0
      PROVE  OneDecision'
  BY <1>0, <1>1 DEF Store, OneDecision
<1>2. CASE CreateCSR(c)
  BY <1>1, <1>2 DEF CreateCSR, Unborn
<1>3. CASE ApproveExternally(c)
  BY <1>0, <1>1, <1>3 DEF ApproveExternally, Obj
<1>4. CASE ApproveByPeer(c)
  BY <1>0, <1>1, <1>4 DEF ApproveByPeer, Obj
<1>5. CASE DenyExternally(c)
  BY <1>0, <1>1, <1>5 DEF DenyExternally, isApproved, OneDecision, Obj
<1>6. CASE DeleteCSR(c)
  BY <1>0, <1>1, <1>6 DEF DeleteCSR, OneDecision, Obj
<1> QED
  BY <1>2, <1>3, <1>4, <1>5, <1>6 DEF OthersWrite

LEMMA LifeStep ==
  ASSUME WakeupInv, LifeInv, [Next]_vars
  PROVE  LifeInv' /\ [Lifecycle!Next]_([c \in CSR |-> StateOf(live[c])])
<1>0. TypeOK /\ LiveBorn /\ WorkerBehind /\ OneDecision /\ WorkerChecked
  BY DEF WakeupInv, StaleInv, LifeInv
<1>1. ASSUME UNCHANGED wakeVars
      PROVE  LifeInv' /\ [Lifecycle!Next]_([c \in CSR |-> StateOf(live[c])])
  BY <1>0, <1>1, Stutters DEF wakeVars, LifeInv, WorkerChecked
<1>2. ASSUME UNCHANGED othersThanAPI, NEW c \in CSR, OthersWrite(c)
      PROVE  LifeInv' /\ [Lifecycle!Next]_([d \in CSR |-> StateOf(live[d])])
  <2>1. Lifecycle!Next /\ OneDecision'
    BY <1>0, <1>2, OthersImplement, OthersDecide
  <2>2. WorkerChecked'
    BY <1>0, <1>2 DEF othersThanAPI, workVars, WorkerChecked
  <2> QED
    BY <2>1, <2>2 DEF LifeInv
<1>3. CASE \/ DeliverChange \/ InformerRelist \/ HandleChange \/ HandleCA \/ Resync
           \/ \E c \in CSR : AddAfterBackoff(c)
  <2>1. UNCHANGED live /\ UNCHANGED workVars
    BY <1>3 DEF DeliverChange, InformerRelist, HandleChange, HandleCA, Resync, AddAfterBackoff, apiVars
  <2> QED
    BY <1>0, <2>1, Stutters DEF workVars, LifeInv, WorkerChecked
<1>4. CASE Restart
  <2>1. UNCHANGED live /\ pc' = "idle"
    BY <1>4 DEF Restart
  <2> QED
    BY <1>0, <2>1, Stutters DEF LifeInv, WorkerChecked
<1>5. CASE Reconcile
  <2>1. WorkerChecked'
    BY <1>0, <1>5, WorkerChecks
  <2>2. CASE UNCHANGED live
    BY <2>1, <2>2, Stutters DEF LifeInv
  <2>3. CASE /\ Approve /\ Accepts(r.csrs[cur])
             /\ Store(cur, [r.csrs[cur] EXCEPT !.by = "cma", !.at = now])
    <3>1. Lifecycle!Next /\ OneDecision'
      BY <1>0, <2>3, ControllerImplements DEF Approve
    <3> QED
      BY <2>1, <3>1 DEF LifeInv
  <2>4. Approve => \/ UNCHANGED live
                   \/ /\ Accepts(r.csrs[cur])
                      /\ Store(cur, [r.csrs[cur] EXCEPT !.by = "cma", !.at = now])
    BY DEF Approve, apiVars
  <2>5. ~Approve => UNCHANGED live
    BY <1>5 DEF Reconcile, Dequeue, ListCSRs, ListMachines, ListNodes, ReconcileCSR,
      GetNode, DialKubelet, Authorize, ReconcileLimitsUncached, apiVars
  <2> QED
    BY <2>2, <2>3, <2>4, <2>5
<1> QED
  BY <1>1, <1>2, <1>3, <1>4, <1>5, WakeSteps

LEMMA LifeInit ==
  ASSUME Init
  PROVE  LifeInv /\ Lifecycle!Init
<1>1. live = [c \in CSR |-> Unborn] /\ pc = "idle"
  BY DEF Init
<1>2. Unborn \in Obj /\ Unborn.phase = "unborn"
  BY BoundAssumption DEF Unborn, Obj, Time
<1>3. StateOf(Unborn) = Lifecycle!Undecided("unborn")
  BY <1>2, States DEF Lifecycle!Undecided
<1>4. [c \in CSR |-> StateOf(live[c])] = [c \in CSR |-> Lifecycle!Undecided("unborn")]
  BY <1>1, <1>3
<1> QED
  BY <1>1, <1>4 DEF LifeInv, OneDecision, WorkerChecked, Unborn, Lifecycle!Init

\* The controller and everybody around it implement the life cycle of a CSR: no
\* retry, stale list or late answer changes a decision, revives a CSR that is
\* gone, touches two CSRs at once, or approves what no node asked for.
THEOREM Refinement == Spec => RefinesLifecycle
<1>1. WakeupInv /\ LifeInv /\ [Next]_vars
        => LifeInv' /\ [Lifecycle!Next]_([c \in CSR |-> StateOf(live[c])])
  BY LifeStep
<1>2. Init => LifeInv /\ Lifecycle!Init
  BY LifeInit
<1>3. Spec => Lifecycle!Init /\ [][Lifecycle!Next]_([c \in CSR |-> StateOf(live[c])])
  BY <1>1, <1>2, WakeupInvariant, PTL DEF Spec
<1> QED
  BY <1>3, PTL DEF RefinesLifecycle, Lifecycle!Spec

-----------------------------------------------------------------------------
\* The pending metric settles.

\* What can leave the metric behind: a CSR that is deleted or that the peer
\* approves (the event handler passes neither on), time (a CSR that grows out of
\* the pending window, an approval that is no longer recent when the handler sees
\* it), and a limit that makes the controller stop before it looks at the CSR.
Undisturbed ==
  /\ "delete" \notin Events /\ "peer" \notin Events
  /\ MaxNow < maxApprovedDelta
  /\ Cardinality(CSR) <= maxDiffBetweenPendingCSRsAndMachinesCount

\* What a copy o of an object with the version l in the API server is good for.
Copy(o, l, t) == o.phase # "deleted" /\ o.at <= t /\ (isApprovedByCMA(o) => isApprovedByCMA(l))

LiveCopies ==
  \A c \in CSR : Copy(live[c], live[c], now) /\ live[c].created <= now
WatchCopies == \A i \in 1..Len(watch) : Copy(watch[i].obj, live[watch[i].csr], now)
NotifCopies == \A i \in 1..Len(notifs) : Copy(notifs[i].obj, live[notifs[i].csr], now)
CacheCopies == \A c \in CSR : Copy(cache[c], live[c], now)
WorkerCopies == \A c \in CSR : r.csrs[c].phase # "deleted"

CopyInv == LiveCopies /\ WatchCopies /\ NotifCopies /\ CacheCopies /\ WorkerCopies

\* The metric is right, or the worker will set it: it is at work, it has work, or
\* a change of a CSR that was not approved by this controller is on its way to
\* the handler.
Right == PendingCSRs = recentlyPendingNodeCSRs(Listed(live), Request, now)
Active == pc # "idle" \/ wq.dirty # {} \/ waiting # {}
Stirs(c) ==
  /\ ~isApprovedByCMA(live[c])
  /\ \/ \E i \in 1..Len(watch) : watch[i].csr = c
     \/ \E i \in 1..Len(notifs) : notifs[i].csr = c
MetricDue == Right \/ Active \/ \E c \in CSR : Stirs(c)

\* A copy stays one while the API server and the clock move on.
LEMMA CopyLater ==
  ASSUME NEW o \in Obj, NEW l, NEW m, NEW t \in Time, NEW u \in Time, t <= u,
         Copy(o, l, t), isApprovedByCMA(l) => isApprovedByCMA(m)
  PROVE  Copy(o, m, u)
<1>1. o.at \in Nat /\ t \in Nat /\ u \in Nat
  BY BoundAssumption DEF Obj, Time
<1>2. o.at <= u
  BY <1>1 DEF Copy
<1> QED
  BY <1>2 DEF Copy

\* The clock does not go back, and no approval of this controller is undone.
LEMMA Forward ==
  ASSUME TypeOK, TypeOK', Onward, [Next]_vars
  PROVE  /\ now \in Time /\ now' \in Time /\ now <= now'
         /\ \A c \in CSR : isApprovedByCMA(live[c]) => isApprovedByCMA(live'[c])
<1>1. now \in Time /\ now' \in Time /\ now \in Nat
  BY BoundAssumption DEF TypeOK, TypeCluster, Time
<1>2. now' = now \/ now' = now + 1
  <2>1. CASE Environment
    BY <2>1 DEF Environment, OthersWrite, CreateCSR, ApproveExternally, ApproveByPeer,
      DenyExternally, DeleteCSR, CreateMachine, ProvisionMachine, DeleteMachine, LinkNode,
      ToggleNode, Listen, Tick, RotateCA, InformerRelist, Restart, othersThanAPI, worldVars
  <2>2. CASE Informer \/ \E c \in CSR : AddAfterBackoff(c)
    BY <2>2 DEF Informer, DeliverChange, HandleChange, DeliverCA, HandleCA, Resync,
      AddAfterBackoff, worldVars
  <2>3. CASE Reconcile
    BY <2>3 DEF Reconcile, Dequeue, ListCSRs, ListMachines, ListNodes, ReconcileCSR,
      GetNode, DialKubelet, Authorize, Approve, ReconcileLimitsUncached, worldVars
  <2>4. CASE UNCHANGED vars
    BY <2>4 DEF vars, worldVars
  <2> QED
    BY <2>1, <2>2, <2>3, <2>4 DEF Next
<1>3. now <= now'
  BY <1>1, <1>2
<1>4. \A c \in CSR : isApprovedByCMA(live[c]) => isApprovedByCMA(live'[c])
  BY DEF Onward, Kept, Decided, isApproved, isApprovedByCMA
<1> QED
  BY <1>1, <1>3, <1>4

\* obj is stored and has nothing that could leave the metric behind.
Written(c, obj) ==
  /\ live' = [live EXCEPT ![c] = obj] /\ watch' = Append(watch, [csr |-> c, obj |-> obj])
  /\ obj.phase # "deleted" /\ obj.created <= now /\ obj.at <= now

\* Nothing is stored.
Unwritten ==
  UNCHANGED live /\ \A k \in 1..Len(watch') : \E i \in 1..Len(watch) : watch[i] = watch'[k]

LEMMA OthersWritten ==
  ASSUME Undisturbed, TypeOK, LiveCopies, NEW c \in CSR, OthersWrite(c)
  PROVE  \E obj \in Obj : Written(c, obj) /\ ~isApprovedByCMA(obj)
<1>0. /\ live[c] \in Obj /\ now \in Time /\ now \in Nat /\ Unborn \in Obj
      /\ live[c].at <= now /\ live[c].created <= now
  BY BoundAssumption DEF TypeOK, TypeAPI, TypeCluster, Unborn, Obj, Time, LiveCopies, Copy
<1>1. CASE CreateCSR(c)
  <2> DEFINE obj == [Unborn EXCEPT !.phase = "present", !.created = now]
  <2>1. obj \in Obj /\ obj.phase = "present" /\ obj.created = now /\ obj.at = 0 /\ obj.by = "none"
    BY <1>0 DEF Obj, Unborn
  <2>2. Written(c, obj) /\ ~isApprovedByCMA(obj)
    BY <1>0, <1>1, <2>1 DEF CreateCSR, Store, Written, isApprovedByCMA
  <2> QED
    BY <2>1, <2>2
<1>2. CASE ApproveExternally(c)
  <2> DEFINE obj == [live[c] EXCEPT !.by = "other", !.at = now]
  <2>1. obj \in Obj /\ obj.phase = "present" /\ obj.created <= now /\ obj.at = now /\ obj.by = "other"
    BY <1>0, <1>2 DEF Obj, ApproveExternally
  <2>2. Written(c, obj) /\ ~isApprovedByCMA(obj)
    BY <1>0, <1>2, <2>1 DEF ApproveExternally, Store, Written, isApprovedByCMA
  <2> QED
    BY <2>1, <2>2
<1>3. CASE DenyExternally(c)
  <2> DEFINE obj == [live[c] EXCEPT !.denied = TRUE]
  <2>1. /\ obj \in Obj /\ obj.phase = "present" /\ obj.created <= now /\ obj.at <= now
        /\ obj.by = "none"
    BY <1>0, <1>3 DEF Obj, DenyExternally, isApproved
  <2>2. Written(c, obj) /\ ~isApprovedByCMA(obj)
    BY <1>3, <2>1 DEF DenyExternally, Store, Written, isApprovedByCMA
  <2> QED
    BY <2>1, <2>2
<1>4. ~DeleteCSR(c) /\ ~ApproveByPeer(c)
  BY DEF Undisturbed, DeleteCSR, ApproveByPeer
<1> QED
  BY <1>1, <1>2, <1>3, <1>4 DEF OthersWrite

LEMMA WorkerWritten ==
  ASSUME TypeOK, LiveCopies, Reconcile
  PROVE  UNCHANGED apiVars \/ (cur \in CSR /\ \E obj \in Obj : Written(cur, obj))
<1>1. CASE Approve
  <2> DEFINE obj == [r.csrs[cur] EXCEPT !.by = "cma", !.at = now]
  <2>0. cur \in CSR /\ r.csrs[cur] \in Obj /\ now \in Time /\ now \in Nat
    BY <1>1, BoundAssumption DEF Approve, TypeOK, TypeWorker, TypeCluster, Locals, Time
  <2>1. CASE UNCHANGED apiVars
    BY <2>1
  <2>2. CASE Accepts(r.csrs[cur]) /\ Store(cur, obj)
    <3>1. live[cur] = r.csrs[cur]
      BY <2>2 DEF Accepts
    <3>2. /\ r.csrs[cur].phase # "deleted" /\ r.csrs[cur].created <= now
      BY <2>0, <3>1 DEF LiveCopies, Copy
    <3>3. /\ obj \in Obj /\ obj.phase = r.csrs[cur].phase /\ obj.created = r.csrs[cur].created
          /\ obj.at = now
      BY <2>0 DEF Obj
    <3>4. Written(cur, obj)
      BY <2>0, <2>2, <3>2, <3>3 DEF Store, Written
    <3> QED
      BY <2>0, <3>3, <3>4
  <2> QED
    BY <1>1, <2>1, <2>2 DEF Approve
<1>2. CASE ~Approve
  BY <1>2 DEF Reconcile, Dequeue, ListCSRs, ListMachines, ListNodes, ReconcileCSR, GetNode, DialKubelet,
    Authorize, ReconcileLimitsUncached
<1> QED
  BY <1>1, <1>2

\* What is in the API server after a step was there before or was just written,
\* and what is on its way to the informer is that, too.
LEMMA WrittenCopies ==
  ASSUME TypeOK, TypeOK', CopyInv, Onward, [Next]_vars,
         \/ Unwritten
         \/ \E c \in CSR : \E obj \in Obj : Written(c, obj)
  PROVE  LiveCopies' /\ WatchCopies'
<1>0. /\ now \in Time /\ now' \in Time /\ now <= now' /\ now \in Nat /\ now' \in Nat
      /\ \A c \in CSR : isApprovedByCMA(live[c]) => isApprovedByCMA(live'[c])
  BY Forward, BoundAssumption DEF Time
<1>1. live \in [CSR -> Obj] /\ watch \in Seq(Change)
  BY DEF TypeOK, TypeAPI
<1>2. ASSUME NEW c \in CSR PROVE Copy(live[c], live'[c], now') /\ live[c].created <= now'
  <2>1. live[c] \in Obj /\ Copy(live[c], live[c], now) /\ live[c].created <= now
    BY <1>1 DEF CopyInv, LiveCopies
  <2>2. live[c].created \in Nat
    BY <2>1, BoundAssumption DEF Obj, Time
  <2> QED
    BY <1>0, <2>1, <2>2, CopyLater
<1>3. ASSUME NEW i \in 1..Len(watch) PROVE Copy(watch[i].obj, live'[watch[i].csr], now')
  <2>1. watch[i].obj \in Obj /\ watch[i].csr \in CSR
    BY <1>1, ChangeParts
  <2>2. Copy(watch[i].obj, live[watch[i].csr], now)
    BY DEF CopyInv, WatchCopies
  <2> QED
    BY <1>0, <2>1, <2>2, CopyLater
<1>4. CASE Unwritten
  BY <1>2, <1>3, <1>4 DEF Unwritten, LiveCopies, WatchCopies
<1>5. ASSUME NEW c \in CSR, NEW obj \in Obj, Written(c, obj) PROVE LiveCopies' /\ WatchCopies'
  <2> DEFINE e == [csr |-> c, obj |-> obj]
  <2>1. /\ live'[c] = obj /\ \A d \in CSR \ {c} : live'[d] = live[d]
        /\ watch' = Append(watch, e)
    BY <1>1, <1>5 DEF Written
  <2>2. Copy(obj, obj, now') /\ obj.created <= now'
    <3>1. obj.at \in Nat /\ obj.created \in Nat
      BY BoundAssumption DEF Obj, Time
    <3> QED
      BY <1>0, <1>5, <3>1 DEF Written, Copy
  <2>3. LiveCopies'
    <3>1. ASSUME NEW d \in CSR PROVE Copy(live'[d], live'[d], now') /\ live'[d].created <= now'
      <4>1. CASE d = c
        BY <2>1, <2>2, <4>1
      <4>2. CASE d # c
        BY <1>2, <2>1, <4>2
      <4> QED
        BY <4>1, <4>2
    <3> QED
      BY <3>1 DEF LiveCopies
  <2>4. e \in Change /\ e.csr = c /\ e.obj = obj
    BY DEF Change
  <2> HIDE DEF e
  <2>5. \A k \in 1..Len(watch') : (\E i \in 1..Len(watch) : watch[i] = watch'[k]) \/ watch'[k] = e
    BY <1>1, <2>1, <2>4, Appended
  <2>6. Copy(e.obj, live'[e.csr], now')
    BY <2>1, <2>2, <2>4
  <2>7. \A k \in 1..Len(watch') : Copy(watch'[k].obj, live'[watch'[k].csr], now')
    BY <1>3, <2>5, <2>6
  <2> QED
    BY <2>3, <2>7 DEF WatchCopies
<1> QED
  BY <1>4, <1>5

\* What the informer holds and tells after a step comes from the watch, from the
\* API server, or from what it had.
LEMMA InformerOrigin ==
  ASSUME TypeOK, [Next]_vars
  PROVE  /\ \A c \in CSR : \/ cache'[c] \in {cache[c], live[c]}
                           \/ \E i \in 1..Len(watch) : watch[i].csr = c /\ watch[i].obj = cache'[c]
         /\ \A k \in 1..Len(notifs') :
              \/ \E i \in 1..Len(notifs) : notifs[i] = notifs'[k]
              \/ \E i \in 1..Len(watch) : watch[i] = notifs'[k]
              \/ /\ notifs'[k].csr \in CSR
                 /\ notifs'[k].obj \in {cache[notifs'[k].csr], live[notifs'[k].csr]}
<1>0. /\ live \in [CSR -> Obj] /\ cache \in [CSR -> Obj]
      /\ watch \in Seq(Change) /\ notifs \in Seq(Change)
  BY DEF TypeOK, TypeAPI, TypeInformer
<1>1. CASE UNCHANGED <<cache, notifs>>
  BY <1>1
<1>2. CASE DeliverChange
  <2> DEFINE e == Head(watch)
  <2>1. /\ watch # <<>> /\ cache' = [cache EXCEPT ![e.csr] = e.obj]
        /\ notifs' = Append(notifs, e)
    BY <1>2 DEF DeliverChange
  <2>2. PICK j \in 1..Len(watch) : watch[j] = e
    BY <1>0, <2>1, HeadTail
  <2>3. e \in Change /\ e.csr \in CSR
    BY <1>0, <2>2, ChangeParts
  <2> HIDE DEF e
  <2>4. \A k \in 1..Len(notifs') : (\E i \in 1..Len(notifs) : notifs[i] = notifs'[k]) \/ notifs'[k] = e
    BY <1>0, <2>1, <2>3, Appended
  <2>5. \A c \in CSR : cache'[c] = IF c = e.csr THEN e.obj ELSE cache[c]
    BY <1>0, <2>1
  <2> QED
    BY <2>2, <2>4, <2>5
<1>3. CASE HandleChange
  <2>1. notifs # <<>> /\ notifs' = Tail(notifs) /\ cache' = cache
    BY <1>3 DEF HandleChange
  <2>2. \A k \in 1..Len(notifs') : \E i \in 1..Len(notifs) : notifs[i] = notifs'[k]
    BY <1>0, <2>1, HeadTail
  <2> QED
    BY <2>1, <2>2
<1>4. ASSUME NEW objs \in [CSR -> Obj], NEW s \in SetToSeqs(Present(objs)), objs \in {live, cache},
             notifs' = notifs \o Listing(s, objs) \/ notifs' = Listing(s, objs)
      PROVE  \A k \in 1..Len(notifs') :
              \/ \E i \in 1..Len(notifs) : notifs[i] = notifs'[k]
              \/ /\ notifs'[k].csr \in CSR
                 /\ notifs'[k].obj \in {cache[notifs'[k].csr], live[notifs'[k].csr]}
  <2> DEFINE l == Listing(s, objs)
  <2>1. l \in Seq(Change)
    BY ListingReports
  <2>2. \A i \in 1..Len(l) : l[i].csr \in CSR /\ l[i].obj \in {cache[l[i].csr], live[l[i].csr]}
    <3>1. \A i \in 1..Len(l) : l[i].csr \in Present(objs) /\ l[i].obj = objs[l[i].csr]
      BY ListingReports
    <3> QED
      BY <1>4, <3>1 DEF Present
  <2> HIDE DEF l
  <2>3. \A k \in 1..Len(notifs') : \/ \E i \in 1..Len(notifs) : notifs[i] = notifs'[k]
                                   \/ \E i \in 1..Len(l) : l[i] = notifs'[k]
    <3>1. CASE notifs' = l
      BY <3>1
    <3>2. CASE notifs' = notifs \o l
      <4>1. notifs \in Seq(Change) /\ l \in Seq(Change)
        BY <1>0, <2>1
      <4> QED
        BY <3>2, <4>1, Concatenated
    <3> QED
      BY <1>4, <3>1, <3>2 DEF l
  <2> QED
    BY <2>2, <2>3
<1>5. CASE InformerRelist \/ Restart
  <2>1. cache' = live
    BY <1>5 DEF InformerRelist, Restart
  <2>2. PICK s \in SetToSeqs(Present(live)) :
          notifs' = notifs \o Listing(s, live) \/ notifs' = Listing(s, live)
    BY <1>5 DEF InformerRelist, Restart
  <2>3. live \in {live, cache}
    OBVIOUS
  <2> QED
    BY <1>0, <1>4, <2>1, <2>2, <2>3, Zenon
<1>6. CASE Resync
  <2>1. cache' = cache
    BY <1>6 DEF Resync
  <2>2. PICK s \in SetToSeqs(Present(cache)) : notifs' = Listing(s, cache)
    BY <1>6 DEF Resync
  <2>3. cache \in {live, cache}
    OBVIOUS
  <2>4. \A c \in CSR : cache'[c] \in {cache[c], live[c]}
    BY <2>1
  <2> QED
    BY <1>0, <1>4, <2>2, <2>3, <2>4, Zenon
<1>7. CASE UNCHANGED wakeVars
  BY <1>1, <1>7 DEF wakeVars
<1>8. CASE UNCHANGED othersThanAPI
  BY <1>1, <1>8 DEF othersThanAPI, infVars
<1>9. CASE HandleCA \/ (\E c \in CSR : AddAfterBackoff(c)) \/ Reconcile
  BY <1>1, <1>9 DEF HandleCA, AddAfterBackoff, Reconcile, Dequeue, ListCSRs, ListMachines, ListNodes,
    ReconcileCSR, GetNode, DialKubelet, Authorize, Approve, ReconcileLimitsUncached, infVars
<1> QED
  BY <1>2, <1>3, <1>5, <1>6, <1>7, <1>8, <1>9, WakeSteps

\* So the informer's copies stay copies.
LEMMA InformerCopies ==
  ASSUME TypeOK, TypeOK', CopyInv, Onward, [Next]_vars
  PROVE  NotifCopies' /\ CacheCopies'
<1>0. /\ now \in Time /\ now' \in Time /\ now <= now'
      /\ \A c \in CSR : isApprovedByCMA(live[c]) => isApprovedByCMA(live'[c])
  BY Forward
<1>1. /\ live \in [CSR -> Obj] /\ cache \in [CSR -> Obj]
      /\ watch \in Seq(Change) /\ notifs \in Seq(Change)
  BY DEF TypeOK, TypeAPI, TypeInformer
<1>2. ASSUME NEW c \in CSR PROVE Copy(live[c], live'[c], now') /\ Copy(cache[c], live'[c], now')
  <2>1. live[c] \in Obj /\ cache[c] \in Obj
    BY <1>1
  <2>2. Copy(live[c], live[c], now) /\ Copy(cache[c], live[c], now)
    BY DEF CopyInv, LiveCopies, CacheCopies
  <2> QED
    BY <1>0, <2>1, <2>2, CopyLater
<1>3. ASSUME NEW e \in Change, Copy(e.obj, live[e.csr], now) PROVE Copy(e.obj, live'[e.csr], now')
  <2>1. e.obj \in Obj /\ e.csr \in CSR
    BY DEF Change
  <2> QED
    BY <1>0, <1>3, <2>1, CopyLater
<1>4. ASSUME NEW i \in 1..Len(watch) PROVE Copy(watch[i].obj, live'[watch[i].csr], now')
  BY <1>1, <1>3, ChangeParts DEF CopyInv, WatchCopies
<1>5. ASSUME NEW i \in 1..Len(notifs) PROVE Copy(notifs[i].obj, live'[notifs[i].csr], now')
  BY <1>1, <1>3, ChangeParts DEF CopyInv, NotifCopies
<1>6. ASSUME NEW c \in CSR PROVE Copy(cache'[c], live'[c], now')
  <2>1. CASE cache'[c] \in {cache[c], live[c]}
    BY <1>2, <2>1
  <2>2. ASSUME NEW i \in 1..Len(watch), watch[i].csr = c, watch[i].obj = cache'[c]
        PROVE  Copy(cache'[c], live'[c], now')
    BY <1>4, <2>2
  <2> QED
    BY <2>1, <2>2, InformerOrigin
<1>7. ASSUME NEW k \in 1..Len(notifs') PROVE Copy(notifs'[k].obj, live'[notifs'[k].csr], now')
  <2>1. ASSUME NEW i \in 1..Len(notifs), notifs[i] = notifs'[k]
        PROVE  Copy(notifs'[k].obj, live'[notifs'[k].csr], now')
    BY <1>5, <2>1
  <2>2. ASSUME NEW i \in 1..Len(watch), watch[i] = notifs'[k]
        PROVE  Copy(notifs'[k].obj, live'[notifs'[k].csr], now')
    BY <1>4, <2>2
  <2>3. CASE /\ notifs'[k].csr \in CSR
             /\ notifs'[k].obj \in {cache[notifs'[k].csr], live[notifs'[k].csr]}
    BY <1>2, <2>3
  <2> QED
    BY <2>1, <2>2, <2>3, InformerOrigin
<1> QED
  BY <1>6, <1>7 DEF NotifCopies, CacheCopies

\* The worker's list comes from the cache.
LEMMA WorkerList ==
  ASSUME TypeOK, CopyInv, [Next]_vars
  PROVE  WorkerCopies'
<1>0. r \in Locals /\ cache \in [CSR -> Obj]
  BY DEF TypeOK, TypeWorker, TypeInformer
<1>1. \/ r'.csrs = r.csrs \/ r'.csrs = cache \/ r' = InitLocals
  <2>1. CASE Reconcile
    BY <1>0, <2>1 DEF Locals, Reconcile, Dequeue, ListCSRs, ListMachines, ListNodes, ReconcileCSR,
      GetNode, DialKubelet, Authorize, Decide, Approve, ReconcileLimitsUncached, Finish
  <2>2. CASE Restart
    BY <2>2 DEF Restart
  <2>3. CASE ~Reconcile /\ ~Restart
    BY <2>3, WakeSteps DEF wakeVars, othersThanAPI, workVars, DeliverChange, InformerRelist,
      HandleChange, HandleCA, Resync, AddAfterBackoff
  <2> QED
    BY <2>1, <2>2, <2>3
<1>2. CASE r'.csrs = r.csrs
  BY <1>2 DEF CopyInv, WorkerCopies
<1>3. CASE r'.csrs = cache
  BY <1>3 DEF CopyInv, CacheCopies, Copy, WorkerCopies
<1>4. CASE r' = InitLocals
  BY <1>4 DEF InitLocals, Unborn, WorkerCopies
<1> QED
  BY <1>1, <1>2, <1>3, <1>4

LEMMA CopyStep ==
  ASSUME Undisturbed, TypeOK, TypeOK', QueueConsistent, StaleInv, CopyInv, [Next]_vars
  PROVE  CopyInv'
<1>1. Onward
  BY StaleStep
<1>2. Unwritten \/ \E c \in CSR : \E obj \in Obj : Written(c, obj)
  <2>0. watch \in Seq(Change)
    BY DEF TypeOK, TypeAPI
  <2>1. CASE \E c \in CSR : OthersWrite(c)
    BY <2>1, OthersWritten DEF CopyInv
  <2>2. CASE UNCHANGED apiVars
    BY <2>2 DEF apiVars, Unwritten
  <2>3. CASE Reconcile
    BY <2>2, <2>3, WorkerWritten DEF CopyInv
  <2>4. CASE DeliverChange
    BY <2>0, <2>4, HeadTail DEF DeliverChange, Unwritten
  <2>5. CASE InformerRelist \/ Restart
    BY <2>5 DEF InformerRelist, Restart, Unwritten
  <2>6. CASE \/ UNCHANGED wakeVars
             \/ HandleChange \/ HandleCA \/ Resync \/ \E c \in CSR : AddAfterBackoff(c)
    BY <2>2, <2>6 DEF wakeVars, HandleChange, HandleCA, Resync, AddAfterBackoff, apiVars
  <2> QED
    BY <2>1, <2>3, <2>4, <2>5, <2>6, WakeSteps
<1> QED
  BY <1>1, <1>2, WrittenCopies, InformerCopies, WorkerList DEF CopyInv

\* While the clock stays within the windows, every pending request counts.
Counted(objs) ==
  {c \in Present(objs) : /\ isReqFromNodeBootstrapper(Request[c]) \/ isRequestFromNodeUser(Request[c])
                         /\ ~isApproved(objs[c])}

LEMMA CountIs ==
  ASSUME Undisturbed, TypeOK, LiveCopies
  PROVE  recentlyPendingNodeCSRs(Listed(live), Request, now) = Cardinality(Counted(live))
<1>1. now \in Nat /\ now <= MaxNow /\ MaxNow \in Nat
  BY BoundAssumption DEF TypeOK, TypeCluster, Time
<1>2. ASSUME NEW c \in CSR
      PROVE  inTimeSpan(now - maxPendingDelta, now + maxMachineClockSkew, live[c].created)
  <2>1. live[c].created \in Nat /\ live[c].created <= now
    <3>1. live[c] \in Obj
      BY DEF TypeOK, TypeAPI
    <3> QED
      BY <3>1, BoundAssumption DEF Obj, Time, LiveCopies
  <2> QED
    BY <1>1, <2>1, DeltaAssumption DEF Undisturbed, inTimeSpan
<1>3. /\ DOMAIN Listed(live) = Present(live) /\ Present(live) \in SUBSET CSR
      /\ \A c \in Present(live) : Listed(live)[c] = live[c]
  BY DEF Listed, Present
<1>4. {c \in DOMAIN Listed(live) :
         /\ inTimeSpan(now - maxPendingDelta, now + maxMachineClockSkew, Listed(live)[c].created)
         /\ isReqFromNodeBootstrapper(Request[c]) \/ isRequestFromNodeUser(Request[c])
         /\ ~isApproved(Listed(live)[c])} = Counted(live)
  BY <1>2, <1>3 DEF Counted
<1> QED
  BY <1>4 DEF recentlyPendingNodeCSRs

\* So the metric stays right until a CSR is written.
LEMMA RightKept ==
  ASSUME Undisturbed, TypeOK, LiveCopies, TypeOK', LiveCopies', Right,
         UNCHANGED <<live, PendingCSRs>>
  PROVE  Right'
<1>1. PendingCSRs = Cardinality(Counted(live))
  BY CountIs DEF Right
<1>2. (Undisturbed /\ TypeOK /\ LiveCopies =>
        recentlyPendingNodeCSRs(Listed(live), Request, now) = Cardinality(Counted(live)))'
  BY CountIs, PTL
<1>3. Undisturbed'
  BY DEF Undisturbed
<1>4. Counted(live)' = Counted(live)
  BY DEF Counted, Present
<1> QED
  BY <1>1, <1>2, <1>3, <1>4 DEF Right

\* A change that stirs passes the filter.
LEMMA StirringPasses ==
  ASSUME Undisturbed, TypeOK, NEW o \in Obj, NEW l, Copy(o, l, now), ~isApprovedByCMA(l)
  PROVE  o.phase # "deleted" /\ pendingCertFilter(o, now)
<1>1. now \in Nat /\ now <= MaxNow /\ MaxNow \in Nat /\ o.at \in Nat /\ o.at <= now
  BY BoundAssumption DEF TypeOK, TypeCluster, Time, Obj, Copy
<1>2. inTimeSpan(now - maxApprovedDelta, now + maxMachineClockSkew, o.at)
  BY <1>1, DeltaAssumption DEF Undisturbed, inTimeSpan
<1> QED
  BY <1>2 DEF Copy, pendingCertFilter, isRecentlyApproved

\* No list is off the limits.
LEMMA WithinTheLimits ==
  ASSUME Undisturbed, NEW objs, NEW i \in Nat, NEW j \in Nat
  PROVE  ~OffLimits(recentlyPendingNodeCSRs(Listed(objs), Request, now), getMaxPending(i, j))
<1> DEFINE P == {c \in DOMAIN Listed(objs) :
       /\ inTimeSpan(now - maxPendingDelta, now + maxMachineClockSkew, Listed(objs)[c].created)
       /\ isReqFromNodeBootstrapper(Request[c]) \/ isRequestFromNodeUser(Request[c])
       /\ ~isApproved(Listed(objs)[c])}
<1>1. P \in SUBSET CSR
  BY DEF Listed, Present
<1>2. /\ Cardinality(P) \in Nat /\ Cardinality(P) <= Cardinality(CSR) /\ Cardinality(CSR) \in Nat
  BY <1>1, CSRAssumption, FS_Subset, FS_CardinalityType
<1> HIDE DEF P
<1>3. Max({i, j}) \in Nat
  <2>1. \E x \in {i, j} : \A y \in {i, j} : x >= y
    OBVIOUS
  <2> QED
    BY <2>1 DEF Max
<1>4. Cardinality(P) <= getMaxPending(i, j) /\ getMaxPending(i, j) \in Nat
  BY <1>2, <1>3, DiffAssumption DEF Undisturbed, getMaxPending
<1>5. ~(Cardinality(P) > getMaxPending(i, j))
  BY <1>2, <1>4
<1> QED
  BY <1>5 DEF recentlyPendingNodeCSRs, OffLimits, P

\* Only the worker and a restart touch the metric.
LEMMA MetricSteps ==
  ASSUME [Next]_vars
  PROVE  UNCHANGED PendingCSRs \/ Reconcile \/ Restart
<1>1. CASE Environment
  BY <1>1 DEF Environment, OthersWrite, CreateCSR, ApproveExternally, ApproveByPeer,
    DenyExternally, DeleteCSR, CreateMachine, ProvisionMachine, DeleteMachine, LinkNode,
    ToggleNode, Listen, Tick, RotateCA, InformerRelist, othersThanAPI, othersThanWorld, metricVars
<1>2. CASE Informer \/ \E c \in CSR : AddAfterBackoff(c)
  BY <1>2 DEF Informer, DeliverChange, HandleChange, DeliverCA, HandleCA, Resync,
    AddAfterBackoff, metricVars
<1>3. CASE UNCHANGED vars
  BY <1>3 DEF vars, metricVars
<1> QED
  BY <1>1, <1>2, <1>3 DEF Next

\* A write by anyone but the worker stirs.
LEMMA DueWritten ==
  ASSUME Undisturbed, TypeOK, LiveCopies, NEW c \in CSR, OthersWrite(c)
  PROVE  MetricDue'
<1>1. PICK obj \in Obj : Written(c, obj) /\ ~isApprovedByCMA(obj)
  BY OthersWritten
<1> DEFINE e == [csr |-> c, obj |-> obj]
<1>2. live \in [CSR -> Obj] /\ watch \in Seq(Change) /\ e \in Change /\ e.csr = c
  BY DEF TypeOK, TypeAPI, Change
<1>3. live'[c] = obj /\ watch' = Append(watch, e)
  BY <1>1, <1>2 DEF Written
<1> HIDE DEF e
<1>4. \E k \in 1..Len(watch') : watch'[k] = e
  BY <1>2, <1>3, Appended
<1>5. Stirs(c)'
  BY <1>1, <1>2, <1>3, <1>4 DEF Stirs
<1> QED
  BY <1>5 DEF MetricDue

\* What stirs goes from the watch to the handler, and from there into the queue.
LEMMA DueInformer ==
  ASSUME Undisturbed, TypeOK, TypeOK', QueueConsistent, CopyInv, CopyInv', MetricDue,
         UNCHANGED PendingCSRs,
         \/ DeliverChange
         \/ HandleChange \/ HandleCA \/ Resync \/ \E c \in CSR : AddAfterBackoff(c)
  PROVE  MetricDue'
<1>0. /\ wq \in WQType(CSR) /\ WQConsistent(wq) /\ UNCHANGED <<live, pc>>
      /\ watch \in Seq(Change) /\ notifs \in Seq(Change)
  BY DEF TypeOK, TypeQueue, TypeAPI, TypeInformer, QueueConsistent, DeliverChange, HandleChange,
    HandleCA, Resync, AddAfterBackoff, apiVars, workVars
<1>1. Right => Right'
  BY <1>0, RightKept DEF CopyInv
<1>2. CASE DeliverChange
  <2> DEFINE e == Head(watch)
  <2>1. /\ watch # <<>> /\ watch' = Tail(watch) /\ notifs' = Append(notifs, e)
        /\ UNCHANGED <<wq, waiting>>
    BY <1>2 DEF DeliverChange, queueVars
  <2>2. /\ e \in Change
        /\ \A i \in 1..Len(watch) : watch[i] = e \/ \E j \in 1..Len(watch') : watch'[j] = watch[i]
    BY <1>0, <2>1, HeadTail
  <2> HIDE DEF e
  <2>3. /\ \A i \in 1..Len(notifs) : \E k \in 1..Len(notifs') : notifs'[k] = notifs[i]
        /\ \E k \in 1..Len(notifs') : notifs'[k] = e
    BY <1>0, <2>1, <2>2, Appended
  <2>4. Active => Active'
    BY <1>0, <2>1 DEF Active
  <2>5. ASSUME NEW c \in CSR, Stirs(c) PROVE Stirs(c)'
    <3>1. (\E i \in 1..Len(watch') : watch'[i].csr = c) \/ (\E i \in 1..Len(notifs') : notifs'[i].csr = c)
      BY <2>2, <2>3, <2>5 DEF Stirs
    <3>2. ~isApprovedByCMA(live'[c])
      BY <1>0, <2>5 DEF Stirs
    <3> QED
      BY <3>1, <3>2 DEF Stirs
  <2> QED
    BY <1>1, <2>4, <2>5 DEF MetricDue
<1>3. CASE HandleChange
  <2> DEFINE e == Head(notifs)
  <2>1. notifs # <<>> /\ notifs' = Tail(notifs) /\ UNCHANGED <<watch, waiting>>
    BY <1>3 DEF HandleChange, apiVars
  <2>2. /\ \E i \in 1..Len(notifs) : notifs[i] = e
        /\ \A i \in 1..Len(notifs) : notifs[i] = e \/ \E j \in 1..Len(notifs') : notifs'[j] = notifs[i]
    BY <1>0, <2>1, HeadTail
  <2>3. e.csr \in CSR /\ e.obj \in Obj /\ Copy(e.obj, live[e.csr], now)
    BY <1>0, <2>2, ChangeParts DEF CopyInv, NotifCopies
  <2>4. wq' = IF e.obj.phase # "deleted" /\ pendingCertFilter(e.obj, now) THEN WQAdd(wq, e.csr) ELSE wq
    BY <1>3 DEF HandleChange
  <2> HIDE DEF e
  <2>5. wq.dirty \in SUBSET wq'.dirty
    BY <1>0, <2>3, <2>4, AddConsistent
  <2>6. Active => Active'
    BY <1>0, <2>1, <2>5 DEF Active
  <2>7. ASSUME NEW c \in CSR, Stirs(c) PROVE Active' \/ Stirs(c)'
    <3>1. CASE e.csr = c
      <4>1. e.obj.phase # "deleted" /\ pendingCertFilter(e.obj, now)
        BY <2>3, <2>7, <3>1, StirringPasses DEF Stirs
      <4>2. c \in wq'.dirty
        BY <1>0, <2>3, <2>4, <3>1, <4>1, AddConsistent
      <4> QED
        BY <4>2 DEF Active
    <3>2. CASE e.csr # c
      <4>1. (\E i \in 1..Len(watch') : watch'[i].csr = c) \/ (\E i \in 1..Len(notifs') : notifs'[i].csr = c)
        BY <2>1, <2>2, <2>7, <3>2 DEF Stirs
      <4>2. ~isApprovedByCMA(live'[c])
        BY <1>0, <2>7 DEF Stirs
      <4> QED
        BY <4>1, <4>2 DEF Stirs
    <3> QED
      BY <3>1, <3>2
  <2> QED
    BY <1>1, <2>6, <2>7 DEF MetricDue
<1>4. CASE HandleCA
  <2>1. UNCHANGED <<watch, notifs, waiting>>
    BY <1>4 DEF HandleCA, apiVars, infVars
  <2>2. ASSUME NEW S \in SUBSET CSR, NEW order \in WQOrders(wq, S), wq' = WQAddAll(wq, S, order)
        PROVE  wq.dirty \in SUBSET wq'.dirty
    BY <1>0, <2>2, AddAllConsistent, CSRAssumption
  <2>3. toCSRs \in SUBSET CSR /\ {} \in SUBSET CSR
    BY DEF toCSRs, Present
  <2>4. wq.dirty \in SUBSET wq'.dirty
    BY <1>4, <2>2, <2>3 DEF HandleCA
  <2>5. Active => Active'
    BY <1>0, <2>1, <2>4 DEF Active
  <2>6. \A c \in CSR : Stirs(c) => Stirs(c)'
    BY <1>0, <2>1 DEF Stirs
  <2> QED
    BY <1>1, <2>5, <2>6 DEF MetricDue
<1>5. CASE Resync
  <2>1. notifs = <<>> /\ UNCHANGED <<watch, wq, waiting>>
    BY <1>5 DEF Resync, apiVars, queueVars
  <2>2. Active => Active'
    BY <1>0, <2>1 DEF Active
  <2>3. \A c \in CSR : Stirs(c) => Stirs(c)'
    BY <1>0, <2>1 DEF Stirs
  <2> QED
    BY <1>1, <2>2, <2>3 DEF MetricDue
<1>6. ASSUME NEW c \in CSR, AddAfterBackoff(c) PROVE MetricDue'
  <2>1. wq' = WQAdd(wq, c)
    BY <1>6 DEF AddAfterBackoff
  <2>2. c \in wq'.dirty
    BY <1>0, <2>1, AddConsistent
  <2> QED
    BY <2>2 DEF MetricDue, Active
<1> QED
  BY <1>2, <1>3, <1>4, <1>5, <1>6

\* A list reports what stirred, and to a new process everything that is pending.
LEMMA DueListed ==
  ASSUME Undisturbed, TypeOK, TypeOK', StaleInv, CopyInv, CopyInv', MetricDue,
         \/ InformerRelist /\ UNCHANGED PendingCSRs
         \/ Restart
  PROVE  MetricDue'
<1>0. live \in [CSR -> Obj] /\ notifs \in Seq(Change) /\ watch \in Seq(Change) /\ UNCHANGED live
  BY DEF TypeOK, TypeAPI, TypeInformer, InformerRelist, Restart
<1>1. PICK s \in SetToSeqs(Present(live)) :
        notifs' = notifs \o Listing(s, live) \/ notifs' = Listing(s, live)
  BY DEF InformerRelist, Restart
<1> DEFINE l == Listing(s, live)
<1>2. l \in Seq(Change) /\ \A c \in Present(live) : \E i \in 1..Len(l) : l[i].csr = c
  BY <1>0, ListingReports
<1> HIDE DEF l
<1>3. \A i \in 1..Len(l) : \E k \in 1..Len(notifs') : notifs'[k] = l[i]
  <2>1. CASE notifs' = l
    BY <2>1
  <2>2. CASE notifs' = notifs \o l
    <3>1. notifs \in Seq(Change) /\ l \in Seq(Change)
      BY <1>0, <1>2
    <3> QED
      BY <2>2, <3>1, Concatenated
  <2> QED
    BY <1>1, <2>1, <2>2 DEF l
<1>4. ASSUME NEW c \in Present(live), ~isApprovedByCMA(live[c]) PROVE Stirs(c)'
  <2>1. \E k \in 1..Len(notifs') : notifs'[k].csr = c
    BY <1>2, <1>3
  <2> QED
    BY <1>0, <1>4, <2>1 DEF Stirs
<1>5. CASE InformerRelist /\ UNCHANGED PendingCSRs
  <2>1. Right => Right'
    BY <1>0, <1>5, RightKept DEF CopyInv
  <2>2. Active => Active'
    BY <1>5 DEF InformerRelist, queueVars, workVars, Active
  <2>3. ASSUME NEW c \in CSR, Stirs(c) PROVE Stirs(c)'
    <3>1. Born(live[c])
      BY <2>3 DEF Stirs, StaleInv, WatchBehind, NotifsBehind, EventBehind, Behind
    <3>2. live[c].phase # "deleted" /\ live[c] \in Obj
      BY <1>0 DEF CopyInv, LiveCopies, Copy
    <3>3. c \in Present(live)
      BY <3>1, <3>2 DEF Born, Obj, Present
    <3> QED
      BY <1>4, <2>3, <3>3 DEF Stirs
  <2> QED
    BY <2>1, <2>2, <2>3 DEF MetricDue
<1>6. CASE Restart
  <2>1. PendingCSRs' = 0
    BY <1>6 DEF Restart
  <2>2. CASE Counted(live) = {}
    <3>1. (Undisturbed /\ TypeOK /\ LiveCopies =>
            recentlyPendingNodeCSRs(Listed(live), Request, now) = Cardinality(Counted(live)))'
      BY CountIs, PTL
    <3>2. Undisturbed' /\ Counted(live)' = {}
      BY <1>0, <2>2 DEF Undisturbed, Counted, Present
    <3>3. Right'
      BY <2>1, <3>1, <3>2, FS_EmptySet DEF Right, CopyInv
    <3> QED
      BY <3>3 DEF MetricDue
  <2>3. ASSUME NEW c \in Counted(live) PROVE MetricDue'
    <3>1. c \in Present(live) /\ c \in CSR /\ ~isApprovedByCMA(live[c])
      BY DEF Counted, Present, isApproved, isApprovedByCMA
    <3>2. Stirs(c)'
      BY <1>4, <3>1
    <3> QED
      BY <3>1, <3>2 DEF MetricDue
  <2> QED
    BY <2>2, <2>3
<1> QED
  BY <1>5, <1>6

\* Every reconcile that ends without an error ends with a list from the API server.
LEMMA DueReconcile ==
  ASSUME Undisturbed, TypeOK, QueueConsistent, StaleInv, CopyInv, Reconcile
  PROVE  MetricDue'
<1>1. ASSUME pc' # "idle" PROVE MetricDue'
  BY <1>1 DEF MetricDue, Active
<1>2. ASSUME Finish("error") PROVE MetricDue'
  BY <1>2 DEF Finish, MetricDue, Active
<1>3. ASSUME NEW label, label # "idle", Go(label) PROVE MetricDue'
  BY <1>1, <1>3 DEF Go
<1>4. CASE Dequeue
  BY <1>1, <1>4 DEF Dequeue
<1>5. CASE ListCSRs
  BY <1>2, <1>3, <1>5 DEF ListCSRs
<1>6. CASE ListMachines
  BY <1>2, <1>3, <1>6 DEF ListMachines
<1>7. CASE ListNodes
  <2> DEFINE n == Cardinality({x \in Node : node[x]})
  <2>1. r \in Locals /\ cur \in CSR /\ r.csrs[cur] \in Obj
    BY <1>7 DEF ListNodes, TypeOK, TypeWorker, Locals
  <2>2. Len(r.machines) \in Nat /\ n \in Nat
    <3>1. r.machines \in Seq(MachineRec)
      BY <2>1 DEF Locals
    <3>2. {x \in Node : node[x]} \in SUBSET Node
      OBVIOUS
    <3> QED
      BY <3>1, <3>2, ClusterAssumption, FS_Subset, FS_CardinalityType
  <2>3. r.csrs[cur].phase = "present"
    BY <1>7, <2>1 DEF ListNodes, StaleInv, WorkerBehind, Born, CopyInv, WorkerCopies, Obj
  <2> HIDE DEF n
  <2>4. ASSUME reconcileLimits(r.csrs, Len(r.machines), n)
        PROVE  ~OffLimits(PendingCSRs', MaxPendingCSRs')
    BY <2>2, <2>4, WithinTheLimits DEF reconcileLimits
  <2> QED
    BY <1>2, <1>3, <1>7, <2>3, <2>4 DEF ListNodes, n
<1>8. CASE ReconcileCSR
  BY <1>2, <1>3, <1>8 DEF ReconcileCSR
<1>9. CASE GetNode \/ DialKubelet
  BY <1>3, <1>9 DEF GetNode, DialKubelet
<1>10. CASE Authorize
  BY <1>2, <1>3, <1>10 DEF Authorize, Decide
<1>11. CASE Approve
  BY <1>2, <1>3, <1>11 DEF Approve
<1>12. CASE ReconcileLimitsUncached
  <2>1. CASE reconcileLimits(live, Len(r.machines), r.nodes)
    <3>1. UNCHANGED <<live, now>>
      BY <1>12 DEF ReconcileLimitsUncached, apiVars, worldVars
    <3>2. Right'
      BY <2>1, <3>1 DEF reconcileLimits, Right, Listed, Present
    <3> QED
      BY <3>2 DEF MetricDue
  <2> QED
    BY <1>2, <1>12, <2>1 DEF ReconcileLimitsUncached
<1> QED
  BY <1>4, <1>5, <1>6, <1>7, <1>8, <1>9, <1>10, <1>11, <1>12 DEF Reconcile

\* Every step leaves the metric right or due.
LEMMA DueStep ==
  ASSUME Undisturbed, TypeOK, TypeOK', QueueConsistent, StaleInv, CopyInv, CopyInv', MetricDue,
         [Next]_vars
  PROVE  MetricDue'
<1>1. CASE Reconcile
  BY <1>1, DueReconcile
<1>2. CASE Restart
  BY <1>2, DueListed
<1>3. CASE ~Reconcile /\ UNCHANGED PendingCSRs
  <2>1. CASE UNCHANGED wakeVars
    <3>1. Right => Right'
      BY <1>3, <2>1, RightKept DEF wakeVars, CopyInv
    <3>2. Active => Active'
      BY <2>1 DEF wakeVars, Active
    <3>3. \A c \in CSR : Stirs(c) => Stirs(c)'
      BY <2>1 DEF wakeVars, Stirs
    <3> QED
      BY <3>1, <3>2, <3>3 DEF MetricDue
  <2>2. CASE \E c \in CSR : OthersWrite(c)
    BY <2>2, DueWritten DEF CopyInv
  <2> QED
    BY <1>2, <1>3, <2>1, <2>2, WakeSteps, DueInformer, DueListed
<1> QED
  BY <1>1, <1>2, <1>3, MetricSteps

\* "ensure that the limits (and therefore) the metrics are always up to date"
\* (reconcileLimitsUncached): when nothing is left to do, the pending metric is
\* the number of pending CSRs, whatever was approved by others, denied, lost,
\* late, relisted or restarted meanwhile, unless one of the four things happened
\* that the event handler and the worker pass over.
THEOREM MetricsSettle == ASSUME Undisturbed PROVE Spec => []MetricsSettled
<1>1. WakeupInv /\ Init => CopyInv /\ MetricDue
  <2> SUFFICES ASSUME WakeupInv, Init PROVE CopyInv /\ MetricDue
    OBVIOUS
  <2>1. \A c \in CSR : live[c] = Unborn /\ cache[c] = Unborn
    BY DEF Init
  <2>2. now = 0 /\ Copy(Unborn, Unborn, 0) /\ Unborn.created <= 0 /\ Unborn.phase = "unborn"
    BY DEF Init, Unborn, Copy
  <2>3. LiveCopies /\ CacheCopies
    BY <2>1, <2>2 DEF LiveCopies, CacheCopies
  <2>4. WatchCopies /\ NotifCopies
    BY DEF Init, WatchCopies, NotifCopies
  <2>5. WorkerCopies
    BY <2>2 DEF Init, InitLocals, WorkerCopies
  <2>6. TypeOK
    BY DEF WakeupInv
  <2>7. Counted(live) = {}
    BY <2>1, <2>2 DEF Counted, Present
  <2>8. Right
    BY <2>3, <2>6, <2>7, CountIs, FS_EmptySet DEF Init, Right
  <2> QED
    BY <2>3, <2>4, <2>5, <2>8 DEF CopyInv, MetricDue
<1>2. WakeupInv /\ WakeupInv' /\ (CopyInv /\ MetricDue) /\ [Next]_vars => (CopyInv /\ MetricDue)'
  BY CopyStep, DueStep DEF WakeupInv
<1>3. WakeupInv /\ MetricDue => MetricsSettled
  <2> SUFFICES ASSUME WakeupInv, MetricDue, Quiet PROVE Right
    BY DEF MetricsSettled, Right
  <2>1. pc = "idle" /\ wq.queue = <<>> /\ waiting = {} /\ watch = <<>> /\ notifs = <<>>
    BY DEF Quiet
  <2>2. wq.dirty = {}
    BY <2>1 DEF WakeupInv, QueueConsistent, WQConsistent
  <2>3. ~Active /\ \A c \in CSR : ~Stirs(c)
    BY <2>1, <2>2 DEF Active, Stirs
  <2> QED
    BY <2>3 DEF MetricDue
<1> QED
  BY <1>1, <1>2, <1>3, WakeupInvariant, PTL DEF Spec
=============================================================================
