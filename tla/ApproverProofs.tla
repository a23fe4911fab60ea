--------------------------- MODULE ApproverProofs ---------------------------
(***************************************************************************)
(* Proofs about the CSR controller, for every set of CSRs, machines and    *)
(* nodes, every request, every history of the CA bundle and all bounds.    *)
(***************************************************************************)
EXTENDS Approver, FiniteSetTheorems, TLAPS

-----------------------------------------------------------------------------
\* Lemmas about the operators the model is built from.

\* An order in which a finite set can be listed is a sequence in which exactly
\* its elements occur, each once.
LEMMA OrderTyped ==
  ASSUME NEW U, IsFiniteSet(U), NEW S \in SUBSET U, NEW s \in SetToSeqs(S)
  PROVE  /\ s \in Seq(U) /\ DOMAIN s = 1..Len(s)
         /\ \A i \in 1..Len(s) : s[i] \in S
         /\ \A x \in S : \E i \in 1..Len(s) : s[i] = x
         /\ \A i, j \in 1..Len(s) : s[i] = s[j] => i = j
<1> DEFINE n == Cardinality(S)
<1>1. IsFiniteSet(S) /\ n \in Nat
  BY FS_Subset, FS_CardinalityType
<1>2. s \in [1..n -> S] /\ \A i, j \in 1..n : i # j => s[i] # s[j]
  BY DEF SetToSeqs
<1>3. DOMAIN s = 1..n /\ s \in Seq(U) /\ Len(s) = n
  <2>1. s \in [1..n -> U]
    BY <1>2
  <2> HIDE DEF n
  <2> QED
    BY <1>1, <2>1
<1>4. s \in Injection(1..n, S)
  BY <1>2 DEF Injection, IsInjective
<1>5. Cardinality(1..n) = n
  BY <1>1, FS_Interval
<1>6. s \in Surjection(1..n, S)
  BY <1>1, <1>4, <1>5, FS_Injection
<1>7. \A x \in S : \E i \in 1..n : s[i] = x
  BY <1>6 DEF Surjection
<1> QED
  BY <1>1, <1>2, <1>3, <1>7

\* Add and Done keep the type of the work queue.
LEMMA QueueTyped ==
  ASSUME NEW Key, NEW q \in WQType(Key), NEW k \in Key
  PROVE  WQAdd(q, k) \in WQType(Key) /\ WQDone(q, k) \in WQType(Key)
BY DEF WQType, WQAdd, WQDone

\* So does Get, which hands out a key.
LEMMA QueueGetTyped ==
  ASSUME NEW Key, NEW q \in WQType(Key), WQCanGet(q)
  PROVE  WQGet(q) \in WQType(Key) /\ Head(q.queue) \in Key
<1>1. Head(q.queue) \in Key /\ Tail(q.queue) \in Seq(Key)
  BY DEF WQType, WQCanGet
<1> QED
  BY <1>1 DEF WQType, WQGet

\* Adding a set of keys in one of its orders keeps the type of the queue.
LEMMA QueueAddAllTyped ==
  ASSUME NEW Key, NEW q \in WQType(Key), NEW S \in SUBSET Key, IsFiniteSet(Key),
         NEW order \in WQOrders(q, S)
  PROVE  WQAddAll(q, S, order) \in WQType(Key)
<1>1. order \in Seq(Key)
  BY OrderTyped DEF WQOrders
<1> QED
  BY <1>1 DEF WQType, WQAddAll

\* The larger of two numbers is a number, so the limit is one.
LEMMA MaxPendingTyped ==
  ASSUME NEW i \in Nat, NEW j \in Nat
  PROVE  getMaxPending(i, j) \in Nat
<1>1. \E x \in {i, j} : \A y \in {i, j} : x >= y
  OBVIOUS
<1>2. Max({i, j}) \in {i, j}
  BY <1>1 DEF Max
<1> QED
  BY <1>2, DiffAssumption DEF getMaxPending

\* The pending CSRs of a list are finitely many.
LEMMA PendingTyped ==
  ASSUME NEW objs
  PROVE  recentlyPendingNodeCSRs(Listed(objs), Request, now) \in Nat
<1> DEFINE P == {c \in DOMAIN Listed(objs) :
       /\ inTimeSpan(now - maxPendingDelta, now + maxMachineClockSkew, Listed(objs)[c].created)
       /\ isReqFromNodeBootstrapper(Request[c]) \/ isRequestFromNodeUser(Request[c])
       /\ ~isApproved(Listed(objs)[c])}
<1>1. P \in SUBSET CSR
  BY DEF Listed, Present
<1>2. Cardinality(P) \in Nat
  BY <1>1, CSRAssumption, FS_Subset, FS_CardinalityType
<1> QED
  BY <1>2 DEF recentlyPendingNodeCSRs

\* What the informer tells the handler about a list are changes.
LEMMA ListingTyped ==
  ASSUME NEW objs \in [CSR -> Obj], NEW s \in SetToSeqs(Present(objs))
  PROVE  Listing(s, objs) \in Seq(Change)
<1>1. Present(objs) \in SUBSET CSR
  BY DEF Present
<1>3. s \in Seq(CSR) /\ DOMAIN s = 1..Len(s)
  BY <1>1, CSRAssumption, OrderTyped
<1>4. \A i \in 1..Len(s) : [csr |-> s[i], obj |-> objs[s[i]]] \in Change
  BY <1>3 DEF Change
<1> QED
  BY <1>3, <1>4 DEF Listing

\* A stored object is what the watchers are told.
LEMMA StoreTyped ==
  ASSUME TypeAPI, NEW c \in CSR, NEW obj \in Obj, Store(c, obj)
  PROVE  TypeAPI'
BY DEF TypeAPI, Store, Change

\* The locals of an idle worker are well typed.
LEMMA InitLocalsTyped == InitLocals \in Locals
BY BoundAssumption DEF InitLocals, Locals, Unborn, Obj, Time, CAPools, Listener

\* Where the worker goes when a reconcile ends.
LEMMA FinishTyped ==
  ASSUME TypeOK, cur \in CSR, NEW why, Finish(why)
  PROVE  TypeWorker' /\ TypeQueue' /\ TypeHistory'
<1>1. TypeWorker'
  BY InitLocalsTyped DEF Finish, TypeWorker, PC
<1>2. TypeQueue'
  BY QueueTyped DEF Finish, TypeOK, TypeQueue
<1>3. TypeHistory'
  BY DEF Finish, TypeOK, TypeHistory
<1> QED
  BY <1>1, <1>2, <1>3

\* The steps of the worker keep every type.
LEMMA ReconcileTyped == TypeOK /\ Reconcile => TypeOK'
<1> SUFFICES ASSUME TypeOK, Reconcile PROVE TypeOK'
  OBVIOUS
<1> USE DEF TypeOK
<1>0. /\ pc # "idle" => cur \in CSR
      /\ r \in Locals /\ now \in Time
  BY DEF TypeWorker, TypeCluster
<1>1. ASSUME TypeWorker', TypeQueue', TypeHistory', TypeMetrics', TypeBounds',
             UNCHANGED <<infVars, caVars, worldVars>>, TypeAPI'
      PROVE  TypeOK'
  BY <1>1 DEF infVars, caVars, worldVars, TypeInformer, TypeCA, TypeCluster
<1>2. ASSUME NEW label \in PC \ {"idle", "dial"}, Go(label), pc # "idle", r' \in Locals
      PROVE  TypeWorker' /\ TypeQueue' /\ TypeHistory'
  BY <1>0, <1>2 DEF Go, queueVars, TypeWorker, TypeQueue, TypeHistory
<1>3. ASSUME NEW why, Finish(why), pc # "idle"
      PROVE  TypeWorker' /\ TypeQueue' /\ TypeHistory'
  BY <1>0, <1>3, FinishTyped
<1>4. NoFault \/ Fault => TypeBounds'
  BY BoundAssumption DEF NoFault, Fault, boundVars, TypeBounds
<1>5. UNCHANGED apiVars => TypeAPI'
  BY DEF apiVars, TypeAPI
<1>6. UNCHANGED metricVars => TypeMetrics'
  BY DEF metricVars, TypeMetrics
<1>7. CASE Dequeue
  <2>1. WQGet(wq) \in WQType(CSR) /\ Head(wq.queue) \in CSR
    BY <1>7, QueueGetTyped DEF Dequeue, TypeQueue
  <2>2. TypeWorker' /\ TypeQueue' /\ TypeHistory'
    BY <1>7, <2>1 DEF Dequeue, TypeWorker, TypeQueue, TypeHistory, PC
  <2> QED
    BY <1>7, <1>1, <1>4, <1>5, <1>6, <2>2 DEF Dequeue, NoFault
<1>8. CASE ListCSRs
  <2>1. [r EXCEPT !.csrs = cache] \in Locals
    BY <1>0 DEF Locals, TypeInformer
  <2> QED
    BY <1>8, <1>1, <1>2, <1>3, <1>4, <1>5, <1>6, <2>1 DEF ListCSRs, PC
<1>9. CASE ListMachines
  <2> DEFINE found == ListedOf(APIGroupVersions[r.group])
             list(s) == [i \in DOMAIN s |-> MachineView(s[i])]
             next(s) == [r EXCEPT !.machines = @ \o list(s), !.group = @ + 1]
  <2>1. found \in SUBSET Machine
    BY DEF Existing, ListedOf
  <2>2. \A m \in Machine : MachineView(m) \in MachineRec
    BY DEF MachineView, MachineRec, TypeCluster
  <2>3. ASSUME NEW s \in SetToSeqs(found) PROVE next(s) \in Locals
    <3>1. s \in Seq(Machine) /\ DOMAIN s = 1..Len(s)
      BY <2>1, ClusterAssumption, OrderTyped
    <3>2. list(s) \in Seq(MachineRec)
      BY <2>2, <3>1
    <3> HIDE DEF list
    <3>3. r.machines \in Seq(MachineRec) /\ r.group \in Nat
      BY <1>0 DEF Locals
    <3>4. r.machines \o list(s) \in Seq(MachineRec) /\ r.group + 1 \in Nat
      BY <3>2, <3>3
    <3> DEFINE ms == r.machines \o list(s)
    <3>5. ms \in Seq(MachineRec)
      BY <3>4
    <3> HIDE DEF ms
    <3>6. [r EXCEPT !.machines = ms, !.group = r.group + 1] \in Locals
      BY <1>0, <3>4, <3>5 DEF Locals
    <3>7. next(s) = [r EXCEPT !.machines = ms, !.group = r.group + 1]
      BY <1>0 DEF ms, Locals
    <3> QED
      BY <3>6, <3>7
  <2> HIDE DEF found, next
  <2>4. \/ /\ NoFault
           /\ \E s \in SetToSeqs(found) : r' = next(s)
           /\ Go(IF r.group = Len(APIGroupVersions) THEN "listNodes" ELSE "listMachines")
        \/ NoFault /\ Finish("error")
        \/ Fault /\ Finish("error")
    BY <1>9 DEF ListMachines, found, next
  <2>5. TypeWorker' /\ TypeQueue' /\ TypeHistory'
    BY <1>9, <1>2, <1>3, <2>3, <2>4 DEF ListMachines, PC
  <2> QED
    BY <1>9, <1>1, <1>4, <1>5, <1>6, <2>4, <2>5 DEF ListMachines
<1>10. ASSUME NEW objs, NEW i \in Nat, NEW j \in Nat, reconcileLimits(objs, i, j)
       PROVE  TypeMetrics'
  BY <1>10, PendingTyped, MaxPendingTyped DEF reconcileLimits, TypeMetrics
<1>11. CASE ListNodes
  <2> DEFINE nodeCount == Cardinality({n \in Node : node[n]})
  <2>1. nodeCount \in Nat
    BY ClusterAssumption, FS_Subset, FS_CardinalityType
  <2>2. Len(r.machines) \in Nat
    BY <1>0 DEF Locals
  <2>3. [r EXCEPT !.nodes = nodeCount] \in Locals
    BY <1>0, <2>1 DEF Locals
  <2>4. TypeWorker' /\ TypeQueue' /\ TypeHistory'
    BY <1>11, <1>2, <1>3, <2>3 DEF ListNodes, PC
  <2> HIDE DEF nodeCount
  <2>5. TypeMetrics' /\ TypeBounds'
    BY <1>11, <1>4, <1>6, <1>10, <2>1, <2>2 DEF ListNodes, nodeCount
  <2> QED
    BY <1>11, <1>1, <1>5, <2>4, <2>5 DEF ListNodes
<1>12. CASE ReconcileCSR
  <2>1. getKubeletCA(CAHistory[cachedCA]) \in CAPools
    BY DEF getKubeletCA, CAPools
  <2>2. [r EXCEPT !.ca = getKubeletCA(CAHistory[cachedCA])] \in Locals
    BY <1>0, <2>1 DEF Locals
  <2>3. TypeWorker' /\ TypeQueue' /\ TypeHistory'
    BY <1>12, <1>0, <1>2, <1>3, <2>2 DEF ReconcileCSR, PC
  <2> QED
    BY <1>12, <1>1, <1>4, <1>5, <1>6, <2>3 DEF ReconcileCSR, NoFault
<1>13. CASE GetNode
  <2>1. ASSUME Go("dial"), validateCSRContents(Request[cur]) \in Node
        PROVE  TypeWorker' /\ TypeQueue' /\ TypeHistory'
    BY <1>13, <1>0, <2>1 DEF GetNode, Go, queueVars, TypeWorker, TypeQueue, TypeHistory, PC
  <2>2. TypeWorker' /\ TypeQueue' /\ TypeHistory'
    BY <1>13, <1>0, <1>2, <2>1 DEF GetNode, NodeExists, PC
  <2> QED
    BY <1>13, <1>1, <1>4, <1>5, <1>6, <2>2 DEF GetNode
<1>14. CASE DialKubelet
  <2> DEFINE n == validateCSRContents(Request[cur])
             cert == getServingCert("found", [addresses |-> NodeAddresses[n]], listening, r.ca)
  <2>1. cert \in Listener
    <3>1. <<>> \in Listener
      BY DEF Listener
    <3>2. nodeInternalIP([addresses |-> NodeAddresses[n]]) \in Host \cup {""}
      BY <1>14, HostAssumption DEF DialKubelet, TypeWorker
    <3>3. \A h \in Host : listening[h] \in Listener
      BY DEF TypeCluster
    <3> HIDE DEF n
    <3> QED
      BY <3>1, <3>2, <3>3 DEF getServingCert
  <2>2. [r EXCEPT !.cert = cert] \in Locals
    <3> HIDE DEF cert
    <3> QED
      BY <1>0, <2>1 DEF Locals
  <2>3. r' \in Locals
    BY <1>14, <1>0, <2>2 DEF DialKubelet
  <2>4. TypeWorker' /\ TypeQueue' /\ TypeHistory'
    BY <1>14, <1>2, <2>3 DEF DialKubelet, PC
  <2> QED
    BY <1>14, <1>1, <1>4, <1>5, <1>6, <2>4 DEF DialKubelet
<1>15. CASE Authorize
  <2>1. [r EXCEPT !.declined = TRUE] \in Locals
    BY <1>0 DEF Locals
  <2>2. ASSUME NEW failed, Decide(failed), pc # "idle"
        PROVE  TypeWorker' /\ TypeQueue' /\ TypeHistory'
    BY <1>0, <1>2, <1>3, <2>1, <2>2 DEF Decide, PC
  <2> QED
    BY <1>15, <1>1, <1>4, <1>5, <1>6, <2>2 DEF Authorize
<1>16. CASE Approve
  <2> DEFINE obj == [r.csrs[cur] EXCEPT !.by = "cma", !.at = now]
  <2>0. r.csrs[cur] \in Obj
    BY <1>16, <1>0 DEF Approve, Locals
  <2>1. obj \in Obj
    BY <1>0, <2>0 DEF Obj
  <2>2. Store(cur, obj) => TypeAPI'
    BY <1>16, <1>0, <2>1, StoreTyped DEF Approve
  <2> HIDE DEF obj
  <2>3. TypeAPI' /\ TypeBounds'
    BY <1>16, <1>4, <1>5, <2>2 DEF Approve, obj
  <2>4. TypeWorker' /\ TypeQueue' /\ TypeHistory'
    BY <1>16, <1>0, <1>2, <1>3 DEF Approve, PC
  <2> QED
    BY <1>16, <1>1, <1>6, <2>3, <2>4 DEF Approve
<1>17. CASE ReconcileLimitsUncached
  <2>1. Len(r.machines) \in Nat /\ r.nodes \in Nat
    BY <1>0 DEF Locals
  <2>2. TypeMetrics' /\ TypeBounds'
    BY <1>17, <1>4, <1>6, <1>10, <2>1 DEF ReconcileLimitsUncached
  <2>3. TypeWorker' /\ TypeQueue' /\ TypeHistory'
    BY <1>17, <1>3 DEF ReconcileLimitsUncached
  <2> QED
    BY <1>17, <1>1, <1>5, <2>2, <2>3 DEF ReconcileLimitsUncached
<1> QED
  BY <1>7, <1>8, <1>9, <1>11, <1>12, <1>13, <1>14, <1>15, <1>16, <1>17 DEF Reconcile

-----------------------------------------------------------------------------
\* Type correctness.

\* Every variable keeps its type: the work queue only ever holds CSR names, the
\* worker always holds one, and the metrics are natural numbers.
THEOREM TypeCorrect == Spec => []TypeOK
<1> USE BoundAssumption, CSRAssumption
<1>1. Init => TypeOK
  <2> SUFFICES ASSUME Init PROVE TypeOK
    OBVIOUS
  <2>1. TypeAPI /\ TypeInformer /\ TypeCA
    BY CAAssumption DEF Init, TypeAPI, TypeInformer, TypeCA, Unborn, Obj, Time
  <2>2. TypeCluster
    <3>1. \A m \in Machine : <<>> \in AddressLists /\ Addresses[m] \in AddressLists
      BY DEF AddressLists
    <3>2. \A m \in Machine : (m \in InitMachines) \in BOOLEAN
      OBVIOUS
    <3>3. node \in [Node -> BOOLEAN]
      BY DEF Init
    <3>4. machine \in [Machine -> [exists: BOOLEAN, nodeRef: Node \cup {NoNode},
                                  addresses: AddressLists, created: Time]]
      <4> DEFINE R == [exists: BOOLEAN, nodeRef: Node \cup {NoNode},
                       addresses: AddressLists, created: Time]
                 rec(m) == [exists |-> m \in InitMachines, nodeRef |-> NoNode, created |-> 0,
                            addresses |-> IF m \in InitMachines THEN Addresses[m] ELSE <<>>]
      <4>1. \A m \in Machine : rec(m) \in R
        BY <3>1, <3>2 DEF Time
      <4>2. machine = [m \in Machine |-> rec(m)]
        BY DEF Init
      <4> HIDE DEF R, rec
      <4>3. machine \in [Machine -> R]
        BY <4>1, <4>2
      <4> QED
        BY <4>3 DEF R
    <3>5. now \in Time
      BY DEF Init, Time
    <3>6. listening \in [Host -> Listener]
      BY HostAssumption DEF Init, Listener
    <3> QED
      BY <3>3, <3>4, <3>5, <3>6 DEF TypeCluster
  <2>3. TypeQueue /\ TypeMetrics /\ TypeBounds /\ TypeHistory
    BY DEF Init, TypeQueue, TypeMetrics, TypeBounds, TypeHistory, WQType, WQEmpty
  <2>4. TypeWorker
    BY InitLocalsTyped DEF Init, TypeWorker, PC
  <2> QED
    BY <2>1, <2>2, <2>3, <2>4 DEF TypeOK
<1>2. TypeOK /\ [Next]_vars => TypeOK'
  <2> SUFFICES ASSUME TypeOK, [Next]_vars PROVE TypeOK'
    OBVIOUS
  <2> USE DEF TypeOK
  <2>1. CASE Environment
    <3>1. ASSUME NEW c \in CSR, OthersWrite(c) PROVE TypeOK'
      <4>1. TypeAPI'
        <5>1. now \in Time /\ live[c] \in Obj /\ Unborn \in Obj
          BY DEF TypeCluster, TypeAPI, Unborn, Obj, Time
        <5>2. CASE CreateCSR(c)
          BY <5>1, <5>2, StoreTyped DEF CreateCSR, Obj
        <5>3. CASE ApproveExternally(c)
          BY <5>1, <5>3, StoreTyped DEF ApproveExternally, Obj
        <5>4. CASE DenyExternally(c)
          BY <5>1, <5>4, StoreTyped DEF DenyExternally, Obj
        <5>5. CASE DeleteCSR(c)
          BY <5>1, <5>5, StoreTyped DEF DeleteCSR, Obj
        <5>6. CASE ApproveByPeer(c)
          BY <5>1, <5>6, StoreTyped DEF ApproveByPeer, Obj
        <5> QED
          BY <3>1, <5>2, <5>3, <5>4, <5>5, <5>6 DEF OthersWrite
      <4>2. UNCHANGED othersThanAPI
        BY <3>1 DEF OthersWrite, CreateCSR, ApproveExternally, ApproveByPeer, DenyExternally, DeleteCSR
      <4> QED
        BY <4>1, <4>2 DEF othersThanAPI, infVars, caVars, worldVars, queueVars, workVars, metricVars,
             boundVars, TypeInformer, TypeCA, TypeCluster, TypeQueue, TypeWorker, TypeMetrics,
             TypeBounds, TypeHistory
    <3>2. ASSUME NEW m \in Machine, CreateMachine(m) \/ ProvisionMachine(m) \/ DeleteMachine(m)
          PROVE TypeCluster' /\ UNCHANGED othersThanWorld
      <4>1. <<>> \in AddressLists /\ Addresses[m] \in AddressLists
        BY DEF AddressLists
      <4>2. CASE CreateMachine(m)
        BY <4>1, <4>2 DEF CreateMachine, TypeCluster
      <4>3. CASE ProvisionMachine(m)
        BY <4>1, <4>3 DEF ProvisionMachine, TypeCluster
      <4>4. CASE DeleteMachine(m)
        BY <4>4 DEF DeleteMachine, TypeCluster
      <4> QED
        BY <3>2, <4>2, <4>3, <4>4
    <3>3. ASSUME NEW m \in Machine, NEW n \in Node, LinkNode(m, n)
          PROVE TypeCluster' /\ UNCHANGED othersThanWorld
      BY <3>3 DEF LinkNode, TypeCluster
    <3>4. ASSUME NEW n \in Node, ToggleNode(n)
          PROVE TypeCluster' /\ UNCHANGED othersThanWorld
      BY <3>4 DEF ToggleNode, TypeCluster
    <3>5. ASSUME NEW h \in Host, NEW cert \in Listener, Listen(h, cert)
          PROVE TypeCluster' /\ UNCHANGED othersThanWorld
      BY <3>5 DEF Listen, TypeCluster
    <3>6. Tick => TypeCluster' /\ UNCHANGED othersThanWorld
      BY DEF Tick, TypeCluster, Time
    <3>7. ASSUME TypeCluster', UNCHANGED othersThanWorld PROVE TypeOK'
      BY <3>7 DEF othersThanWorld, apiVars, infVars, caVars, queueVars, workVars, metricVars,
           boundVars, TypeAPI, TypeInformer, TypeCA, TypeQueue, TypeWorker, TypeMetrics,
           TypeBounds, TypeHistory
    <3>8. CASE RotateCA
      BY <3>8 DEF RotateCA, apiVars, infVars, worldVars, queueVars, workVars, metricVars, boundVars,
           TypeAPI, TypeInformer, TypeCA, TypeCluster, TypeQueue, TypeWorker, TypeMetrics,
           TypeBounds, TypeHistory
    <3>9. CASE InformerRelist
      <4>1. TypeAPI' /\ TypeBounds'
        BY <3>9 DEF InformerRelist, TypeAPI, TypeBounds
      <4>2. TypeInformer'
        BY <3>9, ListingTyped DEF InformerRelist, TypeAPI, TypeInformer
      <4> QED
        BY <3>9, <4>1, <4>2 DEF InformerRelist, caVars, worldVars, queueVars, workVars, metricVars,
             TypeCA, TypeCluster, TypeQueue, TypeWorker, TypeMetrics, TypeHistory
    <3>10. CASE Restart
      <4>1. TypeAPI' /\ TypeBounds' /\ TypeCluster' /\ TypeMetrics' /\ TypeHistory'
        BY <3>10 DEF Restart, TypeAPI, TypeBounds, worldVars, TypeCluster, TypeMetrics, TypeHistory
      <4>2. TypeInformer'
        BY <3>10, ListingTyped DEF Restart, TypeAPI, TypeInformer
      <4>3. TypeCA'
        <5> DEFINE e == <<"absent", CAHistory[ca]>>
                   E == CAState \X CAState
        <5>1. e \in E
          BY DEF TypeCA, CAState
        <5>2. caEvents' \in {<<>>, <<e>>} /\ ca' = ca /\ cachedCA' = ca
          BY <3>10 DEF Restart
        <5> HIDE DEF e, E
        <5>3. <<>> \in Seq(E) /\ <<e>> \in Seq(E)
          BY <5>1
        <5>4. caEvents' \in Seq(E)
          BY <5>2, <5>3
        <5> QED
          BY <5>2, <5>4 DEF TypeCA, E
      <4>4. TypeQueue' /\ TypeWorker'
        BY <3>10, InitLocalsTyped DEF Restart, TypeQueue, TypeWorker, PC, WQType, WQEmpty
      <4> QED
        BY <4>1, <4>2, <4>3, <4>4
    <3> QED
      BY <2>1, <3>1, <3>2, <3>3, <3>4, <3>5, <3>6, <3>7, <3>8, <3>9, <3>10 DEF Environment
  <2>2. CASE Informer
    <3>1. CASE DeliverChange
      <4>1. TypeAPI' /\ TypeInformer'
        <5>1. Head(watch) \in Change /\ Tail(watch) \in Seq(Change)
          BY <3>1 DEF DeliverChange, TypeAPI
        <5>2. Head(watch).csr \in CSR /\ Head(watch).obj \in Obj
          BY <5>1 DEF Change
        <5> QED
          BY <3>1, <5>1, <5>2 DEF DeliverChange, TypeAPI, TypeInformer
      <4> QED
        BY <3>1, <4>1 DEF DeliverChange, caVars, worldVars, queueVars, workVars, metricVars, boundVars,
             TypeCA, TypeCluster, TypeQueue, TypeWorker, TypeMetrics, TypeBounds, TypeHistory
    <3>2. CASE HandleChange
      <4>0. Head(notifs) \in Change /\ Tail(notifs) \in Seq(Change)
        BY <3>2 DEF HandleChange, TypeInformer
      <4>1. Head(notifs).csr \in CSR /\ Tail(notifs) \in Seq(Change)
        BY <4>0 DEF Change
      <4>2. TypeInformer' /\ TypeQueue'
        BY <3>2, <4>1, QueueTyped DEF HandleChange, TypeInformer, TypeQueue
      <4> QED
        BY <3>2, <4>2 DEF HandleChange, apiVars, caVars, worldVars, workVars, metricVars, boundVars,
             TypeAPI, TypeCA, TypeCluster, TypeWorker, TypeMetrics, TypeBounds, TypeHistory
    <3>3. CASE DeliverCA
      <4> DEFINE e == <<CAHistory[cachedCA], CAHistory[cachedCA + 1]>>
                 E == CAState \X CAState
      <4>1. /\ ca \in 1..Len(CAHistory) /\ cachedCA \in 1..Len(CAHistory)
            /\ cachedCA + 1 \in 1..Len(CAHistory)
        BY <3>3, CAAssumption DEF DeliverCA, TypeCA
      <4>2. CAHistory[cachedCA] \in CAState /\ CAHistory[cachedCA + 1] \in CAState
        BY <4>1 DEF CAState
      <4>3. e \in E
        BY <4>2
      <4> HIDE DEF e, E
      <4>4. Append(caEvents, e) \in Seq(E)
        BY <4>3 DEF TypeCA, E
      <4>5. TypeCA'
        BY <3>3, <4>1, <4>4 DEF DeliverCA, TypeCA, e, E
      <4> QED
        BY <3>3, <4>5 DEF DeliverCA, apiVars, infVars, worldVars, queueVars, workVars, metricVars,
             boundVars, TypeAPI, TypeInformer, TypeCluster, TypeQueue, TypeWorker, TypeMetrics,
             TypeBounds, TypeHistory
    <3>4. CASE HandleCA
      <4>1. TypeCA'
        BY <3>4 DEF HandleCA, TypeCA
      <4>2. \A S \in SUBSET CSR : \A order \in WQOrders(wq, S) : WQAddAll(wq, S, order) \in WQType(CSR)
        BY QueueAddAllTyped DEF TypeQueue
      <4>3. toCSRs \in SUBSET CSR
        BY DEF toCSRs, Present
      <4>4. TypeQueue'
        BY <3>4, <4>2, <4>3 DEF HandleCA, TypeQueue
      <4>5. TypeBounds'
        BY <3>4 DEF HandleCA, NoFault, Fault, boundVars, TypeBounds
      <4> QED
        BY <3>4, <4>1, <4>4, <4>5 DEF HandleCA, apiVars, infVars, worldVars, workVars, metricVars,
             TypeAPI, TypeInformer, TypeCluster, TypeWorker, TypeMetrics, TypeHistory
    <3>5. CASE Resync
      <4>1. TypeInformer'
        BY <3>5, ListingTyped DEF Resync, TypeInformer
      <4> QED
        BY <3>5, <4>1 DEF Resync, apiVars, caVars, worldVars, queueVars, workVars, metricVars, boundVars,
             TypeAPI, TypeCA, TypeCluster, TypeQueue, TypeWorker, TypeMetrics, TypeBounds, TypeHistory
    <3> QED
      BY <2>2, <3>1, <3>2, <3>3, <3>4, <3>5 DEF Informer
  <2>3. ASSUME NEW c \in CSR, AddAfterBackoff(c) PROVE TypeOK'
    <3>1. TypeQueue'
      BY <2>3, QueueTyped DEF AddAfterBackoff, TypeQueue
    <3> QED
      BY <2>3, <3>1 DEF AddAfterBackoff, apiVars, infVars, caVars, worldVars, workVars, metricVars,
           boundVars, TypeAPI, TypeInformer, TypeCA, TypeCluster, TypeWorker, TypeMetrics,
           TypeBounds, TypeHistory
  <2>4. CASE Reconcile
    BY <2>4, ReconcileTyped
  <2>5. CASE UNCHANGED vars
    BY <2>5 DEF vars, apiVars, infVars, caVars, worldVars, queueVars, workVars, metricVars, boundVars,
         TypeAPI, TypeInformer, TypeCA, TypeCluster, TypeQueue, TypeWorker, TypeMetrics,
         TypeBounds, TypeHistory
  <2> QED
    BY <2>1, <2>2, <2>3, <2>4, <2>5 DEF Next
<1> QED
  BY <1>1, <1>2, PTL DEF Spec
=============================================================================
