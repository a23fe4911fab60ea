------------------------------ MODULE Approver ------------------------------
(***************************************************************************)
(* The CSR controller (pkg/controller/controller.go) with everything it    *)
(* runs against: the API server that stores CSRs, the informer whose cache *)
(* it lists them from, the work queue, and the machines, nodes, kubelets   *)
(* and CA bundle it reads while it decides.                                *)
(*                                                                         *)
(*   live --watch--> cache --notifs--> pendingCertFilter --> wq            *)
(*                                                            |            *)
(*     UpdateApproval <-- authorizeCSR <-- lists <-- Reconcile (1 worker)  *)
(*                                                            |            *)
(*                    on an error: waiting (back-off) --> wq  <            *)
(*                                                                         *)
(* CSRs and the CA bundle are read from the informer's cache and may be    *)
(* stale; machines, nodes and the closing list of CSRs are read from the   *)
(* API server.  Every read is a step of its own, so anything can happen    *)
(* between two reads, and between the last read and UpdateApproval.        *)
(***************************************************************************)
EXTENDS CSRCheck, WorkQueue

CONSTANTS
  CSR, NoCSR,     \* names of CSRs (a name is never used twice), and none
  Request,        \* [CSR -> request], the immutable spec of each CSR
  Machine, GroupOf, NamespaceOf,  \* machines, their API groups and namespaces,
  Addresses, Decodable,         \* addresses once known, those that decode
  APIGroupVersions,             \* the groups the controller lists, in order, each
                                \* with the version the flag pins or ""
  ServedVersions,               \* [group the API server knows -> its versions]
  MachineNamespace,             \* the flag, "" for all namespaces
  Node, NodeAddresses,          \* nodes and the addresses they advertise
  Host, Cert,     \* texts of dialled addresses, certificates kubelets may present
  CAHistory,      \* successive contents of the kubelet CA ConfigMap: "absent" (no
                  \* ConfigMap), "nokey" (no ca-bundle.crt in it) or a bundle
  BundleRoots,    \* [bundle -> the roots that parse out of it]
  NetworkType, HostSubnet,      \* cluster network and [Node -> host subnet]
  Disabled,       \* config.NodeClientCert.Disabled
  InitMachines, InitNodes, InitListening,  \* the cluster to begin with
  Events,         \* which changes of the environment happen
  MaxNow, MaxFaults, MaxDisruptions   \* bounds: clock, failed calls, restarts

ASSUME CSRAssumption == IsFiniteSet(CSR) /\ NoCSR \notin CSR

ASSUME ClusterAssumption == IsFiniteSet(Machine) /\ IsFiniteSet(Node)

\* Without a flag the controller lists one group, with flags at least one.
ASSUME GroupAssumption == Len(APIGroupVersions) \in Nat \ {0}

ASSUME CAAssumption == Len(CAHistory) \in Nat \ {0}

ASSUME BoundAssumption == MaxNow \in Nat /\ MaxFaults \in Nat /\ MaxDisruptions \in Nat

\* Dialled addresses are in the domain of listening.
ASSUME HostAssumption ==
  /\ InitListening \in [Host -> {<<>>} \cup {<<x>> : x \in Cert}]
  /\ \A n \in Node : nodeInternalIP([addresses |-> NodeAddresses[n]]) \in Host \cup {""}

VARIABLES
  live,           \* CSR objects in the API server
  watch,          \* changes on their way to the informer
  cache,          \* the informer's store
  notifs,         \* changes on their way to the event handler
  ca, cachedCA,   \* index into CAHistory: API server, informer
  caEvents,       \* pairs <<old, new>> of contents on their way to the handler
  machine, node, listening, now,      \* the rest of the cluster
  wq, waiting,    \* work queue; keys in back-off
  pc, cur, r,     \* the worker: position, CSR, local variables
  PendingCSRs, MaxPendingCSRs,        \* the two exported metrics
  faults, disruptions,                \* bound counters
  dropped         \* history: why the last finished reconcile let go of a CSR

apiVars == <<live, watch>>
infVars == <<cache, notifs>>
caVars == <<ca, cachedCA, caEvents>>
worldVars == <<machine, node, listening, now>>
queueVars == <<wq, waiting>>
workVars == <<pc, cur, r>>
metricVars == <<PendingCSRs, MaxPendingCSRs>>
boundVars == <<faults, disruptions>>
vars == <<apiVars, infVars, caVars, worldVars, queueVars, workVars, metricVars,
          boundVars, dropped>>

Time == 0..MaxNow

Obj == [phase: {"unborn", "present", "deleted"}, created: Time,
        by: {"none", "cma", "other"}, at: Time, denied: BOOLEAN]

Unborn == [phase |-> "unborn", created |-> 0, by |-> "none", at |-> 0, denied |-> FALSE]

Change == [csr: CSR, obj: Obj]

AddressLists == {<<>>} \cup {Addresses[m] : m \in Machine}

MachineRec == [nodeRef: Node \cup {NoNode}, addresses: AddressLists, created: Time]

PC == {"idle", "listCSRs", "listMachines", "listNodes", "reconcileCSR",
       "getServingCert", "dial", "authorize", "approve", "closingList"}

CAState == {CAHistory[i] : i \in 1..Len(CAHistory)} \cup {"absent"}
CAPools == {{}} \cup {BundleRoots[b] : b \in DOMAIN BundleRoots}

\* What listens at an address: nothing, or a kubelet with its certificate.
Listener == {<<>>} \cup {<<x>> : x \in Cert}

Locals == [csrs: [CSR -> Obj], machines: Seq(MachineRec), group: Nat, nodes: Nat,
           ca: CAPools, cert: Listener, declined: BOOLEAN]

TypeAPI == live \in [CSR -> Obj] /\ watch \in Seq(Change)
TypeInformer == cache \in [CSR -> Obj] /\ notifs \in Seq(Change)
TypeCA ==
  /\ ca \in 1..Len(CAHistory) /\ cachedCA \in 1..Len(CAHistory)
  /\ caEvents \in Seq(CAState \X CAState)
TypeCluster ==
  /\ machine \in [Machine -> [exists: BOOLEAN, nodeRef: Node \cup {NoNode},
                              addresses: AddressLists, created: Time]]
  /\ node \in [Node -> BOOLEAN]
  /\ listening \in [Host -> Listener]
  /\ now \in Time
TypeQueue == wq \in WQType(CSR) /\ waiting \in SUBSET CSR
TypeWorker ==
  /\ pc \in PC /\ cur \in CSR \cup {NoCSR} /\ r \in Locals
  /\ pc # "idle" => cur \in CSR
  /\ pc = "dial" => validateCSRContents(Request[cur]) \in Node
TypeMetrics == PendingCSRs \in Nat /\ MaxPendingCSRs \in Nat
TypeBounds == faults \in 0..MaxFaults /\ disruptions \in 0..MaxDisruptions
TypeHistory == dropped \in [CSR -> {"no", "ignored", "declined"}]

\* The type invariant.
TypeOK ==
  /\ TypeAPI /\ TypeInformer /\ TypeCA /\ TypeCluster /\ TypeQueue /\ TypeWorker
  /\ TypeMetrics /\ TypeBounds /\ TypeHistory

-----------------------------------------------------------------------------
\* Helpers

Present(objs) == {c \in CSR : objs[c].phase = "present"}
Listed(objs) == [c \in Present(objs) |-> objs[c]]
Existing == {m \in Machine : machine[m].exists}

MachineView(m) == [nodeRef   |-> machine[m].nodeRef,
                   addresses |-> machine[m].addresses,
                   created   |-> machine[m].created]

\* No ConfigMap, no ca-bundle.crt in it, and nothing in that that parses as a
\* certificate all give the nil pool.
getKubeletCA(content) ==
  IF content \in DOMAIN BundleRoots THEN BundleRoots[content] ELSE {}

\* A creation with the key or an update that changes the bundle, never a deletion.
caConfigMapFilter(old, new) == new \notin {"absent", "nokey"} /\ old # new

\* One call of the environment fails; the number of failures is bounded.
Fault == faults < MaxFaults /\ faults' = faults + 1 /\ UNCHANGED disruptions
NoFault == UNCHANGED boundVars

\* The API server stores a new version of CSR c and tells the watchers.
Store(c, obj) ==
  /\ live' = [live EXCEPT ![c] = obj]
  /\ watch' = Append(watch, [csr |-> c, obj |-> obj])

\* What the informer tells its handler after it listed the CSRs of objs in order s.
Listing(s, objs) == [i \in DOMAIN s |-> [csr |-> s[i], obj |-> objs[s[i]]]]

InitLocals == [csrs |-> [c \in CSR |-> Unborn], machines |-> <<>>, group |-> 1,
               nodes |-> 0, ca |-> {}, cert |-> <<>>, declined |-> FALSE]

Init ==
  /\ live = [c \in CSR |-> Unborn] /\ cache = live
  /\ watch = <<>> /\ notifs = <<>>
  /\ ca = 1 /\ cachedCA = 1 /\ caEvents = <<>>
  /\ machine = [m \in Machine |->
       [exists |-> m \in InitMachines, nodeRef |-> NoNode, created |-> 0,
        addresses |-> IF m \in InitMachines THEN Addresses[m] ELSE <<>>]]
  /\ node = [n \in Node |-> n \in InitNodes]
  /\ listening = InitListening
  /\ now = 0
  /\ wq = WQEmpty /\ waiting = {}
  /\ pc = "idle" /\ cur = NoCSR /\ r = InitLocals
  /\ PendingCSRs = 0 /\ MaxPendingCSRs = 0
  /\ faults = 0 /\ disruptions = 0
  /\ dropped = [c \in CSR |-> "no"]

-----------------------------------------------------------------------------
\* The informer and the event handlers (client-go, controller-runtime).

\* The reflector stores the next change, then passes it on.
DeliverChange ==
  /\ watch # <<>>
  /\ cache' = [cache EXCEPT ![Head(watch).csr] = Head(watch).obj]
  /\ notifs' = Append(notifs, Head(watch))
  /\ watch' = Tail(watch)
  /\ UNCHANGED <<live, caVars, worldVars, queueVars, workVars, metricVars, boundVars, dropped>>

\* The handler enqueues the CSR of a creation or an update that passes the
\* filter at this moment; deletions are dropped.
HandleChange ==
  /\ notifs # <<>>
  /\ notifs' = Tail(notifs)
  /\ wq' = IF /\ Head(notifs).obj.phase # "deleted"
              /\ pendingCertFilter(Head(notifs).obj, now)
           THEN WQAdd(wq, Head(notifs).csr) ELSE wq
  /\ UNCHANGED <<apiVars, cache, caVars, worldVars, waiting, workVars, metricVars, boundVars, dropped>>

\* The watch breaks and the informer lists again: the changes it had not seen
\* collapse into the current objects.
InformerRelist ==
  /\ "relist" \in Events /\ disruptions < MaxDisruptions
  /\ disruptions' = disruptions + 1
  /\ watch' = <<>> /\ cache' = live
  /\ \E s \in SetToSeqs(Present(live)) : notifs' = notifs \o Listing(s, live)
  /\ UNCHANGED <<live, caVars, worldVars, queueVars, workVars, metricVars, faults, dropped>>

\* Every SyncPeriod (10 hours) the informer repeats all it has to the handler.
\* Bound: only once the handler is through with the changes before.
Resync ==
  /\ "resync" \in Events /\ notifs = <<>>
  /\ Present(cache) # {}
  /\ \E s \in SetToSeqs(Present(cache)) : notifs' = Listing(s, cache)
  /\ UNCHANGED <<apiVars, cache, caVars, worldVars, queueVars, workVars, metricVars, boundVars, dropped>>

DeliverCA ==
  /\ cachedCA < ca
  /\ cachedCA' = cachedCA + 1
  /\ caEvents' = Append(caEvents, <<CAHistory[cachedCA], CAHistory[cachedCA + 1]>>)
  /\ UNCHANGED <<apiVars, infVars, ca, worldVars, queueVars, workVars, metricVars, boundVars, dropped>>

\* toCSRs: what a change of the CA bundle enqueues.
toCSRs == {c \in Present(cache) : pendingCertFilter(cache[c], now)}

\* The event is lost if the CSRs cannot be listed.
HandleCA ==
  /\ caEvents # <<>>
  /\ caEvents' = Tail(caEvents)
  /\ \/ /\ NoFault
        /\ LET keys == IF caConfigMapFilter(Head(caEvents)[1], Head(caEvents)[2])
                       THEN toCSRs ELSE {}
           IN  \E order \in WQOrders(wq, keys) : wq' = WQAddAll(wq, keys, order)
     \/ Fault /\ UNCHANGED wq
  /\ UNCHANGED <<apiVars, infVars, ca, cachedCA, worldVars, waiting, workVars, metricVars, dropped>>

\* The back-off of a key ends.
AddAfterBackoff(c) ==
  /\ c \in waiting
  /\ waiting' = waiting \ {c}
  /\ wq' = WQAdd(wq, c)
  /\ UNCHANGED <<apiVars, infVars, caVars, worldVars, workVars, metricVars, boundVars, dropped>>

-----------------------------------------------------------------------------
\* The worker: Reconcile, one step per read or write of shared state.

\* Mutant: an error does not requeue.
FinishWithoutRequeue(why) ==
  /\ pc' = "idle" /\ cur' = NoCSR /\ r' = InitLocals
  /\ wq' = WQDone(wq, cur)
  /\ UNCHANGED waiting
  /\ dropped' = IF why \in {"ignored", "declined"} THEN [dropped EXCEPT ![cur] = why]
                ELSE dropped

\* How a reconcile ends.  An error puts the key into back-off; the queue takes
\* it back at once if it was marked dirty meanwhile.
Finish(why) ==
  /\ pc' = "idle" /\ cur' = NoCSR /\ r' = InitLocals
  /\ wq' = WQDone(wq, cur)
  /\ waiting' = IF why = "error" THEN waiting \cup {cur} ELSE waiting
  /\ dropped' = IF why \in {"ignored", "declined"} THEN [dropped EXCEPT ![cur] = why]
                ELSE dropped

Go(label) == pc' = label /\ UNCHANGED <<cur, queueVars, dropped>>

\* Mutant: the limit itself is already too many.
OffLimitsInclusive(pending, maxPending) == pending >= maxPending

OffLimits(pending, maxPending) == pending > maxPending

\* reconcileLimits: both metrics are set, and the caller learns whether to stop.
reconcileLimits(csrs, machineCount, nodeCount) ==
  /\ MaxPendingCSRs' = getMaxPending(machineCount, nodeCount)
  /\ PendingCSRs' = recentlyPendingNodeCSRs(Listed(csrs), Request, now)

Dequeue ==
  /\ pc = "idle" /\ WQCanGet(wq)
  /\ wq' = WQGet(wq)
  /\ cur' = Head(wq.queue)
  /\ pc' = "listCSRs"
  /\ dropped' = [dropped EXCEPT ![Head(wq.queue)] = "no"]
  /\ UNCHANGED <<apiVars, infVars, caVars, worldVars, waiting, r, metricVars, boundVars>>

\* A list of CSRs from the cache.
ListCSRs ==
  /\ pc = "listCSRs"
  /\ \/ NoFault /\ r' = [r EXCEPT !.csrs = cache] /\ Go("listMachines")
     \/ Fault /\ Finish("error")
  /\ UNCHANGED <<apiVars, infVars, caVars, worldVars, metricVars>>

\* Mutant: without the flag only the empty namespace is searched.
ListedOfNamespace(gv) ==
  {m \in Existing : /\ GroupOf[m] = gv.group /\ gv.group \in DOMAIN ServedVersions
                    /\ MachineNamespace = NamespaceOf[m]}

\* The machines of the group in the cluster and the namespace; a group that
\* discovery does not know ("MachineAPI capability is disabled") has none.
ListedOf(gv) ==
  {m \in Existing : /\ GroupOf[m] = gv.group /\ gv.group \in DOMAIN ServedVersions
                    /\ MachineNamespace \in {"", NamespaceOf[m]}}

\* Mutant: a group that discovery does not know is an error.
ListableWhenServed(gv) ==
  /\ gv.group \in DOMAIN ServedVersions
  /\ gv.version \in {""} \cup ServedVersions[gv.group]
  /\ ListedOf(gv) \subseteq Decodable

\* The list fails if the pinned version is not served, or if one of the
\* machines does not decode.
Listable(gv) ==
  gv.group \in DOMAIN ServedVersions =>
    /\ gv.version \in {""} \cup ServedVersions[gv.group]
    /\ ListedOf(gv) \subseteq Decodable

\* ListMachines for one API group after the other.  The order within a list is
\* the server's.
ListMachines ==
  /\ pc = "listMachines"
  /\ LET gv == APIGroupVersions[r.group]
     IN  \/ /\ NoFault /\ Listable(gv)
            /\ \E s \in SetToSeqs(ListedOf(gv)) :
                 r' = [r EXCEPT !.machines = @ \o [i \in DOMAIN s |-> MachineView(s[i])],
                                !.group = @ + 1]
            /\ Go(IF r.group = Len(APIGroupVersions) THEN "listNodes" ELSE "listMachines")
         \/ NoFault /\ ~Listable(gv) /\ Finish("error")
         \/ Fault /\ Finish("error")
  /\ UNCHANGED <<apiVars, infVars, caVars, worldVars, metricVars>>

\* Nodes are listed, the limits computed, and the CSR looked up in the list.
ListNodes ==
  /\ pc = "listNodes"
  /\ LET nodeCount == Cardinality({n \in Node : node[n]})
     IN  \/ /\ NoFault
            /\ reconcileLimits(r.csrs, Len(r.machines), nodeCount)
            /\ \/ OffLimits(PendingCSRs', MaxPendingCSRs') /\ Finish("ignored")
               \/ /\ ~OffLimits(PendingCSRs', MaxPendingCSRs')
                  /\ r.csrs[cur].phase # "present"
                  /\ Finish("notfound")
               \/ /\ ~OffLimits(PendingCSRs', MaxPendingCSRs')
                  /\ r.csrs[cur].phase = "present"
                  /\ r' = [r EXCEPT !.nodes = nodeCount]
                  /\ Go("reconcileCSR")
         \/ Fault /\ Finish("error") /\ UNCHANGED metricVars
  /\ UNCHANGED <<apiVars, infVars, caVars, worldVars>>

\* Mutant: an approved CSR is an error.
ReconcileCSRApprovedIsError ==
  /\ pc = "reconcileCSR"
  /\ \/ (isApproved(r.csrs[cur]) \/ ~Request[cur].parses) /\ Finish("error")
     \/ /\ ~isApproved(r.csrs[cur]) /\ Request[cur].parses
        /\ r' = [r EXCEPT !.ca = getKubeletCA(CAHistory[cachedCA])]
        /\ Go(IF isNodeClientCert(Request[cur]) THEN "authorize" ELSE "getServingCert")
  /\ UNCHANGED <<apiVars, infVars, caVars, worldVars, metricVars, boundVars>>

\* reconcileCSR up to authorizeCSR.  The CA bundle comes from the cache.
ReconcileCSR ==
  /\ pc = "reconcileCSR"
  /\ \/ isApproved(r.csrs[cur]) /\ Go("closingList") /\ UNCHANGED r
     \/ ~isApproved(r.csrs[cur]) /\ ~Request[cur].parses /\ Finish("error")
     \/ /\ ~isApproved(r.csrs[cur]) /\ Request[cur].parses
        /\ r' = [r EXCEPT !.ca = getKubeletCA(CAHistory[cachedCA])]
        /\ Go(IF isNodeClientCert(Request[cur]) THEN "authorize" ELSE "getServingCert")
  /\ UNCHANGED <<apiVars, infVars, caVars, worldVars, metricVars, boundVars>>

NodeExists(n) == n \in Node /\ node[n]

\* getServingCert, which without a CA does nothing.  A failure of the Get of the node
\* or of the TLS connection to its kubelet only means that there is no certificate
\* to renew.
GetNode ==
  /\ pc = "getServingCert"
  /\ \/ /\ NoFault
        /\ Go(IF r.ca # {} /\ NodeExists(validateCSRContents(Request[cur]))
              THEN "dial" ELSE "authorize")
     \/ r.ca # {} /\ Fault /\ Go("authorize")
  /\ UNCHANGED <<r, apiVars, infVars, caVars, worldVars, metricVars>>

DialKubelet ==
  /\ pc = "dial"
  /\ LET found == [addresses |-> NodeAddresses[validateCSRContents(Request[cur])]]
     IN  \/ /\ NoFault
            /\ r' = [r EXCEPT !.cert = getServingCert("found", found, listening, r.ca)]
         \/ Fault /\ UNCHANGED r
  /\ Go("authorize")
  /\ UNCHANGED <<apiVars, infVars, caVars, worldVars, metricVars>>

NoSubnet == [found |-> FALSE, egressIPs |-> <<>>, egressCIDRs |-> <<>>]

\* The verdict, with the reads that remain: the node for a client request, the
\* network and the host subnet for a serving one.
Observed(failed) ==
  LET n == IF isNodeClientCert(Request[cur]) THEN Request[cur].cn[2]
           ELSE validateCSRContents(Request[cur])
  IN  [nodeGet     |-> IF failed THEN "error" ELSE IF NodeExists(n) THEN "found" ELSE "notfound",
       servingCert |-> r.cert,
       network     |-> IF failed THEN "error" ELSE NetworkType,
       hostSubnet  |-> IF n \in Node THEN HostSubnet[n]
                       ELSE NoSubnet]

Decide(failed) ==
  LET verdict == authorizeCSR(Disabled, r.machines, Request[cur], r.csrs[cur].created,
                              r.ca, Observed(failed))
  IN  \/ verdict = "approve" /\ Go("approve") /\ UNCHANGED r
      \/ verdict = "decline" /\ Go("closingList") /\ r' = [r EXCEPT !.declined = TRUE]
      \/ verdict = "retry" /\ Finish("error")

Authorize ==
  /\ pc = "authorize"
  /\ \/ NoFault /\ Decide(FALSE)
     \/ Fault /\ Decide(TRUE)
  /\ UNCHANGED <<apiVars, infVars, caVars, worldVars, metricVars>>

\* Mutant: the update is sent without the version it was made from.
AcceptsAnyVersion(obj) == live[cur].phase = "present"

\* Mutant: the update creates the object again if it is gone.
AcceptsDeleted(obj) == live[cur].phase = "deleted" \/ (live[cur] = obj /\ ~obj.denied)

\* approve: UpdateApproval of the listed object with the Approved condition
\* appended.  The server refuses a version that is not the current one (each
\* stored version differs from all before) and approval next to denial.
Accepts(obj) == live[cur] = obj /\ ~obj.denied

Approve ==
  /\ pc = "approve"
  /\ LET approved == Store(cur, [r.csrs[cur] EXCEPT !.by = "cma", !.at = now])
     IN  \/ Accepts(r.csrs[cur]) /\ approved /\ NoFault /\ Go("closingList") /\ UNCHANGED r
         \* applied, but the answer is lost
         \/ Accepts(r.csrs[cur]) /\ approved /\ Fault /\ Finish("error")
         \/ ~Accepts(r.csrs[cur]) /\ UNCHANGED apiVars /\ NoFault /\ Finish("error")
         \/ UNCHANGED apiVars /\ Fault /\ Finish("error")
  /\ UNCHANGED <<infVars, caVars, worldVars, metricVars>>

\* reconcileLimitsUncached: the CSRs come from the API server, the machines and
\* nodes from the lists of this reconcile.
ReconcileLimitsUncached ==
  /\ pc = "closingList"
  /\ \/ /\ NoFault
        /\ reconcileLimits(live, Len(r.machines), r.nodes)
        /\ Finish(IF r.declined THEN "declined" ELSE "done")
     \/ Fault /\ Finish("error") /\ UNCHANGED metricVars
  /\ UNCHANGED <<apiVars, infVars, caVars, worldVars>>

Reconcile ==
  \/ Dequeue \/ ListCSRs \/ ListMachines \/ ListNodes \/ ReconcileCSR
  \/ GetNode \/ DialKubelet \/ Authorize \/ Approve \/ ReconcileLimitsUncached

-----------------------------------------------------------------------------
\* The cluster.

othersThanAPI == <<infVars, caVars, worldVars, queueVars, workVars, metricVars, boundVars, dropped>>
othersThanWorld == <<apiVars, infVars, caVars, queueVars, workVars, metricVars, boundVars, dropped>>

CreateCSR(c) ==
  /\ live[c].phase = "unborn"
  /\ Store(c, [Unborn EXCEPT !.phase = "present", !.created = now])
  /\ UNCHANGED othersThanAPI

ApproveExternally(c) ==
  /\ "approve" \in Events
  /\ live[c].phase = "present" /\ ~isApproved(live[c]) /\ ~live[c].denied
  /\ Store(c, [live[c] EXCEPT !.by = "other", !.at = now])
  /\ UNCHANGED othersThanAPI

\* The requests that can be approved at all: of the bootstrapper for the client
\* certificate of a node, unless the flow is disabled, or of a node for a serving
\* certificate in its own name.
NodeRequest(req) ==
  /\ req.parses
  /\ \/ /\ ~Disabled /\ req.username = nodeBootstrapperUsername
        /\ HasNodePrefix(req.cn) /\ "client auth" \in req.usages
     \/ /\ HasNodePrefix(req.username) /\ req.cn = req.username
        /\ "server auth" \in req.usages

\* The approver of the other deployment (manifests/04-deployment-capi.yaml) runs
\* the same code with a lease and machines of its own and leaves the same message.
ApproveByPeer(c) ==
  /\ "peer" \in Events /\ NodeRequest(Request[c])
  /\ isNodeClientCert(Request[c]) => ~NodeExists(Request[c].cn[2])
  /\ live[c].phase = "present" /\ ~isApproved(live[c]) /\ ~live[c].denied
  /\ Store(c, [live[c] EXCEPT !.by = "cma", !.at = now])
  /\ UNCHANGED othersThanAPI

DenyExternally(c) ==
  /\ "deny" \in Events
  /\ live[c].phase = "present" /\ ~isApproved(live[c]) /\ ~live[c].denied
  /\ Store(c, [live[c] EXCEPT !.denied = TRUE])
  /\ UNCHANGED othersThanAPI

DeleteCSR(c) ==
  /\ "delete" \in Events
  /\ live[c].phase = "present"
  /\ Store(c, [live[c] EXCEPT !.phase = "deleted"])
  /\ UNCHANGED othersThanAPI

\* What others write about a CSR.
OthersWrite(c) ==
  \/ CreateCSR(c) \/ ApproveExternally(c) \/ ApproveByPeer(c) \/ DenyExternally(c)
  \/ DeleteCSR(c)

CreateMachine(m) ==
  /\ "machine" \in Events
  /\ ~machine[m].exists
  /\ machine' = [machine EXCEPT ![m] =
       [exists |-> TRUE, nodeRef |-> NoNode, addresses |-> <<>>, created |-> now]]
  /\ UNCHANGED <<node, listening, now, othersThanWorld>>

\* The machine controller learns the addresses of the instance.
ProvisionMachine(m) ==
  /\ "machine" \in Events
  /\ machine[m].exists
  /\ machine' = [machine EXCEPT ![m].addresses = Addresses[m]]
  /\ UNCHANGED <<node, listening, now, othersThanWorld>>

DeleteMachine(m) ==
  /\ "machine" \in Events
  /\ machine[m].exists
  /\ machine' = [machine EXCEPT ![m].exists = FALSE]
  /\ UNCHANGED <<node, listening, now, othersThanWorld>>

\* The node linker.
LinkNode(m, n) ==
  /\ "link" \in Events
  /\ machine[m].exists /\ node[n] /\ machine[m].nodeRef = NoNode
  /\ \E i \in DOMAIN machine[m].addresses : machine[m].addresses[i].address = n
  /\ machine' = [machine EXCEPT ![m].nodeRef = n]
  /\ UNCHANGED <<node, listening, now, othersThanWorld>>

ToggleNode(n) ==
  /\ "node" \in Events
  /\ node' = [node EXCEPT ![n] = ~@]
  /\ UNCHANGED <<machine, listening, now, othersThanWorld>>

\* A kubelet starts, stops or changes its serving certificate.
Listen(h, cert) ==
  /\ "kubelet" \in Events
  /\ listening' = [listening EXCEPT ![h] = cert]
  /\ UNCHANGED <<machine, node, now, othersThanWorld>>

Tick ==
  /\ now < MaxNow
  /\ now' = now + 1
  /\ UNCHANGED <<machine, node, listening, othersThanWorld>>

RotateCA ==
  /\ ca < Len(CAHistory)
  /\ ca' = ca + 1
  /\ UNCHANGED <<apiVars, infVars, cachedCA, caEvents, worldVars, queueVars, workVars,
                 metricVars, boundVars, dropped>>

\* The process dies and a new one takes over: the caches are filled from the API
\* server, each object in them comes as a creation, all else in memory is gone.
Restart ==
  /\ "restart" \in Events /\ disruptions < MaxDisruptions
  /\ disruptions' = disruptions + 1
  /\ watch' = <<>> /\ cache' = live
  /\ \E s \in SetToSeqs(Present(live)) : notifs' = Listing(s, live)
  /\ cachedCA' = ca
  /\ caEvents' = IF CAHistory[ca] = "absent" THEN <<>> ELSE <<<<"absent", CAHistory[ca]>>>>
  /\ wq' = WQEmpty /\ waiting' = {}
  /\ pc' = "idle" /\ cur' = NoCSR /\ r' = InitLocals
  /\ PendingCSRs' = 0 /\ MaxPendingCSRs' = 0
  /\ dropped' = [c \in CSR |-> "no"]
  /\ UNCHANGED <<live, ca, worldVars, faults>>

Environment ==
  \/ \E c \in CSR : OthersWrite(c)
  \/ \E m \in Machine : CreateMachine(m) \/ ProvisionMachine(m) \/ DeleteMachine(m)
  \/ \E m \in Machine, n \in Node : LinkNode(m, n)
  \/ \E n \in Node : ToggleNode(n)
  \/ \E h \in Host, cert \in Listener : Listen(h, cert)
  \/ Tick \/ RotateCA \/ InformerRelist \/ Restart

Informer == DeliverChange \/ HandleChange \/ DeliverCA \/ HandleCA \/ Resync

Next ==
  \/ Environment
  \/ Informer
  \/ \E c \in CSR : AddAfterBackoff(c)
  \/ Reconcile

Spec == Init /\ [][Next]_vars

\* The informer's goroutines, the delaying queue and the worker keep running.
\* Nothing is assumed of the cluster.  Queued keys are served in order, so
\* fairness of the one worker as a whole is enough.
Fairness ==
  /\ WF_vars(DeliverChange) /\ WF_vars(HandleChange)
  /\ WF_vars(DeliverCA) /\ WF_vars(HandleCA)
  /\ \A c \in CSR : WF_vars(AddAfterBackoff(c))
  /\ WF_vars(Reconcile)

FairSpec == Spec /\ Fairness

\* The informer's resync timer fires again and again.
ResyncSpec == FairSpec /\ WF_vars(Resync)

-----------------------------------------------------------------------------
\* Properties

Pending(c) == live[c].phase = "present" /\ ~isApproved(live[c])

\* Some event, queue entry or back-off will lead to another reconcile of c.
Tracked(c) ==
  \/ \E i \in 1..Len(watch) : watch[i].csr = c
  \/ \E i \in 1..Len(notifs) : notifs[i].csr = c
  \/ c \in wq.dirty \cup wq.processing \cup waiting

ValidServing(req) == ~isNodeClientCert(req) /\ validateCSRContents(req) # ""

\* The reasons for which the code lets go of a pending CSR: too many pending
\* CSRs, or a verdict that is not an error; the latter never for a well-formed
\* request for a serving certificate.
LetGo(c) ==
  \/ dropped[c] = "ignored"
  \/ dropped[c] = "declined" /\ ~ValidServing(Request[c])

\* Whatever is stale, lost, late or retried, a CSR that is pending in the API
\* server and was not let go on purpose is on its way to a reconcile: stale
\* lists, dropped deletions, conflicts, broken watches and restarts lose none.
NoLostWakeup == \A c \in CSR : Pending(c) /\ ~LetGo(c) => Tracked(c)

\* The queue neither loses nor repeats a key, and what it counts as being
\* processed is what the one worker holds.
QueueConsistent ==
  /\ WQConsistent(wq)
  /\ wq.processing = IF pc = "idle" THEN {} ELSE {cur}

\* An approval or a denial, whoever made it, is never changed by a reconcile
\* that still works on an older version of the object (approve is the only
\* write of the controller).
DecisionFinal ==
  [][\A c \in CSR : isApproved(live[c]) \/ live[c].denied =>
       /\ live'[c].by = live[c].by /\ live'[c].at = live[c].at
       /\ live'[c].denied = live[c].denied]_vars

\* What a CSR is to those who do not look inside the controller.
StateOf(obj) ==
  [stage |-> CASE obj.phase = "unborn" -> "unborn"
               [] obj.phase = "deleted" -> "gone"
               [] obj.phase = "present" /\ obj.denied -> "denied"
               [] obj.phase = "present" /\ ~obj.denied /\ isApproved(obj) -> "approved"
               [] OTHER -> "pending",
   by |-> IF obj.phase = "present" THEN obj.by ELSE "none",
   at |-> IF obj.phase = "present" THEN obj.at ELSE 0]

Lifecycle == INSTANCE CSRLifecycle
  WITH csr <- [c \in CSR |-> StateOf(live[c])],
       Eligible <- {c \in CSR : NodeRequest(Request[c])}

\* The controller and everybody around it implement the life cycle of a CSR: no
\* retry, stale list or late answer changes a decision, revives a CSR that is
\* gone, touches two CSRs at once, or approves "someone else's CSR" (reconcileCSR).
RefinesLifecycle == Lifecycle!Spec

Quiet ==
  /\ watch = <<>> /\ notifs = <<>> /\ caEvents = <<>>
  /\ pc = "idle" /\ wq.queue = <<>> /\ waiting = {}

\* "ensure that the limits (and therefore) the metrics are always up to date"
\* (controller.go, reconcileLimitsUncached): once there is nothing left to do,
\* the pending metric is the number of recently pending CSRs in the API server.
MetricsSettled ==
  Quiet => PendingCSRs = recentlyPendingNodeCSRs(Listed(live), Request, now)

\* Of the groups that the flags name, those that are there.
NamedGroups ==
  {APIGroupVersions[i].group : i \in DOMAIN APIGroupVersions} \cap DOMAIN ServedVersions

\* The machines that may vouch, in the orders the lists may have.
NamedMachines ==
  {m \in Machine : /\ machine[m].exists /\ GroupOf[m] \in NamedGroups
                   /\ MachineNamespace # "" => NamespaceOf[m] = MachineNamespace}

MachineLists == {[i \in DOMAIN s |-> MachineView(s[i])] : s \in SetToSeqs(NamedMachines)}

\* The versions the flags pin are served, and all these machines decode.
Readable ==
  /\ \A i \in DOMAIN APIGroupVersions :
       LET gv == APIGroupVersions[i]
       IN  gv.group \in NamedGroups /\ gv.version # "" => gv.version \in ServedVersions[gv.group]
  /\ NamedMachines \subseteq Decodable

\* Everything that is true in the cluster now speaks for the request of c.
Approvable(c) ==
  LET req == Request[c]
      client == isNodeClientCert(req)
      n == IF client THEN req.cn[2] ELSE validateCSRContents(req)
      roots == getKubeletCA(CAHistory[ca])
      nodeGet == IF NodeExists(n) THEN "found" ELSE "notfound"
  IN  /\ req.parses /\ ~live[c].denied /\ Readable
      /\ \A machines \in MachineLists : "approve" =
           authorizeCSR(Disabled, machines, req, live[c].created, roots,
             [nodeGet     |-> nodeGet,
              servingCert |-> IF NodeExists(n)
                              THEN getServingCert(nodeGet, [addresses |-> NodeAddresses[n]],
                                                  listening, roots)
                              ELSE <<>>,
              network     |-> NetworkType,
              hostSubnet  |-> IF n \in Node THEN HostSubnet[n] ELSE NoSubnet])

WithinLimits ==
  recentlyPendingNodeCSRs(Listed(live), Request, now) <=
    getMaxPending(Cardinality(NamedMachines), Cardinality({n \in Node : node[n]}))

\* A serving CSR does not stay pending for ever once the cluster vouches for it,
\* however late its machine was linked, its kubelet came up or the CA bundle was
\* published, and whatever failed before ("Return error so we requeue in case
\* we're racing with node linker").  Only the limit can stop it.
ServingApproved ==
  \A c \in CSR : ValidServing(Request[c]) =>
    (<>[]Approvable(c) => []<>(~Pending(c) \/ dropped[c] = "ignored"))

\* With the periodic resync this holds of client CSRs too, which one verdict may
\* have declined, and of CSRs that the limit once made the controller ignore.
EventuallyApproved ==
  \A c \in CSR : <>[](Approvable(c) /\ WithinLimits) => []<>~Pending(c)

\* No CSR that is approved, by whomever, keeps the controller busy: "trying to
\* approve it again will result in an error and cause a loop" (reconcileCSR).
\* Machines that cannot be listed do keep it busy: they are listed before.
ApprovedSettles ==
  \A c \in CSR :
    <>[](isApproved(live[c]) /\ Readable) => <>[](c \notin wq.dirty \cup wq.processing \cup waiting)
=============================================================================
