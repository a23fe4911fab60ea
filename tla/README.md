# TLA+ specifications of the cluster machine approver

The cluster machine approver approves the certificate signing requests (CSRs)
with which kubelets ask for their client certificate (when a node joins) and
their serving certificate (from then on).  It is a Kubernetes controller: it
watches CSRs, compares each with the machines, nodes, certificates and CA bundle
it finds in the cluster, and approves it, drops it or retries it later.

These modules describe the controller, the approval policy and the parts of the
program around them (metrics, status, election, start-up).  TLC checks them on
small clusters, and TLAPS proves what is said under "Proofs" for clusters of any
size.  Paths below are relative to the repository.

## Inventory

| Part | State | Operations | What makes it correct |
|---|---|---|---|
| CSR controller, `pkg/controller/controller.go` | none but the queue, the informer caches and two counters | event filters, `toCSRs`, `Reconcile`, `reconcileCSR`, `approve`, `reconcileLimits` | no pending CSR is forgotten, no decision of others is overwritten, approved CSRs cause no more work, the metrics are right at rest |
| approval policy, `pkg/controller/csr_check.go`, `node_client.go` | none | `authorizeCSR` and its checks | only names that someone vouches for, the order of lists is irrelevant, retried requests can succeed, dropped ones could not |
| machine handler, `pkg/machinehandler` | none | list machines of one API group and namespace, find by DNS name or NodeRef | machines of every served group, first match |
| work queue (client-go) | `queue`, `dirty`, `processing`, keys in back-off | `Add`, `Get`, `Done`, `AddRateLimited` | a key is processed by one worker at a time and never lost |
| informers (client-go, controller-runtime) | cache, undelivered notifications | deliver, relist, resync | the cache follows the API server |
| metrics, `pkg/metrics` | `PendingCSRs`, `MaxPendingCSRs` | stored by the controller, read by a scrape | right at rest, no alarm out of two halves of different reconciles unless the limit fell between them |
| status controller, `status.go` | queue with one key, number of retries | `statusAvailable`, `handleErr`, `watchVersionGetter` | the ClusterOperator is available and carries the leader's version in the end, and the controller comes to rest |
| start-up, `main.go`, `pkg/controller/config.go` | flags, environment, config file | `parseGroupVersion`, `validateAPIGroup`, `LoadConfig` | sound settings come up, others never do, a restart applies the file |
| leader election, `main.go` (client-go) | the lease, what each replica observed of it | `tryAcquireOrRenew`, `renew`, `release` | a lease in use is not taken, two replicas act together only after late answers or during a release, and one acts in the end |

How they interact.  A change of a CSR in the API server reaches the informer's
cache through a watch and then, as a notification, the event filter, which adds
the CSR's name to the work queue.  One worker takes names from the queue.  A
reconcile lists all CSRs *from the cache*, machines and nodes *from the API
server*, compares the number of recently pending CSRs with the limit, decides,
sends `UpdateApproval` with the *cached* object, and lists the CSRs once more
from the API server to refresh the metrics.  An error puts the name back with a
back-off.  A change of the kubelet CA ConfigMap enqueues all CSRs that are
pending or that somebody else approved less than 30 s ago.  Only the elected
replica runs the controllers.  The status controller waits for the election too,
but the manager does not know it: it ends with the process, not with the lease.
Prometheus reads the two counters whenever it likes, and an alert compares them.

What is hard: every read happens at another moment and some come from a cache;
the watch, each call and the process may fail at any point; whether a CSR is
looked at again depends on the difference between "declined" (no error) and
"retry" (error); filters depend on the clock; ignoring CSRs at the limit is not
an error either.  `PROJECT.json` lists these hazards with their lines.

## Modules

* `CSRCheck` - the policy as operators with the names of the Go functions.
  `authorizeCSR` returns "approve", "decline" (`false, nil`) or "retry"
  (`false, err`).  Names are pairs of prefix and rest, IP addresses are values
  with a text (`IPText`; the 4- and 16-byte forms of one address share it), CIDRs
  are sets of texts, a CA pool is the set of its roots, a certificate a record of
  the fields that are compared.  A signature check is membership of the issuer in
  the pool.
* `Policy` - one request before `authorizeCSR` while the cluster changes: the
  reachable states are the inputs of the policy, a step is one change of one of
  them.
* `WorkQueue` - the three sets of client-go's queue and its methods.
* `Approver` - the controller with everything around it.  `live` is the API
  server, `watch` the changes the informer has not seen, `cache` its store,
  `notifs` what its handler has not seen; `ca`, `cachedCA` and `caEvents` are the
  same for the CA bundle; `machine`, `node`, `listening` (kubelets) and `now` are
  the cluster.  `pc`, `cur` and `r` are the worker: its position in `Reconcile`,
  the CSR and the local variables.  There is one action for each read or write of
  shared state:

  | Action | Code |
  |---|---|
  | `DeliverChange`, `HandleChange`, `InformerRelist`, `Resync` | informer and the predicates in `buildWithManager` |
  | `DeliverCA`, `HandleCA` | CA ConfigMap, `caConfigMapFilter`, `toCSRs` |
  | `Dequeue`, `Finish`, `AddAfterBackoff` | controller-runtime's worker and queue |
  | `ListCSRs`, `ListMachines`, `ListNodes` | the lists of `Reconcile` and the first `reconcileLimits` |
  | `ReconcileCSR`, `GetNode`, `DialKubelet`, `Authorize`, `Approve` | `reconcileCSR` |
  | `ReconcileLimitsUncached` | the closing list |
  | all others | the cluster: kubelets, other approvers, the machine API, the clock, crashes |

  A call may fail in every step that makes one (`Fault`), a successful
  `UpdateApproval` may look like a failure, and the process may die between any
  two steps (`Restart`, which is also a change of leader).  A CSR's name is never
  reused.  All versions of an object differ, so the version check of
  `UpdateApproval` is a comparison of objects (`Accepts`).  `dropped` is a history
  variable: it remembers which CSRs the last finished reconcile let go, and why.
  A list of machines fails as a whole if the pinned version is not served or one
  machine does not decode (`Listable`); a group that discovery does not know has
  no machines (`ListedOf`).  `ApproveByPeer` is the second deployment of the
  manifests, which runs the same code and leaves the same message.
* `CSRLifecycle` - the abstract specification: a CSR is pending until one decision
  is made, the decision stays until the CSR is collected, and the approver's
  decision is to approve, and only requests of nodes.  `Approver` implements it
  through `StateOf` (`RefinesLifecycle`).
* `MetricsCollector` - the stores of `reconcileLimits` and the loads of
  `collectMetrics`, each a step.  `calls` is the history of reconciles; the other
  history variables say which call a number is from.
* `StatusController` - replicas of the status controller, each with its version.
  `proc[p]` is one process: its phase, queue, back-off, retry count, informer and
  the sync under way.  A sync is `Dequeue`, `Get`, perhaps `Create`, `UpdateStatus`;
  every call may fail or be applied without an answer.  The election is reduced to
  who the lease names; a replica without it goes on until `Exit`.  Resource
  versions matter only for equality, so `current` says whether anybody wrote since
  the read.  The informer hands over counts of changes, not their contents: its
  handlers look at none.
* `LeaderElection` - the lease and the replicas' loops.  Nobody compares clocks, so
  time is a set of ages that `Tick` advances.  A call takes effect at one moment and
  is answered later, or not at all.  Only the calls of `renew` have a timeout
  (`timeoutCtx`): time does not pass a leader's `Deadline` until it gives up.  A
  candidate's calls and `release` (`context.TODO()`) may take any time, during which
  a leader that gave up still acts; a request given up, or sent by a process that
  died, may be applied all the same.  `Slack` is what the durations leave for late
  answers, `LeaseDuration - (RetryPeriod + RenewDeadline)`: 4 s with the defaults.
  `lag` is how late the answer to a leader's last renewal was.
* `StartUp` - `main` up to the election and `LoadConfig`, with each `klog.Fatal` as a
  way to `"exited"`, from where the kubelet restarts it.  Texts of API groups are
  sequences of the parts between the slashes (`Part`), and the value of
  `--api-group-version` the sequence of its texts between the commas, over all uses of
  the flag; pflag reads the empty value as an empty list (`readAsCSV`), which then means
  the default group.  A configuration is the sequence of values that `json.Unmarshal` meets for `nodeClientCert.disabled`.  `Approver` takes
  the results as its constants `APIGroupVersions` and `Disabled`.
* `ApproverProofs` - `TypeCorrect` and what it rests on.
* `WakeupProofs` - `QueueSound`, `Wakeup` and `DecisionsKept`.
* `ControllerProofs` - `Refinement` (of `CSRLifecycle`) and `MetricsSettle`.
* `PolicyProofs`, `StartUpProofs`, `MetricsProofs`, `StatusProofs`, `ElectionProofs` -
  the theorems about the specifications of these names.
* `MCPolicy`, `MCApprover`, `MCStartUp` - the small clusters and settings of the runs.
  The other specifications take their constants from the `.cfg` files directly.

## Runs

| Run | Configuration | Shows |
|---|---|---|
| `policy` | `MCPolicy.cfg` | 35 requests x 9 machine lists x 2 CA pools x 6 listeners x 4 nodes x 6 networks: DNS names and IP addresses are vouched for (`ServingNamesVouched`; the machine flow looks at neither emails nor URIs), the list order is irrelevant unless two machines claim the node (`ListOrderIrrelevant`), retried serving requests are not hopeless (`RetryCanSucceed`), and no change in the cluster turns a serving request from declined to not declined or back (`DeclineFinal`) |
| `delivery` | `MCDelivery.cfg` | two CSRs, other approvers, node objects, one failing call, one broken watch or restart anywhere, the limit out of reach: types, `NoLostWakeup`, `QueueConsistent`, `DecisionFinal`, and a right metric at rest (`MetricsSettled`) |
| `lifecycle` | `MCLifecycle.cfg` | one CSR that outlives every time window, machines that come and go, two other approvers, denials and deletions: `NoLostWakeup`, `RefinesLifecycle` |
| `linking` | `MCLinking.cfg` | node linker and node objects race with both CSRs of a node, two API groups, one failing call: `ServingApproved`, `ApprovedSettles` |
| `rotation` | `MCRotation.cfg` | renewal without machines while the CA ConfigMap appears, gets its key and rotates; of two API groups one is not served, and in the other a machine that does not decode comes and goes: `ServingApproved` |
| `limits` | `MCLimits.cfg` | limit 1 with two CSRs, of which one never parses: `EventuallyApproved` with the resync |
| `metrics_scrape` | `MCMetricsCollector.cfg` | two scrapes and three reconciles with limits that go up and down: an alarm means that a reconcile was over its limit or that the limit fell after the count was made (`AlarmExplained`) |
| `status` | `MCStatus.cfg` | one replica, two retries, four failing calls, three edits by others, two crashes or broken watches: a foreign status never stays behind (`NoLostTrigger`), retries are counted exactly (`RetriesExact`), the controller's own writes do not keep it busy (`Settles`) |
| `upgrade` | `MCUpgrade.cfg` | an old and a new replica: `StatusPublished` although both write for a while |
| `election` | `MCLeaderElection.cfg` | two replicas, calls that fail or are answered after any time, two crashes or shutdowns: when two may act together (`OneLeader`), when a lease passes on (`LeaseRespected`), and that there is a leader again and again (`SomeLeader`) |
| `start_up` | `MCStartUp.cfg` | all lists of up to two group texts out of eight, the other settings, sixteen contents of the file and an edit: `GroupsReady`, `OnlySoundRuns`, `UpWhenSound`, `RestartApplies` |
| `metrics_limits` | `MCMetricsLimits.cfg` | a disagreement with a comment, see Findings |

Bounds.  The time constants are 1, 2, 3 and 4 instead of 10 s, 30 s, 1 h and 2 h;
only their order matters, and `MaxNow = 4` in `lifecycle` lets a CSR leave the
pending window.
The other runs keep the clock still (`MaxNow = 0`): both metrics are snapshots
that no event refreshes when time alone makes a CSR old, so `MetricsSettled` is
about a moment within all windows.  One failing call and one disruption suffice
to put a failure between any two steps, since the steps before and after repeat
the same states.  `MaxDisruptions` bounds relists and restarts, `MaxFaults`
failing calls.  Deadlock is not checked in the runs of `Approver`: a controller
without events stops until the next one, and neither in those of the status
controller, the scrapes and the start-up, which come to rest as well.  It is
checked in `election`: time never stops.

In `status` two retries stand for 30 and four failing calls are one more than
exhaust them, so that the key is dropped, comes back and fails again.
`MaxInFlight = 2` tells a last change from an earlier one; more changes than that
collapse, which only means fewer events.  In `upgrade` nothing fails, because the
interleaving of the two writers is what matters; one disruption is the loss of
the lease.  In `election` the durations 5, 2, 1 are accepted by `NewLeaderElector` and
have a slack of 2, so that a late renewal and a slow release can use it up together.
`OneLeader` is exact: when it excuses only `Slack + 1` instead of `Slack`, TLC finds two
leaders.  Ages are kept up to what they are compared with.  Three reconciles and two limits in `metrics_scrape` let the limit
go up and down during one scrape.

Fairness.  The goroutines of the informer, the delaying queue and the worker run
for ever, so their actions are weakly fair (`FairSpec`); the queue is first in,
first out, so the worker as a whole is.  Nothing is assumed of the cluster: calls
may fail, but the number of failures is bounded.  `ResyncSpec` adds the informer's
resync timer, which the code leaves at controller-runtime's 10 hours.
`ServingApproved` needs no resync because an unauthorized serving request is an
error and stays in back-off; `EventuallyApproved` does, because being over the
limit, or finding a node object, ends a reconcile without an error.

In `StatusController` the goroutines are fair as well, and so is `Exit`: a manager
that lost its lease ends the process.  Election is not, so its properties are about
a replica that does lead from some moment on.  In `LeaderElection` time passes and
each loop goes on, which includes that each call is answered or fails at some time;
failures and disruptions are bounded.  In `StartUp` `main` and the kubelet's restarts
are fair.  That `main` is elected in the end is right for the deployments of the
manifests, which have one replica and are recreated (`manifests/04-deployment.yaml`):
nobody renews the lease against it.  It is not a consequence of `SomeLeader`, and a
standby beside a leader that works may wait for ever.

## Findings

* `metrics_limits`.  `controller.go` says that the closing list makes the metrics
  "always up to date".  When the limit is exceeded `Reconcile` returns before
  it.  If the CSRs in excess are ones the controller just approved but still has
  as pending in its cache, everything else is ignored and the metric stays too
  high; the event of its own approval is filtered out, so nothing corrects it
  until the next event or resync.

Reading the code for the models showed other places where it differs from its
documentation.  The models describe what the code does:

* The README asks for a machine linked to the node in every serving approval; the
  renewal flow, which comes first, needs none (`csr_check.go:193`, the second
  alternative of `ServingNamesVouched`).
* The comment in `validateCSRContents` lists the only usages; with three usages the
  code accepts any third one (`csr_check.go:93`).
* The event filter recognizes own approvals by the message of the condition
  (`csr_check.go:490`).  `manifests/04-deployment-capi.yaml` starts a second approver
  with a lease of its own whose approvals carry the same message
  (`ApproveByPeer`): nothing is enqueued for them, and `MetricsSettled` does not hold
  with event `"peer"`.
* The README says that a ConfigMap disables the approval of client CSRs.  The file is
  read once, before the manager starts (`main.go:212`): a running approver does not
  notice the change, which is why `RestartApplies` speaks of processes started after
  the last edit.
* When the file does not unmarshal, `LoadConfig` logs "using default".
  `json.Unmarshal` reports a value of a wrong type after it has filled in the others,
  and what it filled in is returned (`config.go:47`, `Unmarshal`).  The model does the
  same; `RestartApplies` makes no claim for such files.
* The README says that the controller approves or denies CSRs (`README.md:4-6`).  It
  never denies one: a request that is not authorized is left to others
  (`controller.go:231`).
* A scrape may alarm although no reconcile was over its limit: the limit is stored
  before the count, so when the limit falls a scrape in between compares the old
  count with the new limit.  `AlarmExplained` names this case; a limit that stays or
  rises never causes it.
* The election gives no guarantee that one replica acts at a time, as client-go says of
  itself (`leaderelection.go:19`).  `OneLeader` states what there is: a leader whose
  release hangs goes on acting beside its successor.

## Proofs

The theorems about `Approver` hold for any finite sets of CSRs, machines and nodes,
any requests, any history of the CA bundle and any bounds.  They use the
assumptions that `Approver` and `CSRCheck` state about their constants, of which
the ones that matter are: the sets are finite (`CSRAssumption`,
`ClusterAssumption`), the bounds and the limit are natural numbers
(`BoundAssumption`, `DiffAssumption`), the CA bundle has a history (`CAAssumption`),
and every address a node is dialled at is in the domain of `listening`
(`HostAssumption`).

* `TypeCorrect`: `Spec => []TypeOK`.
* `QueueSound`: `Spec => []QueueConsistent`.  One lemma for each method of the queue
  (`AddConsistent`, `GetConsistent`, `DoneConsistent`, `AddAllConsistent`) says that
  it keeps queued keys, dirty keys and held keys in agreement and what it does to
  the sets; `WorkerMoves` says that each step of the worker takes a key, goes on
  with it or gives it back.
* `Wakeup`: `Spec => []NoLostWakeup`.  `NoLostWakeup` is not inductive: a reconcile
  ends for good because of what a *copy* of the CSR says, the event filter drops a
  notification because of the copy in it, and the invariant is about the API
  server.  The strengthening `StaleInv` says what stale copies can be trusted for.
  Two facts about an object are never undone: that it was created (`Born`) and that
  it is approved or deleted (`Settled`).  So what a copy in `watch`, `notifs`, `cache`
  or the worker's list says of these two is true of the API server (`WatchBehind`,
  `NotifsBehind`, `CacheBehind`, `WorkerBehind`).  `QueueKnown` says that each key on
  its way to a reconcile is in the cache, so a reconcile that finds no CSR of that
  name knows that it was deleted, not that it is still to come.  `WorkerReason` says
  why the worker is about to let go.  `WakeupInv` is the whole inductive invariant.
  The lemmas follow the parts of the system: writes of others (`StaleStore`,
  `WakeupStore`), informer and handlers (`StaleDeliver`, `StaleHandled`,
  `WakeupInformer`), relist and restart (`StaleListed`, `WakeupListed`), the worker
  (`WorkerSound`, `StaleReconcile`, `WakeupReconcile`).
* `DecisionsKept`: `Spec => DecisionFinal`.  Every write stores a later version of
  its object that keeps a decision made before (`OthersStore`, `ControllerStores`).
  For the controller's own write this rests on the version check (`Accepts`)
  together with `WorkerBehind`: the worker only gets to `approve` with a copy that is
  not approved, and the server takes it only if that copy is still current.

* `Refinement`: `Spec => RefinesLifecycle`.  Besides `WakeupInv` this needs `LifeInv`: a
  denied CSR is not approved and only an approval has a time (`OneDecision`), and a
  worker that is about to approve has gone through checks that only the request of
  a node passes (`WorkerChecked`, from `ApproveReason`).  Each store of one CSR is a
  step of the abstract specification (`OthersImplement`, `ControllerImplements`), and
  every other step leaves `live` alone (`Stutters`).

* `MetricsSettle`: `Spec => []MetricsSettled`, in clusters that are `Undisturbed`.
  Each hypothesis is a way to leave the metric behind for good.  There are no
  deletions and no peer: the event handler passes neither on.  `MaxNow <
  maxApprovedDelta`: time alone takes a CSR out of the pending window, and an
  approval by others that is no longer recent when its event arrives is dropped.
  The limit is at least the number of CSRs: beyond it `Reconcile` ends before the
  closing list, which is the finding above.  `delivery` is such a cluster.
  `MetricsSettled` speaks of rest only; the inductive invariant says what
  brings the metric up to date until then (`MetricDue`): it is right, or the worker
  is at work or has work, or a CSR that this controller did not approve has a
  change in `watch` or `notifs` (`Stirs`).  That the handler passes such a change
  on rests on `CopyInv`: no copy, wherever it is, is of a deleted CSR, was approved
  in the future, or carries an approval by this controller that the API server does
  not know of.  An own approval stirs nothing, but the worker that made it still
  has the closing list to do; if that fails, the key is in back-off.

About the policy, for any requests, machine lists, CA pools, nodes, networks and
certificates, as long as names and machines come in lists (`NamesAssumption`), one
address is dialled (Policy's `HostAssumption`, as in one reconcile) and a nil NodeRef
is not the name of the requesting node (`NoNodeAssumption`):

* `NamesVouched`: `PolicySpec => []ServingNamesVouched`, one lemma for each flow of
  `authorizeCSR` (`MachineVouches`, `RenewalVouches`, `EgressVouches`).
* `OrderIrrelevant`: `PolicySpec => []ListOrderIrrelevant`.  A lookup returns the first
  index that matches (`FirstByNodeRef`, `FirstByInternalDNS`), and if at most one
  machine matches it finds the same one in the reversed list (`SameFound`).
* `RetriesCanSucceed`: `PolicySpec => []RetryCanSucceed`.  The one machine
  with which a retried serving request would be approved is made from the request.
* `DeclinesFinal`: `PolicySpec => DeclineFinal`: a serving request is declined for its
  contents alone (`ServingVerdict`).

The Go code compares lists of names after sorting, which the model states as
equality of bags.  `SameBag`, `CountConcat` and `SameSANs` connect the bags with the
concatenation of the four kinds of names.  The only invariant needed is `Inputs`,
that the variables hold values out of the constants.

About the other specifications:

* `CollectorTyped` and `AlarmsExplained` (`MetricsCollector`), for any scrapes, limits
  and counts.  `CollectInv` adds which call each number is from: the limit is always
  that of the last call (`Stored`), so a scrape that has the count of some call gets
  the limit of that call or of a later one (`Loaded`).
* `StatusTyped`, `TriggersKept` and `RetriesCounted` (`StatusController`), for any number
  of replicas, retries, failures and edits.  `NoLostTrigger` is not inductive: when
  the retries run out on a conflict the key is dropped, and what saves it is that the
  write behind the conflict is still on its way.  `Worker` states this while the sync
  is under way: a copy that is no longer current, or an object that appeared before
  `Create`, has a change in flight or a mark in the queue (`Coming`).  `Counts` ties the
  rate limiter's number to the failures in a row.
* `ElectionTyped`, `OneLeaderAtATime` and `LeasesRespected` (`LeaderElection`), for any
  replicas and all durations that `NewLeaderElector` accepts (`DurationAssumption`), with
  no assumption on how long answers take.  `Knows` says that a candidate never
  takes a record for older than it is, and that whoever is about to write has seen
  the lease free, its own or expired; with that a lease only passes on when it may
  (`LeasesRespected`).  `Owns` says that a leader that has not used up the slack holds
  the lease, which was renewed at most `Delay` before the leader thinks.  A
  leader renews or gives up by `Deadline`, so with a delay below the slack the lease is
  younger than `LeaseDuration` and nobody else may write it (`NotOwned`).  With durations
  that leave no slack, which `NewLeaderElector` accepts too, `OneLeader` promises nothing.
* `StartTyped`, `GroupsAreReady`, `SoundWhenUp` and `RestartsApply` (`StartUp`), for texts
  of any length over any parts, any settings and files, and any number of edits,
  failures and crashes.  `StartInv` adds for each step of `main` what the steps before
  it established (`Checked`) and that the configuration in use is that of the file
  unless it was edited since (`Applied`).  The lemmas say what a text parses to
  (`ReadTexts`, `ParsedText`, `ParsedTyped`) and that the last value decides when all are of
  the right type (`LastCounts`).

Only model-checked: the liveness properties (`ServingApproved`, `EventuallyApproved`,
`ApprovedSettles`, `Settles`, `StatusPublished`, `SomeLeader`, `UpWhenSound`), which need
fairness and are out of the prover's reach.  Every invariant and action property of
the passing runs is a theorem, `MetricsSettled` under the hypothesis above.

## Not modelled

* Shutdown of the queues, the length of back-offs and rate limits, logging.
* X.509 and TLS beyond the fields that are compared; which machines decode
  (`Decodable` is any set).
* A CSR's `Failed` condition and the issued certificate: the code never reads them.
* `StartUp`: a null as value of the configuration field, which leaves the value
  before it, and the flag that turns the status controller off.  `createClients` in
  `main.go` is never called.
* `LeaderElection`: clocks that run at different rates, a clock that jumps, a leader
  that is suspended, and reconciles that outlast the grace period of a shutdown.
* `MetricsCollector` takes limits and counts as they come; where they come from is
  in `Approver`.  `StatusController` abstracts the election instead of extending
  `LeaderElection`: it allows more takeovers than that does.
* Manifests, tests and the rest of the vendored code.

## Plan

1. What the invariants say about the liveness properties, as far as it is safety: in
   a state of rest no serving request that could be approved is left.
2. `MetricsSettled` across deletions, with the CSRs still to be collected excepted.
