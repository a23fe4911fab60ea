-------------------------- MODULE StatusController --------------------------
(***************************************************************************)
(* The controller that publishes the ClusterOperator "machine-approver"    *)
(* (status.go), in several replicas of the program, each with the release  *)
(* version it was built for.  A replica starts it once it is elected       *)
(* (main.go) and stops it only when the process exits: not when the lease  *)
(* is lost or released, so for a while two replicas may write.             *)
(*                                                                         *)
(* The queue has one key, "trigger".  A sync is Get (and Create), then     *)
(* UpdateStatus of what was read.  Resource versions are compared only for *)
(* equality, so a replica keeps one bit: is what it read still current?    *)
(***************************************************************************)
EXTENDS WorkQueue, FiniteSets

CONSTANTS
  Replica, NoReplica,   \* replicas; each publishes its own version
  MaxRetries,           \* 30 in the code
  MaxInFlight,          \* bound: changes on their way to one informer; more collapse
  MaxFaults, MaxEdits, MaxDisruptions  \* bounds: failed calls, edits by others,
                                       \* lost leases, crashes and broken watches

ASSUME ReplicaAssumption == NoReplica \notin Replica
ASSUME RetryAssumption == MaxRetries \in Nat
ASSUME InFlightAssumption == MaxInFlight \in Nat \ {0}
ASSUME StatusBoundAssumption ==
  MaxFaults \in Nat /\ MaxEdits \in Nat /\ MaxDisruptions \in Nat

VARIABLES
  co,       \* the ClusterOperator in the API server
  holder,   \* the replica the lease names
  proc,     \* the state of each replica's process
  faults, edits, disruptions  \* bound counters

boundVars == <<faults, edits, disruptions>>
vars == <<co, holder, proc, boundVars>>

queueKey == "trigger"

\* conditions: the status of the four conditions; since: their LastTransitionTime
\* (a time is either the one before or another one); version: what
\* Status.Versions, the message and RelatedObjects say, that is whose they are.
ClusterOperator ==
  [exists: BOOLEAN, conditions: {"none", "asExpected", "other"}, since: {0, 1},
   version: Replica \cup {NoReplica}]

Absent == [exists |-> FALSE, conditions |-> "none", since |-> 0, version |-> NoReplica]
Blank == [Absent EXCEPT !.exists = TRUE]

Process ==
  [phase: {"standby", "elected", "running"},
   triggers: 0..2,       \* what watchVersionGetter has still to add
   cached: BOOLEAN,      \* the informer's store holds the object
   inFlight: 0..MaxInFlight,  \* changes on their way to the informer
   wq: WQType({queueKey}), waiting: BOOLEAN,  \* queue; the key is in back-off
   requeues: Nat,        \* the rate limiter's count for the key
   pc: {"idle", "get", "create", "update"},
   read: ClusterOperator, current: BOOLEAN,   \* the object read; no write since
   \* history: failures in a row, the last one when the key was dropped, and
   \* whether a list found nothing of an object that came and went
   failed: Nat, dropped: {"no", "conflict", "fault"}, unseen: BOOLEAN]

\* SetVersion is called before the manager starts: its notification waits, and
\* watchVersionGetter adds the key once besides.
Started ==
  [phase |-> "standby", triggers |-> 2, cached |-> FALSE, inFlight |-> 0,
   wq |-> WQEmpty, waiting |-> FALSE, requeues |-> 0, pc |-> "idle",
   read |-> Absent, current |-> FALSE, failed |-> 0, dropped |-> "no",
   unseen |-> FALSE]

\* The type invariant.
TypeOK ==
  /\ co \in ClusterOperator
  /\ holder \in Replica \cup {NoReplica}
  /\ proc \in [Replica -> Process]
  /\ faults \in 0..MaxFaults /\ edits \in 0..MaxEdits /\ disruptions \in 0..MaxDisruptions

Init ==
  /\ co \in {Absent, Blank}
  /\ holder = NoReplica
  /\ proc = [p \in Replica |-> Started]
  /\ faults = 0 /\ edits = 0 /\ disruptions = 0

-----------------------------------------------------------------------------
\* Helpers

Running(p) == proc[p].phase = "running"

NoFault == UNCHANGED boundVars
Fault == faults < MaxFaults /\ faults' = faults + 1 /\ UNCHANGED <<edits, disruptions>>
Disruption ==
  disruptions < MaxDisruptions /\ disruptions' = disruptions + 1 /\ UNCHANGED <<faults, edits>>

Set(p, state) == proc' = [proc EXCEPT ![p] = state]

Trigger(state) == [state EXCEPT !.wq = WQAdd(@, queueKey)]

\* The API server stores new, unless nothing changed: every watcher will hear of
\* it, and what anybody read before is no longer current.
Notify(state) ==
  IF state.phase = "running"
  THEN [state EXCEPT !.inFlight = IF @ < MaxInFlight THEN @ + 1 ELSE @,
                         !.current = FALSE, !.unseen = FALSE]
  ELSE state

Store(new, procs) ==
  /\ co' = new
  /\ proc' = IF new = co THEN procs ELSE [q \in Replica |-> Notify(procs[q])]

-----------------------------------------------------------------------------
\* Leader election, as main uses it.

\* The lease is free, its holder is gone, or it expired under its holder.
Elect(p) ==
  /\ proc[p].phase = "standby"
  /\ \/ holder = NoReplica /\ NoFault
     \/ holder # NoReplica /\ holder # p /\ proc[holder].phase = "standby" /\ NoFault
     \/ holder # NoReplica /\ holder # p /\ proc[holder].phase # "standby" /\ Disruption
     \/ holder = p /\ NoFault
  /\ holder' = p
  /\ Set(p, [proc[p] EXCEPT !.phase = "elected"])
  /\ UNCHANGED co

\* The manager gives the lease up on a signal (ReleaseOnCancel); the status
\* controller, which is not one of its runnables, goes on until the exit.
Release(p) ==
  /\ holder = p /\ proc[p].phase # "standby" /\ Disruption
  /\ holder' = NoReplica
  /\ UNCHANGED <<co, proc>>

\* A manager without its lease ends the process; a new one takes its place.
Exit(p) ==
  /\ proc[p].phase # "standby" /\ holder # p
  /\ Set(p, Started)
  /\ UNCHANGED <<co, holder, boundVars>>

Crash(p) ==
  /\ proc[p].phase # "standby" /\ Disruption
  /\ Set(p, Started)
  /\ UNCHANGED <<co, holder>>

-----------------------------------------------------------------------------
\* The informer and watchVersionGetter.

\* Run: the first list fills the store, and a worker starts.
Run(p) ==
  /\ proc[p].phase = "elected"
  /\ LET listed == [proc[p] EXCEPT !.phase = "running", !.cached = co.exists]
     IN  Set(p, IF co.exists THEN Trigger(listed) ELSE listed)
  /\ UNCHANGED <<co, holder, boundVars>>

\* Mutant: the channel is closed and never blocks.
watchVersionGetterClosed(p) ==
  /\ Running(p)
  /\ Set(p, Trigger([proc[p] EXCEPT !.triggers = @ - 1]))
  /\ UNCHANGED <<co, holder, boundVars>>

watchVersionGetter(p) ==
  /\ Running(p) /\ proc[p].triggers > 0
  /\ Set(p, Trigger([proc[p] EXCEPT !.triggers = @ - 1]))
  /\ UNCHANGED <<co, holder, boundVars>>

\* A change of any kind adds the key.  With the last one on its way the store
\* is what the API server has; before that it may be either.
Deliver(p) ==
  /\ Running(p) /\ proc[p].inFlight > 0
  /\ \E known \in IF proc[p].inFlight = 1 THEN {co.exists} ELSE BOOLEAN :
       Set(p, Trigger([proc[p] EXCEPT !.inFlight = @ - 1, !.cached = known]))
  /\ UNCHANGED <<co, holder, boundVars>>

\* The watch breaks and the object is listed anew: an object in the list or in
\* the store is an event; one that came and went unseen is not.
Relist(p) ==
  /\ Running(p) /\ Disruption
  /\ LET listed == [proc[p] EXCEPT !.inFlight = 0, !.cached = co.exists]
     IN  Set(p, IF co.exists \/ proc[p].cached THEN Trigger(listed)
                ELSE [listed EXCEPT !.unseen = TRUE])
  /\ UNCHANGED <<co, holder>>

AddAfterBackoff(p) ==
  /\ Running(p) /\ proc[p].waiting
  /\ Set(p, Trigger([proc[p] EXCEPT !.waiting = FALSE]))
  /\ UNCHANGED <<co, holder, boundVars>>

-----------------------------------------------------------------------------
\* The worker: processNextItem, one step per call to the API server.

Dequeue(p) ==
  /\ Running(p) /\ proc[p].pc = "idle" /\ WQCanGet(proc[p].wq)
  /\ Set(p, [proc[p] EXCEPT !.wq = WQGet(@), !.pc = "get", !.dropped = "no", !.unseen = FALSE,
                            !.failed = IF proc[p].dropped = "no" THEN @ ELSE 0])
  /\ UNCHANGED <<co, holder, boundVars>>

\* Mutant: success does not clear the count of retries.
handleErrNoForget(state, err) ==
  IF err = "none" THEN [state EXCEPT !.failed = 0]
  ELSE IF state.requeues < MaxRetries
  THEN [state EXCEPT !.requeues = @ + 1, !.waiting = TRUE, !.failed = @ + 1]
  ELSE [state EXCEPT !.requeues = 0, !.failed = @ + 1, !.dropped = err]

\* Mutant: a failed sync is not retried.
handleErrNoRetry(state, err) == [state EXCEPT !.requeues = 0, !.failed = 0]

handleErr(state, err) ==
  IF err = "none" THEN [state EXCEPT !.requeues = 0, !.failed = 0]
  ELSE IF state.requeues < MaxRetries
  THEN [state EXCEPT !.requeues = @ + 1, !.waiting = TRUE, !.failed = @ + 1]
  ELSE [state EXCEPT !.requeues = 0, !.failed = @ + 1, !.dropped = err]

\* The end of processNextItem.
Finished(state, err) ==
  [handleErr(state, err) EXCEPT !.wq = WQDone(@, queueKey), !.pc = "idle",
                                !.read = Absent, !.current = FALSE]

Finish(p, err) == Set(p, Finished(proc[p], err))

Get(p) ==
  /\ proc[p].pc = "get"
  /\ \/ NoFault /\ co.exists
        /\ Set(p, [proc[p] EXCEPT !.pc = "update", !.read = co, !.current = TRUE])
     \/ NoFault /\ ~co.exists /\ Set(p, [proc[p] EXCEPT !.pc = "create"])
     \/ Fault /\ Finish(p, "fault")
  /\ UNCHANGED <<co, holder>>

Create(p) ==
  /\ proc[p].pc = "create"
  /\ \/ /\ ~co.exists /\ NoFault
        /\ co' = Blank
        /\ proc' = [[q \in Replica |-> Notify(proc[q])] EXCEPT
                      ![p] = [@ EXCEPT !.pc = "update", !.read = Blank, !.current = TRUE]]
     \/ co.exists /\ NoFault /\ UNCHANGED co /\ Finish(p, "conflict")
     \/ UNCHANGED co /\ Fault /\ Finish(p, "fault")
     \* applied, but the answer is lost
     \/ ~co.exists /\ Fault /\ Store(Blank, [proc EXCEPT ![p] = Finished(@, "fault")])
  /\ UNCHANGED holder

\* Mutant: every sync is a transition.
SetStatusConditionAlways(obj) ==
  [obj EXCEPT !.conditions = "asExpected", !.since = 1 - @]

\* The time changes only with the status.
SetStatusCondition(obj) ==
  [obj EXCEPT !.conditions = "asExpected",
              !.since = IF obj.conditions = "asExpected" THEN @ ELSE 1 - @]

\* Mutant: a version that is there is kept.
statusAvailableKeepsVersion(p, obj) ==
  [SetStatusCondition(obj) EXCEPT !.version = IF @ = NoReplica THEN p ELSE @]

\* statusAvailable and syncStatus: what UpdateStatus sends.
statusAvailable(p, obj) == [SetStatusCondition(obj) EXCEPT !.version = p]

UpdateStatus(p) ==
  /\ proc[p].pc = "update"
  /\ LET sent == statusAvailable(p, proc[p].read)
     IN  \/ proc[p].current /\ NoFault /\ Store(sent, [proc EXCEPT ![p] = Finished(@, "none")])
         \* a conflict, or the object is gone
         \/ ~proc[p].current /\ NoFault /\ UNCHANGED co /\ Finish(p, "conflict")
         \/ UNCHANGED co /\ Fault /\ Finish(p, "fault")
         \* applied, but the answer is lost
         \/ proc[p].current /\ Fault /\ Store(sent, [proc EXCEPT ![p] = Finished(@, "fault")])
  /\ UNCHANGED holder

processNextItem(p) == Dequeue(p) \/ Get(p) \/ Create(p) \/ UpdateStatus(p)

-----------------------------------------------------------------------------
\* Others: the cluster version operator creates the object from the manifest and
\* keeps its metadata; an administrator may delete it or write its status.

Edit(new) ==
  /\ edits < MaxEdits /\ edits' = edits + 1
  /\ co' = new
  /\ proc' = [q \in Replica |-> Notify(proc[q])]
  /\ UNCHANGED <<holder, faults, disruptions>>

CreateExternally == ~co.exists /\ Edit(Blank)
EditMetadata == co.exists /\ Edit(co)
EditStatus == co.exists /\ Edit([co EXCEPT !.conditions = "other"])
DeleteExternally == co.exists /\ Edit(Absent)

Next ==
  \/ \E p \in Replica : Elect(p) \/ Release(p) \/ Exit(p) \/ Crash(p) \/ Run(p)
       \/ watchVersionGetter(p) \/ Deliver(p) \/ Relist(p) \/ AddAfterBackoff(p)
       \/ processNextItem(p)
  \/ CreateExternally \/ EditMetadata \/ EditStatus \/ DeleteExternally

Spec == Init /\ [][Next]_vars

\* Goroutines keep running, and a process without the lease ends in time.
FairSpec ==
  /\ Spec
  /\ \A p \in Replica :
       /\ WF_vars(Run(p)) /\ WF_vars(watchVersionGetter(p)) /\ WF_vars(Deliver(p))
       /\ WF_vars(AddAfterBackoff(p)) /\ WF_vars(processNextItem(p)) /\ WF_vars(Exit(p))

-----------------------------------------------------------------------------
\* Properties

Published(p) == co.exists /\ co.conditions = "asExpected" /\ co.version = p

\* A sync is on its way or under way with an object nobody wrote since.
Tracked(p) ==
  \/ proc[p].triggers > 0 \/ proc[p].inFlight > 0 \/ proc[p].waiting
  \/ queueKey \in proc[p].wq.dirty
  \/ proc[p].pc \in {"get", "create"}
  \/ proc[p].pc = "update" /\ proc[p].current

\* The reasons for which a running replica rests although the status is not its
\* own: the retries ran out on failing calls, or the object came and went while
\* the watch was broken.
LetGo(p) == proc[p].dropped = "fault" \/ proc[p].unseen

\* A write by somebody else between Get and UpdateStatus, between Get and Create
\* or after the sync, a lost answer or a broken watch never leaves a foreign
\* status behind: "After that, it stops trying" (handleErr) is harmless for
\* conflicts, since the write that caused the last one triggers another sync.
NoLostTrigger == \A p \in Replica : Running(p) => Published(p) \/ Tracked(p) \/ LetGo(p)

\* "This controller retries 30 times if something goes wrong. After that, it
\* stops trying": neither earlier, whatever succeeded or failed before the
\* failures in a row, nor later.
RetriesExact ==
  \A p \in Replica :
    /\ proc[p].failed <= MaxRetries + 1
    /\ proc[p].dropped # "no" <=> proc[p].failed = MaxRetries + 1

Leads(p) == holder = p /\ Running(p)

\* The leader's version is what the ClusterOperator says in the end, also after
\* an upgrade in which the old leader wrote for a while beside the new one.
StatusPublished ==
  \A p \in Replica : <>[]Leads(p) => <>[](Published(p) \/ LetGo(p))

\* Each of the controller's writes comes back to it as a change and triggers a
\* sync; the chain ends, because a sync that changes nothing is not stored.
Settles ==
  \A p \in Replica : <>[]Leads(p) =>
    <>[](proc[p].pc = "idle" /\ ~proc[p].waiting /\ proc[p].wq.queue = <<>>)
=============================================================================
