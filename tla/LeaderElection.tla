--------------------------- MODULE LeaderElection ---------------------------
(***************************************************************************)
(* The election that main asks the manager for: replicas of the program    *)
(* compete for a Lease (client-go's leaderelection.go), with the three     *)
(* durations of the flags and ReleaseOnCancel.  Clocks are not compared: a *)
(* candidate waits LeaseDuration from the moment it first saw a record, so *)
(* time is kept as ages, all advanced by Tick.                             *)
(*                                                                         *)
(* A leader that misses its deadline tries to release the lease and only   *)
(* then ends (renew returns before OnStoppedLeading is called), so its     *)
(* controllers go on during that call.  Of all calls only those of renew   *)
(* have a timeout, RenewDeadline; those of acquire and release are         *)
(* answered after any time.                                                *)
(***************************************************************************)
EXTENDS Integers

CONSTANTS
  Replica,
  LeaseDuration, RenewDeadline, RetryPeriod,  \* 137, 107 and 26 seconds
  MaxFaults, MaxDisruptions   \* bounds: failed calls; crashes and shutdowns

\* As checked by NewLeaderElector (JitterFactor is 1.2).
ASSUME DurationAssumption ==
  /\ LeaseDuration \in Nat /\ RenewDeadline \in Nat /\ RetryPeriod \in Nat \ {0}
  /\ LeaseDuration > RenewDeadline
  /\ 5 * RenewDeadline > 6 * RetryPeriod
ASSUME ElectionBoundAssumption == MaxFaults \in Nat /\ MaxDisruptions \in Nat
ASSUME NameAssumption == "free" \notin Replica /\ "gone" \notin Replica

VARIABLES
  holder,      \* the lease: a replica, "free", or "gone": a process that has ended
  leaseAge,    \* time since the lease was written, up to LeaseDuration
  rep,         \* the state of each replica
  faults, disruptions

boundVars == <<faults, disruptions>>
vars == <<holder, leaseAge, rep, boundVars>>

\* wait.Until pauses for RetryPeriod after each renewal; then RenewDeadline runs.
Deadline == RetryPeriod + RenewDeadline

\* What the durations leave for late answers, 4 seconds.
Slack == IF LeaseDuration > Deadline THEN LeaseDuration - Deadline ELSE 0

State ==
  [phase: {"candidate", "leader", "leaving"},
   call: {"none", "update", "applied", "releasing", "released"},
   callAge: 0..Slack,        \* time since the call had its effect or release began
   observed: {"none", "free", "self", "other"},   \* observedRecord.HolderIdentity
   seen: BOOLEAN,            \* the record observed is the one stored
   age: 0..LeaseDuration,    \* time since observedTime
   since: 0..Deadline,       \* of a leader: time since its last renewal was answered,
   lag: 0..Slack]            \*   and how late that answer was

\* The type invariant.
TypeOK ==
  /\ holder \in Replica \cup {"free", "gone"}
  /\ leaseAge \in 0..LeaseDuration
  /\ rep \in [Replica -> State]
  /\ faults \in 0..MaxFaults /\ disruptions \in 0..MaxDisruptions

Fresh == [phase |-> "candidate", call |-> "none", callAge |-> 0, observed |-> "none",
          seen |-> FALSE, age |-> 0, since |-> 0, lag |-> 0]

Init ==
  /\ holder = "free" /\ leaseAge = LeaseDuration
  /\ rep = [p \in Replica |-> Fresh]
  /\ faults = 0 /\ disruptions = 0

NoFault == UNCHANGED boundVars
Fault == faults < MaxFaults /\ faults' = faults + 1 /\ UNCHANGED disruptions
Disruption == disruptions < MaxDisruptions /\ disruptions' = disruptions + 1 /\ UNCHANGED faults

Set(p, state) == rep' = [rep EXCEPT ![p] = state]

\* The lease is written for h; p's state becomes state, and no other replica has
\* seen the record that is stored now.
Write(p, h, state) ==
  /\ holder' = h /\ leaseAge' = 0
  /\ rep' = [q \in Replica |-> IF q = p THEN state ELSE [rep[q] EXCEPT !.seen = FALSE]]

Renewing(p) == rep[p].phase = "leader" /\ rep[p].call \notin {"releasing", "released"}

-----------------------------------------------------------------------------
\* tryAcquireOrRenew

\* Mutant: the age of the first record ever seen counts.
ObserveOnce(p) ==
  [rep[p] EXCEPT !.observed = IF holder = p THEN "self" ELSE IF holder = "free" THEN "free" ELSE "other",
                 !.seen = TRUE]

\* setObservedRecord, when the record is not the one observed before.
Observe(p) ==
  IF rep[p].seen THEN rep[p]
  ELSE [rep[p] EXCEPT !.observed = IF holder = p THEN "self"
                                   ELSE IF holder = "free" THEN "free" ELSE "other",
                      !.seen = TRUE, !.age = 0]

\* Mutant: a foreign lease is never taken over.
HeldForEver(state) == state.observed = "other"

\* Held by somebody else and not expired.
Held(state) == state.observed = "other" /\ state.age < LeaseDuration

\* Get, up to the decision to update.
Get(p) ==
  /\ rep[p].call = "none"
  /\ \/ rep[p].phase = "candidate"
     \/ Renewing(p) /\ rep[p].since \in RetryPeriod..(Deadline - 1)
  /\ LET state == Observe(p)
     IN  Set(p, IF Held(state) THEN state ELSE [state EXCEPT !.call = "update"])
  /\ UNCHANGED <<holder, leaseAge, boundVars>>

\* Update reaches the API server, is refused for a conflict, or fails.
Update(p) ==
  /\ rep[p].call = "update"
  /\ \/ /\ rep[p].seen /\ NoFault
        /\ Write(p, p, [rep[p] EXCEPT !.call = "applied", !.callAge = 0])
     \/ /\ \/ ~rep[p].seen /\ NoFault
           \/ Fault
        /\ Set(p, [rep[p] EXCEPT !.call = "none"])
        /\ UNCHANGED <<holder, leaseAge>>

\* The answer comes, or is lost: then the next Get finds an unknown record.
Answer(p) ==
  /\ rep[p].call = "applied"
  /\ \/ /\ NoFault
        /\ Set(p, [rep[p] EXCEPT !.call = "none", !.observed = "self", !.age = 0,
                                 !.phase = "leader",
                                 !.since = IF rep[p].phase = "leader" THEN 0 ELSE RetryPeriod,
                                 !.lag = rep[p].callAge])
     \/ Fault /\ Set(p, [rep[p] EXCEPT !.call = "none", !.seen = FALSE])
  /\ UNCHANGED <<holder, leaseAge>>

-----------------------------------------------------------------------------
\* The end of renew

\* The process ends and another takes its place, with an identity of its own.
Ended(p) ==
  /\ Set(p, Fresh)
  /\ holder' = IF holder = p THEN "gone" ELSE holder
  /\ UNCHANGED leaseAge

\* A request that is under way is applied after the process has ended.
AppliedLate(p) == rep[p].call = "update" /\ rep[p].seen /\ Write(p, "gone", Fresh)

\* Mutant: the loop of renew is not cancelled at the deadline and starts over.
GiveUpAgain(p) ==
  /\ Renewing(p) /\ rep[p].since = Deadline
  /\ Set(p, [rep[p] EXCEPT !.call = "none", !.seen = @ /\ rep[p].call = "none", !.since = 0])
  /\ UNCHANGED <<holder, leaseAge, boundVars>>

\* The deadline passes.  A call that is under way is given up; its request may
\* have been applied or still be.
GiveUp(p) ==
  /\ Renewing(p) /\ rep[p].since = Deadline
  /\ LET next == [rep[p] EXCEPT !.call = "releasing", !.callAge = 0,
                                !.seen = @ /\ rep[p].call = "none"]
     IN  \/ rep[p].observed = "self" /\ Set(p, next) /\ UNCHANGED <<holder, leaseAge>>
         \/ /\ rep[p].observed = "self" /\ rep[p].call = "update" /\ rep[p].seen
            /\ Write(p, p, next)
         \/ rep[p].observed # "self" /\ (Ended(p) \/ AppliedLate(p))
  /\ UNCHANGED boundVars

\* release: applied, refused, or failed.
Release(p) ==
  /\ rep[p].call = "releasing"
  /\ \/ /\ rep[p].seen /\ NoFault
        /\ Write(p, "free", [rep[p] EXCEPT !.call = "released", !.seen = FALSE])
     \/ ~rep[p].seen /\ NoFault /\ Ended(p)
     \/ Fault /\ Ended(p)

\* OnStoppedLeading: the manager returns an error and main ends.
Stop(p) ==
  /\ rep[p].call = "released" /\ Ended(p) /\ NoFault

\* A signal: the manager stops its controllers first, then releases the lease.
Shutdown(p) ==
  /\ Renewing(p) /\ rep[p].call = "none" /\ rep[p].observed = "self" /\ Disruption
  /\ Set(p, [rep[p] EXCEPT !.phase = "leaving", !.call = "releasing", !.callAge = 0])
  /\ UNCHANGED <<holder, leaseAge>>

Crash(p) ==
  /\ Disruption
  /\ \/ rep[p] # Fresh /\ Ended(p)
     \/ AppliedLate(p)

-----------------------------------------------------------------------------
\* Time

\* An age does not grow beyond what anybody compares it with.
Older(age, limit) == IF age < limit THEN age + 1 ELSE limit

Aged(p) ==
  [rep[p] EXCEPT !.age = Older(@, LeaseDuration),
                 !.callAge = IF rep[p].call \in {"applied", "releasing", "released"}
                             THEN Older(@, Slack) ELSE 0,
                 !.since = IF Renewing(p) THEN @ + 1 ELSE @]

\* Mutant: the tries of renew have no timeout.
TickUntimed ==
  /\ leaseAge' = Older(leaseAge, LeaseDuration)
  /\ rep' = [p \in Replica |-> Aged(p)]
  /\ UNCHANGED <<holder, boundVars>>

\* Time does not pass the deadline of a leader: its timeout context cuts every call
\* of renew short.  It does pass while other calls are under way.
Tick ==
  /\ \A p \in Replica : Renewing(p) => rep[p].since < Deadline
  /\ leaseAge' = Older(leaseAge, LeaseDuration)
  /\ rep' = [p \in Replica |-> Aged(p)]
  /\ UNCHANGED <<holder, boundVars>>

renew(p) == Get(p) \/ Update(p) \/ Answer(p) \/ GiveUp(p) \/ Release(p) \/ Stop(p)

Next == Tick \/ \E p \in Replica : renew(p) \/ Shutdown(p) \/ Crash(p)

Spec == Init /\ [][Next]_vars

\* Time passes and every replica goes on with its loop.
FairSpec == Spec /\ WF_vars(Tick) /\ \A p \in Replica : WF_vars(renew(p))

-----------------------------------------------------------------------------
\* Properties

\* The replica's controllers run.
Acting(p) == rep[p].phase = "leader"

\* For how long a leader has been waiting for answers since its lease was renewed.
Delay(state) ==
  state.lag + IF state.call \in {"releasing", "released"} THEN state.callAge ELSE 0

\* Two replicas approve CSRs at the same time only when one of them waits for the
\* answer to a release that was applied, or when the answer to its last renewal
\* and its release so far took as long as the durations leave (Slack).  Nothing
\* else lets a candidate act beside a leader: not lost answers, crashes, missed
\* deadlines or renewals that are applied after they were given up.
OneLeader ==
  \A p, q \in Replica :
    p # q /\ Acting(p) /\ Acting(q) =>
      \E x \in {p, q} : rep[x].call = "released" \/ Delay(rep[x]) >= Slack

\* However late calls are answered: a lease that was not released passes to
\* another replica only when it was not renewed for LeaseDuration (candidates
\* measure this from when they first saw it, "observedTime").
LeaseRespected ==
  [][holder' \in Replica /\ holder' # holder => holder = "free" \/ leaseAge = LeaseDuration]_vars

\* There is a leader again and again, whoever crashes or loses contact.
SomeLeader == []<>(\E p \in Replica : Acting(p))
=============================================================================
