-------------------------- MODULE MetricsCollector --------------------------
(***************************************************************************)
(* The two exported metrics between the worker that stores them            *)
(* (reconcileLimits) and the scrapes that load them (metrics.go), each     *)
(* access an atomic operation of its own.  The worker stores the limit and *)
(* then the count, a scrape loads the count and then the limit.            *)
(*                                                                         *)
(* The alert of the manifests compares the two numbers of one scrape:      *)
(*   mapi_current_pending_csr > mapi_max_pending_csr                       *)
(***************************************************************************)
EXTENDS Naturals, Sequences

CONSTANTS
  Scrape,       \* scrapes
  Limits,       \* the values getMaxPending may return
  Counts,       \* the values recentlyPendingNodeCSRs may return
  MaxCalls      \* bound: calls of reconcileLimits

ASSUME CountAssumption == Limits \subseteq Nat /\ Counts \subseteq Nat
ASSUME CallAssumption == MaxCalls \in Nat

VARIABLES
  MaxPendingCSRs, PendingCSRs,  \* the two counters
  pc,           \* the worker: what it does next
  seen,         \* [Scrape -> what it has loaded so far]
  calls,        \* history: limit and count of every call, after the zero values
  storedLimit, storedCount,     \* history: the calls the two counters are from
  loaded        \* history: [Scrape -> the call the count it loaded is from]

vars == <<MaxPendingCSRs, PendingCSRs, pc, seen, calls, storedLimit, storedCount, loaded>>

Call == [limit: Nat, count: Nat]
Seen == {s \in Seq(Nat) : Len(s) <= 2}

\* The type invariant.
TypeOK ==
  /\ MaxPendingCSRs \in Nat /\ PendingCSRs \in Nat
  /\ pc \in {"idle", "storePending"}
  /\ seen \in [Scrape -> Seen]
  /\ calls \in Seq(Call)
  /\ storedLimit \in 1..Len(calls) /\ storedCount \in 1..Len(calls)
  /\ loaded \in [Scrape -> 1..Len(calls)]

Init ==
  /\ MaxPendingCSRs = 0 /\ PendingCSRs = 0
  /\ pc = "idle"
  /\ seen = [s \in Scrape |-> <<>>]
  /\ calls = <<[limit |-> 0, count |-> 0]>>
  /\ storedLimit = 1 /\ storedCount = 1
  /\ loaded = [s \in Scrape |-> 1]

-----------------------------------------------------------------------------
\* reconcileLimits; there is one worker, so calls do not overlap.

StoreMaxPending ==
  /\ pc = "idle" /\ Len(calls) <= MaxCalls
  /\ \E limit \in Limits, count \in Counts :
       /\ calls' = Append(calls, [limit |-> limit, count |-> count])
       /\ MaxPendingCSRs' = limit
  /\ storedLimit' = Len(calls')
  /\ pc' = "storePending"
  /\ UNCHANGED <<PendingCSRs, seen, storedCount, loaded>>

\* Mutant: the CSR at hand is not counted.
StorePendingOthers ==
  /\ pc = "storePending"
  /\ PendingCSRs' = calls[Len(calls)].count - 1
  /\ storedCount' = Len(calls)
  /\ pc' = "idle"
  /\ UNCHANGED <<MaxPendingCSRs, seen, calls, storedLimit, loaded>>

StorePending ==
  /\ pc = "storePending"
  /\ PendingCSRs' = calls[Len(calls)].count
  /\ storedCount' = Len(calls)
  /\ pc' = "idle"
  /\ UNCHANGED <<MaxPendingCSRs, seen, calls, storedLimit, loaded>>

\* collectMetrics loads twice.
LoadPending(s) ==
  /\ seen[s] = <<>>
  /\ seen' = [seen EXCEPT ![s] = <<PendingCSRs>>]
  /\ loaded' = [loaded EXCEPT ![s] = storedCount]
  /\ UNCHANGED <<MaxPendingCSRs, PendingCSRs, pc, calls, storedLimit, storedCount>>

LoadMaxPending(s) ==
  /\ Len(seen[s]) = 1
  /\ seen' = [seen EXCEPT ![s] = <<seen[s][1], MaxPendingCSRs>>]
  /\ UNCHANGED <<MaxPendingCSRs, PendingCSRs, pc, calls, storedLimit, storedCount, loaded>>

\* Mutant: a scrape loads the limit first.
collectMetricsLimitFirst(s) ==
  /\ \/ seen[s] = <<>> /\ seen' = [seen EXCEPT ![s] = <<MaxPendingCSRs>>] /\ UNCHANGED loaded
     \/ /\ Len(seen[s]) = 1
        /\ seen' = [seen EXCEPT ![s] = <<PendingCSRs, seen[s][1]>>]
        /\ loaded' = [loaded EXCEPT ![s] = storedCount]
  /\ UNCHANGED <<MaxPendingCSRs, PendingCSRs, pc, calls, storedLimit, storedCount>>

collectMetrics(s) == LoadPending(s) \/ LoadMaxPending(s)

Next ==
  \/ StoreMaxPending \/ StorePending
  \/ \E s \in Scrape : collectMetrics(s)

Spec == Init /\ [][Next]_vars

-----------------------------------------------------------------------------
\* Properties

\* What the alert's expression evaluates to for scrape s.
Alarms(s) == Len(seen[s]) = 2 /\ seen[s][1] > seen[s][2]

\* A scrape may take its two numbers from different reconciles.  When it alarms,
\* the reconcile that counted the pending CSRs was over its own limit, or a later
\* one has begun with a lower limit.  In the second case neither need have been
\* over its limit: between the two stores of a reconcile the old count meets the
\* new limit.  A limit that stays or rises never makes a scrape alarm.
AlarmExplained ==
  \A s \in Scrape : Alarms(s) =>
    \/ calls[loaded[s]].count > calls[loaded[s]].limit
    \/ \E i \in loaded[s]..Len(calls) : calls[i].limit < calls[loaded[s]].limit
=============================================================================
