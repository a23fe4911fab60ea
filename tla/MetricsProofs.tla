--------------------------- MODULE MetricsProofs ---------------------------
(***************************************************************************)
(* Only a limit that fell can make a scrape alarm although no reconcile    *)
(* was over its limit, for any number of scrapes and any sequence of       *)
(* limits and counts.                                                      *)
(***************************************************************************)
EXTENDS MetricsCollector, TLAPS

\* The limit is stored at the start of a call and is therefore from the last
\* one; the count may be from an earlier one, never from a later one.
Stored ==
  /\ storedLimit = Len(calls)
  /\ MaxPendingCSRs = calls[storedLimit].limit
  /\ PendingCSRs = calls[storedCount].count

\* A scrape that has loaded the count gets the limit of that call or a later one.
Loaded ==
  \A s \in Scrape :
    /\ Len(seen[s]) >= 1 => seen[s][1] = calls[loaded[s]].count
    /\ Len(seen[s]) = 2 =>
         \E j \in loaded[s]..Len(calls) : seen[s][2] = calls[j].limit

CollectInv == TypeOK /\ Stored /\ Loaded

LEMMA CollectInit == Init => CollectInv
  <1> SUFFICES ASSUME Init PROVE CollectInv
    OBVIOUS
  <1> USE DEF Init
  <1>1. TypeOK
    BY DEF TypeOK, Seen, Call
  <1>2. Stored
    BY DEF Stored
  <1>3. Loaded
    <2>1. \A s \in Scrape : Len(seen[s]) = 0
      OBVIOUS
    <2>2. ~(0 >= 1) /\ 0 # 2
      OBVIOUS
    <2> HIDE DEF Init
    <2> QED
      BY <2>1, <2>2, Zenon DEF Loaded
  <1> QED
    BY <1>1, <1>2, <1>3 DEF CollectInv

\* A call appends to the history and leaves what is in it alone.
LEMMA CallAppended ==
  ASSUME NEW cs \in Seq(Call), NEW c \in Call, NEW ds, ds = Append(cs, c)
  PROVE  /\ ds \in Seq(Call)
         /\ Len(ds) = Len(cs) + 1
         /\ ds[Len(ds)] = c
         /\ \A i \in 1..Len(cs) : ds[i] = cs[i]
  OBVIOUS

LEMMA StoreMaxPendingKeeps ==
  ASSUME CollectInv, StoreMaxPending
  PROVE  CollectInv'
  <1>1. PICK limit \in Limits, count \in Counts :
          /\ calls' = Append(calls, [limit |-> limit, count |-> count])
          /\ MaxPendingCSRs' = limit
    BY DEF StoreMaxPending
  <1>2. limit \in Nat /\ count \in Nat
    BY CountAssumption
  <1>3. [limit |-> limit, count |-> count] \in Call
    BY <1>2 DEF Call
  <1>4. calls \in Seq(Call) /\ Len(calls) \in Nat
    BY DEF CollectInv, TypeOK
  <1>5. /\ calls' \in Seq(Call)
        /\ Len(calls') = Len(calls) + 1
        /\ calls'[Len(calls')] = [limit |-> limit, count |-> count]
        /\ \A i \in 1..Len(calls) : calls'[i] = calls[i]
    BY <1>1, <1>3, <1>4, CallAppended
  <1>6. /\ storedLimit' = Len(calls') /\ pc' = "storePending"
        /\ UNCHANGED <<PendingCSRs, seen, storedCount, loaded>>
    BY DEF StoreMaxPending
  <1>7. TypeOK'
    <2>1. storedLimit' \in 1..Len(calls') /\ storedCount' \in 1..Len(calls')
      BY <1>4, <1>5, <1>6 DEF CollectInv, TypeOK
    <2>2. loaded' \in [Scrape -> 1..Len(calls')]
      BY <1>4, <1>5, <1>6 DEF CollectInv, TypeOK
    <2> QED
      BY <1>1, <1>2, <1>5, <1>6, <2>1, <2>2 DEF CollectInv, TypeOK
  <1>8. Stored'
    BY <1>1, <1>5, <1>6 DEF CollectInv, TypeOK, Stored
  <1>9. Loaded'
    <2> SUFFICES ASSUME NEW s \in Scrape
                 PROVE  /\ Len(seen[s]) >= 1 => seen[s][1] = calls'[loaded[s]].count
                        /\ Len(seen[s]) = 2 =>
                             \E j \in loaded[s]..Len(calls') : seen[s][2] = calls'[j].limit
      BY <1>6 DEF Loaded
    <2>1. loaded[s] \in 1..Len(calls) /\ calls'[loaded[s]] = calls[loaded[s]]
      BY <1>5 DEF CollectInv, TypeOK
    <2>2. Len(seen[s]) >= 1 => seen[s][1] = calls'[loaded[s]].count
      BY <2>1 DEF CollectInv, Loaded
    <2>3. ASSUME Len(seen[s]) = 2
          PROVE  \E j \in loaded[s]..Len(calls') : seen[s][2] = calls'[j].limit
      <3>1. PICK j \in loaded[s]..Len(calls) : seen[s][2] = calls[j].limit
        BY <2>3 DEF CollectInv, Loaded
      <3>2. j \in loaded[s]..Len(calls') /\ calls'[j] = calls[j]
        BY <1>4, <1>5, <2>1
      <3> QED
        BY <3>1, <3>2
    <2> QED
      BY <2>2, <2>3
  <1> QED
    BY <1>7, <1>8, <1>9 DEF CollectInv

LEMMA FirstElement ==
  ASSUME NEW S, NEW q \in Seq(S), Len(q) = 1
  PROVE  q[1] \in S
  OBVIOUS

LEMMA LoadsKeep ==
  ASSUME CollectInv, NEW s \in Scrape, collectMetrics(s)
  PROVE  CollectInv'
  <1>1. CASE LoadPending(s)
    <2> USE <1>1 DEF LoadPending
    <2>1. seen'[s] = <<PendingCSRs>> /\ loaded'[s] = storedCount
      BY DEF CollectInv, TypeOK
    <2>2. Len(seen'[s]) = 1 /\ seen'[s][1] = PendingCSRs
      BY <2>1
    <2>3. \A t \in Scrape : t # s => seen'[t] = seen[t] /\ loaded'[t] = loaded[t]
      BY DEF CollectInv, TypeOK
    <2>4. seen' \in [Scrape -> Seen]
      <3>1. <<PendingCSRs>> \in Seen
        BY DEF CollectInv, TypeOK, Seen
      <3> QED
        BY <3>1 DEF CollectInv, TypeOK
    <2>5. TypeOK'
      BY <2>4 DEF CollectInv, TypeOK
    <2>6. Stored'
      BY DEF CollectInv, Stored
    <2>7. Loaded'
      BY <2>1, <2>2, <2>3 DEF CollectInv, Stored, Loaded
    <2> QED
      BY <2>5, <2>6, <2>7 DEF CollectInv
  <1>2. CASE LoadMaxPending(s)
    <2> USE <1>2 DEF LoadMaxPending
    <2>1. seen'[s] = <<seen[s][1], MaxPendingCSRs>>
      BY DEF CollectInv, TypeOK
    <2>2. Len(seen'[s]) = 2 /\ seen'[s][1] = seen[s][1] /\ seen'[s][2] = MaxPendingCSRs
      BY <2>1
    <2>3. \A t \in Scrape : t # s => seen'[t] = seen[t]
      BY DEF CollectInv, TypeOK
    <2>4. seen' \in [Scrape -> Seen]
      <3>1. seen[s] \in Seq(Nat) /\ Len(seen[s]) = 1
        BY DEF CollectInv, TypeOK, Seen
      <3>2. seen[s][1] \in Nat /\ MaxPendingCSRs \in Nat
        BY <3>1, FirstElement DEF CollectInv, TypeOK
      <3>3. <<seen[s][1], MaxPendingCSRs>> \in Seen
        BY <3>2 DEF Seen
      <3> QED
        BY <3>3 DEF CollectInv, TypeOK
    <2>5. TypeOK'
      BY <2>4 DEF CollectInv, TypeOK
    <2>6. Stored'
      BY DEF CollectInv, Stored
    <2>7. storedLimit \in loaded[s]..Len(calls)
      BY DEF CollectInv, TypeOK, Stored
    <2>8. seen'[s][2] = calls[storedLimit].limit
      BY <2>2 DEF CollectInv, Stored
    <2>9. seen'[s][1] = calls[loaded[s]].count
      BY <2>2 DEF CollectInv, Loaded
    <2>10. ASSUME NEW t \in Scrape
           PROVE  /\ Len(seen'[t]) >= 1 => seen'[t][1] = calls[loaded[t]].count
                  /\ Len(seen'[t]) = 2 =>
                       \E j \in loaded[t]..Len(calls) : seen'[t][2] = calls[j].limit
      <3>1. CASE t = s
        BY <3>1, <2>7, <2>8, <2>9
      <3>2. CASE t # s
        BY <3>2, <2>3 DEF CollectInv, Loaded
      <3> QED
        BY <3>1, <3>2
    <2>11. Loaded'
      BY <2>10 DEF Loaded
    <2> QED
      BY <2>5, <2>6, <2>11 DEF CollectInv
  <1> QED
    BY <1>1, <1>2 DEF collectMetrics

LEMMA CollectStep == CollectInv /\ [Next]_vars => CollectInv'
  <1> SUFFICES ASSUME CollectInv, [Next]_vars PROVE CollectInv'
    OBVIOUS
  <1>1. CASE StoreMaxPending
    BY <1>1, StoreMaxPendingKeeps
  <1>2. CASE StorePending
    <2> USE <1>2 DEF StorePending
    <2>1. Len(calls) \in 1..Len(calls) /\ calls[Len(calls)] \in Call
      BY DEF CollectInv, TypeOK
    <2>2. calls[Len(calls)].count \in Nat
      BY <2>1 DEF Call
    <2>3. TypeOK'
      BY <2>1, <2>2 DEF CollectInv, TypeOK
    <2>4. Stored' /\ Loaded'
      BY DEF CollectInv, Stored, Loaded
    <2> QED
      BY <2>3, <2>4 DEF CollectInv
  <1>3. CASE \E s \in Scrape : collectMetrics(s)
    BY <1>3, LoadsKeep
  <1>4. CASE UNCHANGED vars
    BY <1>4 DEF vars, CollectInv, TypeOK, Stored, Loaded
  <1> QED
    BY <1>1, <1>2, <1>3, <1>4 DEF Next

\* Every number a scrape pairs up is typed, whatever it interleaves with.
THEOREM CollectorTyped == Spec => []TypeOK
  <1>1. CollectInv => TypeOK
    BY DEF CollectInv
  <1> QED
    BY <1>1, CollectInit, CollectStep, PTL DEF Spec

\* An alarm follows from a reconcile over its own limit or from a limit that is
\* lower than when the CSRs were counted, whatever reconcileLimits and
\* collectMetrics interleave.
THEOREM AlarmsExplained == Spec => []AlarmExplained
  <1>1. CollectInv => AlarmExplained
    <2> SUFFICES ASSUME CollectInv, NEW s \in Scrape, Alarms(s)
                 PROVE  \/ calls[loaded[s]].count > calls[loaded[s]].limit
                        \/ \E i \in loaded[s]..Len(calls) :
                             calls[i].limit < calls[loaded[s]].limit
      BY DEF AlarmExplained
    <2>1. PICK j \in loaded[s]..Len(calls) : seen[s][2] = calls[j].limit
      BY DEF CollectInv, Loaded, Alarms
    <2>2. seen[s][1] = calls[loaded[s]].count
      BY DEF CollectInv, Loaded, Alarms
    <2>3. loaded[s] \in 1..Len(calls) /\ j \in 1..Len(calls)
      BY DEF CollectInv, TypeOK
    <2>4. calls[loaded[s]] \in Call /\ calls[j] \in Call
      BY <2>3 DEF CollectInv, TypeOK
    <2>5. /\ calls[loaded[s]].count \in Nat /\ calls[loaded[s]].limit \in Nat
          /\ calls[j].limit \in Nat
      BY <2>4 DEF Call
    <2>6. calls[loaded[s]].count > calls[j].limit
      BY <2>1, <2>2 DEF Alarms
    <2>7. CASE calls[j].limit < calls[loaded[s]].limit
      BY <2>7
    <2>8. CASE ~(calls[j].limit < calls[loaded[s]].limit)
      BY <2>5, <2>6, <2>8
    <2> QED
      BY <2>7, <2>8
  <1> QED
    BY <1>1, CollectInit, CollectStep, PTL DEF Spec
=============================================================================
