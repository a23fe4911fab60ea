----------------------------- MODULE WorkQueue -----------------------------
(***************************************************************************)
(* The deduplicating work queue of client-go that feeds the CSR controller *)
(* (vendor/k8s.io/client-go/util/workqueue/queue.go) as operators on one   *)
(* record, each the effect of one method under the queue's lock:           *)
(*   queue       the order in which keys will be handed out;               *)
(*   dirty       the keys that need processing;                            *)
(*   processing  the keys that a worker holds.                             *)
(* Shutting down is left out: the process ends with its queue.             *)
(***************************************************************************)
EXTENDS Naturals, Sequences, SequencesExt

WQType(Key) ==
  [queue: Seq(Key), dirty: SUBSET Key, processing: SUBSET Key]

WQEmpty == [queue |-> <<>>, dirty |-> {}, processing |-> {}]

\* Mutant: a key that a worker holds is queued as well.
WQAddAlways(q, k) ==
  IF k \in q.dirty
  THEN q
  ELSE [queue |-> Append(q.queue, k), dirty |-> q.dirty \cup {k}, processing |-> q.processing]

\* A key that is already dirty is not added again; one that a worker holds is
\* only marked, and Done puts it back into the queue.
WQAdd(q, k) ==
  IF k \in q.dirty
  THEN q
  ELSE [queue      |-> IF k \in q.processing THEN q.queue ELSE Append(q.queue, k),
        dirty      |-> q.dirty \cup {k},
        processing |-> q.processing]

\* One Add for each key of S; order is one of the orders in which the keys that
\* are neither dirty nor held reach the queue.
WQOrders(q, S) == SetToSeqs(S \ (q.dirty \cup q.processing))

WQAddAll(q, S, order) ==
  [queue      |-> q.queue \o order,
   dirty      |-> q.dirty \cup S,
   processing |-> q.processing]

WQCanGet(q) == q.queue # <<>>

WQGet(q) ==
  [queue      |-> Tail(q.queue),
   dirty      |-> q.dirty \ {Head(q.queue)},
   processing |-> q.processing \cup {Head(q.queue)}]

WQDone(q, k) ==
  [queue      |-> IF k \in q.dirty THEN Append(q.queue, k) ELSE q.queue,
   dirty      |-> q.dirty,
   processing |-> q.processing \ {k}]

-----------------------------------------------------------------------------
\* "Every element of queue should be in the dirty set and not in the processing
\* set" (queue.go), and the converse that makes the queue lose nothing: a dirty
\* key nobody holds is queued, and no key is queued twice.
WQConsistent(q) ==
  /\ {q.queue[i] : i \in 1..Len(q.queue)} = q.dirty \ q.processing
  /\ \A i, j \in 1..Len(q.queue) : q.queue[i] = q.queue[j] => i = j
=============================================================================
