-------------------------- MODULE ConcurrencyQueue --------------------------
(***************************************************************************)
(* The FIFO queue behind the production concurrency limit                  *)
(* (packages/cli/src/concurrency/concurrency-queue.ts), as operators on a  *)
(* value [capacity, queue], so that every component that owns such a queue *)
(* keeps it in a variable of its own.                                      *)
(*                                                                         *)
(* An item of the queue is [call, executionId]: `call' stands for the      *)
(* `resolve' callback the code stores, and names the caller whose await    *)
(* returns when the item is resolved.                                      *)
(***************************************************************************)
EXTENDS Integers, Sequences, SequencesExt

Queues(Calls, Ids) == [capacity: Int, queue: Seq([call: Calls, executionId: Ids])]

\* The sequence holds exactly one item for each call of the set.
Lists(items, calls) ==
  /\ calls = { items[i].call : i \in DOMAIN items }
  /\ \A i, j \in DOMAIN items : items[i].call = items[j].call => i = j

\* One call is listed in front of another.
Ahead(queue, c, d) ==
  \E i, j \in DOMAIN queue : i < j /\ queue[i].call = c /\ queue[j].call = d

NewQueue(capacity) == [capacity |-> capacity, queue |-> <<>>]

\* (mutants) Waits one call too early; one call too late.
MustWaitAtLast(q) == q.capacity - 1 <= 0
MustWaitLate(q)   == q.capacity < 0

\* Whether enqueue() parks its caller: the capacity is negative once decremented.
MustWait(q) == q.capacity - 1 < 0

\* (mutants) The newcomer is put first; the fields of the item are swapped.
EnqueueFirst(q, call, executionId) ==
  [capacity |-> q.capacity - 1,
   queue    |-> IF MustWait(q)
                THEN <<[call |-> call, executionId |-> executionId]>> \o q.queue
                ELSE q.queue]
EnqueueSwapped(q, call, executionId) ==
  [capacity |-> q.capacity - 1,
   queue    |-> IF MustWait(q)
                THEN Append(q.queue, [call |-> executionId, executionId |-> call])
                ELSE q.queue]

Enqueue(q, call, executionId) ==
  [capacity |-> q.capacity - 1,
   queue    |-> IF MustWait(q)
                THEN Append(q.queue, [call |-> call, executionId |-> executionId])
                ELSE q.queue]

\* resolveNext() shifts the queue. The calls it lets through are a set of at
\* most one element: empty when there is nobody to resolve.
ResolveNext(q) == [q EXCEPT !.queue = IF @ = <<>> THEN @ ELSE Tail(@)]

Resolved(q)    == IF q.queue = <<>> THEN {} ELSE {q.queue[1].call}

\* (mutant) The capacity is not given back.
FreedNothing(q) == q

\* capacity++, then resolveNext() on the result.
Freed(q)   == [q EXCEPT !.capacity = @ + 1]
Dequeue(q) == ResolveNext(Freed(q))

\* getAll(): the ids in the queue, without order or multiplicity.
GetAll(q) == { q.queue[i].executionId : i \in DOMAIN q.queue }

\* findIndex(): the first position that holds the id.
IsFirst(q, executionId, i) ==
  /\ i \in DOMAIN q.queue
  /\ q.queue[i].executionId = executionId
  /\ \A j \in 1..(i - 1) : q.queue[j].executionId # executionId
IndexOf(q, executionId) == CHOOSE i \in DOMAIN q.queue : IsFirst(q, executionId, i)

\* (mutant) The item is found and not taken out.
SplicedNothing(q, executionId) == q

\* remove() splices that item out; what is left is then freed and resolved
\* exactly as in dequeue().
Spliced(q, executionId) == [q EXCEPT !.queue = RemoveAt(@, IndexOf(q, executionId))]
RemoveItem(q, executionId) ==
  IF executionId \in GetAll(q) THEN Dequeue(Spliced(q, executionId)) ELSE q

\* The call remove() drops (its promise never settles), and the calls it resolves.
Dropped(q, executionId) ==
  IF executionId \in GetAll(q) THEN {q.queue[IndexOf(q, executionId)].call} ELSE {}
ResolvedByRemove(q, executionId) ==
  IF executionId \in GetAll(q) THEN Resolved(Spliced(q, executionId)) ELSE {}
=============================================================================
