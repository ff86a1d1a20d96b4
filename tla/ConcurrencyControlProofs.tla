----------------------- MODULE ConcurrencyControlProofs -----------------------
(***************************************************************************)
(* The accounting of the production concurrency limit, proved for every    *)
(* number of calls, every limit and every assignment of executions and     *)
(* modes to the calls.                                                     *)
(***************************************************************************)
EXTENDS ConcurrencyControl, QueueFacts

-----------------------------------------------------------------------------
(* The invariant. Slots are counted with the number of holders, so the     *)
(* steps need to know that the list of waiters and the calls that wait are *)
(* the same, and which calls the limit applies to at all.                  *)

IInv ==
  /\ TypeOK
  /\ ModeDecides
  /\ QueueMatchesWaiters
  /\ SlotAccounting
  /\ NoIdleCapacity
  /\ BoundedOvershoot

LEMMA FiniteHolders ==
  ASSUME TypeOK
  PROVE  /\ IsFiniteSet(Holders) /\ Cardinality(Holders) \in Nat
         /\ EffectiveLimit \in Int
         /\ Len(productionQueue.queue) \in Nat
         /\ productionQueue.queue = <<>> <=> Len(productionQueue.queue) = 0
<1>1. IsFiniteSet(Holders)
  BY ConcurrencyAssumption, FS_Subset DEF Holders
<1>2. EffectiveLimit \in Int
  BY ConcurrencyAssumption DEF EffectiveLimit
<1> QED
  BY <1>1, <1>2, FS_CardinalityType, EmptySeq DEF TypeOK, Queues

LEMMA InitInvariant == Init => IInv
<1> SUFFICES ASSUME Init PROVE IInv
  OBVIOUS
<1>1. Holders = {} /\ Queued = {}
  BY DEF Init, Holders, Queued
<1>2. EffectiveLimit \in Int /\ (isEnabled => EffectiveLimit > 0)
  <2>1. EffectiveLimit \in Int /\ (EffectiveLimit = -1 \/ EffectiveLimit > 0)
    BY ConcurrencyAssumption DEF EffectiveLimit
  <2>2. isEnabled => EffectiveLimit # -1
    BY DEF Init
  <2> QED BY <2>1, <2>2
<1>3. productionQueue = [capacity |-> EffectiveLimit, queue |-> <<>>]
  BY DEF Init, NewQueue
<1>4. TypeOK
  BY <1>2, <1>3 DEF Init, TypeOK, Statuses, Queues
<1>5. ModeDecides
  BY DEF Init, ModeDecides
<1>6. QueueMatchesWaiters
  BY <1>1, <1>3 DEF QueueMatchesWaiters, Lists
<1>7. SlotAccounting /\ NoIdleCapacity /\ BoundedOvershoot
  BY <1>1, <1>2, <1>3, FS_EmptySet DEF Init, SlotAccounting, NoIdleCapacity, BoundedOvershoot
<1> QED
  BY <1>4, <1>5, <1>6, <1>7 DEF IInv

\* A step that leaves the limit, the queue, the holders and the waiters alone.
LEMMA QuietStep ==
  ASSUME IInv, TypeOK', ModeDecides',
         isEnabled' => isEnabled, productionQueue' = productionQueue,
         Holders' \subseteq Holders, isEnabled' => Holders' = Holders,
         Queued' = Queued, removals' = removals
  PROVE  IInv'
<1>1. QueueMatchesWaiters'
  BY DEF IInv, QueueMatchesWaiters
<1>2. isEnabled' => Holders' = Holders /\ isEnabled
  OBVIOUS
<1>3. EffectiveLimit' = EffectiveLimit
  BY DEF EffectiveLimit
<1>4. (SlotAccounting /\ NoIdleCapacity /\ BoundedOvershoot)'
  BY <1>2, <1>3 DEF IInv, SlotAccounting, NoIdleCapacity, BoundedOvershoot
<1> QED
  BY <1>1, <1>4 DEF IInv

LEMMA ThrottleStep ==
  ASSUME IInv, NEW c \in Calls, Throttle(c)
  PROVE  IInv'
<1> DEFINE q == productionQueue
           r == Enqueue(q, c, idOf[c])
<1>1. /\ q \in Queues(Calls, ExecutionIds) /\ Lists(q.queue, Queued)
      /\ c \notin Queued /\ c \notin Holders /\ idOf[c] \in ExecutionIds
      /\ status[c] = "idle"
  BY ConcurrencyAssumption DEF IInv, TypeOK, QueueMatchesWaiters, Throttle, Queued, Holders
<1>2. /\ r \in Queues(Calls, ExecutionIds)
      /\ r.capacity = q.capacity - 1
      /\ MustWait(q) => /\ Len(r.queue) = Len(q.queue) + 1
                        /\ Lists(r.queue, Queued \cup {c})
      /\ ~MustWait(q) => r.queue = q.queue
  <2> HIDE DEF q
  <2>1. r \in Queues(Calls, ExecutionIds)
    BY <1>1, EnqueueLists
  <2>2. MustWait(q) => Lists(r.queue, Queued \cup {c})
    BY <1>1, <2>1, EnqueueLists
  <2>3. /\ r.capacity = q.capacity - 1
        /\ ~MustWait(q) => r.queue = q.queue
        /\ MustWait(q) => Len(r.queue) = Len(q.queue) + 1
    BY <1>1 DEF Queues, Enqueue
  <2> QED BY <2>1, <2>2, <2>3
<1>3. productionQueue' = r
  BY DEF Throttle
<1>4. /\ MustWait(q) => Queued' = Queued \cup {c} /\ Holders' = Holders
      /\ ~MustWait(q) => Queued' = Queued /\ Holders' = Holders \cup {c}
  <2>1. status' = [status EXCEPT ![c] = IF MustWait(q) THEN "queued" ELSE "admitted"]
    BY DEF Throttle
  <2> HIDE DEF q
  <2> QED BY <2>1, <1>1 DEF Queued, Holders, IInv, TypeOK
<1>5. Cardinality(Holders \cup {c}) = Cardinality(Holders) + 1
  BY <1>1, FiniteHolders, FS_AddElement DEF IInv
<1>6. TypeOK'
  BY <1>2, <1>3 DEF IInv, TypeOK, Statuses, Throttle
<1>7. ModeDecides'
  BY DEF IInv, TypeOK, Statuses, ModeDecides, Throttle, IsKnown, IsUnlimited, EffectiveLimit
<1>8. QueueMatchesWaiters'
  <2> HIDE DEF q, r
  <2> QED BY <1>1, <1>2, <1>3, <1>4 DEF QueueMatchesWaiters
<1>9. EffectiveLimit' = EffectiveLimit /\ isEnabled' = isEnabled /\ isEnabled /\ removals' = removals
  BY DEF EffectiveLimit, Throttle
<1>10. /\ Cardinality(Holders) \in Nat /\ EffectiveLimit \in Int /\ removals \in Nat
       /\ Len(q.queue) \in Nat /\ Len(r.queue) \in Nat /\ q.capacity \in Int
       /\ q.queue = <<>> <=> Len(q.queue) = 0
  BY <1>1, <1>2, FiniteHolders DEF IInv, TypeOK, Queues
<1>11. /\ q.capacity = EffectiveLimit - Cardinality(Holders) - Len(q.queue)
       /\ q.queue # <<>> => Cardinality(Holders) >= EffectiveLimit
       /\ Cardinality(Holders) <= EffectiveLimit + removals
       /\ MustWait(q) <=> q.capacity - 1 < 0
  BY <1>9 DEF IInv, SlotAccounting, NoIdleCapacity, BoundedOvershoot, MustWait
<1>12. SlotAccounting' /\ NoIdleCapacity' /\ BoundedOvershoot'
  <2> HIDE DEF q, r
  <2> USE DEF SlotAccounting, NoIdleCapacity, BoundedOvershoot
  <2>1. CASE MustWait(q)
    BY <2>1, <1>2, <1>3, <1>4, <1>9, <1>10, <1>11
  <2>2. CASE ~MustWait(q)
    <3>1. Cardinality(Holders') = Cardinality(Holders) + 1
      BY <2>2, <1>4, <1>5
    <3>2. Cardinality(Holders) + 1 <= EffectiveLimit /\ Len(r.queue) = 0 /\ r.queue = <<>>
      BY <2>2, <1>2, <1>10, <1>11
    <3>3. r.capacity = EffectiveLimit - Cardinality(Holders') - Len(r.queue)
      BY <2>2, <3>1, <1>2, <1>10, <1>11
    <3> QED BY <3>1, <3>2, <3>3, <1>3, <1>9, <1>10
  <2> QED BY <2>1, <2>2
<1> QED
  BY <1>6, <1>7, <1>8, <1>12 DEF IInv

\* Letting the head of the queue through moves one call from the waiters to the
\* holders, if anyone waits.
With(f, st) == { c \in Calls : f[c] = st }

LEMMA AdmitNext ==
  ASSUME NEW q \in Queues(Calls, ExecutionIds), NEW f \in [Calls -> Statuses],
         Lists(q.queue, With(f, "queued"))
  PROVE  LET g == Admit(f, Resolved(q))
             r == ResolveNext(q)
         IN  /\ g \in [Calls -> Statuses]
             /\ r \in Queues(Calls, ExecutionIds) /\ r.capacity = q.capacity
             /\ Lists(r.queue, With(g, "queued"))
             /\ \A c \in Calls : g[c] = f[c] \/ (f[c] = "queued" /\ g[c] = "admitted")
             /\ q.queue = <<>> => r.queue = <<>> /\ With(g, "admitted") = With(f, "admitted")
             /\ q.queue # <<>> =>
                  /\ Len(r.queue) = Len(q.queue) - 1
                  /\ Cardinality(With(g, "admitted")) = Cardinality(With(f, "admitted")) + 1
<1> DEFINE g == Admit(f, Resolved(q))
           r == ResolveNext(q)
           W == With(f, "queued")
<1>1. /\ r \in Queues(Calls, ExecutionIds) /\ r.capacity = q.capacity
      /\ q.queue = <<>> => r = q /\ Resolved(q) = {}
      /\ q.queue # <<>> =>
           \E c \in W : /\ Resolved(q) = {c}
                        /\ Len(r.queue) = Len(q.queue) - 1
                        /\ Lists(r.queue, W \ {c})
  <2> HIDE DEF r, W
  <2> QED BY ResolveNextLists DEF r, W
<1>2. CASE q.queue = <<>>
  <2>1. g = f
    BY <1>1, <1>2 DEF Admit
  <2> QED BY <2>1, <1>1, <1>2
<1>3. CASE q.queue # <<>>
  <2>1. PICK d \in W : /\ Resolved(q) = {d}
                       /\ Len(r.queue) = Len(q.queue) - 1
                       /\ Lists(r.queue, W \ {d})
    BY <1>1, <1>3
  <2>2. d \in Calls /\ f[d] = "queued"
    BY DEF With
  <2>3. g = [c \in Calls |-> IF c = d THEN "admitted" ELSE f[c]]
    BY <2>1 DEF Admit
  <2>4. g \in [Calls -> Statuses]
    BY <2>3 DEF Statuses
  <2>5. With(g, "queued") = W \ {d}
    BY <2>2, <2>3 DEF With
  <2>6. With(g, "admitted") = With(f, "admitted") \cup {d} /\ d \notin With(f, "admitted")
    BY <2>2, <2>3 DEF With
  <2>7. IsFiniteSet(With(f, "admitted"))
    BY ConcurrencyAssumption, FS_Subset DEF With
  <2>8. Cardinality(With(g, "admitted")) = Cardinality(With(f, "admitted")) + 1
    BY <2>6, <2>7, FS_AddElement
  <2>9. \A c \in Calls : g[c] = f[c] \/ (f[c] = "queued" /\ g[c] = "admitted")
    BY <2>2, <2>3
  <2> HIDE DEF g, r, W
  <2> QED BY <1>1, <1>3, <2>1, <2>4, <2>5, <2>8, <2>9 DEF g, r
<1> QED
  BY <1>2, <1>3

\* The end of an execution that holds a slot, while the limit is on.
LEMMA ReleaseStep ==
  ASSUME IInv, NEW c \in Calls, Release(c), isEnabled, ~IsUnlimited(modeOf[c])
  PROVE  IInv'
<1> DEFINE q == productionQueue
           f == [status EXCEPT ![c] = "done"]
           r == ResolveNext(Freed(q))
           g == Admit(f, Resolved(Freed(q)))
<1>1. /\ q \in Queues(Calls, ExecutionIds) /\ Lists(q.queue, Queued)
      /\ status[c] = "admitted" /\ f \in [Calls -> Statuses]
  BY DEF IInv, TypeOK, Statuses, QueueMatchesWaiters, ModeDecides, Release
<1>2. /\ Freed(q) \in Queues(Calls, ExecutionIds) /\ Freed(q).capacity = q.capacity + 1
      /\ Freed(q).queue = q.queue
  BY <1>1 DEF Freed, Queues
<1>3. With(f, "queued") = Queued /\ With(f, "admitted") = Holders \ {c} /\ c \in Holders
  BY <1>1 DEF With, Queued, Holders, IInv, TypeOK
<1>4. Cardinality(With(f, "admitted")) = Cardinality(Holders) - 1
  BY <1>3, FiniteHolders, FS_RemoveElement DEF IInv
<1>5. /\ g \in [Calls -> Statuses]
      /\ r \in Queues(Calls, ExecutionIds) /\ r.capacity = q.capacity + 1
      /\ Lists(r.queue, With(g, "queued"))
      /\ \A d \in Calls : g[d] = f[d] \/ (f[d] = "queued" /\ g[d] = "admitted")
      /\ q.queue = <<>> => r.queue = <<>> /\ With(g, "admitted") = With(f, "admitted")
      /\ q.queue # <<>> =>
           /\ Len(r.queue) = Len(q.queue) - 1
           /\ Cardinality(With(g, "admitted")) = Cardinality(With(f, "admitted")) + 1
  <2> DEFINE fq == Freed(q)
  <2>1. fq \in Queues(Calls, ExecutionIds) /\ Lists(fq.queue, With(f, "queued"))
    BY <1>1, <1>2, <1>3
  <2>2. /\ fq.capacity = q.capacity + 1 /\ fq.queue = q.queue
        /\ r = ResolveNext(fq) /\ g = Admit(f, Resolved(fq))
    BY <1>2
  <2> HIDE DEF fq, f, r, g
  <2> QED BY <1>1, <2>1, <2>2, AdmitNext, SMTT(30)
<1>6. /\ productionQueue' = r /\ status' = g /\ removals' = removals /\ isEnabled' = isEnabled
      /\ EffectiveLimit' = EffectiveLimit
  BY DEF Release, Dequeue, Resolved, Freed, EffectiveLimit
<1>7. Queued' = With(g, "queued") /\ Holders' = With(g, "admitted")
  <2> HIDE DEF g
  <2> QED BY <1>6 DEF Queued, Holders, With
<1>8. TypeOK' /\ QueueMatchesWaiters'
  <2> HIDE DEF g, r
  <2> QED BY <1>5, <1>6, <1>7 DEF IInv, TypeOK, QueueMatchesWaiters
<1>9. ModeDecides'
  <2>1. \A d \in Calls : g[d] \in {"queued", "admitted"} => status[d] \in {"queued", "admitted"}
    BY <1>1, <1>5 DEF IInv, TypeOK
  <2>2. \A d \in Calls : g[d] = "bypassed" => status[d] = "bypassed"
    BY <1>1, <1>5 DEF IInv, TypeOK
  <2> HIDE DEF g
  <2> QED BY <1>6, <2>1, <2>2 DEF IInv, ModeDecides, IsKnown, IsUnlimited, EffectiveLimit
<1>10. /\ Cardinality(Holders) \in Nat /\ EffectiveLimit \in Int /\ removals \in Nat
       /\ Len(q.queue) \in Nat /\ q.capacity \in Int
       /\ q.queue = <<>> <=> Len(q.queue) = 0
       /\ q.capacity = EffectiveLimit - Cardinality(Holders) - Len(q.queue)
       /\ q.queue # <<>> => Cardinality(Holders) >= EffectiveLimit
       /\ Cardinality(Holders) <= EffectiveLimit + removals
  BY <1>1, FiniteHolders DEF IInv, TypeOK, Queues, SlotAccounting, NoIdleCapacity, BoundedOvershoot
<1>11. SlotAccounting' /\ NoIdleCapacity' /\ BoundedOvershoot'
  <2> HIDE DEF q, r, f, g
  <2> USE DEF SlotAccounting, NoIdleCapacity, BoundedOvershoot
  <2>1. CASE q.queue = <<>>
    <3>1. r.queue = <<>> /\ Len(r.queue) = 0 /\ Cardinality(Holders') = Cardinality(Holders) - 1
      BY <2>1, <1>4, <1>5, <1>7
    <3> QED BY <2>1, <3>1, <1>5, <1>6, <1>10
  <2>2. CASE q.queue # <<>>
    <3>1. Len(r.queue) = Len(q.queue) - 1 /\ Cardinality(Holders') = Cardinality(Holders)
      BY <2>2, <1>4, <1>5, <1>7, <1>10
    <3> QED BY <2>2, <3>1, <1>5, <1>6, <1>10
  <2> QED BY <2>1, <2>2
<1> QED
  BY <1>8, <1>9, <1>11 DEF IInv

\* The removal of a queued execution: one waiter fewer, and the next one let
\* through as if a slot had been freed. It is the one step that lets the number
\* of holders pass the limit, by at most the one it is counted for.
LEMMA RemoveStep ==
  ASSUME IInv, NEW id \in ExecutionIds, RemoveExecution(id)
  PROVE  IInv'
<1> DEFINE q == productionQueue
           s == Spliced(q, id)
           f == [c \in Calls |-> IF c \in Dropped(q, id) THEN "dropped" ELSE status[c]]
           r == ResolveNext(Freed(s))
           g == Admit(f, Resolved(Freed(s)))
<1>1. /\ q \in Queues(Calls, ExecutionIds) /\ Lists(q.queue, Queued)
      /\ id \in GetAll(q) /\ status \in [Calls -> Statuses]
  BY DEF IInv, TypeOK, QueueMatchesWaiters, RemoveExecution
<1>3. s \in Queues(Calls, ExecutionIds) /\ s.capacity = q.capacity
  <2> HIDE DEF q
  <2>1. s \in Queues(Calls, ExecutionIds)
    BY <1>1, SplicedItem
  <2> QED BY <1>1, <2>1 DEF Queues, Spliced
<1>2. PICK d \in Queued : /\ Dropped(q, id) = {d}
                          /\ Len(s.queue) = Len(q.queue) - 1
                          /\ Lists(s.queue, Queued \ {d})
  <2> HIDE DEF q
  <2> QED BY <1>1, <1>3, SplicedLists
<1>4. /\ Freed(s) \in Queues(Calls, ExecutionIds) /\ Freed(s).capacity = q.capacity + 1
      /\ Freed(s).queue = s.queue
  <2> HIDE DEF s
  <2> QED BY <1>3 DEF Freed, Queues
<1>5. f = [c \in Calls |-> IF c = d THEN "dropped" ELSE status[c]] /\ f \in [Calls -> Statuses]
  BY <1>1, <1>2 DEF Statuses
<1>6. With(f, "queued") = Queued \ {d} /\ With(f, "admitted") = Holders
  BY <1>5 DEF With, Queued, Holders
<1>7. /\ g \in [Calls -> Statuses]
      /\ r \in Queues(Calls, ExecutionIds) /\ r.capacity = q.capacity + 1
      /\ Lists(r.queue, With(g, "queued"))
      /\ \A c \in Calls : g[c] = f[c] \/ (f[c] = "queued" /\ g[c] = "admitted")
      /\ s.queue = <<>> => r.queue = <<>> /\ With(g, "admitted") = With(f, "admitted")
      /\ s.queue # <<>> =>
           /\ Len(r.queue) = Len(s.queue) - 1
           /\ Cardinality(With(g, "admitted")) = Cardinality(With(f, "admitted")) + 1
  <2> DEFINE fs == Freed(s)
  <2>1. fs \in Queues(Calls, ExecutionIds) /\ Lists(fs.queue, With(f, "queued"))
    BY <1>2, <1>4, <1>6
  <2> HIDE DEF fs, f, s
  <2> QED BY <1>5, <2>1, <1>4, AdmitNext DEF fs
<1>8. /\ productionQueue' = r /\ status' = g /\ removals' = removals + 1
      /\ isEnabled' = isEnabled /\ isEnabled /\ EffectiveLimit' = EffectiveLimit
  BY <1>1 DEF RemoveExecution, RemoveItem, ResolvedByRemove, Dequeue, Resolved, Freed, EffectiveLimit
<1>9. Queued' = With(g, "queued") /\ Holders' = With(g, "admitted")
  <2> HIDE DEF g
  <2> QED BY <1>8 DEF Queued, Holders, With
<1>10. TypeOK' /\ QueueMatchesWaiters'
  <2> HIDE DEF g, r
  <2> QED BY <1>7, <1>8, <1>9 DEF IInv, TypeOK, QueueMatchesWaiters
<1>11. ModeDecides'
  <2>1. \A c \in Calls : g[c] \in {"queued", "admitted"} => status[c] \in {"queued", "admitted"}
    BY <1>5, <1>7
  <2>2. \A c \in Calls : g[c] = "bypassed" => status[c] = "bypassed"
    BY <1>5, <1>7
  <2> HIDE DEF g
  <2> QED BY <1>8, <2>1, <2>2 DEF IInv, ModeDecides, IsKnown, IsUnlimited, EffectiveLimit
<1>12. /\ Cardinality(Holders) \in Nat /\ EffectiveLimit \in Int /\ removals \in Nat
       /\ Len(q.queue) \in Nat /\ q.capacity \in Int
       /\ Len(s.queue) \in Nat /\ Len(r.queue) \in Nat
       /\ s.queue = <<>> <=> Len(s.queue) = 0
       /\ q.capacity = EffectiveLimit - Cardinality(Holders) - Len(q.queue)
       /\ q.queue # <<>>
       /\ Cardinality(Holders) >= EffectiveLimit
       /\ Cardinality(Holders) <= EffectiveLimit + removals
  <2>1. q.queue # <<>>
    BY <1>1 DEF GetAll
  <2> HIDE DEF r, s
  <2> QED BY <2>1, <1>1, <1>3, <1>7, <1>8, FiniteHolders, EmptySeq
          DEF IInv, TypeOK, Queues, SlotAccounting, NoIdleCapacity, BoundedOvershoot
<1>13. Len(s.queue) = Len(q.queue) - 1 /\ r.capacity = q.capacity + 1
  BY <1>2, <1>7
<1>14. SlotAccounting' /\ NoIdleCapacity' /\ BoundedOvershoot'
  <2> HIDE DEF q, s, r, f, g
  <2> USE DEF SlotAccounting, NoIdleCapacity, BoundedOvershoot
  <2>1. CASE s.queue = <<>>
    <3>1. r.queue = <<>> /\ Len(r.queue) = 0 /\ Cardinality(Holders') = Cardinality(Holders)
      BY <2>1, <1>6, <1>7, <1>9
    <3>2. Len(s.queue) = 0 /\ Len(q.queue) = 1
      BY <2>1, <1>13, <1>12
    <3>3. r.capacity = EffectiveLimit - Cardinality(Holders') - Len(r.queue)
      BY <3>1, <3>2, <1>13, <1>12
    <3> QED BY <3>1, <3>3, <1>8, <1>12
  <2>2. CASE s.queue # <<>>
    <3>1. Len(r.queue) = Len(s.queue) - 1 /\ Cardinality(Holders') = Cardinality(Holders) + 1
      BY <2>2, <1>6, <1>7, <1>9, <1>12
    <3>2. r.capacity = EffectiveLimit - Cardinality(Holders') - Len(r.queue)
      BY <3>1, <1>13, <1>12
    <3>3. Cardinality(Holders') >= EffectiveLimit /\ Cardinality(Holders') <= EffectiveLimit + removals'
      BY <3>1, <1>8, <1>12
    <3> QED BY <3>2, <3>3, <1>8
  <2> QED BY <2>1, <2>2
<1> QED
  BY <1>10, <1>11, <1>14 DEF IInv

LEMMA NextInvariant == IInv /\ [Next]_vars => IInv'
<1> SUFFICES ASSUME IInv, [Next]_vars PROVE IInv'
  OBVIOUS
<1> USE DEF IInv, TypeOK, Statuses, ModeDecides, IsKnown, IsUnlimited, EffectiveLimit, Holders, Queued
<1>1. ASSUME NEW c \in Calls, Bypass(c) PROVE IInv'
  BY <1>1, QuietStep DEF Bypass
<1>2. ASSUME NEW c \in Calls, Reject(c) PROVE IInv'
  BY <1>2, QuietStep DEF Reject
<1>3. ASSUME NEW c \in Calls, Throttle(c) PROVE IInv'
  BY <1>3, ThrottleStep
<1>4. ASSUME NEW c \in Calls, Release(c) PROVE IInv'
  <2>1. CASE isEnabled /\ ~IsUnlimited(modeOf[c])
    BY <1>4, <2>1, ReleaseStep
  <2>2. CASE ~(isEnabled /\ ~IsUnlimited(modeOf[c]))
    BY <1>4, <2>2, QuietStep DEF Release
  <2> QED BY <2>1, <2>2
<1>5. ASSUME NEW id \in ExecutionIds, RemoveExecution(id) PROVE IInv'
  BY <1>5, RemoveStep
<1>6. CASE Disable
  BY <1>6, QuietStep DEF Disable
<1>7. CASE UNCHANGED vars
  BY <1>7, QuietStep DEF vars
<1> QED
  BY <1>1, <1>2, <1>3, <1>4, <1>5, <1>6, <1>7 DEF Next

\* Type correctness, and with it the full invariant, of the limit's life.
THEOREM Invariance == Spec => []IInv
<1>1. QED
  BY InitInvariant, NextInvariant, PTL DEF Spec

THEOREM TypeCorrect == Spec => []TypeOK
<1>1. IInv => TypeOK
  BY DEF IInv
<1> QED
  BY <1>1, Invariance, PTL

\* The capacity counter is the limit less the running and the queued executions,
\* whatever the order of calls, ends, removals and shutdown.
THEOREM AccountingHolds == Spec => []SlotAccounting
<1>1. IInv => SlotAccounting
  BY DEF IInv
<1> QED
  BY <1>1, Invariance, PTL

\* A queued execution is never held back while fewer than the limit run.
THEOREM NoIdleCapacityHolds == Spec => []NoIdleCapacity
<1>1. IInv => NoIdleCapacity
  BY DEF IInv
<1> QED
  BY <1>1, Invariance, PTL

\* The limit is exceeded by at most the number of removals of queued executions;
\* without any, it is kept.
THEOREM OvershootIsBounded == Spec => []BoundedOvershoot
<1>1. IInv => BoundedOvershoot
  BY DEF IInv
<1> QED
  BY <1>1, Invariance, PTL

\* Every waiting call has exactly one item in the queue.
THEOREM WaitersAreListed == Spec => []QueueMatchesWaiters
<1>1. IInv => QueueMatchesWaiters
  BY DEF IInv
<1> QED
  BY <1>1, Invariance, PTL

\* After shutdown has switched the limit off, no queued execution ever leaves
\* the queue: the throttled ones are left to the next start.
THEOREM ShutdownFreezes == Spec => FrozenOnShutdown
<1> DEFINE A == ~isEnabled => \A c \in Queued : status'[c] = "queued"
<1>1. TypeOK /\ [Next]_vars => [A]_vars
  <2> SUFFICES ASSUME TypeOK, Next, ~isEnabled, NEW c \in Queued
               PROVE  status'[c] = "queued"
    OBVIOUS
  <2>1. c \in Calls /\ status[c] = "queued" /\ status \in [Calls -> Statuses]
    BY DEF Queued, TypeOK
  <2>2. ASSUME NEW d \in Calls, Bypass(d) \/ Reject(d) \/ Throttle(d) \/ Release(d)
        PROVE  status'[c] = "queued"
    BY <2>1, <2>2 DEF Bypass, Reject, Throttle, Release
  <2>3. ASSUME NEW id \in ExecutionIds, RemoveExecution(id)
        PROVE  FALSE
    BY <2>3 DEF RemoveExecution
  <2> QED
    BY <2>1, <2>2, <2>3 DEF Next, Disable
<1> QED
  BY <1>1, TypeCorrect, PTL DEF Spec, FrozenOnShutdown

-----------------------------------------------------------------------------
(* First come, first served: c waits before and after a step, and d came   *)
(* after it.                                                               *)

Later(c, d) == status[d] = "idle" \/ Ahead(productionQueue.queue, c, d)

StillLater(c, d) ==
  /\ status'[d] # "admitted"
  /\ status'[d] = "queued" => Ahead(productionQueue'.queue, c, d)

\* Who is listed waits.
LEMMA AheadWaits ==
  ASSUME IInv, NEW c, NEW d, Ahead(productionQueue.queue, c, d)
  PROVE  status[c] = "queued" /\ status[d] = "queued"
  BY DEF IInv, QueueMatchesWaiters, Lists, Ahead, Queued

\* A step that leaves the list alone and changes no call that waits.
LEMMA LaterUntouched ==
  ASSUME IInv, NEW c \in Calls, NEW d \in Calls, Later(c, d),
         productionQueue' = productionQueue,
         status[d] = "idle" => status'[d] \notin {"queued", "admitted"},
         status[d] = "queued" => status'[d] = "queued"
  PROVE  StillLater(c, d)
  BY AheadWaits DEF Later, StillLater

\* A new call finds somebody waiting, so there is no capacity and it waits behind.
LEMMA LaterThrottle ==
  ASSUME IInv, NEW c \in Calls, NEW d \in Calls, status[c] = "queued", Later(c, d),
         NEW e \in Calls, Throttle(e)
  PROVE  StillLater(c, d)
<1> DEFINE q == productionQueue
           Items == [call: Calls, executionId: ExecutionIds]
           x == [call |-> e, executionId |-> idOf[e]]
<1>1. /\ q \in Queues(Calls, ExecutionIds) /\ isEnabled /\ status[e] = "idle"
      /\ status \in [Calls -> Statuses]
      /\ \E i \in DOMAIN q.queue : q.queue[i].call = c
  BY DEF IInv, TypeOK, Throttle, QueueMatchesWaiters, Lists, Queued
<1>2. MustWait(q)
  <2>1. q.queue # <<>>
    BY <1>1
  <2>2. /\ Cardinality(Holders) >= EffectiveLimit
        /\ q.capacity = EffectiveLimit - Cardinality(Holders) - Len(q.queue)
    BY <1>1, <2>1 DEF IInv, NoIdleCapacity, SlotAccounting
  <2>3. /\ Cardinality(Holders) \in Nat /\ EffectiveLimit \in Int /\ Len(q.queue) \in Nat
    BY FiniteHolders DEF IInv
  <2> QED BY <2>2, <2>3 DEF MustWait
<1>3. /\ status' = [status EXCEPT ![e] = "queued"]
      /\ productionQueue' = [capacity |-> q.capacity - 1, queue |-> Append(q.queue, x)]
  BY <1>2 DEF Throttle, Enqueue
<1>4. q.queue \in Seq(Items) /\ x \in Items
  BY <1>1, ConcurrencyAssumption DEF Queues
<1>5. /\ Ahead(q.queue, c, d) => Ahead(Append(q.queue, x), c, d)
      /\ Ahead(Append(q.queue, x), c, e)
  <2>1. x.call = e
    OBVIOUS
  <2> HIDE DEF x, q, Items
  <2> QED BY <1>1, <1>4, <2>1, AppendOrder
<1> HIDE DEF q, Items, x
<1>6. CASE d = e
  BY <1>1, <1>3, <1>5, <1>6 DEF StillLater
<1>7. CASE d # e
  <2>1. status'[d] = status[d]
    BY <1>1, <1>3, <1>7
  <2>2. CASE status[d] = "idle"
    BY <2>1, <2>2 DEF StillLater
  <2>3. CASE Ahead(q.queue, c, d)
    BY <2>1, <2>3, <1>3, <1>5, AheadWaits DEF StillLater, q
  <2> QED BY <2>2, <2>3 DEF Later, q
<1> QED
  BY <1>6, <1>7

\* A slot is freed: the head of the list is let through, and c was not the head.
LEMMA LaterRelease ==
  ASSUME IInv, NEW c \in Calls, NEW d \in Calls, status[c] = "queued", status'[c] = "queued",
         Later(c, d), NEW e \in Calls, Release(e), isEnabled, ~IsUnlimited(modeOf[e])
  PROVE  StillLater(c, d)
<1> DEFINE q == productionQueue
           fq == Freed(q)
<1>1. /\ q \in Queues(Calls, ExecutionIds) /\ Lists(q.queue, Queued)
      /\ status \in [Calls -> Statuses] /\ status[e] \in {"admitted", "bypassed"}
  BY DEF IInv, TypeOK, QueueMatchesWaiters, Release
<1>2. fq \in Queues(Calls, ExecutionIds) /\ fq.queue = q.queue
  BY <1>1 DEF Freed, Queues
<1>3. /\ productionQueue' = ResolveNext(fq)
      /\ \A b \in Calls : status'[b] = IF b \in Resolved(fq) THEN "admitted"
                                        ELSE IF b = e THEN "done" ELSE status[b]
  BY <1>1 DEF Release, Dequeue, Resolved, Freed, Admit
<1>4. c \notin Resolved(fq)
  BY <1>3
<1> HIDE DEF fq
<1>5. CASE status[d] = "idle"
  <2>1. d \notin Resolved(fq)
    <3> SUFFICES ASSUME d \in Resolved(fq) PROVE FALSE
      OBVIOUS
    <3>1. d \in Queued
      BY <1>1, <1>2, ResolveNextLists
    <3> QED BY <3>1, <1>5 DEF Queued
  <2> QED BY <2>1, <1>1, <1>3, <1>5 DEF StillLater
<1>6. CASE Ahead(q.queue, c, d)
  <2>1. d \notin Resolved(fq) /\ Ahead(ResolveNext(fq).queue, c, d)
    <3>1. fq \in Queues(Calls, ExecutionIds) /\ Lists(fq.queue, Queued) /\ Ahead(fq.queue, c, d)
      BY <1>1, <1>2, <1>6
    <3> QED BY <3>1, <1>4, ResolveNextOrder
  <2>2. status[d] = "queued"
    BY <1>6, AheadWaits DEF q
  <2> QED BY <2>1, <2>2, <1>3 DEF StillLater
<1> QED
  BY <1>5, <1>6 DEF Later

\* One waiter leaves the list and the head of what is left is let through.
LEMMA LaterRemove ==
  ASSUME IInv, NEW c \in Calls, NEW d \in Calls, status[c] = "queued", status'[c] = "queued",
         Later(c, d), NEW id \in ExecutionIds, RemoveExecution(id)
  PROVE  StillLater(c, d)
<1> DEFINE q == productionQueue
           s == Spliced(q, id)
           fs == Freed(s)
<1>1. /\ q \in Queues(Calls, ExecutionIds) /\ Lists(q.queue, Queued)
      /\ id \in GetAll(q) /\ status \in [Calls -> Statuses]
  BY DEF IInv, TypeOK, QueueMatchesWaiters, RemoveExecution
<1>2. s \in Queues(Calls, ExecutionIds)
  <2> HIDE DEF q
  <2> QED BY <1>1, SplicedItem
<1>3. PICK x \in Queued : Dropped(q, id) = {x} /\ Lists(s.queue, Queued \ {x})
  <2> HIDE DEF q
  <2> QED BY <1>1, SplicedLists
<1>4. /\ fs \in Queues(Calls, ExecutionIds) /\ fs.queue = s.queue
      /\ Resolved(fs) = Resolved(s)
  <2> HIDE DEF s
  <2> QED BY <1>2 DEF Freed, Queues, Resolved
<1>5. /\ productionQueue' = ResolveNext(fs)
      /\ \A b \in Calls : status'[b] = IF b \in Resolved(fs) THEN "admitted"
                                        ELSE IF b = x THEN "dropped" ELSE status[b]
  <2>1. /\ productionQueue' = ResolveNext(fs)
        /\ status' = Admit([b \in Calls |-> IF b \in {x} THEN "dropped" ELSE status[b]],
                           Resolved(s))
    BY <1>1, <1>3 DEF RemoveExecution, RemoveItem, Dequeue, ResolvedByRemove
  <2> QED BY <2>1, <1>4 DEF Admit
<1>6. c \notin Resolved(fs) /\ c # x
  BY <1>5
<1> HIDE DEF fs, s, q
<1>7. Lists(fs.queue, Queued \ {x}) /\ Resolved(fs) \subseteq Queued \ {x}
  <2>1. Lists(fs.queue, Queued \ {x})
    BY <1>3, <1>4
  <2> QED BY <2>1, <1>4, ResolvedListed
<1>8. CASE status[d] = "idle"
  <2>1. d # x
    BY <1>8 DEF Queued
  <2>2. d \notin Resolved(fs)
    BY <1>8, <1>7 DEF Queued
  <2> QED BY <2>1, <2>2, <1>5, <1>8 DEF StillLater
<1>9. CASE Ahead(q.queue, c, d)
  <2>1. CASE d = x
    BY <2>1, <1>5, <1>7 DEF StillLater
  <2>2. CASE d # x
    <3>1. Ahead(fs.queue, c, d)
      BY <1>1, <1>3, <1>4, <1>6, <1>9, <2>2, SplicedOrder DEF s
    <3>2. d \notin Resolved(fs) /\ Ahead(ResolveNext(fs).queue, c, d)
      BY <3>1, <1>4, <1>6, <1>7, ResolveNextOrder
    <3>3. status[d] = "queued"
      BY <1>9, AheadWaits DEF q
    <3> QED BY <3>2, <3>3, <1>5 DEF StillLater
  <2> QED BY <2>1, <2>2
<1> QED
  BY <1>8, <1>9 DEF Later, q

LEMMA LaterStep ==
  ASSUME IInv, [Next]_vars, NEW c \in Calls, NEW d \in Calls,
         status[c] = "queued", status'[c] = "queued", Later(c, d)
  PROVE  StillLater(c, d)
<1>0. status \in [Calls -> Statuses]
  BY DEF IInv, TypeOK
<1>1. ASSUME NEW e \in Calls, Bypass(e) \/ Reject(e) PROVE StillLater(c, d)
  BY <1>0, <1>1, LaterUntouched DEF Bypass, Reject
<1>2. ASSUME NEW e \in Calls, Throttle(e) PROVE StillLater(c, d)
  BY <1>2, LaterThrottle
<1>3. ASSUME NEW e \in Calls, Release(e) PROVE StillLater(c, d)
  <2>1. CASE isEnabled /\ ~IsUnlimited(modeOf[e])
    BY <1>3, <2>1, LaterRelease
  <2>2. CASE ~(isEnabled /\ ~IsUnlimited(modeOf[e]))
    BY <1>0, <1>3, <2>2, LaterUntouched DEF Release
  <2> QED BY <2>1, <2>2
<1>4. ASSUME NEW id \in ExecutionIds, RemoveExecution(id) PROVE StillLater(c, d)
  BY <1>4, LaterRemove
<1>5. CASE Disable
  BY <1>5, LaterUntouched DEF Disable
<1>6. CASE UNCHANGED vars
  BY <1>6, LaterUntouched DEF vars
<1> QED
  BY <1>1, <1>2, <1>3, <1>4, <1>5, <1>6 DEF Next

\* No call that came later passes one that waits: the limit lets calls through in the order
\* in which they came, over ends, removals and new calls.
THEOREM FirstCome == Spec => FirstComeFirstServed
<1> DEFINE A == \A c, d \in Calls :
                  /\ status[c] = "queued" /\ status'[c] = "queued"
                  /\ status[d] = "idle" \/ Ahead(productionQueue.queue, c, d)
                  => /\ status'[d] # "admitted"
                     /\ status'[d] = "queued" => Ahead(productionQueue'.queue, c, d)
<1>1. IInv /\ [Next]_vars => [A]_vars
  BY LaterStep DEF Later, StillLater
<1> QED
  BY <1>1, Invariance, PTL DEF Spec, FirstComeFirstServed

=============================================================================
