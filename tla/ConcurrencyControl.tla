------------------------- MODULE ConcurrencyControl -------------------------
(***************************************************************************)
(* The production concurrency limit of a main process in regular mode      *)
(* (packages/cli/src/concurrency/concurrency-control.service.ts) and its   *)
(* callers: each call of throttle() is made by ActiveExecutions.add(), its *)
(* release() by the `finally' of the execution's promise, remove() by a    *)
(* request that stops or deletes a queued execution, and disable() by the  *)
(* shutdown of ActiveExecutions.                                           *)
(***************************************************************************)
EXTENDS ConcurrencyQueue, FiniteSets

CONSTANTS
  Calls,            \* calls of throttle(), each made at most once
  ExecutionIds,     \* ids of executions
  idOf,             \* the execution each call is made for
  modeOf,           \* the mode of that execution
  ProductionLimit,  \* executions.concurrency.productionLimit
  ExecutionsMode    \* executions.mode: "regular" or "queue"

UnlimitedModes == {"error", "integrated", "cli", "internal", "manual", "retry"}
LimitedModes   == {"webhook", "trigger"}
Modes          == UnlimitedModes \cup LimitedModes \cup {"evaluation"}

\* A limit of 0 is refused by the constructor and one below -1 is read as -1.
ASSUME ConcurrencyAssumption ==
  /\ IsFiniteSet(Calls)
  /\ idOf \in [Calls -> ExecutionIds]
  /\ modeOf \in [Calls -> Modes]
  /\ ProductionLimit \in Int \ {0}
  /\ ExecutionsMode \in {"regular", "queue"}

VARIABLES
  isEnabled,
  productionQueue,
  status,     \* how far each call has got
  removals    \* history: queued executions removed so far
vars == <<isEnabled, productionQueue, status, removals>>

EffectiveLimit == IF ProductionLimit < -1 THEN -1 ELSE ProductionLimit

\* isUnlimited() throws UnknownExecutionModeError for every mode not listed.
IsKnown(mode)     == mode \in UnlimitedModes \cup LimitedModes
IsUnlimited(mode) == mode \in UnlimitedModes \/ EffectiveLimit = -1

Statuses == {"idle", "queued", "admitted", "bypassed", "failed", "dropped", "done"}

\* Calls that took capacity, calls parked in the queue.
Holders == { c \in Calls : status[c] = "admitted" }
Queued  == { c \in Calls : status[c] = "queued" }

TypeOK ==
  /\ isEnabled \in BOOLEAN
  /\ productionQueue \in Queues(Calls, ExecutionIds)
  /\ status \in [Calls -> Statuses]
  /\ removals \in Nat

Init ==
  /\ isEnabled = (EffectiveLimit # -1 /\ ExecutionsMode # "queue")
  /\ productionQueue = NewQueue(EffectiveLimit)
  /\ status = [c \in Calls |-> "idle"]
  /\ removals = 0

-----------------------------------------------------------------------------
\* throttle() when the limit does not apply: the caller continues at once.
Bypass(c) ==
  /\ status[c] = "idle"
  /\ ~isEnabled \/ (IsKnown(modeOf[c]) /\ IsUnlimited(modeOf[c]))
  /\ status' = [status EXCEPT ![c] = "bypassed"]
  /\ UNCHANGED <<isEnabled, productionQueue, removals>>

\* throttle() of a mode isUnlimited() does not know: the call rejects.
Reject(c) ==
  /\ status[c] = "idle"
  /\ isEnabled /\ ~IsKnown(modeOf[c])
  /\ status' = [status EXCEPT ![c] = "failed"]
  /\ UNCHANGED <<isEnabled, productionQueue, removals>>

\* throttle() of a production execution: continue, or wait in the queue.
Throttle(c) ==
  /\ status[c] = "idle"
  /\ isEnabled /\ IsKnown(modeOf[c]) /\ ~IsUnlimited(modeOf[c])
  /\ productionQueue' = Enqueue(productionQueue, c, idOf[c])
  /\ status' = [status EXCEPT ![c] = IF MustWait(productionQueue) THEN "queued" ELSE "admitted"]
  /\ UNCHANGED <<isEnabled, removals>>

Admit(f, calls) == [c \in Calls |-> IF c \in calls THEN "admitted" ELSE f[c]]

\* (mutant) release() without the check of isEnabled.
ReleaseWhenDisabled(c) ==
  /\ status[c] \in {"admitted", "bypassed"}
  /\ IF IsUnlimited(modeOf[c])
     THEN /\ status' = [status EXCEPT ![c] = "done"]
          /\ UNCHANGED productionQueue
     ELSE /\ productionQueue' = Dequeue(productionQueue)
          /\ status' = Admit([status EXCEPT ![c] = "done"], Resolved(productionQueue))
  /\ UNCHANGED <<isEnabled, removals>>

\* The execution has settled: release() gives its capacity back when the limit
\* applies, and does nothing otherwise.
Release(c) ==
  /\ status[c] \in {"admitted", "bypassed"}
  /\ IF ~isEnabled \/ IsUnlimited(modeOf[c])
     THEN /\ status' = [status EXCEPT ![c] = "done"]
          /\ UNCHANGED productionQueue
     ELSE /\ productionQueue' = Dequeue(productionQueue)
          /\ status' = Admit([status EXCEPT ![c] = "done"], Resolved(productionQueue))
  /\ UNCHANGED <<isEnabled, removals>>

\* remove() of a queued execution, by a stop or a delete request. Both check
\* has() or the status of the execution first; an id that is not queued is a no-op.
RemoveExecution(id) ==
  /\ isEnabled
  /\ id \in GetAll(productionQueue)
  /\ productionQueue' = RemoveItem(productionQueue, id)
  /\ status' = Admit([c \in Calls |-> IF c \in Dropped(productionQueue, id)
                                      THEN "dropped" ELSE status[c]],
                     ResolvedByRemove(productionQueue, id))
  /\ removals' = removals + 1
  /\ UNCHANGED isEnabled

\* ActiveExecutions.shutdown() disables the limit, once. The removeAll() that
\* follows it for cancelAll returns at its first line, for the limit is off.
Disable ==
  /\ isEnabled
  /\ isEnabled' = FALSE
  /\ UNCHANGED <<productionQueue, status, removals>>

Next ==
  \/ \E c \in Calls : Bypass(c) \/ Reject(c) \/ Throttle(c) \/ Release(c)
  \/ \E id \in ExecutionIds : RemoveExecution(id)
  \/ Disable

Spec == Init /\ [][Next]_vars

-----------------------------------------------------------------------------
(* What the limit promises.                                                *)

\* The capacity counter is exactly the limit less the running and the queued
\* executions: no path through throttle, release and remove leaks or mints a slot.
SlotAccounting ==
  isEnabled => productionQueue.capacity
                 = EffectiveLimit - Cardinality(Holders) - Len(productionQueue.queue)

\* What a call's mode lets it be: the limit never parks an execution it does
\* not apply to, and while it is on, none it applies to gets past it.
ModeDecides ==
  \A c \in Calls :
    /\ status[c] \in {"queued", "admitted"} => IsKnown(modeOf[c]) /\ ~IsUnlimited(modeOf[c])
    /\ isEnabled /\ status[c] = "bypassed" => IsUnlimited(modeOf[c])

\* Nobody waits while there is room: a queued execution means that at least
\* the limit is running.
NoIdleCapacity ==
  isEnabled /\ productionQueue.queue # <<>> => Cardinality(Holders) >= EffectiveLimit

\* At most one execution above the limit runs for every removal of a queued one.
BoundedOvershoot ==
  isEnabled => Cardinality(Holders) <= EffectiveLimit + removals

\* The queue and the calls that wait agree, one item per call: no waiter is
\* forgotten and none is resolved twice.
QueueMatchesWaiters == Lists(productionQueue.queue, Queued)

\* First come, first served: while a call stays queued, no call that came after
\* it (behind it in the queue, or not yet made) is let through by the limit or
\* gets in front of it.
FirstComeFirstServed ==
  [][ \A c, d \in Calls :
        /\ status[c] = "queued" /\ status'[c] = "queued"
        /\ status[d] = "idle" \/ Ahead(productionQueue.queue, c, d)
        => /\ status'[d] # "admitted"
           /\ status'[d] = "queued" => Ahead(productionQueue'.queue, c, d) ]_vars

\* Once shutdown has disabled the limit, no throttled execution resumes
\* (active-executions.ts:206).
FrozenOnShutdown ==
  [][ ~isEnabled => \A c \in Queued : status'[c] = "queued" ]_vars

=============================================================================
