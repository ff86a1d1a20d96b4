---------------------- MODULE ExecutionLifecycleProofs ----------------------
(***************************************************************************)
(* The life of executions, for every number of executions and runs, every  *)
(* limit and however often writes fail and the process restarts: no row is *)
(* left behind, no entry stays, and the limit is used as specified.        *)
(***************************************************************************)
EXTENDS ExecutionLifecycle, QueueFacts

-----------------------------------------------------------------------------
(* The invariant. The map of active executions and the table are related   *)
(* through the runs, so each run, each entry and each row has a part.      *)

\* The queue lists the runs that wait, each under its execution.
Waiters == { r \in Runs : pc[r] = "queued" }
QueueOK ==
  /\ Lists(productionQueue.queue, Waiters)
  /\ \A x \in ToSet(productionQueue.queue) : x.executionId = execOf[x.call]

\* Nothing has been taken, settled or cancelled for a run that is not that far.
Early == {"idle", "loading", "created", "queued", "dropped", "refused"}
RunOK(r) ==
  /\ r \in slot => pc[r] \notin Early
  /\ r \in settled => pc[r] \notin Early \cup {"admitted", "marked"}
  /\ r \in cancelled => pc[r] \in Engine \cup {"failed", "done"}

\* An entry is owned by a run of its execution, whose promise is pending.
EntryOK(e) ==
  active[e] # NoEntry =>
    /\ active[e].owner \in RunsOf(e)
    /\ active[e].owner \notin settled
    /\ pc[active[e].owner] \notin Early \cup {"admitted", "marked"}

\* An engine that was cancelled does not save its end: only its onCancel will.
RunningOK(e) ==
  db[e].status = "running" =>
    \/ \E r \in RunsOf(e) : \/ pc[r] \in {"marked", "registered", "starting"}
                            \/ pc[r] \in {"executing", "saving"} /\ r \notin cancelled
                            \/ r \in cancelWrite
    \/ stop[e] = "during"
    \/ e \in unrecovered
    \/ faults > 0

IInv ==
  /\ TypeOK
  /\ QueueOK
  /\ \A r \in Runs : RunOK(r)
  /\ \A e \in Executions : EntryOK(e) /\ RunningOK(e)
  /\ EnqueuedHasRun
  /\ NoStaleEntry

-----------------------------------------------------------------------------
(* What the release of capacity does: it wakes at most one of the waiters. *)

\* Capacity is freed for the next waiter, if there is one.
LEMMA FreedQueue ==
  ASSUME NEW q \in Queues(Runs, Executions), NEW W, Lists(q.queue, W)
  PROVE  /\ Dequeue(q) \in Queues(Runs, Executions)
         /\ Resolved(q) \subseteq W
         /\ Lists(Dequeue(q).queue, W \ Resolved(q))
         /\ ToSet(Dequeue(q).queue) \subseteq ToSet(q.queue)
<1> DEFINE f == Freed(q)
<1>1. f \in Queues(Runs, Executions) /\ f.queue = q.queue /\ Resolved(f) = Resolved(q)
  BY DEF Queues, Freed, Resolved
<1>2. Lists(f.queue, W)
  BY <1>1
<1> HIDE DEF f
<1>3. /\ ResolveNext(f) \in Queues(Runs, Executions)
      /\ ToSet(ResolveNext(f).queue) \subseteq ToSet(f.queue)
  BY <1>1, <1>2, ResolveNextLists
<1>4. Resolved(f) \subseteq W /\ Lists(ResolveNext(f).queue, W \ Resolved(f))
  <2>1. CASE f.queue = <<>>
    <3>1. ResolveNext(f) = f /\ Resolved(f) = {}
      BY <2>1, <1>1 DEF ResolveNext, Resolved, Queues
    <3>2. W \ {} = W
      OBVIOUS
    <3> QED BY <3>1, <3>2, <1>2
  <2>2. CASE f.queue # <<>>
    <3>1. PICK c \in W : Resolved(f) = {c} /\ Lists(ResolveNext(f).queue, W \ {c})
      BY <2>2, <1>1, <1>2, <1>3, ResolveNextLists
    <3> QED BY <3>1
  <2> QED BY <2>1, <2>2
<1>5. Dequeue(q) = ResolveNext(f)
  BY DEF Dequeue, f
<1> QED
  BY <1>1, <1>3, <1>4, <1>5

\* The runs in W are let through, and those in lost have given their capacity back.
Wakes(W, pcs, lost) ==
  /\ W \in SUBSET Waiters
  /\ pc' = [r \in Runs |-> IF r \in W THEN "admitted" ELSE pcs[r]]
  /\ slot' = (slot \ lost) \cup W

LEMMA SettleWakes ==
  ASSUME TypeOK, QueueOK, NEW e \in Executions, active[e] # NoEntry, EntryOK(e),
         NEW pcs \in [Runs -> Pcs], { r \in Runs : pcs[r] = "queued" } = Waiters,
         Settle(e, pcs)
  PROVE  /\ \E W \in SUBSET Waiters : Wakes(W, pcs, {active[e].owner})
         /\ settled' = settled \cup {active[e].owner}
         /\ active' = [active EXCEPT ![e] = NoEntry]
         /\ productionQueue' \in Queues(Runs, Executions) /\ pc' \in [Runs -> Pcs]
         /\ slot' \subseteq Runs /\ settled' \subseteq Runs
         /\ active' \in [Executions -> [owner: Runs \cup {NoRun}, engine: Runs \cup {NoRun}]]
         /\ QueueOK'
<1> DEFINE q == productionQueue
           o == active[e].owner
<1>1. q \in Queues(Runs, Executions) /\ Lists(q.queue, Waiters) /\ o \in Runs
  BY DEF TypeOK, QueueOK, EntryOK, RunsOf
<1>2. settled' = settled \cup {o} /\ active' = [active EXCEPT ![e] = NoEntry]
  BY DEF Settle
<1>3. settled' \subseteq Runs
  BY <1>1, <1>2 DEF TypeOK
<1>4. active' \in [Executions -> [owner: Runs \cup {NoRun}, engine: Runs \cup {NoRun}]]
  BY <1>2 DEF TypeOK, NoEntry
<1>5. CASE isEnabled
  <2> DEFINE W == Resolved(q)
  <2>1. /\ productionQueue' = Dequeue(q)
        /\ pc' = [r \in Runs |-> IF r \in W THEN "admitted" ELSE pcs[r]]
        /\ slot' = (slot \ {o}) \cup W
    BY <1>5 DEF Settle, LetThrough
  <2> HIDE DEF q
  <2>2. /\ Dequeue(q) \in Queues(Runs, Executions)
        /\ W \subseteq Waiters
        /\ Lists(Dequeue(q).queue, Waiters \ W)
        /\ ToSet(Dequeue(q).queue) \subseteq ToSet(q.queue)
    BY <1>1, FreedQueue
  <2> HIDE DEF W, o
  <2>3. Wakes(W, pcs, {o})
    BY <2>1, <2>2 DEF Wakes
  <2>4. W \subseteq Runs /\ slot' \subseteq Runs /\ pc' \in [Runs -> Pcs]
    <3>1. W \subseteq Runs /\ "admitted" \in Pcs
      BY <2>2 DEF Waiters, Pcs
    <3>2. slot' \subseteq Runs
      BY <2>1, <3>1 DEF TypeOK
    <3> QED BY <2>1, <3>1, <3>2
  <2>5. Waiters' = Waiters \ W
    BY <2>1 DEF Waiters
  <2>6. QueueOK'
    BY <2>1, <2>2, <2>5 DEF QueueOK, q
  <2> QED
    BY <1>2, <1>3, <1>4, <2>1, <2>2, <2>3, <2>4, <2>6 DEF o
<1>6. CASE ~isEnabled
  <2>1. pc' = pcs /\ slot' = slot \ {o} /\ productionQueue' = q
    BY <1>6 DEF Settle
  <2>2. Wakes({}, pcs, {o})
    BY <2>1 DEF Wakes
  <2>3. Waiters' = Waiters
    BY <2>1 DEF Waiters
  <2>4. QueueOK' /\ slot' \subseteq Runs
    BY <2>1, <2>3 DEF QueueOK, TypeOK
  <2> QED
    BY <1>1, <1>2, <1>3, <1>4, <2>1, <2>2, <2>4
<1> QED
  BY <1>5, <1>6

\* So does a stop request that takes a waiter out of the queue.
LEMMA StopQueuedWakes ==
  ASSUME TypeOK, QueueOK, NEW e \in Executions, StopQueued(e)
  PROVE  \E d \in Waiters, W \in SUBSET Waiters :
           /\ execOf[d] = e /\ d \notin W
           /\ Dropped(productionQueue, e) = {d} /\ ResolvedByRemove(productionQueue, e) = W
           /\ Wakes(W, [pc EXCEPT ![d] = "dropped"], {})
           /\ productionQueue' \in Queues(Runs, Executions) /\ pc' \in [Runs -> Pcs]
           /\ slot' \subseteq Runs
           /\ QueueOK'
<1> DEFINE q == productionQueue
           s == Spliced(q, e)
           W == Resolved(s)
<1>1. q \in Queues(Runs, Executions) /\ Lists(q.queue, Waiters) /\ e \in GetAll(q)
  BY DEF TypeOK, QueueOK, StopQueued
<1>2. /\ s \in Queues(Runs, Executions)
      /\ ToSet(s.queue) \subseteq ToSet(q.queue)
      /\ \E x \in ToSet(q.queue) :
           /\ x.call \in Waiters /\ x.executionId = e /\ Dropped(q, e) = {x.call}
           /\ Lists(s.queue, Waiters \ {x.call})
  <2> HIDE DEF q
  <2> QED BY <1>1, SplicedItem, ZenonT(40)
<1>3. PICK d \in Waiters : /\ execOf[d] = e /\ Dropped(q, e) = {d}
                           /\ Lists(s.queue, Waiters \ {d})
  <2> HIDE DEF s
  <2> QED BY <1>2 DEF QueueOK
<1>4. /\ Dequeue(s) \in Queues(Runs, Executions)
      /\ W \subseteq Waiters \ {d}
      /\ Lists(Dequeue(s).queue, (Waiters \ {d}) \ W)
      /\ ToSet(Dequeue(s).queue) \subseteq ToSet(s.queue)
  <2> HIDE DEF s
  <2> QED BY <1>2, <1>3, FreedQueue
<1>5. /\ productionQueue' = Dequeue(s)
      /\ pc' = [r \in Runs |-> IF r \in W THEN "admitted"
                               ELSE [t \in Runs |-> IF t \in Dropped(q, e) THEN "dropped" ELSE pc[t]][r]]
      /\ slot' = slot \cup W
      /\ ResolvedByRemove(q, e) = W
  BY <1>1 DEF StopQueued, RemoveItem, ResolvedByRemove, LetThrough
<1> HIDE DEF s, W, q
<1>6. [t \in Runs |-> IF t \in Dropped(q, e) THEN "dropped" ELSE pc[t]] = [pc EXCEPT ![d] = "dropped"]
  BY <1>3 DEF TypeOK, Waiters
<1>7. Wakes(W, [pc EXCEPT ![d] = "dropped"], {})
  BY <1>4, <1>5, <1>6 DEF Wakes
<1>8. W \subseteq Runs /\ pc' \in [Runs -> Pcs] /\ slot' \subseteq Runs
  <2>1. W \subseteq Runs /\ "admitted" \in Pcs /\ "dropped" \in Pcs
    BY <1>4 DEF Waiters, Pcs
  <2>2. slot' \subseteq Runs
    BY <1>5, <2>1 DEF TypeOK
  <2> QED BY <1>5, <2>1, <2>2 DEF TypeOK
<1>9. Waiters' = (Waiters \ {d}) \ W
  BY <1>3, <1>5, <1>6 DEF Waiters, TypeOK
<1>10. QueueOK'
  BY <1>2, <1>4, <1>5, <1>9 DEF QueueOK, q
<1> QED
  BY <1>3, <1>4, <1>5, <1>7, <1>8, <1>10 DEF q

\* The promise of the entry of e, if it has one, is settled, and the entry gone.
Owners(e) == IF active[e] = NoEntry THEN {} ELSE {active[e].owner}
Settled(e, pcs) ==
  /\ \E W \in SUBSET Waiters : Wakes(W, pcs, Owners(e))
  /\ settled' = settled \cup Owners(e)
  /\ active' = [active EXCEPT ![e] = NoEntry]
  /\ productionQueue' \in Queues(Runs, Executions) /\ pc' \in [Runs -> Pcs]
  /\ slot' \subseteq Runs /\ settled' \subseteq Runs
  /\ active' \in [Executions -> [owner: Runs \cup {NoRun}, engine: Runs \cup {NoRun}]]
  /\ QueueOK'

LEMMA NothingSettles ==
  ASSUME TypeOK, QueueOK, NEW e \in Executions, active[e] = NoEntry,
         NEW pcs \in [Runs -> Pcs], { r \in Runs : pcs[r] = "queued" } = Waiters,
         pc' = pcs, UNCHANGED <<settled, active, productionQueue, slot>>
  PROVE  Settled(e, pcs)
<1>1. Owners(e) = {}
  BY DEF Owners
<1>2. Wakes({}, pcs, {})
  BY DEF Wakes
<1>3. Waiters' = Waiters
  BY DEF Waiters
<1>4. QueueOK'
  BY <1>3 DEF QueueOK
<1>5. active' = [active EXCEPT ![e] = NoEntry]
  BY DEF TypeOK
<1>6. /\ productionQueue' \in Queues(Runs, Executions) /\ pc' \in [Runs -> Pcs]
      /\ slot' \subseteq Runs /\ settled' \subseteq Runs /\ settled' = settled \cup {}
      /\ active' \in [Executions -> [owner: Runs \cup {NoRun}, engine: Runs \cup {NoRun}]]
  BY DEF TypeOK
<1> QED
  BY <1>1, <1>2, <1>4, <1>5, <1>6 DEF Settled

LEMMA SettleSettles ==
  ASSUME TypeOK, QueueOK, NEW e \in Executions, active[e] # NoEntry, EntryOK(e),
         NEW pcs \in [Runs -> Pcs], { r \in Runs : pcs[r] = "queued" } = Waiters,
         Settle(e, pcs)
  PROVE  Settled(e, pcs)
<1>1. Owners(e) = {active[e].owner}
  BY DEF Owners
<1> QED
  BY <1>1, SettleWakes DEF Settled

LEMMA FinalizeSettles ==
  ASSUME TypeOK, QueueOK, NEW e \in Executions, EntryOK(e),
         NEW pcs \in [Runs -> Pcs], { r \in Runs : pcs[r] = "queued" } = Waiters,
         Finalize(e, pcs)
  PROVE  /\ Settled(e, pcs)
         /\ openLogs' = openLogs \ {e} \/ openLogs' = openLogs
<1>1. CASE active[e] = NoEntry
  BY <1>1, NothingSettles DEF Finalize
<1>2. CASE active[e] # NoEntry
  BY <1>2, SettleSettles DEF Finalize
<1> QED
  BY <1>1, <1>2

\* A run that ends wakes nobody but a waiter.
LEMMA EndSettles ==
  ASSUME TypeOK, QueueOK, NEW r \in Runs, pc[r] \in {"denied", "saved"}, EntryOK(execOf[r]),
         Finalize(execOf[r], [pc EXCEPT ![r] = "done"])
  PROVE  /\ Settled(execOf[r], [pc EXCEPT ![r] = "done"])
         /\ openLogs' = openLogs \ {execOf[r]} \/ openLogs' = openLogs
<1> DEFINE pcs == [pc EXCEPT ![r] = "done"]
<1>1. pcs \in [Runs -> Pcs] /\ { t \in Runs : pcs[t] = "queued" } = Waiters
  BY DEF TypeOK, Pcs, Waiters
<1>2. execOf[r] \in Executions
  BY LifecycleAssumption
<1> HIDE DEF pcs
<1>3. Finalize(execOf[r], pcs)
  BY DEF pcs
<1>4. Settled(execOf[r], pcs) /\ (openLogs' = openLogs \ {execOf[r]} \/ openLogs' = openLogs)
  BY <1>1, <1>2, <1>3, FinalizeSettles
<1> QED
  BY <1>4 DEF pcs

\* A stop cancels the engine of the entry, if that is still running.
Hit(e) == { r \in {active[e].engine} \ cancelled : r # NoRun /\ pc[r] \in Engine }

LEMMA StopSettles ==
  ASSUME TypeOK, QueueOK, NEW e \in Executions, EntryOK(e), StopExecution(e)
  PROVE  /\ Settled(e, pc)
         /\ \E hit \in SUBSET Runs :
              /\ hit = {} \/ hit = Hit(e)
              /\ \A r \in hit : pc[r] \in Engine
              /\ cancelled' = cancelled \cup hit
              /\ cancelWrite' = cancelWrite \cup hit
<1>1. pc \in [Runs -> Pcs] /\ { r \in Runs : pc[r] = "queued" } = Waiters
  BY DEF TypeOK, Waiters
<1>2. CASE active[e] = NoEntry
  <2>1. cancelled' = cancelled \cup {} /\ cancelWrite' = cancelWrite \cup {}
    BY <1>2 DEF StopExecution
  <2>2. Settled(e, pc)
    BY <1>1, <1>2, NothingSettles DEF StopExecution
  <2> QED BY <2>1, <2>2
<1>3. CASE active[e] # NoEntry
  <2>1. Settled(e, pc)
    BY <1>1, <1>3, SettleSettles DEF StopExecution
  <2>2. /\ cancelled' = cancelled \cup Hit(e)
        /\ cancelWrite' = cancelWrite \cup Hit(e)
    BY <1>3 DEF StopExecution, Hit
  <2>3. active[e].engine \in Runs \cup {NoRun}
    BY DEF TypeOK
  <2>4. Hit(e) \in SUBSET Runs /\ \A r \in Hit(e) : pc[r] \in Engine
    BY <2>3 DEF Hit
  <2> QED BY <2>1, <2>2, <2>4
<1> QED
  BY <1>2, <1>3

-----------------------------------------------------------------------------
(* Every step keeps the types and the queue.                               *)

LEMMA GotoTyped ==
  ASSUME TypeOK, NEW r \in Runs, NEW label \in Pcs, Goto(r, label)
  PROVE  pc' \in [Runs -> Pcs] /\ execOf[r] \in Executions
  BY LifecycleAssumption DEF TypeOK, Goto

Rows == [status: Statuses, waitTill: {"none", "future", "due"}, finished: BOOLEAN]

\* The row of one execution is written, and no other.
WritesRow(e, status) ==
  /\ db' \in [Executions -> Rows]
  /\ db'[e].status = status
  /\ \A f \in Executions : f # e => db'[f] = db[f]

LEMMA RowWritten ==
  ASSUME TypeOK, NEW e \in Executions, NEW row \in Rows, db' = [db EXCEPT ![e] = row]
  PROVE  WritesRow(e, row.status)
  BY DEF TypeOK, Rows, WritesRow

LEMMA StatusWritten ==
  ASSUME TypeOK, NEW e \in Executions, NEW status \in Statuses,
         \/ db' = [db EXCEPT ![e].status = status]
         \/ db' = [db EXCEPT ![e].status = status, ![e].finished = FALSE]
         \/ db' = [db EXCEPT ![e].status = status, ![e].waitTill = "none"]
  PROVE  WritesRow(e, status)
<1>1. db[e] \in Rows
  BY DEF TypeOK, Rows
<1>2. CASE db' = [db EXCEPT ![e].status = status]
  <2> DEFINE row == [db[e] EXCEPT !.status = status]
  <2>1. row \in Rows /\ row.status = status
    BY <1>1 DEF Rows
  <2>2. db' = [db EXCEPT ![e] = row]
    BY <1>2
  <2> HIDE DEF row
  <2> QED BY <2>1, <2>2, RowWritten
<1>3. CASE db' = [db EXCEPT ![e].status = status, ![e].finished = FALSE]
  <2> DEFINE row == [db[e] EXCEPT !.status = status, !.finished = FALSE]
  <2>1. row \in Rows /\ row.status = status
    BY <1>1 DEF Rows
  <2>2. db' = [db EXCEPT ![e] = row]
    BY <1>3 DEF TypeOK
  <2> HIDE DEF row
  <2> QED BY <2>1, <2>2, RowWritten
<1>4. CASE db' = [db EXCEPT ![e].status = status, ![e].waitTill = "none"]
  <2> DEFINE row == [db[e] EXCEPT !.status = status, !.waitTill = "none"]
  <2>1. row \in Rows /\ row.status = status
    BY <1>1 DEF Rows
  <2>2. db' = [db EXCEPT ![e] = row]
    BY <1>4 DEF TypeOK
  <2> HIDE DEF row
  <2> QED BY <2>1, <2>2, RowWritten
<1> QED
  BY <1>2, <1>3, <1>4

LEMMA ActionWritesRow ==
  ASSUME TypeOK
  PROVE  /\ \A r \in Runs :
              /\ Create(r) => WritesRow(execOf[r], "new")
              /\ MarkRunning(r) \/ SetRunning(r) => WritesRow(execOf[r], "running")
              /\ Deny(r) => WritesRow(execOf[r], "error")
              /\ SaveResult(r) => WritesRow(execOf[r], outcome[r])
              /\ SaveCancel(r) => WritesRow(execOf[r], "canceled")
         /\ \A e \in Executions :
              /\ StopWrite(e) => WritesRow(e, "canceled")
              /\ TimePasses(e) => WritesRow(e, db[e].status)
<1> USE DEF Statuses
<1>1. ASSUME NEW r \in Runs PROVE execOf[r] \in Executions
  BY LifecycleAssumption
<1>2. ASSUME NEW r \in Runs, Create(r) PROVE WritesRow(execOf[r], "new")
  BY <1>1, <1>2, StatusWritten DEF Create
<1>3. ASSUME NEW r \in Runs, MarkRunning(r) \/ SetRunning(r)
      PROVE  WritesRow(execOf[r], "running")
  BY <1>1, <1>3, StatusWritten DEF MarkRunning, SetRunning
<1>4. ASSUME NEW r \in Runs, Deny(r) PROVE WritesRow(execOf[r], "error")
  BY <1>1, <1>4, StatusWritten DEF Deny
<1>5. ASSUME NEW r \in Runs, SaveResult(r) PROVE WritesRow(execOf[r], outcome[r])
  <2> DEFINE row == [status   |-> outcome[r],
                     waitTill |-> IF outcome[r] = "waiting" THEN "future" ELSE db[execOf[r]].waitTill,
                     finished |-> outcome[r] = "success"]
  <2>1. row \in Rows /\ row.status = outcome[r]
    BY <1>1 DEF TypeOK, Rows
  <2>2. db' = [db EXCEPT ![execOf[r]] = row]
    BY <1>5 DEF SaveResult
  <2> HIDE DEF row
  <2>3. WritesRow(execOf[r], row.status)
    BY <1>1, <2>1, <2>2, RowWritten
  <2> QED BY <2>1, <2>3
<1>6. ASSUME NEW r \in Runs, SaveCancel(r) PROVE WritesRow(execOf[r], "canceled")
  BY <1>1, <1>6, StatusWritten DEF SaveCancel
<1>7. ASSUME NEW e \in Executions, StopWrite(e) PROVE WritesRow(e, "canceled")
  <2> DEFINE row == [status |-> "canceled", waitTill |-> "none", finished |-> FALSE]
  <2>1. CASE stop[e] = "before"
    BY <1>7, <2>1, StatusWritten DEF StopWrite
  <2>2. CASE stop[e] # "before"
    <3>1. row \in Rows /\ row.status = "canceled"
      BY DEF Rows
    <3>2. db' = [db EXCEPT ![e] = row]
      BY <1>7, <2>2 DEF StopWrite
    <3> HIDE DEF row
    <3> QED BY <3>1, <3>2, RowWritten
  <2> QED BY <2>1, <2>2
<1>8. ASSUME NEW e \in Executions, TimePasses(e) PROVE WritesRow(e, db[e].status)
  <2> DEFINE row == [db[e] EXCEPT !.waitTill = "due"]
  <2>1. row \in Rows /\ row.status = db[e].status
    BY DEF TypeOK, Rows
  <2>2. db' = [db EXCEPT ![e] = row]
    BY <1>8 DEF TimePasses
  <2> HIDE DEF row
  <2> QED BY <2>1, <2>2, RowWritten
<1> QED
  BY <1>2, <1>3, <1>4, <1>5, <1>6, <1>7, <1>8

LEMMA ThrottleQueues ==
  ASSUME TypeOK, QueueOK, NEW r \in Runs, Throttle(r)
  PROVE  /\ productionQueue' \in Queues(Runs, Executions)
         /\ QueueOK'
<1> DEFINE q == productionQueue
           e == execOf[r]
<1>1. /\ q \in Queues(Runs, Executions) /\ Lists(q.queue, Waiters)
      /\ r \notin Waiters /\ e \in Executions /\ pc[r] = "created" /\ pc \in [Runs -> Pcs]
  BY LifecycleAssumption DEF TypeOK, QueueOK, Waiters, Throttle
<1>2. CASE isEnabled /\ MustWait(q)
  <2>1. productionQueue' = Enqueue(q, r, e) /\ pc' = [pc EXCEPT ![r] = "queued"]
    BY <1>2 DEF Throttle, Goto
  <2> HIDE DEF q
  <2>2. /\ Enqueue(q, r, e) \in Queues(Runs, Executions)
        /\ Lists(Enqueue(q, r, e).queue, Waiters \cup {r})
        /\ ToSet(Enqueue(q, r, e).queue) \subseteq ToSet(q.queue) \cup {[call |-> r, executionId |-> e]}
    BY <1>1, <1>2, EnqueueLists, ZenonT(40)
  <2>3. Waiters' = Waiters \cup {r}
    BY <1>1, <2>1 DEF Waiters
  <2>4. \A x \in ToSet(Enqueue(q, r, e).queue) : x.executionId = execOf[x.call]
    BY <2>2 DEF QueueOK, q
  <2> QED BY <2>1, <2>2, <2>3, <2>4 DEF QueueOK
<1>3. CASE isEnabled /\ ~MustWait(q)
  <2>1. productionQueue' = Enqueue(q, r, e) /\ pc' = [pc EXCEPT ![r] = "admitted"]
    BY <1>3 DEF Throttle, Goto
  <2> HIDE DEF q
  <2>2. Enqueue(q, r, e).queue = q.queue
    BY <1>3 DEF Enqueue
  <2>3. Enqueue(q, r, e) \in Queues(Runs, Executions)
    BY <1>1, EnqueueLists
  <2>4. Waiters' = Waiters
    BY <1>1, <2>1 DEF Waiters
  <2> QED BY <1>1, <2>1, <2>2, <2>3, <2>4 DEF QueueOK, q
<1>4. CASE ~isEnabled
  <2>1. productionQueue' = q /\ pc' = [pc EXCEPT ![r] = "admitted"]
    BY <1>4 DEF Throttle, Goto
  <2>2. Waiters' = Waiters
    BY <1>1, <2>1 DEF Waiters
  <2> QED BY <1>1, <2>1, <2>2 DEF QueueOK
<1> QED
  BY <1>2, <1>3, <1>4

LEMMA RestartTyped ==
  ASSUME TypeOK, NEW kept \in SUBSET openLogs, NEW starters \in SUBSET Runs, Restart(kept, starters)
  PROVE  TypeOK'
<1>1. pc' \in [Runs -> Pcs]
  BY DEF Restart, TypeOK, Pcs
<1>2. \A e \in Executions : Recovered(db[e]) \in Rows /\ db[e] \in Rows
  BY DEF TypeOK, Recovered, Rows, Statuses
<1>3. db' \in [Executions -> Rows]
  BY <1>2 DEF Restart
<1>4. productionQueue' \in Queues(Runs, Executions)
  BY LifecycleAssumption DEF Restart, NewQueue, Queues
<1>5. active' \in [Executions -> [owner: Runs \cup {NoRun}, engine: Runs \cup {NoRun}]]
  BY DEF Restart, NoEntry
<1>6. openLogs' \subseteq Executions /\ unrecovered' \subseteq Executions
  BY DEF Restart, TypeOK
<1>7. stop' \in [Executions -> {"idle", "read", "before", "during", "done", "lost"}]
  BY DEF Restart, TypeOK
<1>8. restarts' \in 0..MaxRestarts
  BY LifecycleAssumption DEF Restart, TypeOK
<1> QED
  BY <1>1, <1>3, <1>4, <1>5, <1>6, <1>7, <1>8 DEF Restart, TypeOK, Rows

LEMMA TypeStep ==
  ASSUME TypeOK, QueueOK, \A e \in Executions : EntryOK(e), Next
  PROVE  TypeOK'
<1>1. ASSUME NEW r \in Runs, Create(r) PROVE TypeOK'
  <2>1. pc' \in [Runs -> Pcs]
    BY <1>1, GotoTyped DEF Create, Pcs
  <2>2. db' \in [Executions -> Rows]
    BY <1>1, ActionWritesRow DEF WritesRow
  <2> QED BY <1>1, <2>1, <2>2 DEF TypeOK, Rows, Create, slotVars, waitVars, logVars
<1>2. ASSUME NEW r \in Runs, Throttle(r) PROVE TypeOK'
  <2>1. pc' \in [Runs -> Pcs]
    BY <1>2, GotoTyped DEF Throttle, Pcs
  <2>2. productionQueue' \in Queues(Runs, Executions)
    BY <1>2, ThrottleQueues
  <2>3. slot' \subseteq Runs /\ openLogs' \subseteq Executions
    <3>1. /\ slot' = slot \/ slot' = slot \cup {r}
          /\ openLogs' = openLogs \/ openLogs' = openLogs \ {execOf[r]}
      BY <1>2 DEF Throttle
    <3> QED BY <3>1 DEF TypeOK
  <2> QED BY <1>2, <2>1, <2>2, <2>3 DEF TypeOK, Throttle, waitVars
<1>3. ASSUME NEW r \in Runs, MarkRunning(r) PROVE TypeOK'
  <2>1. pc' \in [Runs -> Pcs]
    BY <1>3, GotoTyped DEF MarkRunning, Pcs
  <2>2. db' \in [Executions -> Rows]
    BY <1>3, ActionWritesRow DEF WritesRow
  <2> QED BY <1>3, <2>1, <2>2 DEF TypeOK, Rows, MarkRunning, slotVars, waitVars
<1>4. ASSUME NEW r \in Runs, Register(r) PROVE TypeOK'
  <2>1. pc' \in [Runs -> Pcs]
    BY <1>4, GotoTyped DEF Register, Pcs
  <2>2. active' \in [Executions -> [owner: Runs \cup {NoRun}, engine: Runs \cup {NoRun}]]
    BY <1>4, LifecycleAssumption DEF Register, TypeOK
  <2> QED BY <1>4, <2>1, <2>2 DEF TypeOK, Register, slotVars, waitVars, logVars
<1>5. ASSUME NEW r \in Runs, SetRunning(r) PROVE TypeOK'
  <2>1. pc' \in [Runs -> Pcs]
    BY <1>5, GotoTyped DEF SetRunning, Pcs
  <2>2. db' \in [Executions -> Rows]
    BY <1>5, ActionWritesRow DEF WritesRow
  <2> QED BY <1>5, <2>1, <2>2 DEF TypeOK, Rows, SetRunning, slotVars, waitVars
<1>6. ASSUME NEW r \in Runs, StartEngine(r) PROVE TypeOK'
  <2>1. pc' \in [Runs -> Pcs]
    BY <1>6, GotoTyped DEF StartEngine, Pcs
  <2>2. active' \in [Executions -> [owner: Runs \cup {NoRun}, engine: Runs \cup {NoRun}]]
    <3>1. active' = active \/ active' = [active EXCEPT ![execOf[r]].engine = r]
      BY <1>6 DEF StartEngine
    <3> DEFINE Entries == [owner: Runs \cup {NoRun}, engine: Runs \cup {NoRun}]
               entry == [active[execOf[r]] EXCEPT !.engine = r]
    <3>2. active \in [Executions -> Entries] /\ execOf[r] \in Executions
      BY LifecycleAssumption DEF TypeOK
    <3>3. entry \in Entries
      BY <3>2
    <3>4. active' = active \/ active' = [active EXCEPT ![execOf[r]] = entry]
      BY <3>1
    <3> HIDE DEF Entries, entry
    <3>5. active' \in [Executions -> Entries]
      BY <3>2, <3>3, <3>4
    <3> QED BY <3>5 DEF Entries
  <2>3. tracked' \subseteq Runs /\ openLogs' \subseteq Executions
    BY <1>6, LifecycleAssumption DEF StartEngine, TypeOK
  <2> QED BY <1>6, <2>1, <2>2, <2>3 DEF TypeOK, StartEngine, slotVars, waitVars
<1>7. ASSUME NEW r \in Runs, Deny(r) PROVE TypeOK'
  <2>1. pc' \in [Runs -> Pcs]
    BY <1>7, GotoTyped DEF Deny, Pcs
  <2>2. db' \in [Executions -> Rows]
    BY <1>7, ActionWritesRow DEF WritesRow
  <2> QED BY <1>7, <2>1, <2>2 DEF TypeOK, Rows, Deny, slotVars, waitVars, logVars
<1>8. ASSUME NEW r \in Runs, FinalizeDenied(r) PROVE TypeOK'
  <2>1. Settled(execOf[r], [pc EXCEPT ![r] = "done"]) /\ openLogs' \subseteq Executions
    BY <1>8, LifecycleAssumption, EndSettles DEF FinalizeDenied, TypeOK
  <2> QED BY <1>8, <2>1 DEF TypeOK, FinalizeDenied, waitVars, Settled
<1>9. ASSUME NEW r \in Runs, NEW how \in {"success", "error", "waiting", "canceled"},
             EngineEnds(r, how)
      PROVE  TypeOK'
  <2>1. pc' \in [Runs -> Pcs]
    BY <1>9, GotoTyped DEF EngineEnds, Pcs
  <2> QED BY <1>9, <2>1 DEF TypeOK, EngineEnds, slotVars, waitVars, logVars
<1>10. ASSUME NEW r \in Runs, SaveResult(r) PROVE TypeOK'
  <2>1. pc' \in [Runs -> Pcs]
    BY <1>10, GotoTyped DEF SaveResult, Pcs
  <2>2. db' \in [Executions -> Rows]
    BY <1>10, ActionWritesRow DEF WritesRow
  <2> QED BY <1>10, <2>1, <2>2 DEF TypeOK, Rows, SaveResult, slotVars, waitVars, logVars
<1>11. ASSUME NEW r \in Runs, EngineAborts(r) PROVE TypeOK'
  <2>1. pc' \in [Runs -> Pcs]
    BY <1>11, GotoTyped DEF EngineAborts, Pcs
  <2> QED BY <1>11, <2>1 DEF TypeOK, EngineAborts, slotVars, waitVars, logVars
<1>12. ASSUME NEW r \in Runs, SaveCancel(r) PROVE TypeOK'
  <2>1. db' \in [Executions -> Rows]
    BY <1>12, ActionWritesRow DEF WritesRow
  <2> QED BY <1>12, <2>1 DEF TypeOK, Rows, SaveCancel, slotVars, waitVars, logVars
<1>13. ASSUME NEW r \in Runs, Complete(r) PROVE TypeOK'
  <2>1. /\ pc' \in [Runs -> Pcs] /\ settled' \subseteq Runs /\ slot' \subseteq Runs
        /\ productionQueue' \in Queues(Runs, Executions) /\ openLogs' \subseteq Executions
        /\ active' \in [Executions -> [owner: Runs \cup {NoRun}, engine: Runs \cup {NoRun}]]
    <3>1. CASE r \in tracked
      <4>1. Settled(execOf[r], [pc EXCEPT ![r] = "done"]) /\ openLogs' \subseteq openLogs
        BY <1>13, <3>1, LifecycleAssumption, EndSettles DEF Complete
      <4> QED BY <4>1 DEF TypeOK, Settled
    <3>2. CASE r \notin tracked
      <4>1. pc' \in [Runs -> Pcs]
        BY <1>13, <3>2, GotoTyped DEF Complete, Pcs
      <4> QED BY <1>13, <3>2, <4>1 DEF Complete, TypeOK
    <3> QED BY <3>1, <3>2
  <2> QED BY <1>13, <2>1 DEF TypeOK, Complete, waitVars
<1>14. ASSUME NEW r \in Runs, Timeout(r) PROVE TypeOK'
  <2>1. Settled(execOf[r], pc) /\ cancelled' \subseteq Runs /\ cancelWrite' \subseteq Runs
    BY <1>14, LifecycleAssumption, StopSettles DEF Timeout, TypeOK
  <2> QED BY <1>14, <2>1 DEF TypeOK, Timeout, waitVars, logVars, Settled
<1>15. ASSUME NEW r \in Runs, MarkRunningFails(r) PROVE TypeOK'
  <2>1. pc' \in [Runs -> Pcs]
    BY <1>15, GotoTyped DEF MarkRunningFails, Pcs
  <2>2. faults' \in 0..MaxFaults
    BY <1>15, LifecycleAssumption DEF MarkRunningFails, TypeOK
  <2> QED BY <1>15, <2>1, <2>2 DEF TypeOK, MarkRunningFails, slotVars, waitVars, logVars
<1>16. ASSUME NEW r \in Runs, SaveResultFails(r) PROVE TypeOK'
  <2>1. pc' \in [Runs -> Pcs]
    BY <1>16, GotoTyped DEF SaveResultFails, Pcs
  <2>2. faults' \in 0..MaxFaults
    BY <1>16, LifecycleAssumption DEF SaveResultFails, TypeOK
  <2> QED BY <1>16, <2>1, <2>2 DEF TypeOK, SaveResultFails, slotVars, waitVars, logVars
<1>17. ASSUME NEW r \in Runs, Load(r) PROVE TypeOK'
  <2>1. pc' \in [Runs -> Pcs]
    BY <1>17, GotoTyped DEF Load, Pcs
  <2> QED BY <1>17, <2>1 DEF TypeOK, Load, slotVars, waitVars, logVars
<1>18. ASSUME NEW r \in Runs, ResumeByWebhook(r) PROVE TypeOK'
  <2>1. pc' \in [Runs -> Pcs]
    BY <1>18, GotoTyped DEF ResumeByWebhook, Pcs
  <2> QED BY <1>18, <2>1 DEF TypeOK, ResumeByWebhook, slotVars, waitVars, logVars
<1>19. ASSUME NEW e \in Executions, StopRead(e) PROVE TypeOK'
  <2> QED BY <1>19 DEF TypeOK, StopRead, Stop, runVars, slotVars, waitVars, logVars
<1>20. ASSUME NEW e \in Executions, StopQueued(e) PROVE TypeOK'
  <2>1. /\ productionQueue' \in Queues(Runs, Executions) /\ pc' \in [Runs -> Pcs]
        /\ slot' \subseteq Runs
    BY <1>20, StopQueuedWakes
  <2> QED BY <1>20, <2>1 DEF TypeOK, StopQueued, Stop, waitVars, logVars
<1>21. ASSUME NEW e \in Executions, StopActive(e) PROVE TypeOK'
  <2>1. Settled(e, pc) /\ cancelled' \subseteq Runs /\ cancelWrite' \subseteq Runs
    BY <1>21, StopSettles DEF StopActive, TypeOK
  <2> QED BY <1>21, <2>1 DEF TypeOK, StopActive, Stop, logVars, Settled
<1>22. ASSUME NEW e \in Executions, StopWrite(e) PROVE TypeOK'
  <2>1. db' \in [Executions -> Rows]
    BY <1>22, ActionWritesRow DEF WritesRow
  <2> QED BY <1>22, <2>1 DEF TypeOK, Rows, StopWrite, Stop, runVars, slotVars, waitVars, logVars
<1>23. ASSUME NEW e \in Executions, TimePasses(e) PROVE TypeOK'
  <2>1. db' \in [Executions -> Rows]
    BY <1>23, ActionWritesRow DEF WritesRow
  <2> QED BY <1>23, <2>1 DEF TypeOK, Rows, TimePasses, runVars, slotVars, waitVars, logVars
<1>24. ASSUME NEW e \in Executions, NEW r \in Runs, TimerFires(e, r) PROVE TypeOK'
  <2>1. pc' \in [Runs -> Pcs]
    BY <1>24, GotoTyped DEF TimerFires, Pcs
  <2> QED BY <1>24, <2>1 DEF TypeOK, TimerFires, slotVars, logVars
<1>25. ASSUME NEW r \in Runs, DenyUnsaved(r) \/ RunFails(r) \/ LoadFails(r) PROVE TypeOK'
  <2>1. pc' \in [Runs -> Pcs]
    BY <1>25, GotoTyped DEF DenyUnsaved, RunFails, LoadFails, Pcs
  <2>2. faults' \in 0..MaxFaults
    BY <1>25, LifecycleAssumption DEF DenyUnsaved, RunFails, LoadFails, TypeOK
  <2> QED BY <1>25, <2>1, <2>2 DEF TypeOK, DenyUnsaved, RunFails, LoadFails, slotVars, waitVars,
              logVars
<1>26. ASSUME NEW r \in Runs, SaveCancelFails(r) PROVE TypeOK'
  <2>1. faults' \in 0..MaxFaults /\ cancelWrite' \subseteq Runs
    BY <1>26, LifecycleAssumption DEF SaveCancelFails, TypeOK
  <2> QED BY <1>26, <2>1 DEF TypeOK, SaveCancelFails, slotVars, waitVars, logVars
<1>27. ASSUME NEW e \in Executions, StopWriteFails(e) PROVE TypeOK'
  <2>1. faults' \in 0..MaxFaults
    BY <1>27, LifecycleAssumption DEF StopWriteFails, TypeOK
  <2> QED BY <1>27, <2>1 DEF TypeOK, StopWriteFails, Stop, runVars, slotVars, waitVars, logVars
<1>28. CASE PollRead \/ PollSet \/ StopTracking \/ DisableLimit
  <2>1. Due \subseteq Executions
    BY DEF Due
  <2> QED BY <1>28, <2>1 DEF TypeOK, PollRead, PollSet, StopTracking, DisableLimit, runVars,
              slotVars, waitVars, logVars
<1>29. ASSUME NEW kept \in SUBSET openLogs, NEW starters \in SUBSET Runs, Restart(kept, starters)
       PROVE  TypeOK'
  BY <1>29, RestartTyped
<1> QED
  BY <1>1, <1>2, <1>3, <1>4, <1>5, <1>6, <1>7, <1>8, <1>9, <1>10, <1>11, <1>12, <1>13, <1>14, <1>15,
     <1>16, <1>17, <1>18, <1>19, <1>20, <1>21, <1>22, <1>23, <1>24, <1>28, <1>29, <1>25, <1>26, <1>27
     DEF Next, Start, Ends, Finish

\* One run goes on to label; the others stay where they are.
MovesOn(r, label) ==
  /\ pc' \in [Runs -> Pcs]
  /\ pc'[r] = label
  /\ \A t \in Runs : t # r => pc'[t] = pc[t]

LEMMA GotoMovesOn ==
  ASSUME TypeOK, NEW r \in Runs, NEW label \in Pcs, Goto(r, label)
  PROVE  MovesOn(r, label)
  BY DEF TypeOK, Goto, MovesOn

\* Actions that move one run on, from and to where it is not queued, and leave
\* the queue and what was taken from it alone.
Progress(r) ==
  \/ Create(r) \/ MarkRunning(r) \/ MarkRunningFails(r) \/ Register(r) \/ Deny(r)
  \/ SetRunning(r) \/ StartEngine(r) \/ Ends(r) \/ SaveResult(r) \/ SaveResultFails(r)
  \/ EngineAborts(r) \/ Load(r) \/ ResumeByWebhook(r) \/ \E e \in Executions : TimerFires(e, r)
  \/ DenyUnsaved(r) \/ RunFails(r) \/ LoadFails(r)

Edges ==
  {<<"idle", "created">>, <<"idle", "loading">>, <<"loading", "created">>, <<"loading", "refused">>,
   <<"admitted", "marked">>, <<"admitted", "failed">>, <<"marked", "registered">>,
   <<"registered", "denied">>, <<"registered", "starting">>, <<"registered", "stranded">>,
   <<"starting", "executing">>,
   <<"executing", "saving">>, <<"executing", "saved">>, <<"saving", "saved">>}

LEMMA ProgressMovesOn ==
  ASSUME TypeOK, NEW r \in Runs, Progress(r)
  PROVE  /\ \E label \in Pcs : <<pc[r], label>> \in Edges /\ MovesOn(r, label)
         /\ UNCHANGED <<productionQueue, isEnabled, slot, settled, cancelled, cancelWrite, stop,
                        restarts>>
<1> USE DEF slotVars, Pcs, Edges
<1>1. CASE Create(r)
  BY <1>1, GotoMovesOn DEF Create
<1>2. CASE MarkRunning(r)
  BY <1>2, GotoMovesOn DEF MarkRunning
<1>3. CASE MarkRunningFails(r)
  BY <1>3, GotoMovesOn DEF MarkRunningFails
<1>4. CASE Register(r)
  BY <1>4, GotoMovesOn DEF Register
<1>5. CASE Deny(r)
  BY <1>5, GotoMovesOn DEF Deny
<1>6. CASE SetRunning(r)
  BY <1>6, GotoMovesOn DEF SetRunning
<1>7. CASE StartEngine(r)
  BY <1>7, GotoMovesOn DEF StartEngine
<1>8. CASE Ends(r)
  BY <1>8, GotoMovesOn DEF Ends, EngineEnds
<1>9. CASE SaveResult(r)
  BY <1>9, GotoMovesOn DEF SaveResult
<1>10. CASE SaveResultFails(r)
  BY <1>10, GotoMovesOn DEF SaveResultFails
<1>11. CASE EngineAborts(r)
  BY <1>11, GotoMovesOn DEF EngineAborts
<1>12. CASE Load(r)
  BY <1>12, GotoMovesOn DEF Load
<1>13. CASE ResumeByWebhook(r)
  BY <1>13, GotoMovesOn DEF ResumeByWebhook
<1>14. CASE \E e \in Executions : TimerFires(e, r)
  BY <1>14, GotoMovesOn DEF TimerFires
<1>15. CASE DenyUnsaved(r) \/ RunFails(r) \/ LoadFails(r)
  BY <1>15, GotoMovesOn DEF DenyUnsaved, RunFails, LoadFails
<1> QED
  BY <1>1, <1>2, <1>3, <1>4, <1>5, <1>6, <1>7, <1>8, <1>9, <1>10, <1>11, <1>12, <1>13, <1>14, <1>15
     DEF Progress

\* Actions that leave the runs, the queue and what was taken from it alone.
Aside ==
  \/ \E r \in Runs : SaveCancel(r) \/ SaveCancelFails(r)
  \/ \E e \in Executions : StopRead(e) \/ StopWrite(e) \/ StopWriteFails(e) \/ TimePasses(e)
  \/ PollRead \/ PollSet \/ StopTracking

LEMMA AsideStays ==
  ASSUME Aside
  PROVE  /\ UNCHANGED <<pc, productionQueue, isEnabled, slot, settled, active, tracked, outcome,
                        cancelled, openLogs, unrecovered, restarts>>
         /\ faults' = faults \/ faults' = faults + 1
  BY DEF Aside, SaveCancel, SaveCancelFails, StopRead, StopWrite, StopWriteFails, TimePasses,
         PollRead, PollSet, StopTracking, runVars, slotVars, logVars

\* A write that fails beside the runs.
LEMMA AsideFails ==
  ASSUME TypeOK, (\E r \in Runs : SaveCancelFails(r)) \/ (\E e \in Executions : StopWriteFails(e))
  PROVE  faults' > 0 /\ db' = db
  BY LifecycleAssumption DEF TypeOK, SaveCancelFails, StopWriteFails

\* The steps, by what they do to the runs.
LEMMA StepKinds ==
  ASSUME Next
  PROVE  \/ \E r \in Runs : Progress(r)
         \/ \E r \in Runs : Throttle(r)
         \/ \E r \in Runs : FinalizeDenied(r) \/ Complete(r)
         \/ \E r \in Runs : Timeout(r)
         \/ \E e \in Executions : StopQueued(e)
         \/ \E e \in Executions : StopActive(e)
         \/ Aside \/ DisableLimit
         \/ \E kept \in SUBSET openLogs, starters \in SUBSET Runs : Restart(kept, starters)
  BY DEF Next, Start, Finish, Progress, Aside

LEMMA SameQueue ==
  ASSUME QueueOK, productionQueue' = productionQueue,
         \A r \in Runs : pc'[r] = "queued" <=> pc[r] = "queued"
  PROVE  QueueOK'
<1>1. Waiters' = Waiters
  BY DEF Waiters
<1> QED
  BY <1>1 DEF QueueOK

LEMMA QueueStep ==
  ASSUME TypeOK, QueueOK, \A e \in Executions : EntryOK(e), Next
  PROVE  QueueOK'
<1>1. ASSUME NEW r \in Runs, Progress(r) PROVE QueueOK'
  <2>1. PICK label \in Pcs : <<pc[r], label>> \in Edges /\ MovesOn(r, label)
    BY <1>1, ProgressMovesOn
  <2>2. pc[r] # "queued" /\ label # "queued" /\ productionQueue' = productionQueue
    BY <1>1, <2>1, ProgressMovesOn DEF Edges
  <2> QED BY <2>1, <2>2, SameQueue DEF MovesOn
<1>2. ASSUME NEW r \in Runs, Throttle(r) PROVE QueueOK'
  BY <1>2, ThrottleQueues
<1>3. ASSUME NEW r \in Runs, FinalizeDenied(r) PROVE QueueOK'
  BY <1>3, LifecycleAssumption, EndSettles DEF FinalizeDenied, Settled
<1>4. ASSUME NEW r \in Runs, Complete(r) PROVE QueueOK'
  <2>1. CASE r \in tracked
    BY <1>4, <2>1, LifecycleAssumption, EndSettles DEF Complete, Settled
  <2>2. CASE r \notin tracked
    <3>1. MovesOn(r, "done") /\ pc[r] = "saved" /\ productionQueue' = productionQueue
      BY <1>4, <2>2, GotoMovesOn DEF Complete, Pcs
    <3> QED BY <3>1, SameQueue DEF MovesOn
  <2> QED BY <2>1, <2>2
<1>5. ASSUME NEW r \in Runs, Timeout(r) PROVE QueueOK'
  BY <1>5, LifecycleAssumption, StopSettles DEF Timeout, Settled
<1>6. ASSUME NEW e \in Executions, StopQueued(e) PROVE QueueOK'
  BY <1>6, StopQueuedWakes
<1>7. ASSUME NEW e \in Executions, StopActive(e) PROVE QueueOK'
  BY <1>7, StopSettles DEF StopActive, Settled
<1>8. CASE Aside
  BY <1>8, AsideStays, SameQueue
<1>9. CASE DisableLimit
  BY <1>9, SameQueue DEF DisableLimit, runVars
<1>10. ASSUME NEW kept \in SUBSET openLogs, NEW starters \in SUBSET Runs, Restart(kept, starters)
       PROVE  QueueOK'
  <2>1. productionQueue'.queue = <<>> /\ Waiters' = {}
    BY <1>10 DEF Restart, NewQueue, Waiters
  <2> QED BY <2>1 DEF QueueOK, Lists, ToSet
<1> QED
  BY <1>1, <1>2, <1>3, <1>4, <1>5, <1>6, <1>7, <1>8, <1>9, <1>10, StepKinds

-----------------------------------------------------------------------------
(* Every step keeps what is known of each run.                             *)

\* What the release of capacity does to one run.
LEMMA SettledRun ==
  ASSUME TypeOK, NEW e \in Executions, NEW pcs \in [Runs -> Pcs], Settled(e, pcs), NEW t \in Runs
  PROVE  /\ \/ pc[t] = "queued" /\ pc'[t] = "admitted" /\ t \in slot'
            \/ pc'[t] = pcs[t] /\ (t \in slot' => t \in slot)
         /\ t \in slot' /\ pc[t] # "queued" => t \notin Owners(e)
<1>1. PICK W \in SUBSET Waiters : Wakes(W, pcs, Owners(e))
  BY DEF Settled
<1>2. t \in W => pc[t] = "queued"
  BY <1>1 DEF Waiters
<1>3. /\ pc'[t] = IF t \in W THEN "admitted" ELSE pcs[t]
      /\ slot' = (slot \ Owners(e)) \cup W
  BY <1>1 DEF Wakes
<1> QED
  BY <1>2, <1>3

\* A run ends: its execution is finalized, unless the engine was never attached.
LEMMA EndKinds ==
  ASSUME TypeOK, QueueOK, NEW r \in Runs, EntryOK(execOf[r]), FinalizeDenied(r) \/ Complete(r)
  PROVE  /\ pc[r] \in {"denied", "saved"}
         /\ \/ Settled(execOf[r], [pc EXCEPT ![r] = "done"])
            \/ /\ pc[r] = "saved" /\ r \notin tracked
               /\ MovesOn(r, "done")
               /\ UNCHANGED <<settled, active, productionQueue, slot>>
         /\ openLogs' \subseteq openLogs
         /\ UNCHANGED <<db, tracked, outcome, cancelled, cancelWrite, isEnabled, stop, unrecovered,
                        faults, restarts>>
<1>1. CASE FinalizeDenied(r)
  BY <1>1, EndSettles DEF FinalizeDenied
<1>2. CASE Complete(r) /\ r \in tracked
  BY <1>2, EndSettles DEF Complete
<1>3. CASE Complete(r) /\ r \notin tracked
  BY <1>3, GotoMovesOn DEF Complete, Pcs
<1> QED
  BY <1>1, <1>2, <1>3

\* An execution is stopped while it is active, by its timeout or by a user.
LEMMA StopKinds ==
  ASSUME TypeOK, QueueOK, NEW e \in Executions, EntryOK(e),
         StopActive(e) \/ \E r \in Runs : e = execOf[r] /\ Timeout(r)
  PROVE  /\ Settled(e, pc)
         /\ \E hit \in SUBSET Runs :
              /\ hit = {} \/ hit = Hit(e)
              /\ \A r \in hit : pc[r] \in Engine
              /\ cancelled' = cancelled \cup hit
              /\ cancelWrite' = cancelWrite \cup hit
         /\ UNCHANGED <<db, tracked, outcome, isEnabled, openLogs, unrecovered, faults, restarts>>
         /\ \/ stop' = stop
            \/ stop[e] = "read" /\ stop' = [stop EXCEPT ![e] = "during"]
<1>1. StopExecution(e)
  BY DEF StopActive, Timeout
<1> QED
  BY <1>1, StopSettles DEF StopActive, Timeout, Stop, logVars

LEMMA RunStep ==
  ASSUME IInv, Next, NEW t \in Runs
  PROVE  RunOK(t)'
<1>1. TypeOK /\ QueueOK /\ RunOK(t) /\ \A e \in Executions : EntryOK(e)
  BY DEF IInv
<1>2. \A e \in Executions : t \in Owners(e) => pc[t] \notin Early \cup {"admitted", "marked"}
  BY <1>1 DEF Owners, EntryOK
<1>3. ASSUME NEW r \in Runs, Progress(r) PROVE RunOK(t)'
  <2>1. PICK label \in Pcs : <<pc[r], label>> \in Edges /\ MovesOn(r, label)
    BY <1>1, <1>3, ProgressMovesOn
  <2>2. slot' = slot /\ settled' = settled /\ cancelled' = cancelled
    BY <1>1, <1>3, ProgressMovesOn
  <2>3. CASE t = r
    BY <1>1, <2>1, <2>2, <2>3 DEF RunOK, Edges, Early, Engine, MovesOn
  <2>4. CASE t # r
    BY <1>1, <2>1, <2>2, <2>4 DEF RunOK, MovesOn
  <2> QED BY <2>3, <2>4
<1>4. ASSUME NEW r \in Runs, Throttle(r) PROVE RunOK(t)'
  <2>1. /\ pc[r] = "created" /\ settled' = settled /\ cancelled' = cancelled
        /\ \/ MovesOn(r, "queued") /\ slot' = slot
           \/ MovesOn(r, "admitted") /\ slot' = slot
           \/ MovesOn(r, "admitted") /\ slot' = slot \cup {r}
    BY <1>1, <1>4, GotoMovesOn DEF Throttle, Pcs
  <2> QED BY <1>1, <2>1 DEF RunOK, MovesOn, Early, Engine
<1>5. ASSUME NEW r \in Runs, FinalizeDenied(r) \/ Complete(r) PROVE RunOK(t)'
  <2> DEFINE e == execOf[r]
             pcs == [pc EXCEPT ![r] = "done"]
  <2>1. /\ e \in Executions /\ pcs \in [Runs -> Pcs]
        /\ pc[r] \in {"denied", "saved"} /\ cancelled' = cancelled
    BY <1>1, <1>5, EndKinds, LifecycleAssumption DEF TypeOK, Pcs
  <2>2. pcs[t] = IF t = r THEN "done" ELSE pc[t]
    BY <1>1 DEF TypeOK
  <2>3. CASE Settled(e, pcs)
    <3>1. settled' = settled \cup Owners(e)
      BY <2>3 DEF Settled
    <3> HIDE DEF pcs, e
    <3>2. \/ pc[t] = "queued" /\ pc'[t] = "admitted"
          \/ pc'[t] = pcs[t] /\ (t \in slot' => t \in slot)
      BY <1>1, <2>1, <2>3, SettledRun
    <3> QED BY <1>1, <1>2, <2>1, <2>2, <3>1, <3>2 DEF RunOK, Early, Engine
  <2>4. CASE MovesOn(r, "done") /\ UNCHANGED <<settled, slot>>
    BY <1>1, <2>1, <2>4 DEF RunOK, MovesOn, Early, Engine
  <2> QED BY <1>1, <1>5, <2>1, <2>3, <2>4, EndKinds
<1>6. ASSUME NEW e \in Executions, StopActive(e) \/ \E r \in Runs : e = execOf[r] /\ Timeout(r)
      PROVE  RunOK(t)'
  <2>1. Settled(e, pc) /\ pc \in [Runs -> Pcs]
    BY <1>1, <1>6, StopKinds DEF TypeOK
  <2>2. t \in cancelled' => t \in cancelled \/ pc[t] \in Engine
    BY <1>1, <1>6, StopKinds
  <2>3. settled' = settled \cup Owners(e)
    BY <2>1 DEF Settled
  <2>4. \/ pc[t] = "queued" /\ pc'[t] = "admitted"
        \/ pc'[t] = pc[t] /\ (t \in slot' => t \in slot)
    BY <1>1, <2>1, SettledRun
  <2> QED BY <1>1, <1>2, <2>2, <2>3, <2>4 DEF RunOK, Early, Engine
<1>7. ASSUME NEW e \in Executions, StopQueued(e) PROVE RunOK(t)'
  <2>1. PICK d \in Waiters, W \in SUBSET Waiters :
          d \notin W /\ Wakes(W, [pc EXCEPT ![d] = "dropped"], {})
    BY <1>1, <1>7, StopQueuedWakes
  <2>2. /\ t \in W \/ t = d => pc[t] = "queued"
        /\ pc'[t] = IF t \in W THEN "admitted" ELSE IF t = d THEN "dropped" ELSE pc[t]
        /\ t \in slot' => t \in slot \/ t \in W
    BY <1>1, <2>1 DEF Wakes, Waiters, TypeOK
  <2>3. settled' = settled /\ cancelled' = cancelled
    BY <1>7 DEF StopQueued
  <2> QED BY <1>1, <2>1, <2>2, <2>3 DEF RunOK, Early, Engine
<1>8. CASE Aside
  BY <1>1, <1>8, AsideStays DEF RunOK
<1>9. CASE DisableLimit
  BY <1>1, <1>9 DEF RunOK, DisableLimit, runVars
<1>10. ASSUME NEW kept \in SUBSET openLogs, NEW starters \in SUBSET Runs, Restart(kept, starters)
       PROVE  RunOK(t)'
  <2>1. /\ slot' = {} /\ settled' = settled /\ cancelled' = cancelled
        /\ \/ pc[t] = "idle" /\ pc'[t] = "created"
           \/ pc'[t] = pc[t] /\ pc[t] \in {"idle", "dropped", "refused", "done"}
           \/ pc'[t] = "failed"
    BY <1>10 DEF Restart
  <2> QED BY <1>1, <2>1 DEF RunOK, Early, Engine
<1> QED
  BY <1>3, <1>4, <1>5, <1>6, <1>7, <1>8, <1>9, <1>10, StepKinds, LifecycleAssumption

-----------------------------------------------------------------------------
(* Every step keeps what is known of each entry.                           *)

LEMMA ProgressEntries ==
  ASSUME NEW r \in Runs, Progress(r)
  PROVE  \/ Register(r) \/ StartEngine(r)
         \/ UNCHANGED <<active, tracked>> /\ pc[r] \notin {"starting", "marked"}
  BY DEF Progress, Create, MarkRunning, MarkRunningFails, Deny, SetRunning, Ends, EngineEnds,
         SaveResult, SaveResultFails, DenyUnsaved, RunFails, LoadFails, EngineAborts, Load,
         ResumeByWebhook, TimerFires

Entries == [owner: Runs \cup {NoRun}, engine: Runs \cup {NoRun}]

\* Nobody but the run that registers changes the owner of an entry.
LEMMA ProgressEntry ==
  ASSUME TypeOK, NEW e \in Executions, NEW r \in Runs, Progress(r), ~(Register(r) /\ execOf[r] = e)
  PROVE  /\ active'[e].owner = active[e].owner
         /\ active'[e] # NoEntry => active[e] # NoEntry
<1>1. active \in [Executions -> Entries]
  BY DEF TypeOK, Entries
<1>2. CASE Register(r)
  <2>1. active' = [active EXCEPT ![execOf[r]] = [owner |-> r, engine |-> NoRun]] /\ execOf[r] # e
    BY <1>2 DEF Register
  <2>2. active'[e] = active[e]
    BY <1>1, <2>1
  <2> QED BY <2>2
<1>3. CASE StartEngine(r)
  <2>1. CASE active' = active
    BY <2>1
  <2>2. CASE active' # active
    <3>1. active' = [active EXCEPT ![execOf[r]].engine = r] /\ active[execOf[r]] # NoEntry
      BY <1>3, <2>2 DEF StartEngine
    <3>2. CASE execOf[r] = e
      <4>1. active'[e] = [active[e] EXCEPT !.engine = r] /\ active[e] \in Entries
        BY <1>1, <3>1, <3>2
      <4> QED BY <3>1, <3>2, <4>1 DEF Entries
    <3>3. CASE execOf[r] # e
      <4>1. active'[e] = active[e]
        BY <1>1, <3>1, <3>3
      <4> QED BY <4>1
    <3> QED BY <3>2, <3>3
  <2> QED BY <2>1, <2>2
<1>4. CASE active' = active
  BY <1>4
<1> QED
  BY <1>2, <1>3, <1>4, ProgressEntries

\* What it takes to keep an entry: its owner is where it was or further on.
LEMMA KeptEntry ==
  ASSUME NEW e \in Executions, EntryOK(e),
         active'[e] # NoEntry =>
           /\ active[e] # NoEntry /\ active'[e].owner = active[e].owner
           /\ active[e].owner \notin settled' \ settled
           /\ pc[active[e].owner] \notin Early \cup {"admitted", "marked"} =>
                pc'[active[e].owner] \notin Early \cup {"admitted", "marked"}
  PROVE  EntryOK(e)'
  BY DEF EntryOK, RunsOf

\* Other entries are not touched when one is settled.
LEMMA OtherEntries ==
  ASSUME IInv, NEW e \in Executions, NEW f \in Executions,
         NEW pcs \in [Runs -> Pcs], Settled(e, pcs), active'[f] # NoEntry
  PROVE  /\ f # e /\ active'[f] = active[f]
         /\ active[f].owner \in RunsOf(f) /\ active[f].owner \notin settled'
         /\ \A t \in Runs : pc[t] # "queued" => pc'[t] = pcs[t]
<1>1. f # e /\ active'[f] = active[f]
  BY DEF Settled, IInv, TypeOK
<1>2. EntryOK(e) /\ EntryOK(f) /\ TypeOK
  BY DEF IInv
<1>3. active[f].owner \in RunsOf(f) /\ active[f].owner \notin settled
  BY <1>1, <1>2 DEF EntryOK
<1>4. active[f].owner \notin Owners(e)
  BY <1>1, <1>2, <1>3 DEF EntryOK, Owners, RunsOf
<1>5. settled' = settled \cup Owners(e)
  BY DEF Settled
<1> QED
  BY <1>1, <1>2, <1>3, <1>4, <1>5, SettledRun

LEMMA EntryStep ==
  ASSUME IInv, Next, NEW e \in Executions
  PROVE  EntryOK(e)'
<1>1. TypeOK /\ QueueOK /\ EntryOK(e) /\ \A f \in Executions : EntryOK(f)
  BY DEF IInv
<1>2. active[e] # NoEntry => active[e].owner \in Runs
  BY <1>1 DEF EntryOK, RunsOf
<1>3. ASSUME NEW r \in Runs, Progress(r) PROVE EntryOK(e)'
  <2>1. PICK label \in Pcs : <<pc[r], label>> \in Edges /\ MovesOn(r, label)
    BY <1>1, <1>3, ProgressMovesOn
  <2>2. settled' = settled
    BY <1>1, <1>3, ProgressMovesOn
  <2>3. CASE Register(r) /\ execOf[r] = e
    <3>1. active'[e] = [owner |-> r, engine |-> NoRun] /\ pc'[r] = "registered" /\ pc[r] = "marked"
      BY <2>3, <1>1 DEF Register, Goto, TypeOK
    <3>2. RunOK(r)
      BY DEF IInv
    <3> QED BY <2>2, <2>3, <3>1, <3>2 DEF EntryOK, RunOK, RunsOf, Early
  <2>4. CASE ~(Register(r) /\ execOf[r] = e)
    <3>1. active'[e] # NoEntry => active[e] # NoEntry /\ active'[e].owner = active[e].owner
      BY <1>1, <1>3, <2>4, ProgressEntry
    <3>3. ASSUME NEW o \in Runs, pc[o] \notin Early \cup {"admitted", "marked"}
          PROVE  pc'[o] \notin Early \cup {"admitted", "marked"}
      BY <2>1, <3>3 DEF MovesOn, Edges, Early
    <3> QED BY <1>1, <1>2, <2>2, <3>1, <3>3, KeptEntry
  <2> QED BY <2>3, <2>4
<1>4. ASSUME NEW r \in Runs, Throttle(r) PROVE EntryOK(e)'
  <2>1. /\ pc[r] = "created" /\ settled' = settled /\ active' = active
        /\ \A t \in Runs : t # r => pc'[t] = pc[t]
    BY <1>1, <1>4 DEF Throttle, Goto, TypeOK
  <2> QED BY <1>1, <1>2, <2>1, KeptEntry DEF Early
<1>5. ASSUME NEW r \in Runs, FinalizeDenied(r) \/ Complete(r) PROVE EntryOK(e)'
  <2> DEFINE pcs == [pc EXCEPT ![r] = "done"]
  <2>1. execOf[r] \in Executions /\ pcs \in [Runs -> Pcs] /\ pc[r] \in {"denied", "saved"}
    BY <1>1, <1>5, EndKinds, LifecycleAssumption DEF TypeOK, Pcs
  <2>2. \A t \in Runs : pcs[t] = IF t = r THEN "done" ELSE pc[t]
    BY <1>1 DEF TypeOK
  <2>3. CASE Settled(execOf[r], pcs)
    <3> HIDE DEF pcs
    <3>1. active'[e] # NoEntry =>
            /\ active'[e] = active[e] /\ active[e].owner \in Runs
            /\ active[e].owner \notin settled'
            /\ \A t \in Runs : pc[t] # "queued" => pc'[t] = pcs[t]
      BY <2>1, <2>3, OtherEntries DEF RunsOf
    <3> QED BY <1>1, <2>2, <3>1, KeptEntry DEF Early
  <2>4. CASE MovesOn(r, "done") /\ UNCHANGED <<settled, active>>
    BY <1>1, <1>2, <2>4, KeptEntry DEF MovesOn, Early
  <2> QED BY <1>1, <1>5, <2>1, <2>3, <2>4, EndKinds
<1>6. ASSUME NEW f \in Executions, StopActive(f) \/ \E r \in Runs : f = execOf[r] /\ Timeout(r)
      PROVE  EntryOK(e)'
  <2>1. Settled(f, pc) /\ pc \in [Runs -> Pcs]
    BY <1>1, <1>6, StopKinds DEF TypeOK
  <2>2. active'[e] # NoEntry =>
          /\ active'[e] = active[e] /\ active[e].owner \in Runs
          /\ active[e].owner \notin settled'
          /\ \A t \in Runs : pc[t] # "queued" => pc'[t] = pc[t]
    BY <2>1, OtherEntries DEF RunsOf
  <2> QED BY <1>1, <2>2, KeptEntry DEF Early
<1>7. ASSUME NEW f \in Executions, StopQueued(f) PROVE EntryOK(e)'
  <2>1. PICK d \in Waiters, W \in SUBSET Waiters :
          d \notin W /\ Wakes(W, [pc EXCEPT ![d] = "dropped"], {})
    BY <1>1, <1>7, StopQueuedWakes
  <2>2. \A t \in Runs : pc[t] # "queued" => pc'[t] = pc[t]
    BY <1>1, <2>1 DEF Wakes, Waiters, TypeOK
  <2>3. settled' = settled /\ active' = active
    BY <1>7 DEF StopQueued
  <2> QED BY <1>1, <1>2, <2>2, <2>3, KeptEntry DEF Early
<1>8. CASE Aside
  BY <1>1, <1>8, AsideStays, KeptEntry
<1>9. CASE DisableLimit
  BY <1>1, <1>9, KeptEntry DEF DisableLimit, runVars
<1>10. ASSUME NEW kept \in SUBSET openLogs, NEW starters \in SUBSET Runs, Restart(kept, starters)
       PROVE  EntryOK(e)'
  BY <1>10 DEF EntryOK, Restart
<1> QED
  BY <1>3, <1>4, <1>5, <1>6, <1>7, <1>8, <1>9, <1>10, StepKinds, LifecycleAssumption

\* A run that will remove the entry of its execution, or failed before it would.
Remover(r) ==
  \/ pc[r] \in {"registered", "denied", "starting", "stranded"}
  \/ pc[r] \in Engine /\ r \in tracked

\* The remover of an entry that stays goes on being one.
LEMMA RemoverStays ==
  ASSUME IInv, Next, NEW e \in Executions, active[e] # NoEntry, active'[e] # NoEntry,
         NEW w \in RunsOf(e), Remover(w)
  PROVE  Remover(w)'
<1>1. TypeOK /\ QueueOK /\ w \in Runs /\ execOf[w] = e /\ \A f \in Executions : EntryOK(f)
  BY DEF IInv, RunsOf
<1>2. pc[w] \in {"registered", "denied", "starting", "stranded", "executing", "saving", "saved"}
  BY DEF Remover, Engine
<1>3. ASSUME NEW r \in Runs, Progress(r) PROVE Remover(w)'
  <2>1. PICK label \in Pcs : <<pc[r], label>> \in Edges /\ MovesOn(r, label)
    BY <1>1, <1>3, ProgressMovesOn
  <2>2. CASE StartEngine(r)
    BY <1>1, <2>2, GotoMovesOn DEF StartEngine, Remover, Engine, MovesOn, Pcs
  <2>3. CASE Register(r)
    BY <1>1, <1>2, <2>1, <2>3 DEF Register, Remover, MovesOn, Edges
  <2>4. CASE UNCHANGED <<active, tracked>> /\ pc[r] \notin {"starting", "marked"}
    <3>1. CASE r = w
      BY <1>1, <2>1, <2>4, <3>1 DEF Remover, MovesOn, Edges, Engine
    <3>2. CASE r # w
      BY <1>1, <2>1, <2>4, <3>2 DEF Remover, MovesOn
    <3> QED BY <3>1, <3>2
  <2> QED BY <1>3, <2>2, <2>3, <2>4, ProgressEntries
<1>4. ASSUME NEW r \in Runs, Throttle(r) PROVE Remover(w)'
  <2>1. pc'[w] = pc[w] /\ tracked' = tracked
    BY <1>1, <1>2, <1>4 DEF Throttle, Goto, TypeOK
  <2> QED BY <2>1 DEF Remover
<1>5. ASSUME NEW r \in Runs, FinalizeDenied(r) \/ Complete(r) PROVE Remover(w)'
  <2> DEFINE pcs == [pc EXCEPT ![r] = "done"]
  <2>1. execOf[r] \in Executions /\ pcs \in [Runs -> Pcs] /\ tracked' = tracked
    BY <1>1, <1>5, EndKinds, LifecycleAssumption DEF TypeOK, Pcs
  <2>2. pcs[w] = IF w = r THEN "done" ELSE pc[w]
    BY <1>1 DEF TypeOK
  <2>3. CASE Settled(execOf[r], pcs)
    <3> HIDE DEF pcs
    <3>1. execOf[r] # e /\ \A t \in Runs : pc[t] # "queued" => pc'[t] = pcs[t]
      BY <2>1, <2>3, OtherEntries
    <3>2. pc'[w] = pc[w]
      BY <1>1, <1>2, <2>2, <3>1
    <3> QED BY <2>1, <3>2 DEF Remover
  <2>4. CASE pc[r] = "saved" /\ r \notin tracked /\ MovesOn(r, "done")
    <3>1. w # r
      BY <2>4 DEF Remover
    <3>2. pc'[w] = pc[w]
      BY <1>1, <2>4, <3>1 DEF MovesOn
    <3> QED BY <2>1, <3>2 DEF Remover
  <2> QED BY <1>1, <1>5, <2>1, <2>3, <2>4, EndKinds
<1>6. ASSUME NEW f \in Executions, StopActive(f) \/ \E r \in Runs : f = execOf[r] /\ Timeout(r)
      PROVE  Remover(w)'
  <2>1. Settled(f, pc) /\ pc \in [Runs -> Pcs] /\ tracked' = tracked
    BY <1>1, <1>6, StopKinds DEF TypeOK
  <2>2. pc'[w] = pc[w]
    BY <1>1, <1>2, <2>1, SettledRun
  <2> QED BY <2>1, <2>2 DEF Remover
<1>7. ASSUME NEW f \in Executions, StopQueued(f) PROVE Remover(w)'
  <2>1. PICK d \in Waiters, W \in SUBSET Waiters :
          d \notin W /\ Wakes(W, [pc EXCEPT ![d] = "dropped"], {})
    BY <1>1, <1>7, StopQueuedWakes
  <2>2. pc'[w] = pc[w]
    BY <1>1, <1>2, <2>1 DEF Wakes, Waiters, TypeOK
  <2>3. tracked' = tracked
    BY <1>7 DEF StopQueued
  <2> QED BY <2>2, <2>3 DEF Remover
<1>8. CASE Aside
  BY <1>8, AsideStays DEF Remover
<1>9. CASE DisableLimit
  BY <1>9 DEF Remover, DisableLimit, runVars
<1>10. ASSUME NEW kept \in SUBSET openLogs, NEW starters \in SUBSET Runs, Restart(kept, starters)
       PROVE  FALSE
  BY <1>10 DEF Restart
<1> QED
  BY <1>3, <1>4, <1>5, <1>6, <1>7, <1>8, <1>9, <1>10, StepKinds, LifecycleAssumption

\* An entry gets a new owner from the run that registers, and from no other.
LEMMA OwnerKinds ==
  ASSUME IInv, Next, NEW e \in Executions, active'[e] # NoEntry
  PROVE  \/ active[e] # NoEntry /\ active'[e].owner = active[e].owner
         \/ active'[e].owner \in Runs /\ pc'[active'[e].owner] = "registered"
<1>1. TypeOK /\ QueueOK /\ \A f \in Executions : EntryOK(f)
  BY DEF IInv
<1>2. ASSUME NEW r \in Runs, Progress(r), ~(Register(r) /\ execOf[r] = e)
      PROVE  active[e] # NoEntry /\ active'[e].owner = active[e].owner
  BY <1>1, <1>2, ProgressEntry
<1>3. ASSUME NEW r \in Runs, Register(r), execOf[r] = e
      PROVE  active'[e].owner = r /\ pc'[r] = "registered"
  BY <1>1, <1>3 DEF Register, Goto, TypeOK
<1>4. ASSUME NEW f \in Executions, NEW pcs \in [Runs -> Pcs], Settled(f, pcs)
      PROVE  active'[e] = active[e]
  BY <1>4, OtherEntries
<1>5. ASSUME NEW r \in Runs, FinalizeDenied(r) \/ Complete(r) PROVE active'[e] = active[e]
  <2>1. [pc EXCEPT ![r] = "done"] \in [Runs -> Pcs] /\ execOf[r] \in Executions
    BY <1>1, LifecycleAssumption DEF TypeOK, Pcs
  <2> QED BY <1>1, <1>4, <1>5, <2>1, EndKinds
<1>6. ASSUME NEW f \in Executions, StopActive(f) \/ \E r \in Runs : f = execOf[r] /\ Timeout(r)
      PROVE  active'[e] = active[e]
  BY <1>1, <1>4, <1>6, StopKinds DEF TypeOK
<1>7. ASSUME NEW kept \in SUBSET openLogs, NEW starters \in SUBSET Runs, Restart(kept, starters)
      PROVE  FALSE
  BY <1>7 DEF Restart
<1>8. ASSUME NEW r \in Runs, Throttle(r) PROVE active' = active
  BY <1>8 DEF Throttle
<1>9. ASSUME NEW f \in Executions, StopQueued(f) PROVE active' = active
  BY <1>9 DEF StopQueued
<1>10. CASE Aside \/ DisableLimit
  BY <1>10, AsideStays DEF DisableLimit
<1> QED
  BY <1>2, <1>3, <1>5, <1>6, <1>7, <1>8, <1>9, <1>10, StepKinds, LifecycleAssumption

LEMMA StaleStep ==
  ASSUME IInv, Next
  PROVE  NoStaleEntry'
<1> SUFFICES ASSUME NEW e \in Executions, active'[e] # NoEntry
             PROVE  Remover(active[e].owner)'
  BY DEF NoStaleEntry, Remover, NoEntry, Engine
<1>1. CASE pc'[active'[e].owner] = "registered"
  BY <1>1 DEF Remover
<1>2. CASE active[e] # NoEntry /\ active'[e].owner = active[e].owner
  <2>1. active[e].owner \in RunsOf(e) /\ Remover(active[e].owner)
    BY <1>2 DEF IInv, NoStaleEntry, EntryOK, Remover
  <2> QED BY <1>2, <2>1, RemoverStays
<1> QED
  BY <1>1, <1>2, OwnerKinds

-----------------------------------------------------------------------------
(* Every step keeps what is known of each row.                             *)

\* The process dies and starts again.
Restarts == \E kept \in SUBSET openLogs, starters \in SUBSET Runs : Restart(kept, starters)

LEMMA FaultsGrow ==
  ASSUME IInv, Next, faults > 0
  PROVE  faults' > 0
<1>1. faults \in Nat /\ TypeOK /\ QueueOK /\ \A e \in Executions : EntryOK(e)
  BY LifecycleAssumption DEF IInv, TypeOK
<1>2. faults' = faults \/ faults' = faults + 1
  <2>1. ASSUME NEW r \in Runs, Progress(r) PROVE faults' = faults \/ faults' = faults + 1
    BY <2>1 DEF Progress, Create, MarkRunning, MarkRunningFails, Register, Deny, SetRunning,
         StartEngine, Ends, EngineEnds, SaveResult, SaveResultFails, DenyUnsaved, RunFails,
         LoadFails, EngineAborts, Load,
         ResumeByWebhook, TimerFires
  <2>2. ASSUME NEW r \in Runs, Throttle(r) PROVE faults' = faults
    BY <2>2 DEF Throttle
  <2>3. ASSUME NEW r \in Runs, FinalizeDenied(r) \/ Complete(r) PROVE faults' = faults
    BY <2>3 DEF FinalizeDenied, Complete
  <2>4. ASSUME NEW r \in Runs, Timeout(r) PROVE faults' = faults
    BY <2>4 DEF Timeout
  <2>5. ASSUME NEW e \in Executions, StopQueued(e) \/ StopActive(e) PROVE faults' = faults
    BY <2>5 DEF StopQueued, StopActive
  <2>6. CASE Aside \/ DisableLimit \/ Restarts
    BY <2>6, AsideStays DEF DisableLimit, Restarts, Restart
  <2> QED BY <2>1, <2>2, <2>3, <2>4, <2>5, <2>6, StepKinds DEF Restarts
<1> QED
  BY <1>1, <1>2

\* A stop that is to be written is written, or lost with the process, or its write
\* fails.
LEMMA StopStays ==
  ASSUME IInv, Next, NEW e \in Executions, stop[e] \in {"before", "during"}, ~Restarts
  PROVE  stop'[e] = stop[e] \/ StopWrite(e) \/ (stop'[e] = "lost" /\ faults' > 0)
<1>1. TypeOK /\ QueueOK /\ \A f \in Executions : EntryOK(f)
  BY DEF IInv
<1>2. ASSUME NEW r \in Runs, Progress(r) PROVE stop' = stop
  BY <1>1, <1>2, ProgressMovesOn
<1>3. ASSUME NEW r \in Runs, Throttle(r) \/ FinalizeDenied(r) \/ Complete(r) \/ Timeout(r)
      PROVE  stop' = stop
  BY <1>3 DEF Throttle, FinalizeDenied, Complete, Timeout
<1>4. ASSUME NEW f \in Executions, StopQueued(f) \/ StopActive(f) \/ StopRead(f)
      PROVE  stop'[e] = stop[e]
  BY <1>1, <1>4 DEF StopQueued, StopActive, StopRead, Stop, TypeOK
<1>5. ASSUME NEW f \in Executions, StopWrite(f) PROVE stop'[e] = stop[e] \/ StopWrite(e)
  BY <1>1, <1>5 DEF StopWrite, Stop, TypeOK
<1>6. ASSUME NEW f \in Executions, StopWriteFails(f)
      PROVE  stop'[e] = stop[e] \/ (stop'[e] = "lost" /\ faults' > 0)
  <2>1. faults' > 0
    BY <1>1, <1>6, AsideFails
  <2> QED BY <1>1, <1>6, <2>1 DEF StopWriteFails, Stop, TypeOK
<1>7. CASE Aside
  <2>1. ASSUME NEW r \in Runs, SaveCancel(r) \/ SaveCancelFails(r) PROVE stop' = stop
    BY <2>1 DEF SaveCancel, SaveCancelFails
  <2>2. ASSUME NEW f \in Executions, TimePasses(f) PROVE stop' = stop
    BY <2>2 DEF TimePasses
  <2>3. CASE PollRead \/ PollSet \/ StopTracking
    BY <2>3 DEF PollRead, PollSet, StopTracking
  <2> QED BY <1>4, <1>5, <1>7, <1>6, <2>1, <2>2, <2>3 DEF Aside
<1>8. CASE DisableLimit
  BY <1>8 DEF DisableLimit
<1> QED
  BY <1>2, <1>3, <1>4, <1>5, <1>7, <1>8, StepKinds DEF Restarts

\* Who makes a row new or running.
LEMMA RowKinds ==
  ASSUME IInv, Next, NEW e \in Executions
  PROVE  \/ db'[e].status = db[e].status
         \/ \E r \in RunsOf(e) : Create(r) \/ MarkRunning(r) \/ SetRunning(r)
         \/ db'[e].status \notin {"new", "running"}
<1>1. TypeOK /\ QueueOK /\ \A f \in Executions : EntryOK(f)
  BY DEF IInv
<1>2. ASSUME NEW r \in Runs, Create(r) \/ MarkRunning(r) \/ SetRunning(r)
      PROVE  db'[e].status = db[e].status \/ r \in RunsOf(e)
  BY <1>1, <1>2, ActionWritesRow DEF WritesRow, RunsOf
<1>3. ASSUME NEW r \in Runs, Deny(r) \/ SaveResult(r) \/ SaveCancel(r)
      PROVE  db'[e].status = db[e].status \/ db'[e].status \notin {"new", "running"}
  <2>1. outcome[r] \notin {"new", "running"}
    BY <1>1 DEF TypeOK
  <2> QED BY <1>1, <1>3, <2>1, ActionWritesRow DEF WritesRow
<1>4. ASSUME NEW f \in Executions, StopWrite(f) \/ TimePasses(f)
      PROVE  db'[e].status = db[e].status \/ db'[e].status \notin {"new", "running"}
  BY <1>1, <1>4, ActionWritesRow DEF WritesRow
<1>5. ASSUME NEW r \in Runs, Progress(r)
      PROVE  \/ Create(r) \/ MarkRunning(r) \/ SetRunning(r) \/ Deny(r) \/ SaveResult(r)
             \/ db' = db
  BY <1>5 DEF Progress, MarkRunningFails, Register, StartEngine, Ends, EngineEnds, SaveResultFails,
       DenyUnsaved, RunFails, LoadFails,
       EngineAborts, Load, ResumeByWebhook, TimerFires
<1>6. ASSUME NEW r \in Runs, Throttle(r) \/ FinalizeDenied(r) \/ Complete(r) \/ Timeout(r)
      PROVE  db' = db
  BY <1>6 DEF Throttle, FinalizeDenied, Complete, Timeout
<1>7. ASSUME NEW f \in Executions, StopQueued(f) \/ StopActive(f) \/ StopRead(f) PROVE db' = db
  BY <1>7 DEF StopQueued, StopActive, StopRead
<1>8. CASE PollRead \/ PollSet \/ StopTracking \/ DisableLimit
  BY <1>8 DEF PollRead, PollSet, StopTracking, DisableLimit
<1>9. ASSUME NEW kept \in SUBSET openLogs, NEW starters \in SUBSET Runs, Restart(kept, starters)
      PROVE  db'[e].status = db[e].status \/ db'[e].status \notin {"new", "running"}
  <2>1. db'[e] = db[e] \/ db'[e] = Recovered(db[e])
    BY <1>9 DEF Restart
  <2> QED BY <1>1, <2>1 DEF Recovered, TypeOK
<1>10. CASE Aside
  BY <1>1, <1>3, <1>4, <1>7, <1>8, <1>10, AsideFails DEF Aside
<1> QED
  BY <1>2, <1>3, <1>5, <1>6, <1>7, <1>8, <1>9, <1>10, StepKinds

\* A run that will take a row which is new on.
Takes(r) == pc[r] \in {"created", "queued", "admitted"}

\* A run that is to take a row on still is, has taken it on, or will not because
\* a stop request took it out of the queue or a write failed.
LEMMA TakerStays ==
  ASSUME IInv, Next, ~Restarts, NEW w \in Runs, Takes(w)
  PROVE  Takes(w)' \/ MarkRunning(w) \/ stop'[execOf[w]] = "before" \/ faults' > 0
<1>1. TypeOK /\ QueueOK /\ \A f \in Executions : EntryOK(f)
  BY DEF IInv
<1>2. pc[w] \in {"created", "queued", "admitted"}
  BY DEF Takes
<1>3. ASSUME NEW r \in Runs, Progress(r)
      PROVE  Takes(w)' \/ MarkRunning(w) \/ faults' > 0
  <2>1. PICK label \in Pcs : <<pc[r], label>> \in Edges /\ MovesOn(r, label)
    BY <1>1, <1>3, ProgressMovesOn
  <2>2. CASE r # w
    BY <1>2, <2>1, <2>2 DEF MovesOn, Takes
  <2>3. CASE r = w
    <3>1. pc[r] = "admitted"
      BY <1>2, <2>1, <2>3 DEF Edges
    <3>2. MarkRunning(r) \/ MarkRunningFails(r)
      BY <1>3, <3>1 DEF Progress, Create, Register, Deny, SetRunning, StartEngine, Ends,
           EngineEnds, SaveResult, SaveResultFails, DenyUnsaved, RunFails, LoadFails, EngineAborts,
           Load, ResumeByWebhook, TimerFires
    <3>3. MarkRunningFails(r) => faults' > 0
      BY <1>1, LifecycleAssumption DEF MarkRunningFails, TypeOK
    <3> QED BY <2>3, <3>2, <3>3
  <2> QED BY <2>2, <2>3
<1>4. ASSUME NEW r \in Runs, Throttle(r) PROVE Takes(w)'
  <2>1. MovesOn(r, "queued") \/ MovesOn(r, "admitted")
    BY <1>1, <1>4, GotoMovesOn DEF Throttle, Pcs
  <2> QED BY <1>2, <2>1 DEF MovesOn, Takes
<1>5. ASSUME NEW r \in Runs, FinalizeDenied(r) \/ Complete(r) PROVE Takes(w)'
  <2> DEFINE pcs == [pc EXCEPT ![r] = "done"]
  <2>1. execOf[r] \in Executions /\ pcs \in [Runs -> Pcs] /\ pc[r] \in {"denied", "saved"}
    BY <1>1, <1>5, EndKinds, LifecycleAssumption DEF TypeOK, Pcs
  <2>2. w # r /\ pcs[w] = pc[w]
    BY <1>1, <1>2, <2>1 DEF TypeOK
  <2>3. CASE Settled(execOf[r], pcs)
    <3> HIDE DEF pcs
    <3> QED BY <1>1, <1>2, <2>1, <2>2, <2>3, SettledRun DEF Takes
  <2>4. CASE MovesOn(r, "done")
    BY <1>2, <2>2, <2>4 DEF MovesOn, Takes
  <2> QED BY <1>1, <1>5, <2>1, <2>3, <2>4, EndKinds
<1>6. ASSUME NEW f \in Executions, StopActive(f) \/ \E r \in Runs : f = execOf[r] /\ Timeout(r)
      PROVE  Takes(w)'
  <2>1. Settled(f, pc) /\ pc \in [Runs -> Pcs]
    BY <1>1, <1>6, StopKinds DEF TypeOK
  <2> QED BY <1>1, <1>2, <2>1, SettledRun DEF Takes
<1>7. ASSUME NEW f \in Executions, StopQueued(f)
      PROVE  Takes(w)' \/ stop'[execOf[w]] = "before"
  <2>1. PICK d \in Waiters, W \in SUBSET Waiters :
          execOf[d] = f /\ d \notin W /\ Wakes(W, [pc EXCEPT ![d] = "dropped"], {})
    BY <1>1, <1>7, StopQueuedWakes
  <2>2. w # d => pc'[w] = IF w \in W THEN "admitted" ELSE pc[w]
    BY <1>1, <2>1 DEF Wakes, Waiters, TypeOK
  <2>3. stop'[f] = "before"
    BY <1>1, <1>7 DEF StopQueued, Stop, TypeOK
  <2> QED BY <1>2, <2>1, <2>2, <2>3 DEF Takes
<1>8. CASE Aside
  BY <1>8, AsideStays DEF Takes
<1>9. CASE DisableLimit
  BY <1>9 DEF Takes, DisableLimit, runVars
<1> QED
  BY <1>3, <1>4, <1>5, <1>6, <1>7, <1>8, <1>9, StepKinds, LifecycleAssumption DEF Restarts

LEMMA RestartServes ==
  ASSUME TypeOK, Restarts, NEW e \in Executions, db'[e].status = "new"
  PROVE  \E r \in RunsOf(e) : Takes(r)'
<1>1. PICK kept \in SUBSET openLogs, starters \in SUBSET Runs : Restart(kept, starters)
  BY DEF Restarts
<1>2. db'[e] = db[e] \/ db'[e] = Recovered(db[e])
  BY <1>1 DEF Restart
<1>3. db[e].status = "new"
  BY <1>2 DEF Recovered, TypeOK
<1>4. { execOf[r] : r \in starters } = Enqueued
  BY <1>1 DEF Restart
<1>5. PICK r \in starters : execOf[r] = e
  BY <1>3, <1>4 DEF Enqueued
<1>6. pc'[r] = "created"
  BY <1>1, <1>5 DEF Restart
<1> QED
  BY <1>5, <1>6 DEF RunsOf, Takes

LEMMA EnqueuedStep ==
  ASSUME IInv, Next
  PROVE  EnqueuedHasRun'
<1> SUFFICES ASSUME NEW e \in Executions, db'[e].status = "new"
             PROVE  (\E r \in RunsOf(e) : Takes(r)') \/ stop'[e] = "before" \/ faults' > 0
  BY DEF EnqueuedHasRun, Takes, RunsOf
<1>1. TypeOK
  BY DEF IInv
<1>2. CASE Restarts
  BY <1>1, <1>2, RestartServes
<1>3. ASSUME NEW r \in RunsOf(e), MarkRunning(r) \/ SetRunning(r) PROVE FALSE
  BY <1>1, <1>3, ActionWritesRow DEF WritesRow, RunsOf
<1>4. CASE ~Restarts /\ db[e].status = "new"
  <2>1. CASE \E r \in RunsOf(e) : Takes(r)
    <3>1. PICK r \in RunsOf(e) : Takes(r)
      BY <2>1
    <3>2. r \in Runs /\ execOf[r] = e
      BY DEF RunsOf
    <3> QED BY <1>3, <1>4, <3>1, <3>2, TakerStays
  <2>2. CASE stop[e] = "before"
    <3>1. ~StopWrite(e)
      BY <1>1, ActionWritesRow DEF WritesRow
    <3> QED BY <1>4, <2>2, <3>1, StopStays
  <2>3. CASE faults > 0
    BY <2>3, FaultsGrow
  <2> QED BY <1>4, <2>1, <2>2, <2>3 DEF IInv, EnqueuedHasRun, Takes
<1>5. CASE ~Restarts /\ db[e].status # "new"
  <2>1. PICK r \in RunsOf(e) : Create(r)
    BY <1>3, <1>5, RowKinds
  <2>2. pc'[r] = "created"
    BY <1>1, <2>1 DEF Create, Goto, TypeOK, RunsOf
  <2> QED BY <2>2 DEF Takes
<1> QED
  BY <1>2, <1>4, <1>5

\* A run that will write the row of its execution.
Writes(r) ==
  \/ pc[r] \in {"marked", "registered", "starting"}
  \/ pc[r] \in {"executing", "saving"} /\ r \notin cancelled
  \/ r \in cancelWrite

LEMMA ProgressWrites ==
  ASSUME IInv, NEW w \in Runs, Writes(w), w \notin cancelWrite, Progress(w)
  PROVE  Writes(w)' \/ Deny(w) \/ SaveResult(w) \/ faults' > 0
<1>1. TypeOK /\ RunOK(w) /\ pc \in [Runs -> Pcs]
  BY DEF IInv, TypeOK
<1>2. /\ pc[w] \in {"marked", "registered", "starting", "executing", "saving"}
      /\ pc[w] \in {"executing", "saving"} => w \notin cancelled
      /\ cancelled' = cancelled
  BY <1>1, ProgressMovesOn DEF Writes
<1>3. w \notin cancelled
  BY <1>1, <1>2 DEF RunOK, Engine
<1>4. \/ Register(w) \/ Deny(w) \/ SetRunning(w) \/ StartEngine(w) \/ Ends(w)
      \/ SaveResult(w) \/ SaveResultFails(w) \/ DenyUnsaved(w) \/ RunFails(w)
  BY <1>2, <1>3 DEF Progress, Create, MarkRunning, MarkRunningFails, EngineAborts, Load, LoadFails,
       ResumeByWebhook, TimerFires
<1>5. CASE Register(w) \/ SetRunning(w) \/ StartEngine(w) \/ Ends(w)
  <2>1. pc'[w] \in {"registered", "starting", "executing", "saving"}
    BY <1>1, <1>5 DEF Register, SetRunning, StartEngine, Ends, EngineEnds, Goto
  <2> QED BY <1>2, <1>3, <2>1 DEF Writes
<1>6. CASE SaveResultFails(w) \/ DenyUnsaved(w) \/ RunFails(w)
  BY <1>1, <1>6, LifecycleAssumption DEF SaveResultFails, DenyUnsaved, RunFails, TypeOK
<1> QED
  BY <1>4, <1>5, <1>6

\* A run that will write goes on to write, or has written, or its write failed.
LEMMA WriterStays ==
  ASSUME IInv, Next, ~Restarts, NEW w \in Runs, Writes(w)
  PROVE  Writes(w)' \/ Deny(w) \/ SaveResult(w) \/ SaveCancel(w) \/ faults' > 0
<1>1. TypeOK /\ QueueOK /\ \A f \in Executions : EntryOK(f)
  BY DEF IInv
<1>2. w \notin cancelWrite =>
        pc[w] \in {"marked", "registered", "starting", "executing", "saving"}
  BY DEF Writes
<1>3. ASSUME NEW r \in Runs, Progress(r)
      PROVE  Writes(w)' \/ Deny(w) \/ SaveResult(w) \/ faults' > 0
  <2>1. cancelWrite' = cancelWrite /\ cancelled' = cancelled
    BY <1>1, <1>3, ProgressMovesOn
  <2>2. PICK label \in Pcs : MovesOn(r, label)
    BY <1>1, <1>3, ProgressMovesOn
  <2>3. CASE w \in cancelWrite
    BY <2>1, <2>3 DEF Writes
  <2>4. CASE r = w /\ w \notin cancelWrite
    BY <1>3, <2>4, ProgressWrites
  <2>5. CASE r # w
    BY <2>1, <2>2, <2>5 DEF Writes, MovesOn
  <2> QED BY <2>3, <2>4, <2>5
<1>4. ASSUME cancelWrite' = cancelWrite, cancelled' = cancelled,
             w \notin cancelWrite => pc'[w] = pc[w]
      PROVE  Writes(w)'
  BY <1>4 DEF Writes
<1>5. ASSUME NEW r \in Runs, Throttle(r) PROVE Writes(w)'
  <2>1. pc[r] = "created" /\ (w # r => pc'[w] = pc[w])
    BY <1>1, <1>5 DEF Throttle, Goto, TypeOK
  <2>2. cancelWrite' = cancelWrite /\ cancelled' = cancelled
    BY <1>5 DEF Throttle
  <2> QED BY <1>2, <1>4, <2>1, <2>2
<1>6. ASSUME NEW r \in Runs, FinalizeDenied(r) \/ Complete(r) PROVE Writes(w)'
  <2> DEFINE pcs == [pc EXCEPT ![r] = "done"]
  <2>1. /\ execOf[r] \in Executions /\ pcs \in [Runs -> Pcs] /\ pc[r] \in {"denied", "saved"}
        /\ cancelWrite' = cancelWrite /\ cancelled' = cancelled
    BY <1>1, <1>6, EndKinds, LifecycleAssumption DEF TypeOK, Pcs
  <2>2. w \notin cancelWrite => w # r /\ pcs[w] = pc[w]
    BY <1>1, <1>2, <2>1 DEF TypeOK
  <2>3. CASE Settled(execOf[r], pcs)
    <3> HIDE DEF pcs
    <3>1. pc[w] # "queued" => pc'[w] = pcs[w]
      BY <1>1, <2>1, <2>3, SettledRun
    <3> QED BY <1>2, <1>4, <2>1, <2>2, <3>1
  <2>4. CASE MovesOn(r, "done")
    BY <1>4, <2>1, <2>2, <2>4 DEF MovesOn
  <2> QED BY <1>1, <1>6, <2>1, <2>3, <2>4, EndKinds
<1>7. ASSUME NEW f \in Executions, StopActive(f) \/ \E r \in Runs : f = execOf[r] /\ Timeout(r)
      PROVE  Writes(w)'
  <2>1. Settled(f, pc) /\ pc \in [Runs -> Pcs]
    BY <1>1, <1>7, StopKinds DEF TypeOK
  <2>2. PICK hit \in SUBSET Runs : cancelled' = cancelled \cup hit /\ cancelWrite' = cancelWrite \cup hit
    BY <1>1, <1>7, StopKinds
  <2>3. w \notin cancelWrite => pc'[w] = pc[w]
    BY <1>1, <1>2, <2>1, SettledRun
  <2> QED BY <2>2, <2>3 DEF Writes
<1>8. ASSUME NEW f \in Executions, StopQueued(f) PROVE Writes(w)'
  <2>1. PICK d \in Waiters, W \in SUBSET Waiters : Wakes(W, [pc EXCEPT ![d] = "dropped"], {})
    BY <1>1, <1>8, StopQueuedWakes
  <2>2. w \notin cancelWrite => pc'[w] = pc[w]
    BY <1>1, <1>2, <2>1 DEF Wakes, Waiters, TypeOK
  <2>3. cancelWrite' = cancelWrite /\ cancelled' = cancelled
    BY <1>8 DEF StopQueued
  <2> QED BY <1>4, <2>2, <2>3
<1>9. CASE Aside
  <2>1. pc' = pc /\ cancelled' = cancelled
    BY <1>9, AsideStays
  <2>2. ASSUME NEW r \in Runs, SaveCancel(r) PROVE Writes(w)' \/ SaveCancel(w)
    BY <2>1, <2>2 DEF SaveCancel, Writes
  <2>3. ASSUME NEW f \in Executions, StopRead(f) \/ StopWrite(f) \/ TimePasses(f)
        PROVE  cancelWrite' = cancelWrite
    BY <2>3 DEF StopRead, StopWrite, TimePasses, runVars
  <2>4. CASE PollRead \/ PollSet \/ StopTracking
    <3>1. UNCHANGED runVars
      BY <2>4 DEF PollRead, PollSet, StopTracking
    <3> QED BY <1>4, <2>1, <3>1 DEF runVars
  <2> QED BY <1>1, <1>4, <1>9, <2>1, <2>2, <2>3, <2>4, AsideFails DEF Aside
<1>10. CASE DisableLimit
  BY <1>10 DEF Writes, DisableLimit, runVars
<1> QED
  BY <1>3, <1>5, <1>6, <1>7, <1>8, <1>9, <1>10, StepKinds, LifecycleAssumption DEF Restarts

\* A row a start has left running on purpose stays one of these until a run takes it.
LEMMA UnrecoveredStays ==
  ASSUME IInv, Next, ~Restarts, NEW e \in Executions, e \in unrecovered
  PROVE  e \in unrecovered' \/ \E r \in RunsOf(e) : MarkRunning(r) \/ SetRunning(r)
<1>1. TypeOK
  BY DEF IInv
<1>2. ASSUME NEW r \in Runs, MarkRunning(r) \/ SetRunning(r)
      PROVE  e \in unrecovered' \/ r \in RunsOf(e)
  BY <1>2 DEF MarkRunning, SetRunning, RunsOf
<1>3. ASSUME NEW r \in Runs, Progress(r)
      PROVE  unrecovered' = unrecovered \/ MarkRunning(r) \/ SetRunning(r)
  BY <1>3 DEF Progress, Create, MarkRunningFails, Register, Deny, StartEngine, Ends, EngineEnds,
       SaveResult, SaveResultFails, DenyUnsaved, RunFails, LoadFails, EngineAborts, Load,
       ResumeByWebhook, TimerFires, logVars
<1>4. ASSUME NEW r \in Runs, Throttle(r) \/ FinalizeDenied(r) \/ Complete(r) \/ Timeout(r)
      PROVE  unrecovered' = unrecovered
  BY <1>4 DEF Throttle, FinalizeDenied, Complete, Timeout, logVars
<1>5. ASSUME NEW f \in Executions, StopQueued(f) \/ StopActive(f) PROVE unrecovered' = unrecovered
  BY <1>5 DEF StopQueued, StopActive, logVars
<1>6. CASE Aside \/ DisableLimit
  BY <1>6, AsideStays DEF DisableLimit, logVars
<1> QED
  BY <1>2, <1>3, <1>4, <1>5, <1>6, StepKinds DEF Restarts

LEMMA RunningStep ==
  ASSUME IInv, Next, NEW e \in Executions
  PROVE  RunningOK(e)'
<1> SUFFICES ASSUME db'[e].status = "running"
             PROVE  \/ \E r \in RunsOf(e) : Writes(r)'
                    \/ stop'[e] = "during" \/ e \in unrecovered' \/ faults' > 0
  BY DEF RunningOK, Writes, RunsOf
<1>1. TypeOK /\ \A r \in RunsOf(e) : r \in Runs /\ execOf[r] = e
  BY DEF IInv, RunsOf
<1>2. ASSUME NEW kept \in SUBSET openLogs, NEW starters \in SUBSET Runs, Restart(kept, starters)
      PROVE  e \in unrecovered'
  <2>1. db'[e] = IF e \in Unfinished \ kept THEN Recovered(db[e]) ELSE db[e]
    BY <1>2 DEF Restart
  <2>2. Recovered(db[e]).status # "running"
    BY <1>1 DEF Recovered, TypeOK
  <2>3. db[e].status = "running" /\ ~(e \in Unfinished \ kept)
    BY <2>1, <2>2
  <2>4. e \in kept
    BY <2>3 DEF Unfinished
  <2> QED BY <1>2, <2>3, <2>4 DEF Restart
<1>3. ASSUME NEW r \in RunsOf(e), MarkRunning(r) \/ SetRunning(r) PROVE Writes(r)'
  <2>1. pc'[r] \in {"marked", "starting"}
    BY <1>1, <1>3 DEF MarkRunning, SetRunning, Goto, TypeOK
  <2> QED BY <2>1 DEF Writes
<1>4. CASE ~Restarts /\ db[e].status = "running"
  <2>1. ASSUME NEW w \in RunsOf(e), Writes(w) PROVE Writes(w)' \/ faults' > 0
    <3>1. ~Deny(w) /\ ~SaveResult(w) /\ ~SaveCancel(w)
      <4>1. outcome[w] # "running"
        BY <1>1 DEF TypeOK
      <4> QED BY <1>1, <4>1, ActionWritesRow DEF WritesRow
    <3> QED BY <1>1, <1>4, <2>1, <3>1, WriterStays
  <2>2. CASE stop[e] = "during"
    <3>1. ~StopWrite(e)
      BY <1>1, ActionWritesRow DEF WritesRow
    <3> QED BY <1>4, <2>2, <3>1, StopStays
  <2>3. CASE e \in unrecovered
    BY <1>3, <1>4, <2>3, UnrecoveredStays
  <2>4. CASE faults > 0
    BY <2>4, FaultsGrow
  <2>5. RunningOK(e)
    BY DEF IInv
  <2> QED BY <1>4, <2>1, <2>2, <2>3, <2>4, <2>5 DEF RunningOK, Writes
<1>5. CASE ~Restarts /\ db[e].status # "running"
  <2>1. PICK r \in RunsOf(e) : Create(r) \/ MarkRunning(r) \/ SetRunning(r)
    BY <1>5, RowKinds
  <2>2. ~Create(r)
    BY <1>1, <2>1, ActionWritesRow DEF WritesRow
  <2> QED BY <1>3, <2>1, <2>2
<1> QED
  BY <1>2, <1>4, <1>5 DEF Restarts

-----------------------------------------------------------------------------
(* The theorems.                                                           *)

LEMMA InitInvariant == Init => IInv
<1> SUFFICES ASSUME Init PROVE IInv
  OBVIOUS
<1>1. TypeOK
  <2>1. productionQueue \in Queues(Runs, Executions)
    BY LifecycleAssumption DEF Init, NewQueue, Queues
  <2> QED BY <2>1, LifecycleAssumption DEF Init, TypeOK, Pcs, Statuses, NoEntry
<1>2. QueueOK
  <2>1. productionQueue.queue = <<>> /\ Waiters = {}
    BY DEF Init, NewQueue, Waiters
  <2> QED BY <2>1 DEF QueueOK, Lists, ToSet
<1>3. ASSUME NEW r \in Runs PROVE RunOK(r)
  BY DEF Init, RunOK
<1>4. ASSUME NEW e \in Executions PROVE EntryOK(e) /\ RunningOK(e)
  BY DEF Init, EntryOK, RunningOK
<1>5. EnqueuedHasRun /\ NoStaleEntry
  BY DEF Init, EnqueuedHasRun, NoStaleEntry
<1> QED
  BY <1>1, <1>2, <1>3, <1>4, <1>5 DEF IInv

LEMMA NextInvariant == IInv /\ [Next]_vars => IInv'
<1> SUFFICES ASSUME IInv, [Next]_vars PROVE IInv'
  OBVIOUS
<1>1. CASE Next
  <2>1. TypeOK' /\ QueueOK'
    BY <1>1, TypeStep, QueueStep DEF IInv
  <2>2. \A r \in Runs : RunOK(r)'
    BY <1>1, RunStep
  <2>3. \A e \in Executions : EntryOK(e)' /\ RunningOK(e)'
    BY <1>1, EntryStep, RunningStep
  <2>4. EnqueuedHasRun' /\ NoStaleEntry'
    BY <1>1, EnqueuedStep, StaleStep
  <2> QED BY <2>1, <2>2, <2>3, <2>4 DEF IInv
<1>2. CASE UNCHANGED vars
  BY <1>2 DEF IInv, vars, runVars, slotVars, waitVars, logVars, TypeOK, QueueOK, Waiters, RunOK,
       EntryOK, RunningOK, EnqueuedHasRun, NoStaleEntry
<1> QED
  BY <1>1, <1>2

\* What the runs, the map, the queue and the table have to do with each other,
\* over stops, timeouts, failed writes, shutdowns and crashes.
THEOREM Invariance == Spec => []IInv
<1>1. QED
  BY InitInvariant, NextInvariant, PTL DEF Spec

\* The life of executions keeps its types.
THEOREM TypeCorrect == Spec => []TypeOK
<1>1. IInv => TypeOK
  BY DEF IInv
<1> QED
  BY <1>1, Invariance, PTL

\* No row is left behind: one that is enqueued or running has somebody who will
\* write it, unless a write failed.
THEOREM NoRowIsForgotten == Spec => []UnfinishedHasRun
<1>1. IInv => UnfinishedHasRun
  <2> SUFFICES ASSUME IInv PROVE RunningRowHasRun
    BY DEF IInv, UnfinishedHasRun
  <2> QED BY DEF IInv, RunningOK, RunningRowHasRun
<1> QED
  BY <1>1, Invariance, PTL

\* Every entry of the active executions has a run that will remove it, its owner,
\* unless that failed between the two writes that say it is running.
THEOREM NoEntryStays == Spec => []NoStaleEntry
<1>1. IInv => NoStaleEntry
  BY DEF IInv
<1> QED
  BY <1>1, Invariance, PTL

-----------------------------------------------------------------------------
(* The capacity. Where every execution runs once, Register() overwrites no *)
(* entry, and until a write fails no run gives up between the two.         *)

OneRunEach == \A r, s \in Runs : execOf[r] = execOf[s] => r = s

Held(r) == r \in slot => pc[r] \in {"admitted", "marked"} \/ active[execOf[r]].owner = r

LEMMA SettledHeld ==
  ASSUME TypeOK, NEW e \in Executions, NEW pcs \in [Runs -> Pcs], Settled(e, pcs),
         NEW t \in Runs, RunOK(t), Held(t),
         pc[t] \in {"admitted", "marked"} => pcs[t] = pc[t]
  PROVE  Held(t)'
<1> SUFFICES ASSUME t \in slot'
             PROVE  pc'[t] \in {"admitted", "marked"} \/ active'[execOf[t]].owner = t
  BY DEF Held
<1>1. \/ pc[t] = "queued" /\ pc'[t] = "admitted"
      \/ pc'[t] = pcs[t] /\ t \in slot /\ pc[t] # "queued"
  BY SettledRun DEF RunOK, Early
<1>2. CASE pc[t] # "queued" /\ t \in slot /\ pc[t] \notin {"admitted", "marked"}
  <2>1. t \notin Owners(e)
    BY <1>2, SettledRun
  <2>2. active[execOf[t]].owner = t /\ active[execOf[t]] # NoEntry
    BY <1>2, LifecycleAssumption DEF Held, NoEntry
  <2>3. execOf[t] # e
    BY <2>1, <2>2 DEF Owners
  <2>4. active'[execOf[t]] = active[execOf[t]]
    BY <2>3, LifecycleAssumption DEF Settled, TypeOK
  <2> QED BY <2>2, <2>4
<1>3. CASE pc[t] \in {"admitted", "marked"}
  BY <1>1, <1>3
<1> QED
  BY <1>1, <1>2, <1>3

LEMMA HeldStep ==
  ASSUME IInv, Next, OneRunEach, faults' = 0, NEW t \in Runs, Held(t)
  PROVE  Held(t)'
<1>1. /\ TypeOK /\ QueueOK /\ RunOK(t) /\ execOf[t] \in Executions
      /\ \A f \in Executions : EntryOK(f)
  BY LifecycleAssumption DEF IInv
<1>2. ASSUME NEW r \in Runs, Progress(r) PROVE Held(t)'
  <2>1. PICK label \in Pcs : <<pc[r], label>> \in Edges /\ MovesOn(r, label)
    BY <1>1, <1>2, ProgressMovesOn
  <2>2. slot' = slot
    BY <1>1, <1>2, ProgressMovesOn
  <2>3. CASE Register(r)
    <3>1. CASE t = r
      BY <1>1, <2>3, <3>1 DEF Register, Held, TypeOK
    <3>2. CASE t # r
      <4>1. execOf[r] # execOf[t]
        BY <3>2 DEF OneRunEach
      <4>2. active'[execOf[t]].owner = active[execOf[t]].owner
        BY <1>1, <1>2, <4>1, ProgressEntry
      <4> QED BY <2>1, <2>2, <3>2, <4>2 DEF Held, MovesOn
    <3> QED BY <3>1, <3>2
  <2>4. CASE ~Register(r)
    <3>1. active'[execOf[t]].owner = active[execOf[t]].owner
      BY <1>1, <1>2, <2>4, ProgressEntry
    <3>2. ~MarkRunningFails(r)
      BY <1>1, LifecycleAssumption DEF MarkRunningFails, TypeOK
    <3>3. pc[r] = "admitted" => label = "marked"
      BY <1>1, <1>2, <2>1, <3>2 DEF Progress, Create, MarkRunning, Register, Deny, SetRunning,
           StartEngine, Ends, EngineEnds, SaveResult, SaveResultFails, DenyUnsaved, RunFails,
           LoadFails, EngineAborts, Load,
           ResumeByWebhook, TimerFires, Goto, MovesOn, TypeOK
    <3>4. pc[r] # "marked"
      BY <1>2, <2>4 DEF Progress, Create, MarkRunning, MarkRunningFails, Deny, SetRunning,
           StartEngine, Ends, EngineEnds, SaveResult, SaveResultFails, DenyUnsaved, RunFails,
           LoadFails, EngineAborts, Load,
           ResumeByWebhook, TimerFires
    <3> QED BY <2>1, <2>2, <3>1, <3>3, <3>4 DEF Held, MovesOn
  <2> QED BY <2>3, <2>4
<1>3. ASSUME NEW r \in Runs, Throttle(r) PROVE Held(t)'
  <2>1. /\ active' = active /\ pc[r] = "created"
        /\ \/ MovesOn(r, "queued") /\ slot' = slot
           \/ MovesOn(r, "admitted") /\ slot' = slot
           \/ MovesOn(r, "admitted") /\ slot' = slot \cup {r}
    BY <1>1, <1>3, GotoMovesOn DEF Throttle, Pcs
  <2>2. r \notin slot
    BY <2>1 DEF IInv, RunOK, Early
  <2> QED BY <2>1, <2>2 DEF Held, MovesOn
<1>4. ASSUME NEW r \in Runs, FinalizeDenied(r) \/ Complete(r) PROVE Held(t)'
  <2> DEFINE pcs == [pc EXCEPT ![r] = "done"]
  <2>1. execOf[r] \in Executions /\ pcs \in [Runs -> Pcs] /\ pc[r] \in {"denied", "saved"}
    BY <1>1, <1>4, EndKinds, LifecycleAssumption DEF TypeOK, Pcs
  <2>2. pc[t] \in {"admitted", "marked"} => pcs[t] = pc[t]
    BY <1>1, <2>1 DEF TypeOK
  <2>3. CASE Settled(execOf[r], pcs)
    <3> HIDE DEF pcs
    <3> QED BY <1>1, <2>1, <2>2, <2>3, SettledHeld
  <2>4. CASE MovesOn(r, "done") /\ UNCHANGED <<active, slot>>
    BY <2>1, <2>4 DEF Held, MovesOn
  <2> QED BY <1>1, <1>4, <2>1, <2>3, <2>4, EndKinds
<1>5. ASSUME NEW f \in Executions, StopActive(f) \/ \E r \in Runs : f = execOf[r] /\ Timeout(r)
      PROVE  Held(t)'
  <2>1. Settled(f, pc) /\ pc \in [Runs -> Pcs]
    BY <1>1, <1>5, StopKinds DEF TypeOK
  <2> QED BY <1>1, <2>1, SettledHeld
<1>6. ASSUME NEW f \in Executions, StopQueued(f) PROVE Held(t)'
  <2>1. PICK d \in Waiters, W \in SUBSET Waiters :
          d \notin W /\ Wakes(W, [pc EXCEPT ![d] = "dropped"], {})
    BY <1>1, <1>6, StopQueuedWakes
  <2>2. /\ pc'[t] = IF t \in W THEN "admitted" ELSE IF t = d THEN "dropped" ELSE pc[t]
        /\ t \in slot' => t \in slot \/ t \in W
        /\ t = d => pc[t] = "queued"
    BY <1>1, <2>1 DEF Wakes, Waiters, TypeOK
  <2>3. active' = active /\ (t = d => t \notin slot)
    BY <1>1, <1>6, <2>2 DEF StopQueued, RunOK, Early
  <2> QED BY <2>2, <2>3 DEF Held
<1>7. CASE Aside
  BY <1>7, AsideStays DEF Held
<1>8. CASE DisableLimit
  BY <1>8 DEF Held, DisableLimit, runVars
<1>9. CASE Restarts
  BY <1>9 DEF Held, Restarts, Restart
<1> QED
  BY <1>2, <1>3, <1>4, <1>5, <1>6, <1>7, <1>8, <1>9, StepKinds, LifecycleAssumption DEF Restarts

\* Where every execution runs once, and no write has failed, capacity is held by
\* executions that are active or about to be.
THEOREM CapacityComesBack == OneRunEach => (Spec => [](faults = 0 => SlotHeldWhileActive))
<1> DEFINE J == faults = 0 => SlotHeldWhileActive
<1> SUFFICES ASSUME OneRunEach PROVE Spec => []J
  OBVIOUS
<1>1. Init => J
  BY DEF Init, SlotHeldWhileActive
<1>2. IInv /\ J /\ [Next]_vars => J'
  <2> SUFFICES ASSUME IInv, J, [Next]_vars, faults' = 0 PROVE SlotHeldWhileActive'
    OBVIOUS
  <2>1. faults = 0
    <3>1. faults \in Nat
      BY LifecycleAssumption DEF IInv, TypeOK
    <3>2. CASE Next
      BY <3>1, <3>2, FaultsGrow
    <3>3. CASE UNCHANGED vars
      BY <3>3 DEF vars
    <3> QED BY <3>2, <3>3
  <2>2. \A t \in Runs : Held(t)
    BY <2>1 DEF SlotHeldWhileActive, Held
  <2>3. CASE Next
    <3>1. \A t \in Runs : Held(t)'
      BY <2>2, <2>3, HeldStep
    <3>2. slot' \subseteq Runs
      BY <2>3, TypeStep DEF IInv, TypeOK
    <3> QED BY <3>1, <3>2 DEF SlotHeldWhileActive, Held
  <2>4. CASE UNCHANGED vars
    BY <2>1, <2>4 DEF SlotHeldWhileActive, vars, runVars, slotVars
  <2> QED BY <2>3, <2>4
<1> QED
  BY <1>1, <1>2, Invariance, PTL DEF Spec

\* The same as the invariant of such an instance: all capacity has come back when
\* no execution is left.
THEOREM NoCapacityLeaks == OneRunEach /\ MaxFaults = 0 => (Spec => []Inv)
<1> SUFFICES ASSUME OneRunEach, MaxFaults = 0 PROVE Spec => []Inv
  OBVIOUS
<1>1. TypeOK /\ (faults = 0 => SlotHeldWhileActive) => Inv
  BY DEF TypeOK, Inv
<1> QED
  BY <1>1, TypeCorrect, CapacityComesBack, PTL

-----------------------------------------------------------------------------
(* An execution that was stopped while it was queued. It never runs after  *)
(* that because no other run of it is under way, which holds as long as    *)
(* each run begins with a row that is created or enqueued. A resumed       *)
(* execution begins otherwise, so no run enters a wait here.               *)

\* The step of one run, within the life of a process.
LEMMA RunMoves ==
  ASSUME IInv, Next, ~Restarts, NEW t \in Runs
  PROVE  \/ pc'[t] = pc[t]
         \/ <<pc[t], pc'[t]>> \in Edges /\ Progress(t)
         \/ pc[t] = "created" /\ pc'[t] \in {"queued", "admitted"} /\ Throttle(t)
         \/ pc[t] = "queued" /\ pc'[t] = "admitted"
         \/ pc[t] \in {"denied", "saved"} /\ pc'[t] = "done"
         \/ pc[t] = "queued" /\ pc'[t] = "dropped" /\ StopQueued(execOf[t])
<1>1. /\ TypeOK /\ QueueOK /\ \A f \in Executions : EntryOK(f)
      /\ pc \in [Runs -> Pcs]
  BY DEF IInv, TypeOK
<1>2. ASSUME NEW r \in Runs, Progress(r)
      PROVE  pc'[t] = pc[t] \/ (<<pc[t], pc'[t]>> \in Edges /\ Progress(t))
  BY <1>1, <1>2, ProgressMovesOn DEF MovesOn
<1>3. ASSUME NEW r \in Runs, Throttle(r)
      PROVE  \/ pc'[t] = pc[t]
             \/ pc[t] = "created" /\ pc'[t] \in {"queued", "admitted"} /\ Throttle(t)
  <2>1. pc[r] = "created" /\ (MovesOn(r, "queued") \/ MovesOn(r, "admitted"))
    BY <1>1, <1>3, GotoMovesOn DEF Throttle, Pcs
  <2> QED BY <1>3, <2>1 DEF MovesOn
<1>4. ASSUME NEW r \in Runs, FinalizeDenied(r) \/ Complete(r)
      PROVE  \/ pc'[t] = pc[t] \/ (pc[t] = "queued" /\ pc'[t] = "admitted")
             \/ (pc[t] \in {"denied", "saved"} /\ pc'[t] = "done")
  <2> DEFINE pcs == [pc EXCEPT ![r] = "done"]
  <2>1. execOf[r] \in Executions /\ pcs \in [Runs -> Pcs] /\ pc[r] \in {"denied", "saved"}
    BY <1>1, <1>4, EndKinds, LifecycleAssumption DEF Pcs
  <2>2. pcs[t] = pc[t] \/ (pc[t] \in {"denied", "saved"} /\ pcs[t] = "done")
    BY <1>1, <2>1
  <2>3. CASE Settled(execOf[r], pcs)
    <3> HIDE DEF pcs
    <3> QED BY <1>1, <2>1, <2>2, <2>3, SettledRun
  <2>4. CASE MovesOn(r, "done")
    BY <2>1, <2>4 DEF MovesOn
  <2> QED BY <1>1, <1>4, <2>1, <2>3, <2>4, EndKinds
<1>5. ASSUME NEW f \in Executions, StopActive(f) \/ \E r \in Runs : f = execOf[r] /\ Timeout(r)
      PROVE  pc'[t] = pc[t] \/ (pc[t] = "queued" /\ pc'[t] = "admitted")
  <2>1. Settled(f, pc)
    BY <1>1, <1>5, StopKinds
  <2> QED BY <1>1, <2>1, SettledRun
<1>6. ASSUME NEW f \in Executions, StopQueued(f)
      PROVE  \/ pc'[t] = pc[t] \/ (pc[t] = "queued" /\ pc'[t] = "admitted")
             \/ (pc[t] = "queued" /\ pc'[t] = "dropped" /\ StopQueued(execOf[t]))
  <2>1. PICK d \in Waiters, W \in SUBSET Waiters :
          execOf[d] = f /\ d \notin W /\ Wakes(W, [pc EXCEPT ![d] = "dropped"], {})
    BY <1>1, <1>6, StopQueuedWakes
  <2>2. pc'[t] = IF t \in W THEN "admitted" ELSE IF t = d THEN "dropped" ELSE pc[t]
    BY <1>1, <2>1 DEF Wakes, Waiters
  <2> QED BY <1>6, <2>1, <2>2 DEF Waiters
<1>7. CASE Aside
  BY <1>7, AsideStays
<1>8. CASE DisableLimit
  BY <1>8 DEF DisableLimit, runVars
<1> QED
  BY <1>2, <1>3, <1>4, <1>5, <1>6, <1>7, <1>8, StepKinds, LifecycleAssumption DEF Restarts

\* Only an engine that is running gets to save that it was cancelled.
LEMMA CancelWrites ==
  ASSUME IInv, Next, ~Restarts, NEW t \in Runs
  PROVE  /\ t \in cancelWrite' => t \in cancelWrite \/ (pc[t] \in Engine /\ t \in cancelled')
         /\ t \in cancelled => t \in cancelled'
<1>1. TypeOK /\ QueueOK /\ \A f \in Executions : EntryOK(f)
  BY DEF IInv
<1>2. ASSUME NEW r \in Runs, Progress(r) PROVE UNCHANGED <<cancelWrite, cancelled>>
  BY <1>1, <1>2, ProgressMovesOn
<1>3. ASSUME NEW r \in Runs, Throttle(r) \/ FinalizeDenied(r) \/ Complete(r)
      PROVE  UNCHANGED <<cancelWrite, cancelled>>
  BY <1>3 DEF Throttle, FinalizeDenied, Complete
<1>4. ASSUME NEW f \in Executions, StopActive(f) \/ \E r \in Runs : f = execOf[r] /\ Timeout(r)
      PROVE  \E hit \in SUBSET Runs : /\ \A r \in hit : pc[r] \in Engine
                                      /\ cancelled' = cancelled \cup hit
                                      /\ cancelWrite' = cancelWrite \cup hit
  BY <1>1, <1>4, StopKinds
<1>5. ASSUME NEW f \in Executions, StopQueued(f) PROVE UNCHANGED <<cancelWrite, cancelled>>
  BY <1>5 DEF StopQueued
<1>6. CASE Aside
  <2>1. cancelWrite' \subseteq cancelWrite
    BY <1>6 DEF Aside, SaveCancel, SaveCancelFails, StopRead, StopWrite, StopWriteFails, TimePasses,
         PollRead, PollSet, StopTracking, runVars
  <2> QED BY <1>6, <2>1, AsideStays
<1>7. CASE DisableLimit
  BY <1>7 DEF DisableLimit, runVars
<1> QED
  BY <1>2, <1>3, <1>4, <1>5, <1>6, <1>7, StepKinds, LifecycleAssumption DEF Restarts

\* What changes the row of an execution, and to which status.
LEMMA RowWriters ==
  ASSUME IInv, Next, ~Restarts, NEW e \in Executions
  PROVE  \/ db'[e] = db[e]
         \/ \E r \in RunsOf(e) :
              \/ Create(r) /\ db'[e].status = "new"
              \/ pc[r] \in {"admitted", "registered"} /\ db'[e].status \in {"running", "error"}
              \/ pc[r] = "saving" /\ db'[e].status = outcome[r]
              \/ r \in cancelWrite /\ db'[e].status = "canceled"
         \/ StopWrite(e) /\ db'[e].status = "canceled"
         \/ db[e].waitTill = "future" /\ db'[e].status = db[e].status
<1>1. TypeOK
  BY DEF IInv
<1>2. ASSUME NEW r \in Runs,
             Create(r) \/ MarkRunning(r) \/ SetRunning(r) \/ Deny(r) \/ SaveResult(r) \/ SaveCancel(r)
      PROVE  \/ db'[e] = db[e]
             \/ /\ r \in RunsOf(e)
                /\ \/ Create(r) /\ db'[e].status = "new"
                   \/ pc[r] \in {"admitted", "registered"} /\ db'[e].status \in {"running", "error"}
                   \/ pc[r] = "saving" /\ db'[e].status = outcome[r]
                   \/ r \in cancelWrite /\ db'[e].status = "canceled"
  <2>1. CASE e # execOf[r]
    BY <1>1, <1>2, <2>1, ActionWritesRow DEF WritesRow
  <2>2. CASE e = execOf[r]
    <3>1. CASE Create(r)
      BY <1>1, <2>2, <3>1, ActionWritesRow DEF WritesRow, RunsOf
    <3>2. CASE MarkRunning(r) \/ SetRunning(r)
      <4>1. pc[r] \in {"admitted", "registered"}
        BY <3>2 DEF MarkRunning, SetRunning
      <4> QED BY <1>1, <2>2, <3>2, <4>1, ActionWritesRow DEF WritesRow, RunsOf
    <3>3. CASE Deny(r)
      <4>1. pc[r] = "registered"
        BY <3>3 DEF Deny
      <4> QED BY <1>1, <2>2, <3>3, <4>1, ActionWritesRow DEF WritesRow, RunsOf
    <3>4. CASE SaveResult(r)
      <4>1. pc[r] = "saving"
        BY <3>4 DEF SaveResult
      <4> QED BY <1>1, <2>2, <3>4, <4>1, ActionWritesRow DEF WritesRow, RunsOf
    <3>5. CASE SaveCancel(r)
      <4>1. r \in cancelWrite
        BY <3>5 DEF SaveCancel
      <4> QED BY <1>1, <2>2, <3>5, <4>1, ActionWritesRow DEF WritesRow, RunsOf
    <3> QED BY <1>2, <3>1, <3>2, <3>3, <3>4, <3>5
  <2> QED BY <2>1, <2>2
<1>3. ASSUME NEW f \in Executions, StopWrite(f)
      PROVE  db'[e] = db[e] \/ (StopWrite(e) /\ db'[e].status = "canceled")
  BY <1>1, <1>3, ActionWritesRow DEF WritesRow
<1>4. ASSUME NEW f \in Executions, TimePasses(f)
      PROVE  db'[e] = db[e] \/ (db[e].waitTill = "future" /\ db'[e].status = db[e].status)
  <2>1. db[f].waitTill = "future"
    BY <1>4 DEF TimePasses
  <2> QED BY <1>1, <1>4, <2>1, ActionWritesRow DEF WritesRow
<1>5. ASSUME NEW r \in Runs, Progress(r)
      PROVE  \/ Create(r) \/ MarkRunning(r) \/ SetRunning(r) \/ Deny(r) \/ SaveResult(r)
             \/ db' = db
  BY <1>5 DEF Progress, MarkRunningFails, Register, StartEngine, Ends, EngineEnds, SaveResultFails,
       DenyUnsaved, RunFails, LoadFails,
       EngineAborts, Load, ResumeByWebhook, TimerFires
<1>6. ASSUME NEW r \in Runs, Throttle(r) \/ FinalizeDenied(r) \/ Complete(r) \/ Timeout(r)
      PROVE  db' = db
  BY <1>6 DEF Throttle, FinalizeDenied, Complete, Timeout
<1>7. ASSUME NEW f \in Executions, StopQueued(f) \/ StopActive(f) \/ StopRead(f) PROVE db' = db
  BY <1>7 DEF StopQueued, StopActive, StopRead
<1>8. ASSUME PollRead \/ PollSet \/ StopTracking \/ DisableLimit PROVE db' = db
  BY <1>8 DEF PollRead, PollSet, StopTracking, DisableLimit
<1>9. CASE Aside
  BY <1>1, <1>2, <1>3, <1>4, <1>7, <1>8, <1>9, AsideFails DEF Aside
<1>10. ASSUME NEW r \in Runs, Progress(r)
       PROVE  \/ db' = db
              \/ \E s \in Runs : \/ Create(s) \/ MarkRunning(s) \/ SetRunning(s)
                                 \/ Deny(s) \/ SaveResult(s)
  BY <1>5, <1>10
<1>11. \/ db' = db \/ Aside
       \/ \E s \in Runs : Create(s) \/ MarkRunning(s) \/ SetRunning(s) \/ Deny(s) \/ SaveResult(s)
  <2>1. CASE \E r \in Runs : Progress(r)
    BY <1>10, <2>1
  <2>2. CASE \E r \in Runs : Throttle(r) \/ FinalizeDenied(r) \/ Complete(r) \/ Timeout(r)
    BY <1>6, <2>2
  <2>3. CASE \E f \in Executions : StopQueued(f) \/ StopActive(f)
    BY <1>7, <2>3
  <2>4. CASE DisableLimit
    BY <1>8, <2>4
  <2> QED BY <2>1, <2>2, <2>3, <2>4, StepKinds DEF Restarts
<1> QED
  BY <1>2, <1>9, <1>11

\* Only the start of an engine logs that an execution started.
LEMMA LogsGrow ==
  ASSUME IInv, Next, ~Restarts, NEW e \in Executions, e \in openLogs', e \notin openLogs
  PROVE  \E r \in RunsOf(e) : pc[r] = "starting"
<1>1. TypeOK /\ QueueOK /\ \A f \in Executions : EntryOK(f)
  BY DEF IInv
<1>2. ASSUME NEW r \in Runs, Progress(r), ~StartEngine(r) PROVE openLogs' = openLogs
  BY <1>2 DEF Progress, Create, MarkRunning, MarkRunningFails, Register, Deny, SetRunning, Ends,
       EngineEnds, SaveResult, SaveResultFails, DenyUnsaved, RunFails, LoadFails, EngineAborts,
       Load, ResumeByWebhook, TimerFires,
       logVars
<1>3. ASSUME NEW r \in Runs, StartEngine(r) PROVE r \in RunsOf(e) /\ pc[r] = "starting"
  BY <1>3 DEF StartEngine, RunsOf
<1>4. ASSUME NEW r \in Runs, Throttle(r) PROVE openLogs' \subseteq openLogs
  BY <1>4 DEF Throttle
<1>5. ASSUME NEW r \in Runs, FinalizeDenied(r) \/ Complete(r) PROVE openLogs' \subseteq openLogs
  BY <1>1, <1>5, EndKinds, LifecycleAssumption
<1>6. ASSUME NEW f \in Executions, StopActive(f) \/ StopQueued(f) PROVE openLogs' = openLogs
  BY <1>6 DEF StopActive, StopQueued, logVars
<1>7. ASSUME NEW r \in Runs, Timeout(r) PROVE openLogs' = openLogs
  BY <1>7 DEF Timeout, logVars
<1>8. CASE Aside \/ DisableLimit
  BY <1>8, AsideStays DEF DisableLimit, logVars
<1> QED
  BY <1>2, <1>3, <1>4, <1>5, <1>6, <1>7, <1>8, StepKinds DEF Restarts

\* Nothing waits: no time to wait for is set, so no timer is either.
Unwaiting ==
  /\ timers = {} /\ found = {}
  /\ \A e \in Executions : db[e].waitTill = "none"
  /\ \A r \in Runs : pc[r] # "loading" /\ outcome[r] # "waiting"

\* A run that may still do something: it goes on, or its end is to be saved.
Over == {"idle", "dropped", "refused", "failed", "done"}
Alive(r) == pc[r] \notin Over \/ r \in cancelWrite

BegunOK(r) ==
  /\ r \in cancelWrite => r \in cancelled
  /\ pc[r] = "saving" => outcome[r] # "none"
  /\ pc[r] # "idle" => db[execOf[r]].status # "none"
  /\ pc[r] = "queued" => execOf[r] \notin openLogs

\* A run was taken out of the queue by a stop, which the process has yet to write,
\* has written, or died before it could.
DroppedOK(r) ==
  pc[r] = "dropped" =>
    /\ stop[execOf[r]] \in {"before", "done", "lost"}
    /\ stop[execOf[r]] # "lost" =>
         execOf[r] \notin openLogs /\ \A s \in RunsOf(execOf[r]) : ~Alive(s)
    /\ stop[execOf[r]] = "done" => db[execOf[r]].status = "canceled"

OneAlive == \A r, s \in Runs : execOf[r] = execOf[s] /\ Alive(r) /\ Alive(s) => r = s

FirstInv == Unwaiting /\ OneAlive /\ \A r \in Runs : BegunOK(r) /\ DroppedOK(r)

LEMMA InitFirst == Init => FirstInv
  BY DEF Init, FirstInv, Unwaiting, OneAlive, BegunOK, DroppedOK, Alive, Over

\* Where nothing waits, a run begins with its row.
LEMMA BeginsByCreate ==
  ASSUME TypeOK, Unwaiting, NEW t \in Runs, pc[t] = "idle", Progress(t)
  PROVE  Create(t)
<1>1. ~ResumeByWebhook(t)
  BY LifecycleAssumption DEF ResumeByWebhook, Unwaiting
<1>2. \A e \in Executions : ~TimerFires(e, t)
  BY DEF TimerFires, Unwaiting, TypeOK
<1> QED
  BY <1>1, <1>2 DEF Progress, MarkRunning, MarkRunningFails, Register, Deny, SetRunning, StartEngine,
     Ends, EngineEnds, SaveResult, SaveResultFails, DenyUnsaved, RunFails, LoadFails, EngineAborts,
     Load

LEMMA NeverAliveAgain ==
  ASSUME IInv, FirstInv, Next, ~Restarts, NEW t \in Runs, Alive(t)'
  PROVE  Alive(t) \/ Create(t)
<1>1. TypeOK /\ RunOK(t) /\ BegunOK(t) /\ execOf[t] \in Executions
  BY LifecycleAssumption DEF IInv, FirstInv
<1>2. CASE t \in cancelWrite'
  <2>1. t \in cancelWrite \/ pc[t] \in Engine
    BY <1>2, CancelWrites
  <2> QED BY <2>1 DEF Alive, Engine, Over
<1>3. CASE pc'[t] \notin Over /\ ~Alive(t)
  <2>1. pc[t] = "idle" /\ Progress(t)
    BY <1>3, RunMoves DEF Alive, Edges, Over
  <2> QED BY <1>1, <2>1, BeginsByCreate DEF FirstInv
<1> QED
  BY <1>2, <1>3 DEF Alive

\* A run that is created is the first of its execution.
LEMMA CreatesFirst ==
  ASSUME FirstInv, IInv, NEW r \in Runs, Create(r), NEW s \in RunsOf(execOf[r])
  PROVE  ~Alive(s) /\ pc[s] = "idle"
<1>1. s \in Runs /\ execOf[s] = execOf[r] /\ db[execOf[s]].status = "none"
  BY DEF RunsOf, Create
<1>2. pc[s] = "idle"
  BY <1>1 DEF FirstInv, BegunOK
<1>3. s \notin cancelWrite
  BY <1>1, <1>2 DEF FirstInv, BegunOK, IInv, RunOK, Engine
<1> QED
  BY <1>2, <1>3 DEF Alive, Over

LEMMA RestartKeeps ==
  ASSUME IInv, FirstInv, Restarts
  PROVE  Unwaiting' /\ \A t \in Runs : BegunOK(t)' /\ DroppedOK(t)'
<1>1. PICK kept \in SUBSET openLogs, starters \in SUBSET Runs : Restart(kept, starters)
  BY DEF Restarts
<1>2. \A e \in Executions : db'[e] = IF e \in Unfinished \ kept THEN Recovered(db[e]) ELSE db[e]
  BY <1>1 DEF Restart
<1>3. /\ { execOf[r] : r \in starters } = Enqueued /\ cancelWrite' = {} /\ openLogs' \subseteq openLogs
      /\ \A r \in starters : pc[r] = "idle"
      /\ \A t \in Runs : pc'[t] = IF t \in starters THEN "created"
                                  ELSE IF pc[t] \in {"idle", "dropped", "refused", "done"} THEN pc[t]
                                  ELSE "failed"
      /\ \A e \in Executions : stop'[e] = IF stop[e] \in {"idle", "done"} THEN stop[e] ELSE "lost"
      /\ timers' = {} /\ found' = {} /\ outcome' = outcome
  BY <1>1 DEF Restart
<1>4. \A e \in Executions : /\ db'[e].waitTill = "none"
                            /\ db[e].status # "none" => db'[e].status # "none"
  <2> TAKE e \in Executions
  <2>1. db[e] \in Rows /\ db[e].waitTill = "none"
    BY DEF IInv, TypeOK, Rows, FirstInv, Unwaiting
  <2>2. Recovered(db[e]).waitTill = "none" /\ (db[e].status # "none" => Recovered(db[e]).status # "none")
    BY <2>1 DEF Recovered, Rows
  <2> QED BY <1>2, <2>1, <2>2
<1>5. Unwaiting'
  BY <1>3, <1>4 DEF FirstInv, Unwaiting
<1>6. ASSUME NEW t \in Runs PROVE BegunOK(t)'
  <2>1. execOf[t] \in Executions /\ BegunOK(t)
    BY LifecycleAssumption DEF FirstInv
  <2>2. pc'[t] # "idle" => db[execOf[t]].status # "none"
    <3>1. CASE t \in starters
      BY <1>3, <3>1 DEF Enqueued
    <3>2. CASE t \notin starters
      BY <1>3, <2>1, <3>2 DEF BegunOK
    <3> QED BY <3>1, <3>2
  <2>3. t \notin cancelWrite' /\ pc'[t] \notin {"saving", "queued"}
    BY <1>3
  <2>4. pc'[t] # "idle" => db'[execOf[t]].status # "none"
    BY <1>4, <2>1, <2>2
  <2> QED BY <2>3, <2>4 DEF BegunOK
<1>7. ASSUME NEW t \in Runs, pc'[t] = "dropped" PROVE DroppedOK(t)'
  <2> DEFINE e == execOf[t]
  <2>1. e \in Executions /\ pc[t] = "dropped" /\ DroppedOK(t)
    BY <1>3, <1>7, LifecycleAssumption DEF FirstInv
  <2>2. CASE stop'[e] = "lost"
    BY <2>2 DEF DroppedOK
  <2>3. CASE stop'[e] # "lost"
    <3>1. /\ stop[e] = "done" /\ stop'[e] = "done" /\ e \notin openLogs
          /\ db[e].status = "canceled" /\ \A s \in RunsOf(e) : ~Alive(s)
      BY <1>3, <2>1, <2>3 DEF DroppedOK
    <3>2. e \notin Unfinished /\ e \notin Enqueued
      BY <3>1 DEF Unfinished, Enqueued
    <3>3. db'[e].status = "canceled" /\ e \notin openLogs'
      BY <1>2, <1>3, <2>1, <3>1, <3>2
    <3>4. \A s \in RunsOf(e) : ~Alive(s)'
      BY <1>3, <3>1, <3>2 DEF Alive, Over, RunsOf
    <3> HIDE DEF e
    <3>5. \A s \in RunsOf(e)' : ~Alive(s)'
      BY <3>4 DEF RunsOf
    <3> QED BY <3>1, <3>3, <3>5 DEF DroppedOK, e
  <2> QED BY <2>2, <2>3
<1> QED
  BY <1>5, <1>6, <1>7 DEF DroppedOK

\* A start gives each enqueued execution one run.
LEMMA OneStarter ==
  ASSUME NEW kept, NEW starters \in SUBSET Runs, Restart(kept, starters),
         NEW r \in starters, NEW s \in starters, execOf[r] = execOf[s]
  PROVE  r = s
<1> DEFINE f == [x \in starters |-> execOf[x]]
<1>1. IsFiniteSet(starters) /\ Cardinality(starters) = Cardinality(Enqueued)
  BY FS_Subset, LifecycleAssumption DEF Restart
<1>2. f \in Surjection(starters, Enqueued)
  BY DEF Surjection, Restart
<1> HIDE DEF f
<1>3. f \in Injection(starters, Enqueued)
  BY <1>1, <1>2, FS_SurjSameCardinalityImpliesInj
<1>4. f[r] = execOf[r] /\ f[s] = execOf[s]
  BY DEF f
<1> QED
  BY <1>3, <1>4 DEF Injection, IsInjective

LEMMA OneAliveStep ==
  ASSUME IInv, FirstInv, Next
  PROVE  OneAlive'
<1> SUFFICES ASSUME NEW r \in Runs, NEW s \in Runs, execOf[r] = execOf[s], Alive(r)', Alive(s)'
             PROVE  r = s
  BY DEF OneAlive
<1>1. r \in RunsOf(execOf[s]) /\ s \in RunsOf(execOf[r])
  BY DEF RunsOf
<1>2. CASE ~Restarts
  <2>1. (Alive(r) \/ Create(r)) /\ (Alive(s) \/ Create(s))
    BY <1>2, NeverAliveAgain
  <2>2. CASE Alive(r) /\ Alive(s)
    BY <2>2 DEF FirstInv, OneAlive
  <2>3. CASE Create(r) /\ r # s
    <3>1. ~Alive(s) /\ pc[s] = "idle"
      BY <1>1, <2>3, CreatesFirst
    <3>2. pc'[s] = pc[s]
      BY <2>3 DEF Create, Goto, IInv, TypeOK
    <3>3. cancelWrite' = cancelWrite
      BY <2>3 DEF Create
    <3> QED BY <3>1, <3>2, <3>3 DEF Alive
  <2>4. CASE Create(s) /\ r # s
    <3>1. ~Alive(r) /\ pc[r] = "idle"
      BY <1>1, <2>4, CreatesFirst
    <3>2. pc'[r] = pc[r]
      BY <2>4 DEF Create, Goto, IInv, TypeOK
    <3>3. cancelWrite' = cancelWrite
      BY <2>4 DEF Create
    <3> QED BY <3>1, <3>2, <3>3 DEF Alive
  <2> QED BY <2>1, <2>2, <2>3, <2>4
<1>3. CASE Restarts
  <2>1. PICK kept \in SUBSET openLogs, starters \in SUBSET Runs : Restart(kept, starters)
    BY <1>3 DEF Restarts
  <2>2. r \in starters /\ s \in starters
    BY <2>1 DEF Restart, Alive, Over
  <2> QED BY <2>1, <2>2, OneStarter
<1> QED
  BY <1>2, <1>3

\* How a run ended is set by the end of its engine.
LEMMA OutcomeStays ==
  ASSUME IInv, Next, NEW t \in Runs
  PROVE  outcome'[t] = outcome[t] \/ Ends(t)
<1>1. ASSUME NEW r \in Runs, Ends(r) PROVE outcome'[t] = outcome[t] \/ Ends(t)
  BY <1>1 DEF Ends, EngineEnds, IInv, TypeOK
<1>2. ASSUME NEW r \in Runs, Progress(r), ~Ends(r) PROVE outcome' = outcome
  BY <1>2 DEF Progress, Create, MarkRunning, MarkRunningFails, Register, Deny, SetRunning,
       StartEngine, SaveResult, SaveResultFails, DenyUnsaved, RunFails, LoadFails, EngineAborts,
       Load, ResumeByWebhook, TimerFires
<1>3. ASSUME NEW r \in Runs, Throttle(r) \/ FinalizeDenied(r) \/ Complete(r) \/ Timeout(r)
      PROVE  outcome' = outcome
  BY <1>3 DEF Throttle, FinalizeDenied, Complete, Timeout
<1>4. ASSUME NEW e \in Executions, StopQueued(e) \/ StopActive(e) PROVE outcome' = outcome
  BY <1>4 DEF StopQueued, StopActive
<1>5. CASE Aside \/ DisableLimit \/ Restarts
  BY <1>5, AsideStays DEF DisableLimit, runVars, Restarts, Restart
<1>6. ASSUME NEW r \in Runs, Progress(r) PROVE outcome'[t] = outcome[t] \/ Ends(t)
  BY <1>1, <1>2, <1>6
<1> QED
  BY <1>3, <1>4, <1>5, <1>6, StepKinds DEF Restarts

LEMMA NothingWaits ==
  ASSUME IInv, FirstInv, Waiting = {}, Next, ~Restarts
  PROVE  Unwaiting'
<1>1. TypeOK /\ timers = {} /\ found = {} /\ db \in [Executions -> Rows]
  BY DEF IInv, FirstInv, Unwaiting, TypeOK, Rows
<1>2. \A e \in Executions : db[e].waitTill = "none"
  BY DEF FirstInv, Unwaiting
<1>3. \A r \in Runs : pc[r] # "loading" /\ outcome[r] # "waiting"
  BY DEF FirstInv, Unwaiting
<1>4. timers' = {} /\ found' = {}
  <2>1. \A e \in Executions : db[e].waitTill # "due"
    BY <1>2
  <2>2. PollRead => found' = {}
    BY <2>1 DEF PollRead, Due
  <2>3. PollSet => FALSE
    BY <1>1 DEF PollSet
  <2>4. ASSUME NEW e \in Executions, NEW r \in Runs, TimerFires(e, r) PROVE FALSE
    BY <1>1, <2>4 DEF TimerFires, TypeOK
  <2>5. ASSUME NEW r \in Runs, Progress(r) PROVE UNCHANGED <<timers, found>>
    BY <2>4, <2>5 DEF Progress, Create, MarkRunning, MarkRunningFails, Register, Deny, SetRunning,
         StartEngine, Ends, EngineEnds, SaveResult, SaveResultFails, DenyUnsaved, RunFails,
         LoadFails, EngineAborts, Load,
         ResumeByWebhook, waitVars
  <2>6. ASSUME NEW r \in Runs, Throttle(r) \/ FinalizeDenied(r) \/ Complete(r) \/ Timeout(r)
        PROVE  UNCHANGED <<timers, found>>
    BY <2>6 DEF Throttle, FinalizeDenied, Complete, Timeout, waitVars
  <2>7. ASSUME NEW e \in Executions, StopQueued(e) \/ StopActive(e)
        PROVE  timers' \subseteq timers /\ found' = found
    BY <2>7 DEF StopQueued, StopActive, waitVars
  <2>8. CASE Aside
    <3>1. ASSUME NEW r \in Runs, SaveCancel(r) \/ SaveCancelFails(r) PROVE UNCHANGED <<timers, found>>
      BY <3>1 DEF SaveCancel, SaveCancelFails, waitVars
    <3>2. ASSUME NEW e \in Executions,
                 StopRead(e) \/ StopWrite(e) \/ StopWriteFails(e) \/ TimePasses(e)
          PROVE  UNCHANGED <<timers, found>>
      BY <3>2 DEF StopRead, StopWrite, StopWriteFails, TimePasses, waitVars
    <3>3. PollRead => timers' = timers
      BY DEF PollRead
    <3>4. StopTracking => timers' = timers /\ found' = found
      BY DEF StopTracking
    <3> QED BY <1>1, <2>2, <2>3, <2>8, <3>1, <3>2, <3>3, <3>4 DEF Aside
  <2>9. CASE DisableLimit
    BY <1>1, <2>9 DEF DisableLimit, waitVars
  <2> QED BY <1>1, <2>5, <2>6, <2>7, <2>8, <2>9, StepKinds DEF Restarts
<1>5. ASSUME NEW e \in Executions PROVE db'[e].waitTill = "none"
  <2>1. ASSUME NEW r \in Runs,
               Create(r) \/ MarkRunning(r) \/ SetRunning(r) \/ Deny(r) \/ SaveCancel(r)
        PROVE  db'[e].waitTill = "none"
    BY <1>1, <1>2, <2>1, LifecycleAssumption
       DEF Create, MarkRunning, SetRunning, Deny, SaveCancel, Rows
  <2>2. ASSUME NEW r \in Runs, SaveResult(r) PROVE db'[e].waitTill = "none"
    BY <1>1, <1>2, <1>3, <2>2 DEF SaveResult
  <2>3. ASSUME NEW f \in Executions, StopWrite(f) PROVE db'[e].waitTill = "none"
    BY <1>1, <1>2, <2>3 DEF StopWrite, Rows
  <2>4. ASSUME NEW f \in Executions, TimePasses(f) PROVE FALSE
    BY <1>2, <2>4 DEF TimePasses
  <2>5. ASSUME NEW r \in Runs, Progress(r)
        PROVE  db' = db \/ Create(r) \/ MarkRunning(r) \/ SetRunning(r) \/ Deny(r) \/ SaveResult(r)
    BY <2>5 DEF Progress, MarkRunningFails, Register, StartEngine, Ends, EngineEnds,
         SaveResultFails, DenyUnsaved, RunFails, LoadFails, EngineAborts, Load, ResumeByWebhook,
         TimerFires
  <2>6. ASSUME NEW r \in Runs, Throttle(r) \/ FinalizeDenied(r) \/ Complete(r) \/ Timeout(r)
        PROVE  db' = db
    BY <2>6 DEF Throttle, FinalizeDenied, Complete, Timeout
  <2>7. ASSUME NEW f \in Executions, StopQueued(f) \/ StopActive(f) \/ StopRead(f) PROVE db' = db
    BY <2>7 DEF StopQueued, StopActive, StopRead
  <2>8. ASSUME PollRead \/ PollSet \/ StopTracking \/ DisableLimit PROVE db' = db
    BY <2>8 DEF PollRead, PollSet, StopTracking, DisableLimit
  <2>9. CASE Aside
    BY <1>1, <1>2, <2>1, <2>3, <2>4, <2>7, <2>8, <2>9, AsideFails DEF Aside
  <2>10. CASE \E r \in Runs : Progress(r)
    BY <1>2, <2>1, <2>2, <2>5, <2>10
  <2> QED BY <1>2, <2>6, <2>7, <2>8, <2>9, <2>10, StepKinds DEF Restarts
<1>6. ASSUME NEW t \in Runs PROVE pc'[t] # "loading" /\ outcome'[t] # "waiting"
  <2>1. pc'[t] # "loading"
    <3>1. CASE Progress(t) /\ pc[t] = "idle" /\ pc'[t] = "loading"
      <4>1. \A e \in Executions : ~TimerFires(e, t)
        BY <1>1 DEF TimerFires, TypeOK
      <4> QED BY <1>1, <3>1, <4>1 DEF Progress, Create, MarkRunning, MarkRunningFails, Register,
                   Deny, SetRunning, StartEngine, Ends, EngineEnds, SaveResult, SaveResultFails,
                   DenyUnsaved, RunFails, LoadFails,
                   EngineAborts, Load, ResumeByWebhook, Goto, TypeOK
    <3> QED BY <1>3, <3>1, RunMoves DEF Edges
  <2>2. Ends(t) => outcome'[t] # "waiting"
    BY <1>1 DEF Ends, EngineEnds, TypeOK
  <2> QED BY <1>3, <2>1, <2>2, OutcomeStays
<1> QED
  BY <1>4, <1>5, <1>6 DEF Unwaiting

LEMMA BegunStep ==
  ASSUME IInv, FirstInv, Next, ~Restarts, NEW t \in Runs
  PROVE  BegunOK(t)'
<1> DEFINE e == execOf[t]
<1>1. /\ TypeOK /\ RunOK(t) /\ BegunOK(t) /\ e \in Executions
      /\ \A r \in RunsOf(e) : BegunOK(r) /\ execOf[r] = e
  BY LifecycleAssumption DEF IInv, FirstInv, RunsOf
<1>2. t \in cancelWrite' => t \in cancelled'
  BY <1>1, CancelWrites DEF BegunOK
<1>3. pc'[t] = "saving" => outcome'[t] # "none"
  <2>1. CASE pc'[t] = pc[t]
    BY <1>1, <2>1, OutcomeStays DEF BegunOK, Ends, EngineEnds, Goto, TypeOK
  <2>2. CASE pc'[t] = "saving" /\ pc[t] = "executing" /\ Progress(t)
    <3>1. Ends(t)
      BY <1>1, <2>2 DEF Progress, Create, MarkRunning, MarkRunningFails, Register, Deny, SetRunning,
           StartEngine, SaveResult, SaveResultFails, DenyUnsaved, RunFails, LoadFails,
           EngineAborts, Load, ResumeByWebhook, TimerFires,
           Goto, TypeOK
    <3> QED BY <1>1, <3>1 DEF Ends, EngineEnds, TypeOK
  <2> QED BY <2>1, <2>2, RunMoves DEF Edges
<1>4. pc'[t] # "idle" => db'[e].status # "none"
  <2>1. CASE pc[t] # "idle"
    <3>1. db[e].status # "none"
      BY <1>1, <2>1 DEF BegunOK
    <3>2. \A r \in RunsOf(e) : pc[r] = "saving" => outcome[r] # "none"
      BY <1>1 DEF BegunOK
    <3> QED BY <1>1, <3>1, <3>2, RowWriters
  <2>2. CASE pc[t] = "idle" /\ pc'[t] # "idle"
    <3>1. pc'[t] \in {"created", "loading"} /\ Progress(t)
      BY <2>2, RunMoves DEF Edges
    <3>2. Create(t)
      BY <1>1, <2>2, <3>1, BeginsByCreate DEF FirstInv
    <3> QED BY <1>1, <3>2, ActionWritesRow DEF WritesRow
  <2> QED BY <2>1, <2>2
<1>5. pc'[t] = "queued" => e \notin openLogs'
  <2>1. CASE pc[t] = "queued"
    <3>1. \A r \in RunsOf(e) : pc[r] # "starting"
      BY <1>1, <2>1 DEF FirstInv, OneAlive, Alive, Over, RunsOf
    <3> QED BY <1>1, <2>1, <3>1, LogsGrow DEF BegunOK
  <2>2. CASE Throttle(t) /\ pc'[t] = "queued"
    BY <1>1, <2>2 DEF Throttle, Goto, TypeOK
  <2> QED BY <2>1, <2>2, RunMoves DEF Edges
<1> QED
  BY <1>2, <1>3, <1>4, <1>5 DEF BegunOK

\* Once a stop is to be written, or written, it stays so until the process ends.
LEMMA StopWritten ==
  ASSUME IInv, Next, ~Restarts, NEW e \in Executions, stop[e] \in {"before", "done", "lost"}
  PROVE  \/ stop'[e] = stop[e] \/ stop'[e] = "lost"
         \/ stop[e] = "before" /\ stop'[e] = "done" /\ db'[e].status = "canceled"
<1>1. TypeOK /\ QueueOK /\ \A f \in Executions : EntryOK(f)
  BY DEF IInv
<1>2. CASE stop[e] = "before"
  <2>1. StopWrite(e) => stop'[e] = "done" /\ db'[e].status = "canceled"
    BY <1>1, ActionWritesRow DEF StopWrite, Stop, TypeOK, WritesRow
  <2> QED BY <1>2, <2>1, StopStays
<1>3. CASE stop[e] \in {"done", "lost"}
  <2>1. ASSUME NEW r \in Runs, Progress(r) PROVE stop' = stop
    BY <1>1, <2>1, ProgressMovesOn
  <2>2. ASSUME NEW r \in Runs, Throttle(r) \/ FinalizeDenied(r) \/ Complete(r) \/ Timeout(r)
        PROVE  stop' = stop
    BY <2>2 DEF Throttle, FinalizeDenied, Complete, Timeout
  <2>3. ASSUME NEW f \in Executions,
               \/ StopQueued(f) \/ StopActive(f) \/ StopRead(f)
               \/ StopWrite(f) \/ StopWriteFails(f)
        PROVE  stop'[e] = stop[e]
    BY <1>1, <1>3, <2>3 DEF StopQueued, StopActive, StopRead, StopWrite, StopWriteFails, Stop, TypeOK
  <2>4. ASSUME \/ \E r \in Runs : SaveCancel(r) \/ SaveCancelFails(r)
               \/ \E f \in Executions : TimePasses(f)
               \/ PollRead \/ PollSet \/ StopTracking \/ DisableLimit
        PROVE  stop' = stop
    BY <2>4 DEF SaveCancel, SaveCancelFails, TimePasses, PollRead, PollSet, StopTracking, DisableLimit
  <2>5. CASE Aside
    BY <2>3, <2>4, <2>5 DEF Aside
  <2> QED BY <2>1, <2>2, <2>3, <2>4, <2>5, StepKinds DEF Restarts
<1> QED
  BY <1>2, <1>3

\* While no run of an execution is alive, its row changes by a stop alone, and
\* nothing begins again.
LEMMA NothingGoesOn ==
  ASSUME IInv, FirstInv, Next, ~Restarts, NEW e \in Executions,
         db[e].status # "none", \A s \in RunsOf(e) : ~Alive(s)
  PROVE  /\ \A s \in RunsOf(e) : ~Alive(s)'
         /\ e \in openLogs' => e \in openLogs
         /\ db'[e] = db[e] \/ (StopWrite(e) /\ db'[e].status = "canceled")
<1>1. \A s \in RunsOf(e) : ~Create(s)
  BY DEF RunsOf, Create
<1>2. \A s \in RunsOf(e) : ~Alive(s)'
  BY <1>1, NeverAliveAgain DEF RunsOf
<1>3. \A s \in RunsOf(e) : /\ pc[s] \notin {"admitted", "registered", "starting", "saving"}
                           /\ s \notin cancelWrite
  BY DEF Alive, Over
<1>4. db[e].waitTill # "future"
  BY DEF FirstInv, Unwaiting
<1> QED
  BY <1>1, <1>2, <1>3, <1>4, LogsGrow, RowWriters

LEMMA DroppedStep ==
  ASSUME IInv, FirstInv, Next, ~Restarts, NEW t \in Runs
  PROVE  DroppedOK(t)'
<1> DEFINE e == execOf[t]
<1>1. /\ TypeOK /\ QueueOK /\ RunOK(t) /\ BegunOK(t) /\ DroppedOK(t) /\ e \in Executions
      /\ t \in RunsOf(e) /\ RunsOf(e)' = RunsOf(e)
  BY LifecycleAssumption DEF IInv, FirstInv, RunsOf
<1> HIDE DEF e
<1>2. CASE pc[t] = "dropped"
  <2>1. stop[e] \in {"before", "done", "lost"} /\ db[e].status # "none"
    BY <1>1, <1>2 DEF DroppedOK, BegunOK, e
  <2>2. CASE stop[e] = "lost"
    <3>1. stop'[e] = "lost"
      BY <1>1, <2>1, <2>2, StopWritten
    <3> QED BY <3>1 DEF DroppedOK, e
  <2>3. CASE stop[e] # "lost"
    <3>1. /\ e \notin openLogs /\ \A s \in RunsOf(e) : ~Alive(s)
          /\ stop[e] = "done" => db[e].status = "canceled"
      BY <1>1, <1>2, <2>3 DEF DroppedOK, e
    <3>2. /\ e \notin openLogs' /\ \A s \in RunsOf(e) : ~Alive(s)'
          /\ db'[e] = db[e] \/ db'[e].status = "canceled"
      BY <1>1, <2>1, <3>1, NothingGoesOn
    <3>3. \/ stop'[e] = stop[e] \/ stop'[e] = "lost"
          \/ stop'[e] = "done" /\ db'[e].status = "canceled"
      BY <1>1, <2>1, StopWritten
    <3> QED BY <1>1, <2>1, <3>1, <3>2, <3>3 DEF DroppedOK, e
  <2> QED BY <2>2, <2>3
<1>3. CASE pc[t] = "queued" /\ StopQueued(e)
  <2>1. stop'[e] = "before" /\ UNCHANGED <<openLogs, cancelWrite>>
    BY <1>1, <1>3 DEF StopQueued, Stop, TypeOK, logVars
  <2>2. e \notin openLogs
    BY <1>1, <1>3 DEF BegunOK, e
  <2>3. ASSUME NEW s \in RunsOf(e), pc'[t] = "dropped" PROVE ~Alive(s)'
    <3>1. s \in Runs /\ execOf[s] = execOf[t]
      BY DEF RunsOf, e
    <3>2. Alive(s)' => Alive(s)
      <4>1. pc[t] # "idle" /\ db[e].status # "none"
        BY <1>1, <1>3 DEF BegunOK, e
      <4>2. ~Create(s)
        BY <3>1, <4>1 DEF Create, e
      <4> QED BY <3>1, <4>2, NeverAliveAgain
    <3>3. CASE s # t
      BY <1>3, <3>1, <3>2, <3>3 DEF FirstInv, OneAlive, Alive, Over
    <3>4. CASE s = t
      <4>1. t \notin cancelWrite
        BY <1>1, <1>3 DEF BegunOK, RunOK, Engine
      <4> QED BY <2>1, <2>3, <3>4, <4>1 DEF Alive, Over
    <3> QED BY <3>3, <3>4
  <2> QED BY <1>1, <2>1, <2>2, <2>3 DEF DroppedOK, e
<1>4. pc'[t] = "dropped" => pc[t] = "dropped" \/ (pc[t] = "queued" /\ StopQueued(e))
  BY RunMoves DEF Edges, e
<1> QED
  BY <1>2, <1>3, <1>4 DEF DroppedOK

LEMMA NextFirst == Waiting = {} /\ IInv /\ FirstInv /\ [Next]_vars => FirstInv'
<1> SUFFICES ASSUME Waiting = {}, IInv, FirstInv, [Next]_vars PROVE FirstInv'
  OBVIOUS
<1>1. CASE Next /\ ~Restarts
  BY <1>1, NothingWaits, OneAliveStep, BegunStep, DroppedStep DEF FirstInv
<1>2. CASE Next /\ Restarts
  BY <1>2, RestartKeeps, OneAliveStep DEF FirstInv
<1>3. CASE UNCHANGED vars
  BY <1>3 DEF vars, runVars, waitVars, logVars, FirstInv, Unwaiting, OneAlive, BegunOK, DroppedOK,
       Alive, RunsOf
<1> QED
  BY <1>1, <1>2, <1>3

\* Where no run enters a wait, an execution stopped while it was queued never
\* runs, and stays canceled, whatever is stopped, crashes and starts afterwards.
THEOREM StoppedInQueueStays == Waiting = {} => (Spec => StoppedInQueueIsFinal)
<1> SUFFICES ASSUME Waiting = {} PROVE Spec => StoppedInQueueIsFinal
  OBVIOUS
<1> DEFINE Final(r) == /\ pc[r] = "dropped" /\ stop[execOf[r]] = "done"
                       /\ db[execOf[r]] = [status |-> "canceled", waitTill |-> "none",
                                           finished |-> FALSE]
<1>1. ASSUME IInv, FirstInv, Next, NEW r \in Runs, Final(r)
      PROVE  pc'[r] = "dropped" /\ db'[execOf[r]] = db[execOf[r]]
  <2> DEFINE e == execOf[r]
  <2>1. /\ e \in Executions /\ stop[e] = "done" /\ db[e].status = "canceled"
        /\ e \notin openLogs /\ \A s \in RunsOf(e) : ~Alive(s)
    BY <1>1, LifecycleAssumption DEF FirstInv, DroppedOK
  <2>2. CASE ~Restarts
    <3>1. pc'[r] = "dropped"
      BY <1>1, <2>2, RunMoves DEF Edges
    <3>2. ~StopWrite(e)
      BY <2>1 DEF StopWrite
    <3> HIDE DEF e
    <3>3. db'[e] = db[e]
      BY <1>1, <2>1, <2>2, <3>2, NothingGoesOn
    <3> QED BY <3>1, <3>3 DEF e
  <2>3. CASE Restarts
    <3>1. PICK kept \in SUBSET openLogs, starters \in SUBSET Runs : Restart(kept, starters)
      BY <2>3 DEF Restarts
    <3>2. r \notin starters /\ e \notin Unfinished
      BY <1>1, <2>1, <3>1 DEF Restart, Unfinished
    <3> QED BY <1>1, <2>1, <3>1, <3>2 DEF Restart
  <2> QED BY <2>2, <2>3
<1>2. IInv /\ FirstInv /\ [Next]_vars =>
        [\A r \in Runs : Final(r) => pc'[r] = "dropped" /\ db'[execOf[r]] = db[execOf[r]]]_vars
  BY <1>1
<1> QED
  BY <1>2, InitFirst, NextFirst, Invariance, PTL DEF Spec, StoppedInQueueIsFinal

-----------------------------------------------------------------------------
(* The refinement: what the executions do with the queue and the capacity  *)
(* are steps of the concurrency limit, run by run.                         *)

\* The limit has the queue of its own module.
LEMMA LimitQueue ==
  /\ \A q : Limit!MustWait(q) <=> MustWait(q)
  /\ \A q, r, e : Limit!Enqueue(q, r, e) = Enqueue(q, r, e)
  /\ \A q : Limit!Dequeue(q) = Dequeue(q) /\ Limit!Resolved(q) = Resolved(q)
  /\ \A q : Limit!GetAll(q) = GetAll(q)
<1>1. \A q : Limit!MustWait(q) <=> MustWait(q)
  BY DEF Limit!MustWait, MustWait
<1>2. \A q, r, e : Limit!Enqueue(q, r, e) = Enqueue(q, r, e)
  BY <1>1 DEF Limit!Enqueue, Enqueue
<1>3. \A q : Limit!Dequeue(q) = Dequeue(q)
  BY DEF Limit!Dequeue, Dequeue, Limit!ResolveNext, ResolveNext, Limit!Freed, Freed
<1>4. \A q : Limit!Resolved(q) = Resolved(q)
  BY DEF Limit!Resolved, Resolved
<1>5. \A q : Limit!GetAll(q) = GetAll(q)
  BY DEF Limit!GetAll, GetAll
<1> QED
  BY <1>1, <1>2, <1>3, <1>4, <1>5

LEMMA LimitRemoves ==
  \A q, e : /\ Limit!RemoveItem(q, e) = RemoveItem(q, e)
            /\ Limit!Dropped(q, e) = Dropped(q, e)
            /\ Limit!ResolvedByRemove(q, e) = ResolvedByRemove(q, e)
<1>1. \A q, e : Limit!IndexOf(q, e) = IndexOf(q, e)
  BY DEF Limit!IndexOf, IndexOf, Limit!IsFirst, IsFirst
<1>2. \A s, i : Limit!RemoveAt(s, i) = RemoveAt(s, i)
  BY DEF Limit!RemoveAt, RemoveAt
<1>3. \A q, e : Limit!Spliced(q, e) = Spliced(q, e)
  BY <1>1, <1>2 DEF Limit!Spliced, Spliced
<1>4. \A q, e : Limit!RemoveItem(q, e) = RemoveItem(q, e)
  BY LimitQueue, <1>3 DEF Limit!RemoveItem, RemoveItem
<1>5. \A q, e : Limit!Dropped(q, e) = Dropped(q, e)
  BY LimitQueue, <1>1 DEF Limit!Dropped, Dropped
<1>6. \A q, e : Limit!ResolvedByRemove(q, e) = ResolvedByRemove(q, e)
  BY LimitQueue, <1>3 DEF Limit!ResolvedByRemove, ResolvedByRemove
<1> QED
  BY <1>4, <1>5, <1>6

\* Every run is a production execution, and the limit is on.
LEMMA LimitApplies ==
  /\ Limit!EffectiveLimit = ProductionLimit /\ ProductionLimit # -1
  /\ \A r \in Runs : /\ Limit!IsKnown([t \in Runs |-> "webhook"][r])
                     /\ ~Limit!IsUnlimited([t \in Runs |-> "webhook"][r])
<1>1. Limit!EffectiveLimit = ProductionLimit /\ ProductionLimit # -1
  BY LifecycleAssumption DEF Limit!EffectiveLimit
<1> QED
  BY <1>1 DEF Limit!IsKnown, Limit!IsUnlimited, Limit!UnlimitedModes, Limit!LimitedModes

DroppedRuns == { r \in Runs : pc[r] = "dropped" }

\* Where a run is for the limit.
LimitOf(r) ==
  IF pc[r] \in {"idle", "loading", "created", "refused"} THEN "idle"
  ELSE IF pc[r] \in {"queued", "dropped"} THEN pc[r]
  ELSE IF r \in slot THEN "admitted"
  ELSE IF r \in settled THEN "done" ELSE "bypassed"

LEMMA LimitInit == Init => Limit!Init
<1> SUFFICES ASSUME Init PROVE Limit!Init
  OBVIOUS
<1>1. isEnabled = (Limit!EffectiveLimit # -1 /\ "regular" # "queue")
  BY LimitApplies DEF Init
<1>2. productionQueue = Limit!NewQueue(Limit!EffectiveLimit)
  BY LimitApplies DEF Init, NewQueue, Limit!NewQueue
<1>3. limitStatus = [r \in Runs |-> "idle"]
  BY DEF Init, limitStatus
<1>4. Cardinality(DroppedRuns) = 0
  <2>1. DroppedRuns = {}
    BY DEF Init, DroppedRuns
  <2> QED BY <2>1, FS_EmptySet
<1> QED
  BY <1>1, <1>2, <1>3, <1>4 DEF Limit!Init, DroppedRuns

\* A step that changes nothing the limit knows of.
LEMMA LimitStutters ==
  ASSUME \A r \in Runs : LimitOf(r)' = LimitOf(r),
         \A r \in Runs : pc'[r] = "dropped" <=> pc[r] = "dropped",
         UNCHANGED <<isEnabled, productionQueue>>
  PROVE  UNCHANGED Limit!vars
<1>1. limitStatus' = limitStatus
  BY DEF limitStatus, LimitOf
<1>2. { r \in Runs : pc'[r] = "dropped" } = { r \in Runs : pc[r] = "dropped" }
  OBVIOUS
<1> QED
  BY <1>1, <1>2 DEF Limit!vars

LEMMA ThrottleImplements ==
  ASSUME IInv, NEW r \in Runs, Throttle(r)
  PROVE  Limit!Throttle(r) \/ Limit!Bypass(r)
<1>1. /\ pc[r] = "created" /\ limitStatus[r] = "idle" /\ r \notin slot /\ r \notin settled
      /\ settled' = settled /\ isEnabled' = isEnabled /\ execOf[r] \in Executions
      /\ pc \in [Runs -> Pcs]
  BY LifecycleAssumption DEF IInv, RunOK, Early, Throttle, limitStatus, TypeOK
<1>2. pc'[r] \in {"queued", "admitted"} /\ \A t \in Runs : t # r => pc'[t] = pc[t]
  BY <1>1 DEF Throttle, Goto
<1>3. \A t \in Runs : t # r => (t \in slot' <=> t \in slot)
  BY DEF Throttle
<1>4. limitStatus' = [limitStatus EXCEPT ![r] = LimitOf(r)']
  <2>1. limitStatus' = [t \in Runs |-> LimitOf(t)'] /\ limitStatus = [t \in Runs |-> LimitOf(t)]
    BY DEF limitStatus, LimitOf
  <2>2. \A t \in Runs : t # r => LimitOf(t)' = LimitOf(t)
    BY <1>1, <1>2, <1>3 DEF LimitOf
  <2> QED BY <2>1, <2>2
<1>5. Cardinality({ t \in Runs : pc'[t] = "dropped" }) = Cardinality({ t \in Runs : pc[t] = "dropped" })
  <2>1. { t \in Runs : pc'[t] = "dropped" } = { t \in Runs : pc[t] = "dropped" }
    BY <1>1, <1>2
  <2> QED BY <2>1
<1>6. CASE isEnabled
  <2>1. productionQueue' = Limit!Enqueue(productionQueue, r, execOf[r])
    BY <1>6, LimitQueue DEF Throttle
  <2>2. LimitOf(r)' = IF Limit!MustWait(productionQueue) THEN "queued" ELSE "admitted"
    <3>1. CASE MustWait(productionQueue)
      BY <1>1, <1>6, <3>1, LimitQueue DEF Throttle, Goto, LimitOf
    <3>2. CASE ~MustWait(productionQueue)
      BY <1>1, <1>6, <3>2, LimitQueue DEF Throttle, Goto, LimitOf
    <3> QED BY <3>1, <3>2
  <2> QED BY <1>1, <1>4, <1>5, <1>6, <2>1, <2>2, LimitApplies DEF Limit!Throttle
<1>7. CASE ~isEnabled
  <2>1. productionQueue' = productionQueue /\ LimitOf(r)' = "bypassed"
    BY <1>1, <1>7 DEF Throttle, Goto, LimitOf
  <2> QED BY <1>1, <1>4, <1>5, <1>7, <2>1 DEF Limit!Bypass
<1> QED
  BY <1>6, <1>7

\* Where runs that end count as before for the limit.
Alike(pcs) ==
  /\ pcs \in [Runs -> Pcs]
  /\ \A t \in Runs : pcs[t] = pc[t] \/ (pc[t] \in {"denied", "saved"} /\ pcs[t] = "done")

LEMMA SettleImplements ==
  ASSUME IInv, NEW e \in Executions, active[e] # NoEntry, NEW pcs, Alike(pcs), Settle(e, pcs),
         isEnabled' = isEnabled
  PROVE  Limit!Release(active[e].owner)
<1> DEFINE o == active[e].owner
           q == productionQueue
<1>1. /\ o \in Runs /\ o \notin settled /\ pc[o] \notin Early /\ settled' = settled \cup {o}
      /\ q \in Queues(Runs, Executions) /\ Lists(q.queue, Waiters)
  BY DEF IInv, TypeOK, QueueOK, EntryOK, RunsOf, Settle
<1>2. limitStatus[o] \in {"admitted", "bypassed"}
  BY <1>1 DEF limitStatus, Early
<1>3. ASSUME NEW W \in SUBSET Waiters, Wakes(W, pcs, {o})
      PROVE  /\ limitStatus' = [t \in Runs |-> IF t \in W THEN "admitted"
                                               ELSE [limitStatus EXCEPT ![o] = "done"][t]]
             /\ Cardinality({ t \in Runs : pc'[t] = "dropped" })
                  = Cardinality({ t \in Runs : pc[t] = "dropped" })
  <2> HIDE DEF o
  <2>1. /\ pc' = [t \in Runs |-> IF t \in W THEN "admitted" ELSE pcs[t]]
        /\ slot' = (slot \ {o}) \cup W
        /\ \A t \in W : pc[t] = "queued"
    BY <1>3 DEF Waiters, Wakes
  <2>2. \A t \in Runs : LimitOf(t)' = IF t \in W THEN "admitted"
                                      ELSE IF t = o THEN "done" ELSE LimitOf(t)
    <3> TAKE t \in Runs
    <3>1. CASE t \in W
      BY <2>1, <3>1 DEF LimitOf
    <3>2. CASE t = o /\ t \notin W
      <4>1. pc'[t] = pcs[t] /\ t \notin slot' /\ t \in settled'
        BY <1>1, <2>1, <3>2
      <4>2. pc'[t] \notin Early
        BY <1>1, <3>2, <4>1 DEF Alike, Early
      <4> QED BY <3>2, <4>1, <4>2 DEF LimitOf, Early
    <3>3. CASE t # o /\ t \notin W
      <4>1. pc'[t] = pcs[t] /\ (t \in slot' <=> t \in slot) /\ (t \in settled' <=> t \in settled)
        BY <1>1, <2>1, <3>3
      <4> QED BY <3>3, <4>1 DEF LimitOf, Alike
    <3> QED BY <3>1, <3>2, <3>3
  <2>3. limitStatus' = [t \in Runs |-> LimitOf(t)'] /\ limitStatus = [t \in Runs |-> LimitOf(t)]
    BY DEF limitStatus, LimitOf
  <2>4. { t \in Runs : pc'[t] = "dropped" } = { t \in Runs : pc[t] = "dropped" }
    BY <2>1 DEF Alike
  <2> QED BY <1>1, <2>2, <2>3, <2>4
<1>4. CASE isEnabled
  <2>1. Resolved(q) \in SUBSET Waiters
    <3> HIDE DEF q
    <3> QED BY <1>1, FreedQueue
  <2>2. /\ productionQueue' = Limit!Dequeue(q)
        /\ pc' = [t \in Runs |-> IF t \in Resolved(q) THEN "admitted" ELSE pcs[t]]
        /\ slot' = (slot \ {o}) \cup Resolved(q)
    BY <1>4, LimitQueue DEF Settle, LetThrough
  <2>3. Wakes(Resolved(q), pcs, {o})
    BY <2>1, <2>2 DEF Wakes
  <2>4. limitStatus' = Limit!Admit([limitStatus EXCEPT ![o] = "done"], Limit!Resolved(q))
    <3> HIDE DEF q, o
    <3>1. limitStatus' = [t \in Runs |-> IF t \in Resolved(q) THEN "admitted"
                                         ELSE [limitStatus EXCEPT ![o] = "done"][t]]
      BY <1>3, <2>1, <2>3
    <3> QED BY <3>1, LimitQueue DEF Limit!Admit
  <2>5. Cardinality({ t \in Runs : pc'[t] = "dropped" })
          = Cardinality({ t \in Runs : pc[t] = "dropped" })
    <3> HIDE DEF q, o
    <3> QED BY <1>3, <2>1, <2>3
  <2> HIDE DEF o
  <2>6. Limit!Release(o)
    BY <1>1, <1>2, <1>4, <2>2, <2>4, <2>5, LimitApplies DEF Limit!Release, q
  <2> QED BY <2>6 DEF o
<1>5. CASE ~isEnabled
  <2>1. pc' = pcs /\ slot' = slot \ {o} /\ productionQueue' = q
    BY <1>5 DEF Settle
  <2>2. {} \in SUBSET Waiters /\ Wakes({}, pcs, {o})
    BY <2>1 DEF Alike, Wakes
  <2>3. /\ limitStatus' = [t \in Runs |-> IF t \in {} THEN "admitted"
                                          ELSE [limitStatus EXCEPT ![o] = "done"][t]]
        /\ Cardinality({ t \in Runs : pc'[t] = "dropped" }) = Cardinality({ t \in Runs : pc[t] = "dropped" })
    <3> HIDE DEF o
    <3> QED BY <1>3, <2>2
  <2>4. limitStatus' = [limitStatus EXCEPT ![o] = "done"]
    BY <2>3 DEF limitStatus
  <2> HIDE DEF o
  <2>5. Limit!Release(o)
    BY <1>1, <1>2, <1>5, <2>1, <2>3, <2>4 DEF Limit!Release, q
  <2> QED BY <2>5 DEF o
<1> QED
  BY <1>4, <1>5

LEMMA RemoveImplements ==
  ASSUME IInv, NEW e \in Executions, StopQueued(e)
  PROVE  Limit!RemoveExecution(e)
<1> DEFINE q == productionQueue
<1>1. TypeOK /\ QueueOK
  BY DEF IInv
<1>2. PICK d \in Waiters, W \in SUBSET Waiters :
        /\ d \notin W
        /\ Dropped(q, e) = {d} /\ ResolvedByRemove(q, e) = W
        /\ Wakes(W, [pc EXCEPT ![d] = "dropped"], {})
  BY <1>1, StopQueuedWakes
<1>3. /\ isEnabled /\ isEnabled' = isEnabled /\ settled' = settled
      /\ e \in Limit!GetAll(q) /\ productionQueue' = Limit!RemoveItem(q, e)
  BY LimitQueue, LimitRemoves DEF StopQueued
<1> HIDE DEF q
<1>4. /\ d \in Runs /\ pc[d] = "queued" /\ \A t \in W : pc[t] = "queued"
      /\ \A t \in Runs : pc'[t] = IF t \in W THEN "admitted" ELSE IF t = d THEN "dropped" ELSE pc[t]
      /\ \A t \in Runs : t \in slot' <=> t \in slot \/ t \in W
  BY <1>1, <1>2 DEF Wakes, Waiters, TypeOK
<1>5. \A t \in Runs : LimitOf(t)' = IF t \in W THEN "admitted" ELSE IF t = d THEN "dropped" ELSE LimitOf(t)
  BY <1>3, <1>4 DEF LimitOf
<1>6. limitStatus' = Limit!Admit([t \in Runs |-> IF t \in Limit!Dropped(q, e)
                                                THEN "dropped" ELSE limitStatus[t]],
                                 Limit!ResolvedByRemove(q, e))
  <2>1. limitStatus' = [t \in Runs |-> LimitOf(t)'] /\ limitStatus = [t \in Runs |-> LimitOf(t)]
    BY DEF limitStatus, LimitOf
  <2>2. Limit!Dropped(q, e) = {d} /\ Limit!ResolvedByRemove(q, e) = W
    BY <1>2, LimitRemoves
  <2> QED BY <1>2, <1>5, <2>1, <2>2 DEF Limit!Admit
<1>7. Cardinality({ t \in Runs : pc'[t] = "dropped" }) = Cardinality({ t \in Runs : pc[t] = "dropped" }) + 1
  <2>1. { t \in Runs : pc'[t] = "dropped" } = { t \in Runs : pc[t] = "dropped" } \cup {d}
    BY <1>2, <1>4
  <2>2. d \notin { t \in Runs : pc[t] = "dropped" } /\ IsFiniteSet({ t \in Runs : pc[t] = "dropped" })
    BY <1>4, FS_Subset, LifecycleAssumption
  <2> QED BY <2>1, <2>2, FS_AddElement
<1> QED
  BY <1>3, <1>6, <1>7 DEF Limit!RemoveExecution, q

\* An end gives the capacity of the entry back, or means nothing to the limit.
LEMMA EndImplements ==
  ASSUME IInv, NEW r \in Runs, FinalizeDenied(r) \/ Complete(r)
  PROVE  (\E c \in Runs : Limit!Release(c)) \/ UNCHANGED Limit!vars
<1> DEFINE pcs == [pc EXCEPT ![r] = "done"]
<1>1. /\ execOf[r] \in Executions /\ pc \in [Runs -> Pcs] /\ pc[r] \in {"denied", "saved"}
      /\ isEnabled' = isEnabled
  BY LifecycleAssumption DEF IInv, TypeOK, FinalizeDenied, Complete
<1>2. Alike(pcs)
  BY <1>1 DEF Alike, Pcs
<1>3. CASE active[execOf[r]] # NoEntry /\ Settle(execOf[r], pcs)
  <2> HIDE DEF pcs
  <2>1. Limit!Release(active[execOf[r]].owner)
    BY <1>1, <1>2, <1>3, SettleImplements
  <2>2. active[execOf[r]].owner \in Runs
    BY <1>1, <1>3 DEF IInv, EntryOK, RunsOf
  <2> QED BY <2>1, <2>2
<1>4. CASE pc' = pcs /\ UNCHANGED <<settled, productionQueue, slot>>
  <2>1. \A t \in Runs : pc'[t] = pc[t] \/ (pc[t] \in {"denied", "saved"} /\ pc'[t] = "done")
    BY <1>2, <1>4 DEF Alike
  <2>2. \A t \in Runs : LimitOf(t)' = LimitOf(t)
    BY <1>4, <2>1 DEF LimitOf
  <2> QED BY <1>1, <1>4, <2>1, <2>2, LimitStutters
<1> QED
  BY <1>3, <1>4 DEF FinalizeDenied, Complete, Finalize, Goto

LEMMA StopImplements ==
  ASSUME IInv, NEW e \in Executions, StopExecution(e), isEnabled' = isEnabled
  PROVE  (\E c \in Runs : Limit!Release(c)) \/ UNCHANGED Limit!vars
<1>1. Alike(pc)
  BY DEF Alike, IInv, TypeOK
<1>2. CASE active[e] # NoEntry
  <2>1. Limit!Release(active[e].owner)
    BY <1>1, <1>2, SettleImplements DEF StopExecution
  <2>2. active[e].owner \in Runs
    BY <1>2 DEF IInv, EntryOK, RunsOf
  <2> QED BY <2>1, <2>2
<1>3. CASE active[e] = NoEntry
  <2>1. UNCHANGED <<pc, settled, productionQueue, slot>>
    BY <1>3 DEF StopExecution
  <2> QED BY <2>1, LimitStutters DEF LimitOf
<1> QED
  BY <1>2, <1>3

LEMMA ProgressImplements ==
  ASSUME IInv, NEW r \in Runs, Progress(r)
  PROVE  UNCHANGED Limit!vars
<1>1. PICK label \in Pcs : <<pc[r], label>> \in Edges /\ MovesOn(r, label)
  BY ProgressMovesOn DEF IInv
<1>2. UNCHANGED <<productionQueue, isEnabled, slot, settled>>
  BY ProgressMovesOn DEF IInv
<1>3. \A t \in Runs : LimitOf(t)' = LimitOf(t)
  BY <1>1, <1>2 DEF LimitOf, MovesOn, Edges
<1>4. \A t \in Runs : pc'[t] = "dropped" <=> pc[t] = "dropped"
  BY <1>1 DEF MovesOn, Edges
<1> QED
  BY <1>2, <1>3, <1>4, LimitStutters

\* A step of one process is a step of the limit, or none.
LEMMA StepImplements ==
  ASSUME IInv, Next, restarts' = restarts
  PROVE  Limit!Next \/ UNCHANGED Limit!vars
<1>1. CASE \E r \in Runs : Progress(r)
  BY <1>1, ProgressImplements
<1>2. CASE \E r \in Runs : Throttle(r)
  BY <1>2, ThrottleImplements DEF Limit!Next
<1>3. CASE \E r \in Runs : FinalizeDenied(r) \/ Complete(r)
  BY <1>3, EndImplements DEF Limit!Next
<1>4. CASE \E r \in Runs : Timeout(r)
  BY <1>4, StopImplements, LifecycleAssumption DEF Timeout, Limit!Next
<1>5. CASE \E e \in Executions : StopQueued(e)
  BY <1>5, RemoveImplements DEF Limit!Next
<1>6. CASE \E e \in Executions : StopActive(e)
  BY <1>6, StopImplements DEF StopActive, Limit!Next
<1>7. CASE Aside
  <2>1. UNCHANGED <<pc, productionQueue, isEnabled, slot, settled>>
    BY <1>7, AsideStays
  <2> QED BY <2>1, LimitStutters DEF LimitOf
<1>8. CASE DisableLimit
  <2>1. UNCHANGED <<pc, productionQueue, slot, settled>> /\ isEnabled /\ isEnabled' = FALSE
    BY <1>8 DEF DisableLimit, runVars
  <2>2. limitStatus' = limitStatus
    BY <2>1 DEF limitStatus
  <2> QED BY <2>1, <2>2 DEF Limit!Disable, Limit!Next
<1>9. CASE \E kept \in SUBSET openLogs, starters \in SUBSET Runs : Restart(kept, starters)
  BY <1>9 DEF Restart, IInv, TypeOK
<1> QED
  BY <1>1, <1>2, <1>3, <1>4, <1>5, <1>6, <1>7, <1>8, <1>9, StepKinds

\* Every step that is not a restart uses the queue and the capacity as the
\* concurrency limit allows: a call is throttled once, only a queued call is
\* removed, and what is released was taken and is released once.
THEOREM ProcessUsesLimit == Spec => [][restarts' = restarts => [Limit!Next]_(Limit!vars)]_vars
<1>1. IInv /\ [Next]_vars => (restarts' = restarts => [Limit!Next]_(Limit!vars))
  <2> SUFFICES ASSUME IInv, [Next]_vars, restarts' = restarts PROVE [Limit!Next]_(Limit!vars)
    OBVIOUS
  <2>1. CASE Next
    BY <2>1, StepImplements
  <2>2. CASE UNCHANGED vars
    BY <2>2, LimitStutters DEF vars, runVars, slotVars, LimitOf
  <2> QED BY <2>1, <2>2
<1> QED
  BY <1>1, Invariance, PTL DEF Spec

\* One life of the process is a behaviour of the concurrency limit: the detailed
\* specification implements the abstract one. A restart begins another, with an
\* empty queue.
THEOREM UsesLimit == MaxRestarts = 0 => (Spec => LimitSpec)
<1> SUFFICES ASSUME MaxRestarts = 0 PROVE Spec => LimitSpec
  OBVIOUS
<1>1. TypeOK /\ TypeOK' => restarts' = restarts
  BY DEF TypeOK
<1>2. UNCHANGED vars => UNCHANGED Limit!vars
  BY LimitStutters DEF vars, runVars, slotVars, LimitOf
<1> QED
  BY <1>1, <1>2, LimitInit, TypeCorrect, ProcessUsesLimit, PTL DEF Spec, LimitSpec, Limit!Spec

=============================================================================
