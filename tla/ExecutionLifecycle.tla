------------------------- MODULE ExecutionLifecycle -------------------------
(***************************************************************************)
(* The life of production executions in a main process in regular mode:    *)
(* WorkflowRunner.run() and ActiveExecutions.add() (workflow-runner.ts,    *)
(* active-executions.ts), the stop request (executions/execution.service   *)
(* .ts), the WaitTracker (wait-tracker.ts), the resume webhook             *)
(* (webhooks/waiting-webhooks.ts) and the recovery at startup (start.ts,   *)
(* message-event-bus.ts), which all share the `execution' table, the       *)
(* concurrency queue and the map of active executions.                     *)
(*                                                                         *)
(* A run is one call of WorkflowRunner.run(). Its steps are the stretches  *)
(* of code between two awaits; a write to the database is a step of its    *)
(* own, because a request may be served between the moment the row changes *)
(* and the moment the awaiting code continues. What promise callbacks do   *)
(* without waiting for anything outside the process belongs to the step    *)
(* that settles the promise.                                               *)
(***************************************************************************)
EXTENDS ConcurrencyQueue, FiniteSets

CONSTANTS
  Executions,
  Runs,             \* calls of WorkflowRunner.run()
  execOf,           \* the execution each run is for
  ProductionLimit,  \* the limit, which is on
  NoRun,            \* no run
  Stoppable,        \* executions a user may ask to stop, once each
  Waiting,          \* runs in which the workflow may enter a wait
  Timed,            \* executions that have a timeout
  MaxFaults,        \* bound: calls of the database that fail
  MaxRestarts       \* bound: crashes and shutdowns, each followed by a start

ASSUME LifecycleAssumption ==
  /\ IsFiniteSet(Runs) /\ NoRun \notin Runs
  /\ execOf \in [Runs -> Executions]
  /\ ProductionLimit \in Nat \ {0}
  /\ Stoppable \subseteq Executions /\ Waiting \subseteq Runs /\ Timed \subseteq Executions
  /\ MaxFaults \in Nat /\ MaxRestarts \in Nat

VARIABLES
  db,               \* the row of each execution
  pc,               \* where each run is
  tracked,          \* runs whose completion has a callback (see StartEngine)
  outcome,          \* how the engine of each run ended
  cancelled,        \* runs whose engine was cancelled
  cancelWrite,      \* cancelled engines that have yet to save this
  settled,          \* runs whose postExecutePromise has settled
  active,           \* ActiveExecutions.activeExecutions
  isEnabled,        \* ConcurrencyControlService.isEnabled
  productionQueue,  \* ConcurrencyControlService.productionQueue
  slot,             \* runs that took capacity and have not given it back
  timers,           \* WaitTracker.waitingExecutions
  armed,            \* those whose timer has not been cleared
  found,            \* executions a poll has read and set no timer for yet
  tracking,         \* whether the WaitTracker polls
  stop,             \* the stop request of each execution
  openLogs,         \* executions the event log shows as started and not ended
  unrecovered,      \* rows a start left `running', for want of log messages
  faults, restarts
runVars  == <<pc, tracked, outcome, cancelled, cancelWrite, settled>>
slotVars == <<isEnabled, productionQueue, slot>>
waitVars == <<timers, armed, found, tracking>>
logVars  == <<openLogs, unrecovered>>
vars == <<db, runVars, active, slotVars, waitVars, stop, logVars, faults, restarts>>

NoEntry == [owner |-> NoRun, engine |-> NoRun]

\* A run is under way from its start to the end of its engine and callbacks.
Pcs == {"idle", "loading", "created", "queued", "admitted", "marked", "registered", "denied",
        "starting", "executing", "saving", "saved", "dropped", "refused", "stranded", "failed",
        "done"}
Engine == {"executing", "saving", "saved"}   \* the engine's promise is pending

Statuses == {"none", "new", "running", "waiting", "success", "error", "canceled", "crashed"}

TypeOK ==
  /\ db \in [Executions -> [status: Statuses, waitTill: {"none", "future", "due"}, finished: BOOLEAN]]
  /\ pc \in [Runs -> Pcs]
  /\ outcome \in [Runs -> {"none", "success", "error", "waiting", "canceled"}]
  /\ tracked \subseteq Runs /\ cancelled \subseteq Runs /\ cancelWrite \subseteq Runs
  /\ settled \subseteq Runs /\ slot \subseteq Runs
  /\ active \in [Executions -> [owner: Runs \cup {NoRun}, engine: Runs \cup {NoRun}]]
  /\ isEnabled \in BOOLEAN /\ tracking \in BOOLEAN
  /\ productionQueue \in Queues(Runs, Executions)
  /\ timers \subseteq Executions /\ armed \subseteq timers /\ found \subseteq Executions
  /\ openLogs \subseteq Executions /\ unrecovered \subseteq Executions
  /\ stop \in [Executions -> {"idle", "read", "before", "during", "done", "lost"}]
  /\ faults \in 0..MaxFaults /\ restarts \in 0..MaxRestarts

Init ==
  /\ db = [e \in Executions |-> [status |-> "none", waitTill |-> "none", finished |-> FALSE]]
  /\ pc = [r \in Runs |-> "idle"]
  /\ outcome = [r \in Runs |-> "none"]
  /\ tracked = {} /\ cancelled = {} /\ cancelWrite = {} /\ settled = {}
  /\ active = [e \in Executions |-> NoEntry]
  /\ isEnabled = TRUE /\ productionQueue = NewQueue(ProductionLimit) /\ slot = {}
  /\ timers = {} /\ armed = {} /\ found = {} /\ tracking = TRUE
  /\ stop = [e \in Executions |-> "idle"]
  /\ openLogs = {} /\ unrecovered = {} /\ faults = 0 /\ restarts = 0

-----------------------------------------------------------------------------
(* Starting a run.                                                         *)

Goto(r, label) == pc' = [pc EXCEPT ![r] = label]

\* A webhook or trigger starts an execution: add() without an id inserts the row.
Create(r) ==
  /\ pc[r] = "idle" /\ db[execOf[r]].status = "none"
  /\ db' = [db EXCEPT ![execOf[r]].status = "new"]
  /\ Goto(r, "created")
  /\ UNCHANGED <<tracked, outcome, cancelled, cancelWrite, settled, active, slotVars, waitVars,
                 stop, logVars, faults, restarts>>

\* throttle() in add(): the run goes on, with or without a slot, or is queued.
Throttle(r) ==
  /\ pc[r] = "created"
  /\ IF isEnabled
     THEN /\ productionQueue' = Enqueue(productionQueue, r, execOf[r])
          /\ Goto(r, IF MustWait(productionQueue) THEN "queued" ELSE "admitted")
          /\ slot' = IF MustWait(productionQueue) THEN slot ELSE slot \cup {r}
          /\ openLogs' = IF MustWait(productionQueue) THEN openLogs \ {execOf[r]} ELSE openLogs
     ELSE /\ Goto(r, "admitted")
          /\ UNCHANGED <<productionQueue, slot, openLogs>>
  /\ UNCHANGED <<db, tracked, outcome, cancelled, cancelWrite, settled, active, isEnabled,
                 waitVars, stop, unrecovered, faults, restarts>>

\* setRunning() for a new execution, updateExistingExecution() with waitTill
\* cleared for one that is resumed or rerun.
MarkRunning(r) ==
  /\ pc[r] = "admitted"
  /\ db' = [db EXCEPT ![execOf[r]].status = "running", ![execOf[r]].waitTill = "none"]
  /\ Goto(r, "marked")
  /\ unrecovered' = unrecovered \ {execOf[r]} /\ UNCHANGED openLogs
  /\ UNCHANGED <<tracked, outcome, cancelled, cancelWrite, settled, active, slotVars, waitVars,
                 stop, faults, restarts>>

\* That write fails: add() rejects and nothing gives the capacity back.
MarkRunningFails(r) ==
  /\ pc[r] = "admitted" /\ faults < MaxFaults
  /\ Goto(r, "failed")
  /\ faults' = faults + 1
  /\ UNCHANGED <<db, tracked, outcome, cancelled, cancelWrite, settled, active, slotVars,
                 waitVars, stop, logVars, restarts>>

\* add() enters the execution in the map, over any entry it may have there.
Register(r) ==
  /\ pc[r] = "marked"
  /\ active' = [active EXCEPT ![execOf[r]] = [owner |-> r, engine |-> NoRun]]
  /\ Goto(r, "registered")
  /\ UNCHANGED <<db, tracked, outcome, cancelled, cancelWrite, settled, slotVars, waitVars,
                 stop, logVars, faults, restarts>>

-----------------------------------------------------------------------------
(* The `finally' of a postExecutePromise: release() gives the capacity of  *)
(* the promise's own run back, and the entry of the execution is deleted,  *)
(* whichever run it belongs to.                                            *)

\* (mutant) Whoever is let through is not woken.
LetThroughUnheard(f, runs) == f
LetThrough(f, runs) == [r \in Runs |-> IF r \in runs THEN "admitted" ELSE f[r]]

\* (mutant) The capacity is not released.
SettleWithoutRelease(e, pcs) ==
  /\ settled' = settled \cup {active[e].owner}
  /\ active' = [active EXCEPT ![e] = NoEntry]
  /\ pc' = pcs
  /\ UNCHANGED <<productionQueue, slot>>

Settle(e, pcs) ==
  LET o == active[e].owner IN
  /\ settled' = settled \cup {o}
  /\ active' = [active EXCEPT ![e] = NoEntry]
  /\ IF isEnabled
     THEN /\ productionQueue' = Dequeue(productionQueue)
          /\ pc' = LetThrough(pcs, Resolved(productionQueue))
          /\ slot' = (slot \ {o}) \cup Resolved(productionQueue)
     ELSE /\ pc' = pcs
          /\ slot' = slot \ {o}
          /\ UNCHANGED productionQueue

\* finalizeExecution(): resolve the promise of the entry, if there is one. The run
\* that attached its engine to the entry then logs that the execution ended, which
\* it does not for a rejected promise.
Finalize(e, pcs) ==
  IF active[e] = NoEntry
  THEN pc' = pcs /\ UNCHANGED <<settled, active, productionQueue, slot, openLogs>>
  ELSE /\ Settle(e, pcs)
       /\ openLogs' = IF active[e].engine = NoRun THEN openLogs ELSE openLogs \ {e}

\* stopExecution(): cancel the engine of the entry, which will save that it was
\* cancelled, and reject the promise.
StopExecution(e) ==
  IF active[e] = NoEntry
  THEN UNCHANGED <<pc, settled, active, productionQueue, slot, cancelled, cancelWrite>>
  ELSE LET hit == { r \in {active[e].engine} \ cancelled : r # NoRun /\ pc[r] \in Engine } IN
       /\ cancelled' = cancelled \cup hit
       /\ cancelWrite' = cancelWrite \cup hit
       /\ Settle(e, pc)

-----------------------------------------------------------------------------
(* Running.                                                                *)

\* The permission check fails: the hooks save an error, then run() finalizes.
Deny(r) ==
  /\ pc[r] = "registered"
  /\ db' = [db EXCEPT ![execOf[r]].status = "error", ![execOf[r]].finished = FALSE]
  /\ Goto(r, "denied")
  /\ UNCHANGED <<tracked, outcome, cancelled, cancelWrite, settled, active, slotVars, waitVars,
                 stop, logVars, faults, restarts>>

\* The hooks catch and log a failing write.
DenyUnsaved(r) ==
  /\ pc[r] = "registered" /\ faults < MaxFaults
  /\ Goto(r, "denied")
  /\ faults' = faults + 1
  /\ UNCHANGED <<db, tracked, outcome, cancelled, cancelWrite, settled, active, slotVars,
                 waitVars, stop, logVars, restarts>>

\* (mutant) A denied execution is not finalized.
FinalizeDeniedNot(r) ==
  /\ pc[r] = "denied"
  /\ Goto(r, "done")
  /\ UNCHANGED <<db, tracked, outcome, cancelled, cancelWrite, settled, active, slotVars,
                 waitVars, stop, logVars, faults, restarts>>

FinalizeDenied(r) ==
  /\ pc[r] = "denied"
  /\ Finalize(execOf[r], [pc EXCEPT ![r] = "done"])
  /\ UNCHANGED <<db, tracked, outcome, cancelled, cancelWrite, isEnabled, waitVars, stop,
                 unrecovered, faults, restarts>>

\* runMainProcess() sets the row to running once more.
SetRunning(r) ==
  /\ pc[r] = "registered"
  /\ db' = [db EXCEPT ![execOf[r]].status = "running"]
  /\ Goto(r, "starting")
  /\ unrecovered' = unrecovered \ {execOf[r]} /\ UNCHANGED openLogs
  /\ UNCHANGED <<tracked, outcome, cancelled, cancelWrite, settled, active, slotVars, waitVars,
                 stop, faults, restarts>>

\* That write fails, or a call before it: the static data, the base of the
\* additional data, the hooks of a denial. run() rejects, and nothing of it is
\* left to remove the entry or to write the row.
RunFails(r) ==
  /\ pc[r] = "registered" /\ faults < MaxFaults
  /\ Goto(r, "stranded")
  /\ faults' = faults + 1
  /\ UNCHANGED <<db, tracked, outcome, cancelled, cancelWrite, settled, active, slotVars,
                 waitVars, stop, logVars, restarts>>

\* The engine starts, then attachWorkflowExecution() looks the entry up. If it
\* is gone, the error skips the completion callback and the timeout, processError()
\* ignores it, and the engine runs on.
StartEngine(r) ==
  /\ pc[r] = "starting"
  /\ Goto(r, "executing")
  /\ IF active[execOf[r]] = NoEntry
     THEN UNCHANGED <<active, tracked>>
     ELSE /\ active' = [active EXCEPT ![execOf[r]].engine = r]
          /\ tracked' = tracked \cup {r}
  /\ openLogs' = openLogs \cup {execOf[r]}
  /\ UNCHANGED <<db, outcome, cancelled, cancelWrite, settled, slotVars, waitVars, stop,
                 unrecovered, faults, restarts>>

\* The workflow ends: the engine starts to save how. "canceled" is the soft
\* timeout the engine checks between nodes.
EngineEnds(r, how) ==
  /\ pc[r] = "executing" /\ r \notin cancelled
  /\ how = "waiting" => r \in Waiting
  /\ how = "canceled" => execOf[r] \in Timed
  /\ outcome' = [outcome EXCEPT ![r] = how]
  /\ Goto(r, "saving")
  /\ UNCHANGED <<db, tracked, cancelled, cancelWrite, settled, active, slotVars, waitVars, stop,
                 logVars, faults, restarts>>

\* hookFunctionsSave writes the final status.
SaveResult(r) ==
  /\ pc[r] = "saving"
  /\ db' = [db EXCEPT ![execOf[r]] =
              [status   |-> outcome[r],
               waitTill |-> IF outcome[r] = "waiting" THEN "future" ELSE @.waitTill,
               finished |-> outcome[r] = "success"]]
  /\ Goto(r, "saved")
  /\ UNCHANGED <<tracked, outcome, cancelled, cancelWrite, settled, active, slotVars, waitVars,
                 stop, logVars, faults, restarts>>

\* The hook catches and logs a failing write.
SaveResultFails(r) ==
  /\ pc[r] = "saving" /\ faults < MaxFaults
  /\ Goto(r, "saved")
  /\ faults' = faults + 1
  /\ UNCHANGED <<db, tracked, outcome, cancelled, cancelWrite, settled, active, slotVars,
                 waitVars, stop, logVars, restarts>>

\* A cancelled engine returns after the current node, without saving again.
EngineAborts(r) ==
  /\ pc[r] = "executing" /\ r \in cancelled
  /\ Goto(r, "saved")
  /\ UNCHANGED <<db, tracked, outcome, cancelled, cancelWrite, settled, active, slotVars,
                 waitVars, stop, logVars, faults, restarts>>

\* onCancel saved the run as canceled; undefined leaves waitTill as it is.
SaveCancel(r) ==
  /\ r \in cancelWrite
  /\ cancelWrite' = cancelWrite \ {r}
  /\ db' = [db EXCEPT ![execOf[r]].status = "canceled", ![execOf[r]].finished = FALSE]
  /\ UNCHANGED <<pc, tracked, outcome, cancelled, settled, active, slotVars, waitVars, stop,
                 logVars, faults, restarts>>

\* The hook catches and logs a failing write here too.
SaveCancelFails(r) ==
  /\ r \in cancelWrite /\ faults < MaxFaults
  /\ cancelWrite' = cancelWrite \ {r}
  /\ faults' = faults + 1
  /\ UNCHANGED <<db, pc, tracked, outcome, cancelled, settled, active, slotVars, waitVars, stop,
                 logVars, restarts>>

\* The completion callback finalizes the execution. When the entry is gone,
\* getStatus() throws and processError() ignores that.
Complete(r) ==
  /\ pc[r] = "saved"
  /\ IF r \in tracked
     THEN Finalize(execOf[r], [pc EXCEPT ![r] = "done"])
     ELSE Goto(r, "done") /\ UNCHANGED <<settled, active, productionQueue, slot, openLogs>>
  /\ UNCHANGED <<db, tracked, outcome, cancelled, cancelWrite, isEnabled, waitVars, stop,
                 unrecovered, faults, restarts>>

\* The timeout armed when the engine was attached; completion disarms it.
Timeout(r) ==
  /\ pc[r] \in Engine /\ r \in tracked /\ execOf[r] \in Timed
  /\ active[execOf[r]] # NoEntry
  /\ StopExecution(execOf[r])
  /\ UNCHANGED <<db, tracked, outcome, isEnabled, waitVars, stop, logVars, faults, restarts>>

-----------------------------------------------------------------------------
(* A user stops an execution (executions/execution.service.ts).            *)

Stop(e, label) == stop' = [stop EXCEPT ![e] = label]

\* stop() reads the row and refuses one that has ended.
StopRead(e) ==
  /\ e \in Stoppable /\ stop[e] = "idle"
  /\ db[e].status \in {"new", "waiting", "running"}
  /\ Stop(e, "read")
  /\ UNCHANGED <<db, runVars, active, slotVars, waitVars, logVars, faults, restarts>>

\* stopInRegularMode() of an execution that is queued: take it out of the queue.
StopQueued(e) ==
  /\ stop[e] = "read"
  /\ isEnabled /\ e \in GetAll(productionQueue)
  /\ productionQueue' = RemoveItem(productionQueue, e)
  /\ LET released == ResolvedByRemove(productionQueue, e) IN
     /\ pc' = LetThrough([r \in Runs |-> IF r \in Dropped(productionQueue, e)
                                         THEN "dropped" ELSE pc[r]], released)
     /\ slot' = slot \cup released
  /\ Stop(e, "before")
  /\ UNCHANGED <<db, tracked, outcome, cancelled, cancelWrite, settled, active, isEnabled,
                 waitVars, logVars, faults, restarts>>

\* Otherwise: stop it if it is active, and forget its timer.
StopActive(e) ==
  /\ stop[e] = "read"
  /\ ~(isEnabled /\ e \in GetAll(productionQueue))
  /\ StopExecution(e)
  /\ timers' = timers \ {e} /\ armed' = armed \ {e}
  /\ Stop(e, "during")
  /\ UNCHANGED <<db, tracked, outcome, isEnabled, found, tracking, logVars, faults, restarts>>

\* stopBeforeRun() writes the status alone, stopDuringRun() the whole execution
\* as it was read, with the wait cleared.
StopWrite(e) ==
  /\ stop[e] \in {"before", "during"}
  /\ db' = [db EXCEPT ![e] = IF stop[e] = "before"
                             THEN [@ EXCEPT !.status = "canceled"]
                             ELSE [status |-> "canceled", waitTill |-> "none", finished |-> FALSE]]
  /\ Stop(e, "done")
  /\ UNCHANGED <<runVars, active, slotVars, waitVars, logVars, faults, restarts>>

\* A failing write fails the request.
StopWriteFails(e) ==
  /\ stop[e] \in {"before", "during"} /\ faults < MaxFaults
  /\ Stop(e, "lost")
  /\ faults' = faults + 1
  /\ UNCHANGED <<db, runVars, active, slotVars, waitVars, logVars, restarts>>

-----------------------------------------------------------------------------
(* Resuming what waits (wait-tracker.ts, webhooks/waiting-webhooks.ts).    *)

\* The time an execution waits for comes into the reach of the next poll.
TimePasses(e) ==
  /\ db[e].waitTill = "future"
  /\ db' = [db EXCEPT ![e].waitTill = "due"]
  /\ UNCHANGED <<runVars, active, slotVars, waitVars, stop, logVars, faults, restarts>>

\* getWaitingExecutions() of the repository: every row whose wait is over,
\* except those that crashed.
Due == { e \in Executions : db[e].waitTill = "due" /\ db[e].status # "crashed" }

\* A poll reads the database and is over before the next one begins, 60 s later.
PollRead ==
  /\ tracking /\ found = {}
  /\ found' = Due
  /\ UNCHANGED <<db, runVars, active, slotVars, timers, armed, tracking, stop, logVars, faults,
                 restarts>>

\* The poll continues: a timer for each it found that has none.
PollSet ==
  /\ found # {}
  /\ timers' = timers \cup found
  /\ armed' = armed \cup (found \ timers)
  /\ found' = {}
  /\ UNCHANGED <<db, runVars, active, slotVars, tracking, stop, logVars, faults, restarts>>

\* startExecution() forgets the timer before it loads the execution.
TimerFires(e, r) ==
  /\ e \in armed
  /\ execOf[r] = e /\ pc[r] = "idle"
  /\ timers' = timers \ {e} /\ armed' = armed \ {e}
  /\ Goto(r, "loading")
  /\ UNCHANGED <<db, tracked, outcome, cancelled, cancelWrite, settled, active, slotVars, found,
                 tracking, stop, logVars, faults, restarts>>

\* (mutant) The test of `finished' is inverted.
LoadInverted(r) ==
  /\ pc[r] = "loading"
  /\ Goto(r, IF db[execOf[r]].finished THEN "created" ELSE "refused")
  /\ UNCHANGED <<db, tracked, outcome, cancelled, cancelWrite, settled, active, slotVars,
                 waitVars, stop, logVars, faults, restarts>>

\* It refuses an execution that finished, and looks at nothing else.
Load(r) ==
  /\ pc[r] = "loading"
  /\ Goto(r, IF db[execOf[r]].finished THEN "refused" ELSE "created")
  /\ UNCHANGED <<db, tracked, outcome, cancelled, cancelWrite, settled, active, slotVars,
                 waitVars, stop, logVars, faults, restarts>>

\* The row cannot be read: the execution goes on waiting, for the next poll.
LoadFails(r) ==
  /\ pc[r] = "loading" /\ faults < MaxFaults
  /\ Goto(r, "refused")
  /\ faults' = faults + 1
  /\ UNCHANGED <<db, tracked, outcome, cancelled, cancelWrite, settled, active, slotVars,
                 waitVars, stop, logVars, restarts>>

\* The resume URL of an execution is called. A row that stopDuringRun() or a
\* failed run wrote holds an error and is refused, as is one that is running.
ResumeByWebhook(r) ==
  /\ pc[r] = "idle"
  /\ db[execOf[r]].waitTill # "none" /\ ~db[execOf[r]].finished
  /\ db[execOf[r]].status \notin {"running", "error"}
  /\ Goto(r, "created")
  /\ UNCHANGED <<db, tracked, outcome, cancelled, cancelWrite, settled, active, slotVars,
                 waitVars, stop, logVars, faults, restarts>>

-----------------------------------------------------------------------------
(* Shutdown, crash and start (commands/start.ts).                          *)

\* stopProcess() stops the tracking first: it clears the timers and keeps their
\* entries. A poll that is under way goes on.
StopTracking ==
  /\ tracking /\ restarts < MaxRestarts
  /\ tracking' = FALSE
  /\ armed' = {}
  /\ UNCHANGED <<db, runVars, active, slotVars, timers, found, stop, logVars, faults, restarts>>

\* Later it disables the limit, and waits for the active executions.
DisableLimit ==
  /\ ~tracking /\ isEnabled
  /\ isEnabled' = FALSE
  /\ UNCHANGED <<db, runVars, active, productionQueue, slot, waitVars, stop, logVars, faults,
                 restarts>>

\* (mutant) The recovery leaves every row as it is.
RecoveredNot(row) == row

\* What recoverFromLogs() makes of a row whose log has node messages, or has no
\* messages at all. Its hooks save the row again: one with a wait waits.
Recovered(row) ==
  IF row.status = "success" THEN row
  ELSE [row EXCEPT !.finished = FALSE,
                   !.status = IF row.waitTill # "none" THEN "waiting"
                              ELSE IF row.status = "error" THEN "error" ELSE "crashed"]

\* Rows a start finds unfinished, in the log or in the database.
Unfinished == openLogs \cup { e \in Executions : db[e].status = "running" }

Enqueued == { e \in Executions : db[e].status = "new" }

\* The process is gone, by a crash or at the end of a shutdown, and starts again.
\* `kept' are those of the unfinished executions whose log has no node message:
\* recovery leaves them alone. Every execution that was enqueued gets a run.
Restart(kept, starters) ==
  /\ restarts < MaxRestarts
  /\ kept \subseteq openLogs
  /\ \A r \in starters : pc[r] = "idle"
  /\ { execOf[r] : r \in starters } = Enqueued
  /\ Cardinality(starters) = Cardinality(Enqueued)
  /\ openLogs' = kept \ Enqueued
  /\ db' = [e \in Executions |-> IF e \in Unfinished \ kept THEN Recovered(db[e]) ELSE db[e]]
  /\ unrecovered' = { e \in kept : db[e].status = "running" }
  /\ pc' = [r \in Runs |-> IF r \in starters THEN "created"
                           ELSE IF pc[r] \in {"idle", "dropped", "refused", "done"} THEN pc[r]
                           ELSE "failed"]
  /\ active' = [e \in Executions |-> NoEntry]
  /\ isEnabled' = TRUE /\ productionQueue' = NewQueue(ProductionLimit) /\ slot' = {}
  /\ cancelWrite' = {}
  /\ timers' = {} /\ armed' = {} /\ found' = {} /\ tracking' = TRUE
  /\ stop' = [e \in Executions |-> IF stop[e] \in {"idle", "done"} THEN stop[e] ELSE "lost"]
  /\ restarts' = restarts + 1
  /\ UNCHANGED <<tracked, outcome, cancelled, settled, faults>>

-----------------------------------------------------------------------------
Start(r) == Create(r) \/ Throttle(r) \/ MarkRunning(r) \/ Register(r) \/ SetRunning(r)
              \/ StartEngine(r) \/ Deny(r) \/ FinalizeDenied(r)
Ends(r)  == \E how \in {"success", "error", "waiting", "canceled"} : EngineEnds(r, how)
Finish(r) == SaveResult(r) \/ EngineAborts(r) \/ SaveCancel(r) \/ Complete(r)

Next ==
  \/ \E r \in Runs : Start(r) \/ Ends(r) \/ Finish(r) \/ Timeout(r)
                       \/ Load(r) \/ ResumeByWebhook(r)
                       \/ MarkRunningFails(r) \/ DenyUnsaved(r) \/ RunFails(r)
                       \/ SaveResultFails(r) \/ SaveCancelFails(r) \/ LoadFails(r)
  \/ \E e \in Executions : StopRead(e) \/ StopQueued(e) \/ StopActive(e) \/ StopWrite(e)
                             \/ StopWriteFails(e)
                             \/ TimePasses(e) \/ (\E r \in Runs : TimerFires(e, r))
  \/ PollRead \/ PollSet
  \/ StopTracking \/ DisableLimit
  \/ \E kept \in SUBSET openLogs, starters \in SUBSET Runs : Restart(kept, starters)

Spec == Init /\ [][Next]_vars

\* Each run and each writer goes on until it has nothing left to do; an engine
\* ends some day; a poll is followed by its timers and they fire; time passes.
Fairness ==
  /\ \A r \in Runs : /\ WF_vars(pc[r] # "idle" /\ Start(r)) /\ WF_vars(Ends(r))
                     /\ WF_vars(SaveResult(r)) /\ WF_vars(EngineAborts(r))
                     /\ WF_vars(SaveCancel(r)) /\ WF_vars(Complete(r)) /\ WF_vars(Load(r))
  /\ \A e \in Executions :
       /\ WF_vars(StopQueued(e) \/ StopActive(e)) /\ WF_vars(StopWrite(e))
       /\ WF_vars(TimePasses(e)) /\ WF_vars(\E r \in Runs : TimerFires(e, r))
  /\ WF_vars(PollRead) /\ WF_vars(PollSet)
  /\ WF_vars(DisableLimit)
  /\ WF_vars(~tracking /\ ~isEnabled /\ \E kept \in SUBSET openLogs, starters \in SUBSET Runs :
                                            Restart(kept, starters))
FairSpec == Spec /\ Fairness

-----------------------------------------------------------------------------
(* What holds.                                                             *)

RunsOf(e) == { r \in Runs : execOf[r] = e }

\* Nobody is forgotten in the `new' state: an enqueued row always has a run that
\* will take it on, or a stop request about to write that it is canceled, over
\* stops, shutdowns and crashes. Only a failed write breaks that.
EnqueuedHasRun ==
  \A e \in Executions : db[e].status = "new" =>
    \/ \E r \in RunsOf(e) : pc[r] \in {"created", "queued", "admitted"}
    \/ stop[e] = "before"
    \/ faults > 0

\* No row says `running' when nothing runs: some run will still write to it, a
\* stop is being written, or a start left it so on purpose. Only a failed write
\* breaks that.
RunningRowHasRun ==
  \A e \in Executions : db[e].status = "running" =>
    \/ \E r \in RunsOf(e) : pc[r] \in {"marked", "registered", "starting", "executing", "saving"}
    \/ \E r \in RunsOf(e) : r \in cancelWrite
    \/ stop[e] = "during"
    \/ e \in unrecovered
    \/ faults > 0

\* Over stops, shutdowns and crashes no row is left behind.
UnfinishedHasRun == EnqueuedHasRun /\ RunningRowHasRun

\* An entry of ActiveExecutions always has a run that will remove it, its owner:
\* shutdown(), which waits for the map to empty, would wait forever for one that
\* has none. Only a run that failed between the two writes of `running' leaves one.
NoStaleEntry ==
  \A e \in Executions : active[e] # NoEntry =>
    LET o == active[e].owner IN
    \/ pc[o] \in {"registered", "denied", "starting"}
    \/ pc[o] \in Engine /\ o \in tracked
    \/ pc[o] = "stranded"

\* Capacity is held by executions the map knows, or is about to: when none is
\* left, all of it has come back.
SlotHeldWhileActive ==
  \A r \in slot : pc[r] \in {"admitted", "marked"} \/ active[execOf[r]].owner = r

\* The state of an execution that runs once: of its types, and no capacity is left behind.
Inv == TypeOK /\ SlotHeldWhileActive

\* An execution that was stopped while it was queued, and had not run before,
\* never runs and stays canceled, whatever stops and starts follow. Only a crash
\* before the stop has written the row lets the next start run it.
StoppedInQueueIsFinal ==
  [][ \A r \in Runs :
        /\ pc[r] = "dropped" /\ stop[execOf[r]] = "done"
        /\ db[execOf[r]] = [status |-> "canceled", waitTill |-> "none", finished |-> FALSE]
        => pc'[r] = "dropped" /\ db'[execOf[r]] = db[execOf[r]] ]_vars

\* Every enqueued execution is taken on or canceled, over a shutdown or a crash,
\* unless a write to the database fails.
EnqueuedIsServed ==
  \A e \in Executions : db[e].status = "new" ~> db[e].status # "new" \/ faults > 0

\* Every execution comes to an end, or to a wait.
EveryExecutionEnds ==
  \A e \in Executions :
    db[e].status \in {"new", "running"} ~> db[e].status \notin {"new", "running"}

\* A wait that is over is noticed: the execution leaves `waiting'.
WaitIsOver ==
  \A e \in Executions :
    db[e].status = "waiting" /\ db[e].waitTill = "due" ~> db[e].status # "waiting"

\* The queue, the capacity and what add() and the promises do with them are a
\* use of the concurrency limit as ConcurrencyControl specifies it.
limitStatus ==
  [r \in Runs |-> IF pc[r] \in {"idle", "loading", "created", "refused"} THEN "idle"
                  ELSE IF pc[r] \in {"queued", "dropped"} THEN pc[r]
                  ELSE IF r \in slot THEN "admitted"
                  ELSE IF r \in settled THEN "done" ELSE "bypassed"]

Limit == INSTANCE ConcurrencyControl WITH
  Calls <- Runs, ExecutionIds <- Executions, idOf <- execOf,
  modeOf <- [r \in Runs |-> "webhook"], ExecutionsMode <- "regular",
  status <- limitStatus, removals <- Cardinality({ r \in Runs : pc[r] = "dropped" })

LimitSpec == Limit!Spec

=============================================================================
