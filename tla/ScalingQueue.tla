---------------------------- MODULE ScalingQueue ----------------------------
(***************************************************************************)
(* Queue mode: a server (a main or a webhook process) creates the row of   *)
(* an execution and adds a job (WorkflowRunner.enqueueExecution()), a      *)
(* worker takes the job, runs the execution and saves the row              *)
(* (JobProcessor), and the server waits for the job to finish.  Any server *)
(* may stop any execution, and each recovers rows that have no job         *)
(* (ScalingService).  The queue itself is the library Bull.                *)
(*                                                                         *)
(* An execution has one job: resuming after a wait is not modelled here.   *)
(***************************************************************************)
EXTENDS Naturals, FiniteSets

CONSTANTS
  Executions, Servers, Workers,
  NoOne,            \* no worker, no server
  Enqueuers,        \* servers that production executions reach
  Recoverers,       \* servers that hold themselves for leaders when they set up the queue
  Stoppable,        \* executions somebody asks to stop, once
  OtherJobs,        \* are there always jobs of other executions in the queue?
  StalledCounts,    \* settings of maxStalledCount: how often a stalled job is given back
  Concurrency,      \* jobs a worker takes at the same time
  MaxMishaps        \* bound: processes that go and come back with nothing, locks lost by
                    \* workers that go on, calls of Redis, the database or a hook that fail

ASSUME ScalingAssumption ==
  /\ Stoppable \subseteq Executions /\ Enqueuers \cup Recoverers \subseteq Servers
  /\ NoOne \notin Servers \cup Workers
  /\ OtherJobs \in BOOLEAN
  /\ StalledCounts \cup {Concurrency, MaxMishaps} \subseteq Nat

VARIABLES
  row,           \* status of each execution in the database
  job,           \* where the job of each execution is
  lock,          \* the worker that holds the lock of the job
  stalls,        \* how often the job was given back
  maxStalledCount,  \* the setting
  caller,        \* how far enqueueExecution() is for each execution
  origin,        \* the server that executes it
  tracked,       \* ActiveExecutions of the servers: entries that have not settled
  work,          \* how far each worker is with each job (processJob())
  runningJobs,   \* JobProcessor.runningJobs of the workers
  cancelWrites,  \* cancelled engines whose hook has yet to save the row
  aborts,        \* executions whose `abort-job' message is on its way
  stopper,       \* how far stopping is: the request, and onCancel() of the run
  stopServer,    \* the server that handles the request
  recovery,      \* the queue recovery of each server
  dropped,       \* executions whose row a save that failed, or a worker without the lock,
                 \* left as it was
  unchallenged,  \* history: successes that were saved while nobody else had the row in view
  mishaps        \* how many of them have happened
serverVars   == <<caller, origin, tracked>>
stallVars    == <<stalls, maxStalledCount>>
jobVars      == <<job, lock, stallVars>>
workerVars   == <<work, runningJobs, cancelWrites, dropped, unchallenged>>
stopVars     == <<stopper, stopServer, aborts>>
vars == <<row, jobVars, serverVars, workerVars, stopVars, recovery, mishaps>>

InProgress == {"new", "running"}
Ended      == {"success", "error", "canceled", "crashed"}
Stoppers   == {"request", "onCancel"}
Idle       == [at |-> "idle", stored |-> {}]

TypeOK ==
  /\ row \in [Executions -> InProgress \cup Ended \cup {"none"}]
  /\ job \in [Executions -> {"none", "waiting", "active", "completed", "failed", "removed"}]
  /\ lock \in [Executions -> Workers \cup {NoOne}]
  /\ maxStalledCount \in StalledCounts
  /\ stalls \in [Executions -> 0..maxStalledCount]
  /\ caller \in [Executions -> {"none", "created", "added", "awaiting", "refused", "failed",
                                "writing", "withdrawing", "deaf", "gaveUp", "lost",
                                "over"}]
  /\ origin \in [Executions -> Servers \cup {NoOne}]
  /\ tracked \subseteq Executions
  /\ work \in [Workers -> [Executions -> {"idle", "taken", "read", "marked", "executing",
                                          "saving", "saved", "ended", "thrown"}]]
  /\ runningJobs \subseteq Workers \X Executions
  /\ cancelWrites \subseteq Workers \X Executions
  /\ aborts \subseteq Executions
  /\ stopper \in [Executions -> [Stoppers -> {"none", "read", "active", "remove",
                                              "abort", "check", "write", "over", "lost"}]]
  /\ stopServer \in [Executions -> Servers \cup {NoOne}]
  /\ recovery \in [Servers -> [at: {"idle", "listed", "marking"}, stored: SUBSET Executions]]
  /\ dropped \subseteq Executions /\ unchallenged \subseteq Executions
  /\ mishaps \in 0..MaxMishaps

Init ==
  /\ row = [e \in Executions |-> "none"]
  /\ job = [e \in Executions |-> "none"]
  /\ lock = [e \in Executions |-> NoOne]
  /\ stalls = [e \in Executions |-> 0]
  /\ maxStalledCount \in StalledCounts
  /\ caller = [e \in Executions |-> "none"]
  /\ origin = [e \in Executions |-> NoOne]
  /\ tracked = {}
  /\ work = [w \in Workers |-> [e \in Executions |-> "idle"]]
  /\ runningJobs = {} /\ cancelWrites = {} /\ aborts = {} /\ dropped = {}
  /\ unchallenged = {}
  /\ stopper = [e \in Executions |-> [s \in Stoppers |-> "none"]]
  /\ stopServer = [e \in Executions |-> NoOne]
  /\ recovery = [p \in Servers |-> Idle]
  /\ mishaps = 0

Stopping(e, s) == stopper[e][s] \notin {"none", "over", "lost"}

SetRow(e, status) == row' = [row EXCEPT ![e] = status]
CallerAt(e, at)   == caller' = [caller EXCEPT ![e] = at]
WorkAt(w, e, at)  == work' = [work EXCEPT ![w][e] = at]
StopAt(e, s, at)  == stopper' = [stopper EXCEPT ![e][s] = at]
Mishap == mishaps < MaxMishaps /\ mishaps' = mishaps + 1

-----------------------------------------------------------------------------
(* The server: add(), enqueueExecution(), processError().                  *)

Create(p, e) ==
  /\ caller[e] = "none"
  /\ SetRow(e, "new")
  /\ tracked' = tracked \cup {e}
  /\ origin' = [origin EXCEPT ![e] = p]
  /\ CallerAt(e, "created")
  /\ UNCHANGED <<jobVars, workerVars, stopVars, recovery, mishaps>>

AddJob(e) ==
  /\ caller[e] = "created"
  /\ job' = [job EXCEPT ![e] = "waiting"]
  /\ CallerAt(e, "added")
  /\ UNCHANGED <<row, lock, stallVars, origin, tracked, workerVars, stopVars, recovery, mishaps>>

\* Adding the job or, with the job in the queue, the hook before the run throws.
EnqueueFails(e) ==
  /\ caller[e] \in {"created", "added"} /\ Mishap
  /\ CallerAt(e, "refused")
  /\ UNCHANGED <<row, jobVars, origin, tracked, workerVars, stopVars, recovery>>

JobIsOver(e) == job[e] \in {"completed", "failed", "removed"}

\* job.finished() hears of a job that ends later; one that is over is gone from the
\* queue (removeOnComplete, removeOnFail), and nothing tells of it.
Await(e) ==
  /\ caller[e] = "added"
  /\ CallerAt(e, IF JobIsOver(e) THEN "deaf" ELSE "awaiting")
  /\ UNCHANGED <<row, jobVars, origin, tracked, workerVars, stopVars, recovery, mishaps>>

JobFinished(e) ==
  /\ caller[e] = "awaiting" /\ job[e] = "completed"
  /\ tracked' = tracked \ {e}
  /\ CallerAt(e, "over")
  /\ UNCHANGED <<row, jobVars, origin, workerVars, stopVars, recovery, mishaps>>

JobFailed(e) ==
  /\ caller[e] = "awaiting" /\ job[e] = "failed"
  /\ CallerAt(e, "failed")
  /\ UNCHANGED <<row, jobVars, origin, tracked, workerVars, stopVars, recovery, mishaps>>

\* (mutant) No look at the row before the error is saved.
IsFalsePositiveNever(e) == FALSE

\* (mutant) An execution that has begun counts as done.
IsFalsePositiveStarted(e) == row[e] # "new"

\* The job failed, yet the execution was successful.
IsFalsePositive(e) == row[e] = "success"

\* (mutant) A false positive leaves the entry, whoever finds it.
ProcessErrorKeeps(e) ==
  /\ caller[e] \in {"failed", "refused"}
  /\ tracked' = IF IsFalsePositive(e) THEN tracked ELSE tracked \ {e}
  /\ CallerAt(e, IF IsFalsePositive(e) THEN "over" ELSE "writing")
  /\ UNCHANGED <<row, jobVars, origin, workerVars, stopVars, recovery, mishaps>>

\* processError() up to its hook; after a failed job the entry settles in any case,
\* after a failed enqueueing a false positive leaves it, as run() throws.
ProcessError(e) ==
  /\ caller[e] \in {"failed", "refused"}
  /\ tracked' = IF caller[e] = "refused" /\ IsFalsePositive(e) THEN tracked ELSE tracked \ {e}
  /\ CallerAt(e, CASE caller[e] = "failed"  -> IF IsFalsePositive(e) THEN "over" ELSE "writing"
                   [] caller[e] = "refused" -> IF IsFalsePositive(e) THEN "gaveUp" ELSE "withdrawing")
  /\ UNCHANGED <<row, jobVars, origin, workerVars, stopVars, recovery, mishaps>>

\* Reading the row fails, or finds none: for the result of the job, or for the sanity run of
\* processError().  Nothing writes the row, and nothing settles the entry any more; a run
\* that was attached can still be cancelled.
ReadFails(e) ==
  /\ \/ caller[e] = "awaiting" /\ job[e] = "completed"
     \/ caller[e] \in {"failed", "refused"}
  /\ Mishap
  /\ CallerAt(e, IF caller[e] = "refused" THEN "gaveUp" ELSE "deaf")
  /\ UNCHANGED <<row, jobVars, origin, tracked, workerVars, stopVars, recovery>>

AfterSaveError(e) == CallerAt(e, IF caller[e] = "writing" THEN "over" ELSE "gaveUp")

SaveError(e) ==
  /\ caller[e] \in {"writing", "withdrawing"}
  /\ SetRow(e, "error")
  /\ AfterSaveError(e)
  /\ UNCHANGED <<jobVars, origin, tracked, workerVars, stopVars, recovery, mishaps>>

\* The hooks that save swallow their errors, those of a server and those of a worker.  This
\* one needs no bound: it is the last thing the server does.
SaveErrorFails(e) ==
  /\ caller[e] \in {"writing", "withdrawing"}
  /\ dropped' = dropped \cup {e}
  /\ AfterSaveError(e)
  /\ UNCHANGED <<row, jobVars, origin, tracked, work, runningJobs, cancelWrites, unchallenged,
                 stopVars, recovery, mishaps>>

-----------------------------------------------------------------------------
(* The queue and the worker: Bull, setupWorker(), processJob().            *)

Busy(w) == { e \in Executions : work[w][e] # "idle" }

\* A worker takes no job it is still at, even if it has lost the lock.
TakeJob(w, e) ==
  /\ job[e] = "waiting" /\ e \notin Busy(w) /\ Cardinality(Busy(w)) < Concurrency
  /\ job' = [job EXCEPT ![e] = "active"]
  /\ lock' = [lock EXCEPT ![e] = w]
  /\ WorkAt(w, e, "taken")
  /\ UNCHANGED <<row, stallVars, serverVars, runningJobs, cancelWrites, dropped, unchallenged,
                 stopVars, recovery, mishaps>>

\* `We refrain from processing' a crashed execution.
Refuses(e) == row[e] = "crashed"

ReadRow(w, e) ==
  /\ work[w][e] = "taken"
  /\ WorkAt(w, e, IF Refuses(e) THEN "ended" ELSE "read")
  /\ UNCHANGED <<row, jobVars, serverVars, runningJobs, cancelWrites, dropped, unchallenged,
                 stopVars, recovery, mishaps>>

SetRunning(w, e) ==
  /\ work[w][e] = "read"
  /\ SetRow(e, "running")
  /\ WorkAt(w, e, "marked")
  /\ UNCHANGED <<jobVars, serverVars, runningJobs, cancelWrites, dropped, unchallenged, stopVars,
                 recovery, mishaps>>

StartEngine(w, e) ==
  /\ work[w][e] = "marked"
  /\ runningJobs' = runningJobs \cup {<<w, e>>}
  /\ WorkAt(w, e, "executing")
  /\ UNCHANGED <<row, jobVars, serverVars, cancelWrites, dropped, unchallenged, stopVars, recovery,
                 mishaps>>

\* Reading the row, marking it or loading the workflow throws; or, after the run, telling
\* that the job has finished.
ProcessJobThrows(w, e) ==
  /\ \/ work[w][e] \in {"taken", "read", "marked", "saved"}
     \/ work[w][e] = "executing" /\ <<w, e>> \notin runningJobs
  /\ Mishap
  /\ runningJobs' = runningJobs \ {<<w, e>>}
  /\ WorkAt(w, e, "thrown")
  /\ UNCHANGED <<row, jobVars, serverVars, cancelWrites, dropped, unchallenged, stopVars,
                 recovery>>

\* The engine ends, and saves its end unless it was cancelled.
EngineEnds(w, e) ==
  /\ work[w][e] = "executing"
  /\ WorkAt(w, e, IF <<w, e>> \in runningJobs THEN "saving" ELSE "ended")
  /\ UNCHANGED <<row, jobVars, serverVars, runningJobs, cancelWrites, dropped, unchallenged,
                 stopVars, recovery, mishaps>>

\* Somebody else has the row in view when a worker saves it.
Challenged(w, e) ==
  \/ caller[e] \in {"writing", "withdrawing"} \/ e \in aborts
  \/ \E s \in Stoppers : Stopping(e, s)
  \/ \E p \in Servers : e \in recovery[p].stored
  \/ \E v \in Workers : <<v, e>> \in cancelWrites \/ (v # w /\ work[v][e] # "idle")

SaveResult(w, e, how) ==
  /\ work[w][e] = "saving"
  /\ SetRow(e, how)
  /\ WorkAt(w, e, "saved")
  /\ unchallenged' = IF how = "success" /\ ~Challenged(w, e)
                     THEN unchallenged \cup {e} ELSE unchallenged
  /\ UNCHANGED <<jobVars, serverVars, runningJobs, cancelWrites, dropped, stopVars, recovery,
                 mishaps>>

SaveResultFails(w, e) ==
  /\ work[w][e] = "saving" /\ Mishap
  /\ dropped' = dropped \cup {e}
  /\ WorkAt(w, e, "saved")
  /\ UNCHANGED <<row, jobVars, serverVars, runningJobs, cancelWrites, unchallenged, stopVars,
                 recovery>>

\* The run resolves after the other hooks.
RunResolves(w, e) ==
  /\ work[w][e] = "saved"
  /\ runningJobs' = runningJobs \ {<<w, e>>}
  /\ WorkAt(w, e, "ended")
  /\ UNCHANGED <<row, jobVars, serverVars, cancelWrites, dropped, unchallenged, stopVars, recovery,
                 mishaps>>

\* The hook of a cancelled engine.
SaveCancel(w, e) ==
  /\ <<w, e>> \in cancelWrites
  /\ SetRow(e, "canceled")
  /\ cancelWrites' = cancelWrites \ {<<w, e>>}
  /\ UNCHANGED <<jobVars, serverVars, work, runningJobs, dropped, unchallenged, stopVars, recovery,
                 mishaps>>

SaveCancelFails(w, e) ==
  /\ <<w, e>> \in cancelWrites /\ Mishap
  /\ dropped' = dropped \cup {e}
  /\ cancelWrites' = cancelWrites \ {<<w, e>>}
  /\ UNCHANGED <<row, jobVars, serverVars, work, runningJobs, unchallenged, stopVars, recovery>>

\* Bull moves the job of a worker that still holds its lock.
JobEnds(w, e) ==
  /\ work[w][e] \in {"ended", "thrown"}
  /\ IF lock[e] = w /\ job[e] = "active"
     THEN /\ job' = [job EXCEPT ![e] = IF work[w][e] = "ended" THEN "completed" ELSE "failed"]
          /\ lock' = [lock EXCEPT ![e] = NoOne]
     ELSE UNCHANGED <<job, lock>>
  /\ dropped' = IF work[w][e] = "thrown" /\ lock[e] # w THEN dropped \cup {e} ELSE dropped
  /\ WorkAt(w, e, "idle")
  /\ UNCHANGED <<row, stallVars, serverVars, runningJobs, cancelWrites, unchallenged, stopVars,
                 recovery, mishaps>>

\* A job whose lock has expired goes back to the queue, or fails for good.
GiveBack(e) ==
  /\ lock' = [lock EXCEPT ![e] = NoOne]
  /\ IF stalls[e] < maxStalledCount
     THEN /\ job' = [job EXCEPT ![e] = "waiting"]
          /\ stalls' = [stalls EXCEPT ![e] = @ + 1]
     ELSE job' = [job EXCEPT ![e] = "failed"] /\ UNCHANGED stalls
  /\ UNCHANGED <<row, maxStalledCount, serverVars, workerVars, stopVars, recovery>>

\* The worker has gone...
JobStalls(e) ==
  /\ job[e] = "active" /\ work[lock[e]][e] = "idle"
  /\ GiveBack(e)
  /\ UNCHANGED mishaps

\* ...or is too busy to renew the lock.
LockLapses(e) ==
  /\ job[e] = "active" /\ work[lock[e]][e] # "idle"
  /\ GiveBack(e)
  /\ Mishap

-----------------------------------------------------------------------------
(* Stopping: stopInScalingMode(), onCancel() of the run, stopJob().        *)

StopRead(p, e) ==
  /\ e \in Stoppable /\ stopper[e]["request"] = "none" /\ row[e] \in InProgress
  /\ StopAt(e, "request", "read")
  /\ stopServer' = [stopServer EXCEPT ![e] = p]
  /\ UNCHANGED <<row, jobVars, serverVars, workerVars, aborts, recovery, mishaps>>

\* On the server of the execution the entry settles, and its run is cancelled if it
\* is attached already.
StopActive(e) ==
  LET here == stopServer[e] = origin[e] /\ e \in tracked
  IN  /\ stopper[e]["request"] = "read"
      /\ tracked' = IF here THEN tracked \ {e} ELSE tracked
      /\ stopper' = [stopper EXCEPT ![e] =
           [request |-> "active",
            onCancel |-> IF here /\ caller[e] \in {"awaiting", "deaf", "failed"}
                         THEN "active" ELSE "none"]]
      /\ UNCHANGED <<row, jobVars, caller, origin, workerVars, stopServer, aborts, recovery,
                     mishaps>>

InQueue(e) == job[e] \in {"waiting", "active"}

\* What comes after stopJob(): the request saves the row, onCancel() processes an error.
AfterStopJob(s) == IF s = "request" THEN "write" ELSE "check"

\* Finding the job (the request) and job.isActive(), as one look at the queue: for a job
\* that is in neither list the request skips stopJob(), and remove() would do nothing.
IsActive(e, s) ==
  /\ stopper[e][s] = "active"
  /\ StopAt(e, s, IF job[e] = "active" THEN "abort" ELSE "remove")
  /\ UNCHANGED <<row, jobVars, serverVars, workerVars, stopServer, aborts, recovery, mishaps>>

\* A job that was taken meanwhile is locked: remove() throws.
Remove(e, s) ==
  /\ stopper[e][s] = "remove"
  /\ StopAt(e, s, IF job[e] = "active" THEN "abort" ELSE AfterStopJob(s))
  /\ job' = IF job[e] = "waiting" THEN [job EXCEPT ![e] = "removed"] ELSE job
  /\ UNCHANGED <<row, lock, stallVars, serverVars, workerVars, stopServer, aborts, recovery,
                 mishaps>>

\* progress() sends `abort-job' to the workers.  For a job that is gone it may throw,
\* which ends the stop.
Abort(e, s) ==
  /\ stopper[e][s] = "abort"
  /\ \/ aborts' = aborts \cup {e} /\ StopAt(e, s, AfterStopJob(s))
     \/ ~InQueue(e) /\ StopAt(e, s, "over") /\ UNCHANGED aborts
  /\ UNCHANGED <<row, jobVars, serverVars, workerVars, stopServer, recovery, mishaps>>

\* Workers that do not run the execution yet, or no longer, ignore the message.
AbortArrives(e) ==
  LET hit == { we \in runningJobs : we[2] = e }
  IN  /\ e \in aborts
      /\ aborts' = aborts \ {e}
      /\ runningJobs' = runningJobs \ hit
      /\ cancelWrites' = cancelWrites \cup hit
      /\ UNCHANGED <<row, jobVars, serverVars, work, dropped, unchallenged, stopper, stopServer,
                     recovery, mishaps>>

CancelCheck(e) ==
  /\ stopper[e]["onCancel"] = "check"
  /\ StopAt(e, "onCancel", IF IsFalsePositive(e) THEN "over" ELSE "write")
  /\ UNCHANGED <<row, jobVars, serverVars, workerVars, stopServer, aborts, recovery, mishaps>>

\* stopDuringRun() for the request, the hook of processError() for onCancel().
StopWrite(e, s) ==
  /\ stopper[e][s] = "write"
  /\ SetRow(e, IF s = "request" THEN "canceled" ELSE "error")
  /\ StopAt(e, s, "over")
  /\ UNCHANGED <<jobVars, serverVars, workerVars, stopServer, aborts, recovery, mishaps>>

\* A call of a stop fails, which ends it; one that was to write the row is lost.
StopFails(e, s) ==
  /\ Stopping(e, s) /\ Mishap
  /\ StopAt(e, s, IF stopper[e][s] \in {"check", "write"} THEN "lost" ELSE "over")
  /\ UNCHANGED <<row, jobVars, serverVars, workerVars, stopServer, aborts, recovery>>

-----------------------------------------------------------------------------
(* Queue recovery: recoverFromQueue(), again and again.                    *)

\* (mutant) Only executions that have not begun are listed.
ListedNew == { e \in Executions : row[e] = "new" }

\* getInProgressExecutionIds(), with room in the batch for all.
Listed == { e \in Executions : row[e] \in InProgress }

ListRows(p) ==
  /\ recovery[p].at = "idle" /\ Listed # {}
  /\ recovery' = [recovery EXCEPT ![p] = [at |-> "listed", stored |-> Listed]]
  /\ UNCHANGED <<row, jobVars, serverVars, workerVars, stopVars, mishaps>>

QueueIsEmpty == ~OtherJobs /\ \A e \in Executions : ~InQueue(e)

Dangling(p) == { e \in recovery[p].stored : ~InQueue(e) }

\* With an empty queue nothing counts as dangling.
ListJobs(p) ==
  /\ recovery[p].at = "listed"
  /\ recovery' = [recovery EXCEPT ![p] =
       IF QueueIsEmpty \/ Dangling(p) = {} THEN Idle
       ELSE [at |-> "marking", stored |-> Dangling(p)]]
  /\ UNCHANGED <<row, jobVars, serverVars, workerVars, stopVars, mishaps>>

MarkAsCrashed(p) ==
  /\ recovery[p].at = "marking"
  /\ row' = [e \in Executions |-> IF e \in recovery[p].stored THEN "crashed" ELSE row[e]]
  /\ recovery' = [recovery EXCEPT ![p] = Idle]
  /\ UNCHANGED <<jobVars, serverVars, workerVars, stopVars, mishaps>>

\* A call of the recovery fails: it is repeated at the next interval.
RecoveryFails(p) ==
  /\ recovery[p].at # "idle" /\ Mishap
  /\ recovery' = [recovery EXCEPT ![p] = Idle]
  /\ UNCHANGED <<row, jobVars, serverVars, workerVars, stopVars>>

-----------------------------------------------------------------------------
(* Processes that go, by a crash or a shutdown, and come back.             *)

\* The executions in the hands of the server are nobody's, and what it was stopping.
ServerExits(p) ==
  LET here(e) == origin[e] = p /\ caller[e] \notin {"none", "over"}
  IN  /\ Mishap
      /\ caller' = [e \in Executions |-> IF here(e) THEN "lost" ELSE caller[e]]
      /\ tracked' = { e \in tracked : origin[e] # p }
      /\ stopper' = [e \in Executions |->
           [s \in Stoppers |-> IF Stopping(e, s) /\ stopServer[e] = p
                               THEN "lost" ELSE stopper[e][s]]]
      /\ recovery' = [recovery EXCEPT ![p] = Idle]
      /\ UNCHANGED <<row, jobVars, origin, workerVars, stopServer, aborts>>

\* A shutdown waits for runningJobs only, not for a job that is being prepared.
WorkerExits(w) ==
  /\ Mishap
  /\ work' = [work EXCEPT ![w] = [e \in Executions |-> "idle"]]
  /\ runningJobs' = { we \in runningJobs : we[1] # w }
  /\ cancelWrites' = { we \in cancelWrites : we[1] # w }
  /\ dropped' = dropped \cup
       { e \in Executions : lock[e] # w /\ (e \in Busy(w) \/ <<w, e>> \in cancelWrites) }
  /\ UNCHANGED <<row, jobVars, serverVars, unchallenged, stopVars, recovery>>

-----------------------------------------------------------------------------
Call(e) ==
  \/ AddJob(e) \/ Await(e) \/ JobFinished(e) \/ JobFailed(e) \/ ProcessError(e) \/ SaveError(e)
Job(w, e) ==
  \/ ReadRow(w, e) \/ SetRunning(w, e) \/ StartEngine(w, e) \/ EngineEnds(w, e)
  \/ (\E how \in {"success", "error", "canceled"} : SaveResult(w, e, how))
  \/ RunResolves(w, e) \/ JobEnds(w, e)
StopRequest(e) ==
  \/ StopActive(e) \/ IsActive(e, "request") \/ Remove(e, "request")
  \/ Abort(e, "request") \/ StopWrite(e, "request")
OnCancel(e) ==
  \/ IsActive(e, "onCancel") \/ Remove(e, "onCancel") \/ Abort(e, "onCancel")
  \/ CancelCheck(e) \/ StopWrite(e, "onCancel")
Recover(p) == ListRows(p) \/ ListJobs(p) \/ MarkAsCrashed(p)

Next ==
  \/ \E e \in Executions :
       \/ Call(e) \/ EnqueueFails(e) \/ ReadFails(e) \/ SaveErrorFails(e)
       \/ StopRequest(e) \/ OnCancel(e) \/ (\E s \in Stoppers : StopFails(e, s))
       \/ AbortArrives(e) \/ JobStalls(e) \/ LockLapses(e)
       \/ \E p \in Enqueuers : Create(p, e)
       \/ \E p \in Servers : StopRead(p, e)
       \/ \E w \in Workers : \/ TakeJob(w, e) \/ Job(w, e) \/ SaveCancel(w, e)
                             \/ ProcessJobThrows(w, e) \/ SaveResultFails(w, e)
                             \/ SaveCancelFails(w, e)
  \/ \E p \in Recoverers : Recover(p) \/ RecoveryFails(p)
  \/ \E p \in Servers : ServerExits(p)
  \/ \E w \in Workers : WorkerExits(w)

Spec == Init /\ [][Next]_vars

\* The caller and the worker go on, an engine ends, a waiting job is taken, a stalled job
\* is noticed, and the recovery runs at its interval.  Nothing is asked of the stop of an
\* execution or of its messages: they may hang or get lost.
Fairness ==
  /\ \A e \in Executions :
       /\ WF_vars(Call(e)) /\ WF_vars(JobStalls(e))
       /\ WF_vars(\E w \in Workers : TakeJob(w, e))
       /\ \A w \in Workers : WF_vars(Job(w, e))
  /\ \A p \in Recoverers : WF_vars(Recover(p))
FairSpec == Spec /\ Fairness
-----------------------------------------------------------------------------
(* What holds.                                                             *)

\* Somebody has yet to write the row: the server, the queue, a worker, or a stop.
HasOwner(e) ==
  \/ caller[e] \in {"created", "added", "refused", "failed", "writing",
                    "withdrawing"}
  \/ caller[e] = "awaiting" /\ job[e] = "failed"
  \/ InQueue(e)
  \/ \E w \in Workers : work[w][e] # "idle" \/ <<w, e>> \in cancelWrites
  \/ \E s \in Stoppers : Stopping(e, s)

\* The server that ran or stopped it is gone, has missed the end of its job or has failed
\* to look at the row, or a save of it failed.
Orphan(e) ==
  \/ caller[e] \in {"lost", "deaf", "gaveUp"} \/ e \in dropped
  \/ \E s \in Stoppers : stopper[e][s] = "lost"

\* An execution that is new or running is in somebody's hands; only what a lost server, an
\* end nobody listened to, a failed look at the row or a failed save left behind has to wait
\* for the queue recovery (enqueueExecution(), processError(), processJob(),
\* stopInScalingMode()).
RowHasOwner == \A e \in Executions : row[e] \in InProgress => HasOwner(e) \/ Orphan(e)

\* The state is consistent: of its types, and every row in progress in somebody's hands.
Inv == TypeOK /\ RowHasOwner

\* A success that was saved while nobody else had the row in view stays one, unless the job
\* stalled and is run again: no failure of the job (processError()'s sanity run), no later
\* stop (assertStoppable()) and no later recovery (getInProgressExecutionIds()) takes it away.
SuccessIsFinal ==
  \A e \in unchallenged : stalls[e] = 0 => row[e] = "success"

\* Whatever process goes and comes back, whatever lock is lost, and even if a stop hangs, no
\* execution stays new or running while the queue is in use (Bull gives back what a lost
\* worker had, recoverFromQueue() marks the rest).
EveryRowEnds == \A e \in Executions : row[e] \in InProgress ~> row[e] \in Ended

\* The server hears no more of the job: it was over before, somebody else removed it, the
\* server had given it up, or it failed to read what became of it.
Unheard(e) ==
  \/ caller[e] \in {"deaf", "gaveUp"}
  \/ caller[e] = "awaiting" /\ job[e] = "removed"

\* The entry of an execution, which the shutdown of its server waits for, settles unless
\* the server has missed the end of the job or failed to read it (enqueueExecution(),
\* processError(), stopExecution()).
EveryEntrySettles == \A e \in Executions : e \in tracked ~> (e \notin tracked \/ Unheard(e))

=============================================================================
