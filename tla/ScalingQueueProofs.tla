------------------------- MODULE ScalingQueueProofs -------------------------
(***************************************************************************)
(* Queue mode: nobody forgets an execution, and a success stays one, for   *)
(* every number of executions, servers and workers and whatever goes wrong *)
(* however often.                                                          *)
(***************************************************************************)
EXTENDS ScalingQueue, TLAPS

-----------------------------------------------------------------------------
(* The inductive invariant, for each execution.                            *)

\* A job exists once it has been added, a worker holds its lock while it is active, and a
\* server that writes an error after the job, or is through with it, has heard that it is over.
JobOK(e) ==
  /\ caller[e] \in {"none", "created"} => job[e] = "none"
  /\ caller[e] \in {"failed", "writing", "over"} => JobIsOver(e)
  /\ lock[e] = NoOne <=> job[e] # "active"

\* The cancelation of a run begins when the request to stop it has settled its entry.
StopOK(e) == stopper[e]["request"] \in {"none", "read"} => stopper[e]["onCancel"] = "none"

\* A worker that will not write the row any more, unless as the hook of a cancelled engine.
HasSaved(w, e) ==
  \/ work[w][e] \in {"saved", "ended"}
  \/ work[w][e] = "executing" /\ <<w, e>> \notin runningJobs

\* Who is bound to write the row, or to leave that to the next who is. Not everybody whose
\* hands the execution is in: a worker that has saved is still at the job, a stop that has
\* begun may end without a trace, and a server that has added the job waits for others.
MustWrite(e) ==
  \/ caller[e] \in {"created", "refused", "failed", "writing", "withdrawing"}
  \/ caller[e] = "added" /\ JobIsOver(e)
  \/ caller[e] = "awaiting" /\ job[e] = "failed"
  \/ job[e] = "waiting"
  \/ job[e] = "active" /\ ~HasSaved(lock[e], e)
  \/ \E w \in Workers : work[w][e] # "idle" /\ ~HasSaved(w, e)
  \/ \E w \in Workers : <<w, e>> \in cancelWrites
  \/ \E s \in Stoppers : stopper[e][s] \in {"check", "write"}

RowOK(e) == row[e] \in InProgress => MustWrite(e) \/ Orphan(e)

\* A job that never stalled is taken once.
TakenOnce(e) ==
  stalls[e] = 0 /\ job[e] \in {"none", "waiting"} => \A w \in Workers : work[w][e] = "idle"

\* A success that nobody challenged, of a job that never stalled, is beyond everybody's
\* reach: nobody is about to write the row, and who looks at it from now on leaves it.
Settled(e) ==
  /\ row[e] = "success" /\ job[e] \notin {"none", "waiting"}
  /\ caller[e] \notin {"writing", "withdrawing"}
  /\ e \notin aborts
  /\ \A s \in Stoppers : ~Stopping(e, s)
  /\ \A p \in Servers : e \notin recovery[p].stored
  /\ \A w \in Workers : <<w, e>> \notin cancelWrites /\ work[w][e] \in {"idle", "saved", "ended", "thrown"}

SuccessOK(e) == e \in unchallenged /\ stalls[e] = 0 => Settled(e)

Safe(e) == JobOK(e) /\ StopOK(e) /\ RowOK(e) /\ TakenOnce(e) /\ SuccessOK(e)

IInv == TypeOK /\ \A e \in Executions : Safe(e)

-----------------------------------------------------------------------------
(* Types.                                                                  *)

\* Every step keeps the types.
LEMMA TypeStep == TypeOK /\ [Next]_vars => TypeOK'
<1> SUFFICES ASSUME TypeOK, [Next]_vars PROVE TypeOK'
  OBVIOUS
<1> USE DEF serverVars, stallVars, jobVars, workerVars, stopVars,
            SetRow, CallerAt, WorkAt, StopAt, InProgress, Ended, Stoppers
<1> DEFINE WorkTyped ==
      work \in [Workers -> [Executions -> {"idle", "taken", "read", "marked", "executing",
                                           "saving", "saved", "ended", "thrown"}]]
<1>1. Mishap => mishaps' \in 0..MaxMishaps
  <2>1. MaxMishaps \in Nat
    BY ScalingAssumption
  <2> QED BY <2>1 DEF Mishap, TypeOK
<1>2. ASSUME NEW e \in Executions, Call(e) PROVE TypeOK'
  <2>1. CASE AddJob(e)
    BY <2>1 DEF AddJob, TypeOK
  <2>5. CASE Await(e)
    <3>1. (IF JobIsOver(e) THEN "deaf" ELSE "awaiting") \in {"deaf", "awaiting"}
      OBVIOUS
    <3> QED BY <2>5, <3>1 DEF Await, TypeOK
  <2>2. CASE JobFinished(e) \/ JobFailed(e)
    BY <2>2, ZenonT(40) DEF JobFinished, JobFailed, TypeOK
  <2>3. CASE ProcessError(e)
    <3>1. caller'[e] \in {"over", "writing", "gaveUp", "withdrawing"}
      BY <2>3 DEF ProcessError, TypeOK
    <3> QED BY <2>3, <3>1 DEF ProcessError, TypeOK
  <2>4. CASE SaveError(e)
    BY <2>4 DEF SaveError, AfterSaveError, TypeOK
  <2> QED BY <1>2, <2>1, <2>2, <2>3, <2>4, <2>5 DEF Call
<1>3. ASSUME NEW e \in Executions, EnqueueFails(e) \/ ReadFails(e) \/ SaveErrorFails(e)
      PROVE  TypeOK'
  <2>1. CASE EnqueueFails(e)
    BY <1>1, <2>1 DEF EnqueueFails, TypeOK
  <2>2. CASE ReadFails(e)
    BY <1>1, <2>2 DEF ReadFails, TypeOK
  <2>3. CASE SaveErrorFails(e)
    BY <1>1, <2>3 DEF SaveErrorFails, AfterSaveError, TypeOK
  <2> QED BY <1>3, <2>1, <2>2, <2>3
<1>4. ASSUME NEW e \in Executions, NEW s \in Stoppers,
             IsActive(e, s) \/ Remove(e, s) \/ Abort(e, s) \/ StopWrite(e, s) \/ StopFails(e, s)
      PROVE  TypeOK'
  <2>1. CASE IsActive(e, s)
    BY <2>1 DEF IsActive, TypeOK
  <2>2. CASE Remove(e, s)
    BY <2>2 DEF Remove, AfterStopJob, TypeOK
  <2>3. CASE Abort(e, s)
    <3>1. \E at \in {"over", "write", "check"} : StopAt(e, s, at)
      BY <2>3 DEF Abort, AfterStopJob
    <3>2. stopper' \in [Executions -> [Stoppers -> {"none", "read", "active", "remove",
                                                    "abort", "check", "write", "over", "lost"}]]
      BY <3>1 DEF TypeOK
    <3> QED BY <2>3, <3>2 DEF Abort, TypeOK
  <2>4. CASE StopWrite(e, s)
    BY <2>4 DEF StopWrite, TypeOK
  <2>5. CASE StopFails(e, s)
    BY <1>1, <2>5 DEF StopFails, TypeOK
  <2> QED BY <1>4, <2>1, <2>2, <2>3, <2>4, <2>5
<1>5. ASSUME NEW e \in Executions, StopActive(e) PROVE TypeOK'
  BY <1>5 DEF StopActive, TypeOK
<1>6. ASSUME NEW e \in Executions, CancelCheck(e) PROVE TypeOK'
  BY <1>6 DEF CancelCheck, TypeOK
<1>7. ASSUME NEW e \in Executions, AbortArrives(e) PROVE TypeOK'
  BY <1>7 DEF AbortArrives, TypeOK
<1>8. ASSUME NEW e \in Executions, JobStalls(e) \/ LockLapses(e) PROVE TypeOK'
  <2>1. GiveBack(e) /\ mishaps' \in 0..MaxMishaps
    BY <1>1, <1>8 DEF JobStalls, LockLapses, TypeOK
  <2>2. /\ job' \in [Executions -> {"none", "waiting", "active", "completed", "failed", "removed"}]
        /\ lock' \in [Executions -> Workers \cup {NoOne}]
    BY <2>1 DEF GiveBack, TypeOK
  <2>3. stalls' \in [Executions -> 0..maxStalledCount]
    <3>1. maxStalledCount \in Nat /\ maxStalledCount' = maxStalledCount
      BY <2>1, ScalingAssumption DEF GiveBack, TypeOK
    <3>2. stalls \in [Executions -> 0..maxStalledCount]
      BY DEF TypeOK
    <3>3. \/ stalls[e] < maxStalledCount /\ stalls' = [stalls EXCEPT ![e] = @ + 1]
          \/ stalls' = stalls
      BY <2>1 DEF GiveBack
    <3> QED BY <3>1, <3>2, <3>3
  <2> QED BY <2>1, <2>2, <2>3 DEF GiveBack, TypeOK
<1>9. ASSUME NEW e \in Executions, NEW p \in Enqueuers, Create(p, e) PROVE TypeOK'
  BY <1>9, ScalingAssumption DEF Create, TypeOK
<1>10. ASSUME NEW e \in Executions, NEW p \in Servers, StopRead(p, e) PROVE TypeOK'
  BY <1>10 DEF StopRead, TypeOK
<1>11. ASSUME NEW e \in Executions, NEW w \in Workers,
              TakeJob(w, e) \/ ReadRow(w, e) \/ SetRunning(w, e) \/ StartEngine(w, e)
              \/ EngineEnds(w, e) \/ RunResolves(w, e) \/ JobEnds(w, e) \/ SaveCancel(w, e)
       PROVE  TypeOK'
  <2>1. CASE TakeJob(w, e)
    BY <2>1 DEF TakeJob, TypeOK
  <2>2. CASE ReadRow(w, e) \/ EngineEnds(w, e)
    <3>1. \E at \in {"ended", "read", "saving"} : WorkAt(w, e, at)
      BY <2>2 DEF ReadRow, EngineEnds
    <3>2. WorkTyped'
      BY <3>1 DEF TypeOK
    <3> QED BY <2>2, <3>2 DEF ReadRow, EngineEnds, TypeOK
  <2>3. CASE SetRunning(w, e)
    BY <2>3 DEF SetRunning, TypeOK
  <2>4. CASE StartEngine(w, e) \/ RunResolves(w, e)
    <3>1. \E at \in {"executing", "ended"} : WorkAt(w, e, at)
      BY <2>4 DEF StartEngine, RunResolves
    <3>2. WorkTyped'
      BY <3>1 DEF TypeOK
    <3> QED BY <2>4, <3>2 DEF StartEngine, RunResolves, TypeOK
  <2>5. CASE JobEnds(w, e)
    BY <2>5 DEF JobEnds, TypeOK
  <2>6. CASE SaveCancel(w, e)
    BY <2>6 DEF SaveCancel, TypeOK
  <2> QED BY <1>11, <2>1, <2>2, <2>3, <2>4, <2>5, <2>6
<1>12. ASSUME NEW e \in Executions, NEW w \in Workers, NEW how \in {"success", "error", "canceled"},
              SaveResult(w, e, how)
       PROVE  TypeOK'
  BY <1>12 DEF SaveResult, TypeOK
<1>13. ASSUME NEW e \in Executions, NEW w \in Workers,
              ProcessJobThrows(w, e) \/ SaveResultFails(w, e) \/ SaveCancelFails(w, e)
       PROVE  TypeOK'
  <2>1. mishaps' \in 0..MaxMishaps
    BY <1>1, <1>13 DEF ProcessJobThrows, SaveResultFails, SaveCancelFails
  <2>2. CASE ProcessJobThrows(w, e)
    <3>1. WorkTyped'
      BY <2>2 DEF ProcessJobThrows, TypeOK
    <3> QED BY <2>1, <2>2, <3>1 DEF ProcessJobThrows, TypeOK
  <2>3. CASE SaveResultFails(w, e)
    <3>1. WorkTyped'
      BY <2>3 DEF SaveResultFails, TypeOK
    <3> QED BY <2>1, <2>3, <3>1 DEF SaveResultFails, TypeOK
  <2>4. CASE SaveCancelFails(w, e)
    BY <2>1, <2>4 DEF SaveCancelFails, TypeOK
  <2> QED BY <1>13, <2>2, <2>3, <2>4
<1>14. ASSUME NEW p \in Recoverers, Recover(p) \/ RecoveryFails(p) PROVE TypeOK'
  <2>1. p \in Servers
    BY ScalingAssumption
  <2>2. CASE ListRows(p)
    BY <2>1, <2>2 DEF ListRows, Listed, TypeOK
  <2>3. CASE ListJobs(p)
    BY <2>1, <2>3 DEF ListJobs, Dangling, Idle, TypeOK
  <2>4. CASE MarkAsCrashed(p)
    BY <2>1, <2>4 DEF MarkAsCrashed, Idle, TypeOK
  <2>5. CASE RecoveryFails(p)
    BY <1>1, <2>1, <2>5 DEF RecoveryFails, Idle, TypeOK
  <2> QED BY <1>14, <2>2, <2>3, <2>4, <2>5 DEF Recover
<1>15. ASSUME NEW p \in Servers, ServerExits(p) PROVE TypeOK'
  <2>1. /\ caller' \in [Executions -> {"none", "created", "added", "awaiting", "refused", "failed",
                                       "writing", "withdrawing", "deaf", "gaveUp", "lost",
                                       "over"}]
        /\ stopper' \in [Executions -> [Stoppers -> {"none", "read", "active", "remove",
                                                     "abort", "check", "write", "over", "lost"}]]
    BY <1>15 DEF ServerExits, TypeOK
  <2>2. recovery' \in [Servers -> [at: {"idle", "listed", "marking"}, stored: SUBSET Executions]]
    BY <1>15 DEF ServerExits, Idle, TypeOK
  <2> QED BY <1>1, <1>15, <2>1, <2>2 DEF ServerExits, TypeOK
<1>16. ASSUME NEW w \in Workers, WorkerExits(w) PROVE TypeOK'
  BY <1>1, <1>16 DEF WorkerExits, Busy, TypeOK
<1>17. CASE UNCHANGED vars
  BY <1>17 DEF vars, TypeOK
<1> QED
  BY <1>2, <1>3, <1>4, <1>5, <1>6, <1>7, <1>8, <1>9, <1>10, <1>11, <1>12, <1>13, <1>14, <1>15,
     <1>16, <1>17 DEF Next, StopRequest, OnCancel, Job

-----------------------------------------------------------------------------
(* A step is of one execution, and leaves the others as they are, or of a  *)
(* recovery, a server that goes or a worker that goes.                     *)

\* A step of one execution, whoever takes it.
StepOf(e) ==
  \/ Call(e) \/ EnqueueFails(e) \/ ReadFails(e) \/ SaveErrorFails(e)
  \/ StopRequest(e) \/ OnCancel(e) \/ (\E s \in Stoppers : StopFails(e, s))
  \/ AbortArrives(e) \/ JobStalls(e) \/ LockLapses(e)
  \/ \E p \in Servers : Create(p, e) \/ StopRead(p, e)
  \/ \E w \in Workers : \/ TakeJob(w, e) \/ Job(w, e) \/ SaveCancel(w, e)
                        \/ ProcessJobThrows(w, e) \/ SaveResultFails(w, e)
                        \/ SaveCancelFails(w, e)

\* Nothing that is said of the execution changes.
Same(e) ==
  /\ row'[e] = row[e] /\ job'[e] = job[e] /\ lock'[e] = lock[e] /\ stalls'[e] = stalls[e]
  /\ caller'[e] = caller[e] /\ stopper'[e] = stopper[e]
  /\ e \in aborts' <=> e \in aborts
  /\ e \in dropped' <=> e \in dropped
  /\ e \in unchallenged' <=> e \in unchallenged
  /\ \A w \in Workers : /\ work'[w][e] = work[w][e]
                        /\ <<w, e>> \in runningJobs' <=> <<w, e>> \in runningJobs
                        /\ <<w, e>> \in cancelWrites' <=> <<w, e>> \in cancelWrites
  /\ \A p \in Servers : e \in recovery'[p].stored <=> e \in recovery[p].stored

\* What holds of an execution goes on holding as long as nothing of it changes.
LEMMA SameSafe ==
  ASSUME TypeOK, NEW e \in Executions, Safe(e), Same(e)
  PROVE  Safe(e)'
<1> USE DEF Same
<1>1. JobOK(e)'
  BY DEF Safe, JobOK, JobIsOver
<1>2. StopOK(e)'
  BY DEF Safe, StopOK
<1>3. \A w \in Workers : HasSaved(w, e)' <=> HasSaved(w, e)
  BY DEF HasSaved
<1>4. RowOK(e)'
  <2>1. job[e] = "active" => lock[e] \in Workers
    BY DEF Safe, JobOK, TypeOK
  <2>2. MustWrite(e)' <=> MustWrite(e)
    BY <1>3, <2>1 DEF MustWrite, JobIsOver
  <2>3. Orphan(e)' <=> Orphan(e)
    BY DEF Orphan
  <2> QED BY <2>2, <2>3 DEF Safe, RowOK
<1>5. TakenOnce(e)'
  BY DEF Safe, TakenOnce
<1>6. SuccessOK(e)'
  BY DEF Safe, SuccessOK, Settled, Stopping
<1> QED BY <1>1, <1>2, <1>4, <1>5, <1>6 DEF Safe

\* A step of one execution leaves every other as it is.
LEMMA OthersSame ==
  ASSUME TypeOK, NEW e \in Executions, NEW f \in Executions, f # e, StepOf(f)
  PROVE  Same(e)
<1> USE DEF serverVars, stallVars, jobVars, workerVars, stopVars,
            SetRow, CallerAt, WorkAt, StopAt, Same, TypeOK
<1>1. CASE Call(f)
  BY <1>1 DEF Call, AddJob, Await, JobFinished, JobFailed, ProcessError, SaveError, AfterSaveError
<1>2. CASE EnqueueFails(f) \/ ReadFails(f) \/ SaveErrorFails(f)
  BY <1>2 DEF EnqueueFails, ReadFails, SaveErrorFails, AfterSaveError
<1>3. CASE StopRequest(f) \/ \E s \in Stoppers : StopFails(f, s)
  BY <1>3 DEF StopRequest, StopActive, IsActive, Remove, Abort, StopWrite, StopFails
<1>4. CASE OnCancel(f)
  BY <1>4 DEF OnCancel, IsActive, Remove, Abort, CancelCheck, StopWrite
<1>5. CASE AbortArrives(f)
  BY <1>5 DEF AbortArrives
<1>6. CASE JobStalls(f) \/ LockLapses(f)
  BY <1>6 DEF JobStalls, LockLapses, GiveBack
<1>7. CASE \E p \in Servers : Create(p, f) \/ StopRead(p, f)
  BY <1>7 DEF Create, StopRead
<1>8. ASSUME NEW w \in Workers,
             \/ TakeJob(w, f) \/ SaveCancel(w, f) \/ ProcessJobThrows(w, f)
             \/ SaveResultFails(w, f) \/ SaveCancelFails(w, f)
      PROVE  Same(e)
  <2>1. CASE TakeJob(w, f)
    BY <2>1 DEF TakeJob
  <2>2. CASE SaveCancel(w, f)
    BY <2>2 DEF SaveCancel
  <2>3. CASE ProcessJobThrows(w, f)
    BY <2>3 DEF ProcessJobThrows
  <2>4. CASE SaveResultFails(w, f)
    BY <2>4 DEF SaveResultFails
  <2>5. CASE SaveCancelFails(w, f)
    BY <2>5 DEF SaveCancelFails
  <2> QED BY <1>8, <2>1, <2>2, <2>3, <2>4, <2>5
<1>9. ASSUME NEW w \in Workers, Job(w, f) PROVE Same(e)
  <2>1. CASE ReadRow(w, f)
    BY <2>1 DEF ReadRow
  <2>7. CASE SetRunning(w, f)
    BY <2>7 DEF SetRunning
  <2>4. CASE StartEngine(w, f)
    BY <2>4 DEF StartEngine
  <2>5. CASE EngineEnds(w, f)
    BY <2>5 DEF EngineEnds
  <2>2. CASE \E how \in {"success", "error", "canceled"} : SaveResult(w, f, how)
    BY <2>2 DEF SaveResult
  <2>3. CASE RunResolves(w, f)
    BY <2>3 DEF RunResolves
  <2>6. CASE JobEnds(w, f)
    BY <2>6 DEF JobEnds
  <2> QED BY <1>9, <2>1, <2>2, <2>3, <2>4, <2>5, <2>6, <2>7 DEF Job
<1> QED
  BY <1>1, <1>2, <1>3, <1>4, <1>5, <1>6, <1>7, <1>8, <1>9 DEF StepOf

-----------------------------------------------------------------------------
(* A step of the execution itself.                                         *)

\* The job and the server that waits for it.
LEMMA JobStep ==
  ASSUME TypeOK, NEW e \in Executions, JobOK(e), StepOf(e)
  PROVE  JobOK(e)'
<1> USE ScalingAssumption DEF serverVars, stallVars, jobVars, workerVars, stopVars,
        CallerAt, WorkAt, StopAt, TypeOK, JobOK, JobIsOver
<1>1. CASE Call(e)
  BY <1>1 DEF Call, AddJob, Await, JobFinished, JobFailed, ProcessError, SaveError, AfterSaveError
<1>2. CASE EnqueueFails(e) \/ ReadFails(e) \/ SaveErrorFails(e)
  BY <1>2 DEF EnqueueFails, ReadFails, SaveErrorFails, AfterSaveError
<1>3. CASE StopRequest(e) \/ \E s \in Stoppers : StopFails(e, s)
  BY <1>3 DEF StopRequest, StopActive, IsActive, Remove, Abort, StopWrite, StopFails
<1>4. CASE OnCancel(e)
  BY <1>4 DEF OnCancel, IsActive, Remove, Abort, CancelCheck, StopWrite
<1>5. CASE AbortArrives(e)
  BY <1>5 DEF AbortArrives
<1>6. CASE JobStalls(e) \/ LockLapses(e)
  BY <1>6 DEF JobStalls, LockLapses, GiveBack
<1>7. CASE \E p \in Servers : Create(p, e) \/ StopRead(p, e)
  BY <1>7 DEF Create, StopRead
<1>8. ASSUME NEW w \in Workers,
             \/ TakeJob(w, e) \/ SaveCancel(w, e) \/ ProcessJobThrows(w, e)
             \/ SaveResultFails(w, e) \/ SaveCancelFails(w, e)
      PROVE  JobOK(e)'
  BY <1>8 DEF TakeJob, SaveCancel, ProcessJobThrows, SaveResultFails, SaveCancelFails
<1>9. ASSUME NEW w \in Workers, Job(w, e) PROVE JobOK(e)'
  <2>1. CASE JobEnds(w, e)
    BY <2>1 DEF JobEnds
  <2>2. CASE ~JobEnds(w, e)
    <3>1. UNCHANGED <<job, lock, caller>>
      BY <1>9, <2>2
         DEF Job, ReadRow, SetRunning, StartEngine, EngineEnds, SaveResult, RunResolves
    <3> QED BY <3>1
  <2> QED BY <2>1, <2>2
<1> QED
  BY <1>1, <1>2, <1>3, <1>4, <1>5, <1>6, <1>7, <1>8, <1>9 DEF StepOf

\* The request to stop an execution, and the cancelation of its run.
LEMMA StopStep ==
  ASSUME TypeOK, NEW e \in Executions, StopOK(e), StepOf(e)
  PROVE  StopOK(e)'
<1> USE DEF serverVars, stopVars, StopAt, Stoppers, TypeOK, StopOK
<1>1. CASE StopRequest(e)
  BY <1>1 DEF StopRequest, StopActive, IsActive, Remove, Abort, StopWrite, AfterStopJob
<1>2. CASE OnCancel(e)
  BY <1>2 DEF OnCancel, IsActive, Remove, Abort, CancelCheck, StopWrite, AfterStopJob
<1>3. CASE \E p \in Servers : StopRead(p, e)
  BY <1>3 DEF StopRead
<1>4. CASE \E s \in Stoppers : StopFails(e, s)
  BY <1>4 DEF StopFails, Stopping
<1>5. CASE UNCHANGED stopper
  BY <1>5
<1>6. \/ UNCHANGED stopper \/ StopRequest(e) \/ OnCancel(e) \/ (\E s \in Stoppers : StopFails(e, s))
      \/ \E p \in Servers : StopRead(p, e)
  BY DEF StepOf, Call, AddJob, Await, JobFinished, JobFailed, ProcessError, SaveError, EnqueueFails,
         ReadFails, SaveErrorFails, AbortArrives, JobStalls, LockLapses, GiveBack, Create, TakeJob,
         SaveCancel, ProcessJobThrows, SaveResultFails, SaveCancelFails, Job, ReadRow, SetRunning,
         StartEngine, EngineEnds, SaveResult, RunResolves, JobEnds
<1> QED BY <1>1, <1>2, <1>3, <1>4, <1>5, <1>6

\* Who takes a job, and how often.
LEMMA TakenStep ==
  ASSUME TypeOK, NEW e \in Executions, JobOK(e), TakenOnce(e), StepOf(e)
  PROVE  TakenOnce(e)'
<1> USE DEF serverVars, stallVars, jobVars, workerVars, stopVars, WorkAt, TypeOK, TakenOnce
<1>1. CASE AddJob(e)
  BY <1>1 DEF AddJob, JobOK
<1>2. CASE \E s \in Stoppers : Remove(e, s)
  BY <1>2 DEF Remove
<1>3. CASE JobStalls(e) \/ LockLapses(e)
  <2>1. GiveBack(e) /\ stalls[e] \in Nat
    BY <1>3, ScalingAssumption DEF JobStalls, LockLapses
  <2>2. CASE stalls[e] < maxStalledCount
    <3>1. stalls'[e] = stalls[e] + 1
      BY <2>1, <2>2 DEF GiveBack
    <3>2. stalls'[e] # 0
      BY <2>1, <3>1
    <3> QED BY <3>2
  <2>3. CASE ~(stalls[e] < maxStalledCount)
    BY <2>1, <2>3 DEF GiveBack
  <2> QED BY <2>2, <2>3
<1>4. CASE \E w \in Workers : TakeJob(w, e)
  BY <1>4 DEF TakeJob
<1>5. ASSUME NEW w \in Workers, JobEnds(w, e) PROVE TakenOnce(e)'
  BY <1>5 DEF JobEnds
<1>6. ASSUME NEW w \in Workers,
             \/ ReadRow(w, e) \/ SetRunning(w, e) \/ StartEngine(w, e) \/ EngineEnds(w, e)
             \/ (\E how \in {"success", "error", "canceled"} : SaveResult(w, e, how))
             \/ RunResolves(w, e) \/ ProcessJobThrows(w, e) \/ SaveResultFails(w, e)
      PROVE  TakenOnce(e)'
  <2>1. work[w][e] # "idle" /\ UNCHANGED <<job, stalls>>
    BY <1>6 DEF ReadRow, SetRunning, StartEngine, EngineEnds, SaveResult, RunResolves,
                ProcessJobThrows, SaveResultFails
  <2> QED BY <2>1
<1>7. CASE UNCHANGED <<job, stalls, work>>
  BY <1>7
<1>8. \/ UNCHANGED <<job, stalls, work>>
      \/ AddJob(e) \/ (\E s \in Stoppers : Remove(e, s)) \/ JobStalls(e) \/ LockLapses(e)
      \/ \E w \in Workers :
           \/ TakeJob(w, e) \/ JobEnds(w, e)
           \/ ReadRow(w, e) \/ SetRunning(w, e) \/ StartEngine(w, e) \/ EngineEnds(w, e)
           \/ (\E how \in {"success", "error", "canceled"} : SaveResult(w, e, how))
           \/ RunResolves(w, e) \/ ProcessJobThrows(w, e) \/ SaveResultFails(w, e)
  BY DEF StepOf, Call, Await, JobFinished, JobFailed, ProcessError, SaveError, EnqueueFails,
         ReadFails, SaveErrorFails, StopRequest, OnCancel, StopActive, IsActive, Abort, CancelCheck,
         StopWrite, StopFails, Stoppers, AbortArrives, Create, StopRead, SaveCancel,
         SaveCancelFails, Job
<1> QED BY <1>1, <1>2, <1>3, <1>4, <1>5, <1>6, <1>7, <1>8

\* A stop that is not about to write the row may go on, or end: others are bound to.
LEMMA StopsBetween ==
  ASSUME TypeOK, NEW e \in Executions, RowOK(e),
         UNCHANGED <<row, job, lock, caller, work, runningJobs, cancelWrites, dropped>>,
         \A s \in Stoppers : stopper[e][s] \in {"check", "write", "lost"}
                             => stopper'[e][s] = stopper[e][s]
  PROVE  RowOK(e)'
<1>1. Orphan(e) => Orphan(e)'
  BY DEF Orphan
<1>2. MustWrite(e) => MustWrite(e)'
  BY DEF MustWrite, HasSaved, JobIsOver
<1> QED BY <1>1, <1>2 DEF RowOK

\* Who is bound to write the row writes it, or leaves it to another who is.
LEMMA RowStep ==
  ASSUME TypeOK, NEW e \in Executions, JobOK(e), StopOK(e), RowOK(e), StepOf(e)
  PROVE  RowOK(e)'
<1> SUFFICES ASSUME row'[e] \in InProgress PROVE MustWrite(e)' \/ Orphan(e)'
  BY DEF RowOK
<1> USE DEF serverVars, stallVars, jobVars, workerVars, stopVars, SetRow, CallerAt, WorkAt, StopAt
<1>1. CASE Call(e)
  <2>1. CASE AddJob(e)
    BY <2>1 DEF AddJob, MustWrite, TypeOK
  <2>2. CASE Await(e)
    BY <2>2 DEF Await, RowOK, MustWrite, Orphan, HasSaved, JobIsOver, TypeOK
  <2>3. CASE JobFinished(e)
    BY <2>3 DEF JobFinished, RowOK, MustWrite, Orphan, HasSaved, JobIsOver, TypeOK
  <2>4. CASE JobFailed(e)
    BY <2>4 DEF JobFailed, MustWrite, TypeOK
  <2>5. CASE ProcessError(e)
    BY <2>5 DEF ProcessError, IsFalsePositive, InProgress, MustWrite, Orphan, TypeOK
  <2>6. CASE SaveError(e)
    BY <2>6 DEF SaveError, InProgress, TypeOK
  <2> QED BY <1>1, <2>1, <2>2, <2>3, <2>4, <2>5, <2>6 DEF Call
<1>2. CASE EnqueueFails(e) \/ ReadFails(e) \/ SaveErrorFails(e)
  <2>1. CASE EnqueueFails(e)
    BY <2>1 DEF EnqueueFails, MustWrite, TypeOK
  <2>2. CASE ReadFails(e)
    BY <2>2 DEF ReadFails, Orphan, TypeOK
  <2>3. CASE SaveErrorFails(e)
    BY <2>3 DEF SaveErrorFails, Orphan
  <2> QED BY <1>2, <2>1, <2>2, <2>3
<1>3. CASE StopActive(e)
  <2>1. stopper[e]["request"] = "read" /\ stopper[e]["onCancel"] = "none"
    BY <1>3 DEF StopActive, StopOK
  <2> QED BY <1>3, <2>1, StopsBetween DEF StopActive, Stoppers, RowOK
<1>4. ASSUME NEW s \in Stoppers, IsActive(e, s) PROVE MustWrite(e)' \/ Orphan(e)'
  <2>1. \A r \in Stoppers : stopper'[e][r] = stopper[e][r] \/ stopper[e][r] = "active"
    BY <1>4 DEF IsActive, TypeOK
  <2> QED BY <1>4, <2>1, StopsBetween DEF IsActive, RowOK
<1>5. ASSUME NEW s \in Stoppers, Remove(e, s) PROVE MustWrite(e)' \/ Orphan(e)'
  <2>1. CASE job[e] = "waiting"
    <3>1. stopper'[e][s] \in {"write", "check"}
      BY <1>5, <2>1 DEF Remove, AfterStopJob, TypeOK
    <3> QED BY <3>1 DEF MustWrite
  <2>2. CASE job[e] # "waiting"
    <3>1. \A r \in Stoppers : stopper'[e][r] = stopper[e][r] \/ stopper[e][r] = "remove"
      BY <1>5 DEF Remove, TypeOK
    <3> QED BY <1>5, <2>2, <3>1, StopsBetween DEF Remove, RowOK
  <2> QED BY <2>1, <2>2
<1>6. ASSUME NEW s \in Stoppers, Abort(e, s) PROVE MustWrite(e)' \/ Orphan(e)'
  <2>1. \A r \in Stoppers : stopper'[e][r] = stopper[e][r] \/ stopper[e][r] = "abort"
    BY <1>6 DEF Abort, TypeOK
  <2> QED BY <1>6, <2>1, StopsBetween DEF Abort, RowOK
<1>7. ASSUME NEW s \in Stoppers, StopWrite(e, s) PROVE MustWrite(e)' \/ Orphan(e)'
  BY <1>7 DEF StopWrite, InProgress, TypeOK
<1>8. CASE CancelCheck(e)
  BY <1>8 DEF CancelCheck, IsFalsePositive, InProgress, MustWrite, Stoppers, TypeOK
<1>9. CASE AbortArrives(e)
  <2>1. CASE \E w \in Workers : <<w, e>> \in runningJobs
    BY <1>9, <2>1 DEF AbortArrives, MustWrite
  <2>2. CASE ~ \E w \in Workers : <<w, e>> \in runningJobs
    <3>1. { we \in runningJobs : we[2] = e } = {}
      <4>1. runningJobs \subseteq Workers \X Executions
        BY DEF TypeOK
      <4>2. \A we \in Workers \X Executions : we = <<we[1], we[2]>> /\ we[1] \in Workers
        OBVIOUS
      <4> QED BY <2>2, <4>1, <4>2
    <3> QED BY <1>9, <3>1 DEF AbortArrives, RowOK, MustWrite, Orphan, HasSaved, JobIsOver
  <2> QED BY <2>1, <2>2
<1>10. CASE JobStalls(e) \/ LockLapses(e)
  <2>1. GiveBack(e) /\ job[e] = "active"
    BY <1>10 DEF JobStalls, LockLapses
  <2>2. CASE stalls[e] < maxStalledCount
    BY <2>1, <2>2 DEF GiveBack, MustWrite, TypeOK
  <2>3. CASE ~(stalls[e] < maxStalledCount)
    BY <2>1, <2>3 DEF GiveBack, JobOK, MustWrite, Orphan, JobIsOver, TypeOK
  <2> QED BY <2>2, <2>3
<1>11. ASSUME NEW p \in Servers, Create(p, e) PROVE MustWrite(e)' \/ Orphan(e)'
  BY <1>11 DEF Create, MustWrite, TypeOK
<1>12. ASSUME NEW p \in Servers, StopRead(p, e) PROVE MustWrite(e)' \/ Orphan(e)'
  <2>1. \A r \in Stoppers : stopper'[e][r] = stopper[e][r] \/ stopper[e][r] = "none"
    BY <1>12 DEF StopRead, TypeOK
  <2> QED BY <1>12, <2>1, StopsBetween DEF StopRead, RowOK
<1>13. ASSUME NEW w \in Workers,
              \/ TakeJob(w, e) \/ SetRunning(w, e) \/ StartEngine(w, e) \/ ProcessJobThrows(w, e)
       PROVE  MustWrite(e)' \/ Orphan(e)'
  <2>1. work'[w][e] # "idle" /\ ~HasSaved(w, e)'
    BY <1>13 DEF TakeJob, SetRunning, StartEngine, ProcessJobThrows, HasSaved, TypeOK
  <2> QED BY <2>1 DEF MustWrite
<1>14. ASSUME NEW w \in Workers, ReadRow(w, e) PROVE MustWrite(e)' \/ Orphan(e)'
  <2>1. work'[w][e] = "read"
    BY <1>14 DEF ReadRow, Refuses, InProgress, TypeOK
  <2> QED BY <2>1 DEF MustWrite, HasSaved
<1>15. ASSUME NEW w \in Workers, EngineEnds(w, e) \/ RunResolves(w, e)
       PROVE  MustWrite(e)' \/ Orphan(e)'
  <2>1. /\ UNCHANGED <<row, job, lock, caller, stopper, cancelWrites, dropped>>
        /\ \A v \in Workers : work'[v][e] = "idle" <=> work[v][e] = "idle"
    <3>1. CASE EngineEnds(w, e)
      BY <3>1 DEF EngineEnds, TypeOK
    <3>2. CASE RunResolves(w, e)
      BY <3>2 DEF RunResolves, TypeOK
    <3> QED BY <1>15, <3>1, <3>2
  <2>2. \A v \in Workers : HasSaved(v, e)' <=> HasSaved(v, e)
    <3>1. CASE EngineEnds(w, e)
      BY <3>1 DEF EngineEnds, HasSaved, TypeOK
    <3>2. CASE RunResolves(w, e)
      BY <3>2 DEF RunResolves, HasSaved, TypeOK
    <3> QED BY <1>15, <3>1, <3>2
  <2>3. job[e] = "active" => lock[e] \in Workers
    BY DEF JobOK, TypeOK
  <2>4. Orphan(e) => Orphan(e)'
    BY <2>1 DEF Orphan
  <2>5. MustWrite(e) => MustWrite(e)'
    BY <2>1, <2>2, <2>3 DEF MustWrite, JobIsOver
  <2> QED BY <2>1, <2>4, <2>5 DEF RowOK
<1>16. ASSUME NEW w \in Workers, NEW how \in {"success", "error", "canceled"}, SaveResult(w, e, how)
       PROVE  MustWrite(e)' \/ Orphan(e)'
  BY <1>16 DEF SaveResult, InProgress, TypeOK
<1>17. ASSUME NEW w \in Workers, SaveResultFails(w, e) \/ SaveCancelFails(w, e)
       PROVE  MustWrite(e)' \/ Orphan(e)'
  BY <1>17 DEF SaveResultFails, SaveCancelFails, Orphan
<1>18. ASSUME NEW w \in Workers, SaveCancel(w, e) PROVE MustWrite(e)' \/ Orphan(e)'
  BY <1>18 DEF SaveCancel, InProgress, TypeOK
<1>19. ASSUME NEW w \in Workers, JobEnds(w, e) PROVE MustWrite(e)' \/ Orphan(e)'
  <2>1. UNCHANGED <<row, caller, stopper, cancelWrites, runningJobs>> /\ dropped \subseteq dropped'
    BY <1>19 DEF JobEnds
  <2>2. \A v \in Workers : v # w => work'[v][e] = work[v][e]
    BY <1>19 DEF JobEnds, TypeOK
  <2>3. lock[e] = w => job[e] = "active"
    BY ScalingAssumption DEF JobOK
  <2>4. CASE lock[e] # w
    <3>1. UNCHANGED <<job, lock>>
      BY <1>19, <2>4 DEF JobEnds
    <3>2. CASE work[w][e] = "thrown"
      BY <1>19, <2>4, <3>2 DEF JobEnds, Orphan
    <3>3. CASE work[w][e] = "ended"
      <4>1. HasSaved(w, e)
        BY <3>3 DEF HasSaved
      <4>2. \A v \in Workers : v # w => (HasSaved(v, e)' <=> HasSaved(v, e))
        BY <2>1, <2>2 DEF HasSaved
      <4>3. job[e] = "active" => lock[e] \in Workers
        BY DEF JobOK, TypeOK
      <4> QED BY <2>1, <2>2, <2>4, <3>1, <4>1, <4>2, <4>3 DEF RowOK, MustWrite, Orphan, JobIsOver
    <3> QED BY <1>19, <3>2, <3>3 DEF JobEnds
  <2>5. CASE lock[e] = w /\ work[w][e] = "ended"
    <3>1. job'[e] = "completed" /\ HasSaved(w, e)
      BY <1>19, <2>3, <2>5 DEF JobEnds, HasSaved, TypeOK
    <3>2. \A v \in Workers : v # w => (HasSaved(v, e)' <=> HasSaved(v, e))
      BY <2>1, <2>2 DEF HasSaved
    <3> QED BY <2>1, <2>2, <2>3, <2>5, <3>1, <3>2 DEF RowOK, MustWrite, Orphan, JobIsOver
  <2>6. CASE lock[e] = w /\ work[w][e] = "thrown"
    <3>1. job[e] = "active" /\ job'[e] = "failed"
      BY <1>19, <2>3, <2>6 DEF JobEnds, TypeOK
    <3> QED BY <2>1, <3>1 DEF JobOK, MustWrite, Orphan, JobIsOver, TypeOK
  <2> QED BY <1>19, <2>4, <2>5, <2>6 DEF JobEnds
<1>20. ASSUME NEW s \in Stoppers, StopFails(e, s) PROVE MustWrite(e)' \/ Orphan(e)'
  <2>1. CASE stopper[e][s] \in {"check", "write"}
    BY <1>20, <2>1 DEF StopFails, Orphan, TypeOK
  <2>2. CASE stopper[e][s] \notin {"check", "write"}
    <3>1. \A r \in Stoppers : \/ stopper'[e][r] = stopper[e][r]
                             \/ stopper[e][r] \notin {"check", "write", "lost"}
      BY <1>20, <2>2 DEF StopFails, Stopping, TypeOK
    <3> QED BY <1>20, <3>1, StopsBetween DEF StopFails, RowOK
  <2> QED BY <2>1, <2>2
<1> QED
  BY <1>1, <1>2, <1>3, <1>4, <1>5, <1>6, <1>7, <1>8, <1>9, <1>10, <1>11, <1>12, <1>13, <1>14,
     <1>15, <1>16, <1>17, <1>18, <1>19, <1>20 DEF StepOf, StopRequest, OnCancel, Job, Stoppers

\* A success is saved when nobody else has the row in view, and then nobody comes to write it.
LEMMA SuccessStep ==
  ASSUME TypeOK, NEW e \in Executions, JobOK(e), TakenOnce(e), SuccessOK(e), StepOf(e)
  PROVE  SuccessOK(e)'
<1> SUFFICES ASSUME e \in unchallenged', stalls'[e] = 0 PROVE Settled(e)'
  BY DEF SuccessOK
<1> USE DEF serverVars, stallVars, jobVars, workerVars, stopVars, SetRow, CallerAt, WorkAt, StopAt
<1>1. ASSUME NEW w \in Workers, NEW how \in {"success", "error", "canceled"}, SaveResult(w, e, how)
      PROVE  Settled(e)'
  <2>1. /\ work[w][e] = "saving"
        /\ UNCHANGED <<job, stalls, caller, aborts, stopper, recovery, cancelWrites>>
    BY <1>1 DEF SaveResult
  <2>2. e \notin unchallenged
    BY <2>1 DEF SuccessOK, Settled
  <2>3. how = "success" /\ ~Challenged(w, e)
    BY <1>1, <2>2 DEF SaveResult, TypeOK
  <2>4. row'[e] = "success" /\ work'[w][e] = "saved"
    BY <1>1, <2>3 DEF SaveResult, TypeOK
  <2>5. \A v \in Workers : v # w => work'[v][e] = work[v][e]
    BY <1>1 DEF SaveResult, TypeOK
  <2>6. job[e] \notin {"none", "waiting"}
    BY <2>1 DEF TakenOnce
  <2> QED BY <2>1, <2>3, <2>4, <2>5, <2>6 DEF Challenged, Settled, Stopping
<1>2. ASSUME ~ \E w \in Workers, how \in {"success", "error", "canceled"} : SaveResult(w, e, how)
      PROVE  e \in unchallenged
  BY <1>2 DEF StepOf, Call, AddJob, Await, JobFinished, JobFailed, ProcessError, SaveError,
     EnqueueFails, ReadFails, SaveErrorFails, StopRequest, OnCancel, StopActive, IsActive, Remove,
     Abort, CancelCheck, StopWrite, StopFails, AbortArrives, JobStalls, LockLapses, GiveBack,
     Create, StopRead, TakeJob, SaveCancel, ProcessJobThrows, SaveResultFails, SaveCancelFails,
     Job, ReadRow, SetRunning, StartEngine,
     EngineEnds, RunResolves, JobEnds
<1>3. CASE JobStalls(e) \/ LockLapses(e)
  <2>1. GiveBack(e) /\ stalls[e] \in Nat
    BY <1>3, ScalingAssumption DEF JobStalls, LockLapses, TypeOK
  <2>2. ~(stalls[e] < maxStalledCount)
    <3>1. stalls[e] < maxStalledCount => stalls'[e] = stalls[e] + 1
      BY <2>1 DEF GiveBack, TypeOK
    <3>2. stalls[e] + 1 # 0
      BY <2>1
    <3> QED BY <3>1, <3>2
  <2>3. job'[e] = "failed" /\ Settled(e)
    <3>1. e \in unchallenged /\ UNCHANGED stalls
      BY <2>1, <2>2 DEF GiveBack, workerVars
    <3> QED BY <2>1, <2>2, <3>1 DEF GiveBack, SuccessOK, TypeOK
  <2> QED BY <2>1, <2>3 DEF GiveBack, Settled, Stopping
<1>4. ASSUME e \in unchallenged, ~(JobStalls(e) \/ LockLapses(e)) PROVE Settled(e)'
  <2>1. stalls[e] = 0
    BY <1>4 DEF StepOf, Call, AddJob, Await, JobFinished, JobFailed, ProcessError, SaveError,
       EnqueueFails, ReadFails, SaveErrorFails, StopRequest, OnCancel, StopActive, IsActive, Remove,
       Abort, CancelCheck, StopWrite, StopFails, AbortArrives, Create, StopRead, TakeJob,
       SaveCancel, ProcessJobThrows, SaveResultFails, SaveCancelFails, Job, ReadRow, SetRunning, StartEngine,
       EngineEnds, SaveResult, RunResolves, JobEnds
  <2>2. Settled(e)
    BY <1>4, <2>1 DEF SuccessOK
  <2>3. CASE Call(e)
    <3>1. caller[e] \notin {"created", "writing", "withdrawing"}
      BY <2>2 DEF JobOK, Settled
    <3>2. UNCHANGED <<row, job, aborts, stopper, recovery, cancelWrites, work>>
      BY <2>3, <3>1 DEF Call, AddJob, Await, JobFinished, JobFailed, ProcessError, SaveError
    <3>3. caller'[e] \notin {"writing", "withdrawing"}
      <4>1. IsFalsePositive(e)
        BY <2>2 DEF Settled, IsFalsePositive
      <4> QED BY <2>3, <3>1, <4>1
              DEF Call, AddJob, Await, JobFinished, JobFailed, ProcessError, SaveError, TypeOK
    <3> QED BY <2>2, <3>2, <3>3 DEF Settled, Stopping
  <2>4. CASE EnqueueFails(e) \/ ReadFails(e) \/ SaveErrorFails(e)
    <3>1. ~SaveErrorFails(e)
      BY <2>2 DEF SaveErrorFails, Settled
    <3> QED BY <2>2, <2>4, <3>1 DEF EnqueueFails, ReadFails, Settled, Stopping, TypeOK
  <2>5. ~StopRequest(e) /\ ~OnCancel(e) /\ \A s \in Stoppers : ~StopFails(e, s)
    BY <2>2 DEF StopRequest, OnCancel, StopActive, IsActive, Remove, Abort, CancelCheck, StopWrite,
                StopFails, Settled, Stopping, Stoppers
  <2>6. ~AbortArrives(e) /\ \A p \in Servers : ~StopRead(p, e)
    BY <2>2 DEF AbortArrives, StopRead, Settled, InProgress
  <2>7. \A p \in Servers : ~Create(p, e)
    BY <2>2 DEF Create, JobOK, Settled
  <2>8. ASSUME NEW w \in Workers,
               \/ TakeJob(w, e) \/ Job(w, e) \/ SaveCancel(w, e)
               \/ ProcessJobThrows(w, e) \/ SaveResultFails(w, e) \/ SaveCancelFails(w, e)
        PROVE  Settled(e)'
    <3>1. RunResolves(w, e) \/ JobEnds(w, e) \/ ProcessJobThrows(w, e)
      <4>1. job[e] # "waiting" /\ <<w, e>> \notin cancelWrites
            /\ work[w][e] \in {"idle", "saved", "ended", "thrown"}
        BY <2>2 DEF Settled
      <4> QED BY <2>8, <4>1
              DEF TakeJob, SaveCancel, SaveCancelFails, SaveResultFails, Job, ReadRow, SetRunning,
                  StartEngine, EngineEnds, SaveResult
    <3>2. UNCHANGED <<row, caller, aborts, stopper, recovery, cancelWrites>>
      BY <3>1 DEF RunResolves, JobEnds, ProcessJobThrows
    <3>3. job'[e] \notin {"none", "waiting"}
      BY <2>2, <3>1 DEF RunResolves, JobEnds, ProcessJobThrows, Settled, TypeOK
    <3>4. \A v \in Workers : work'[v][e] \in {"idle", "ended", "thrown", work[v][e]}
      <4>1. \A v \in Workers : v # w => work'[v][e] = work[v][e]
        BY <3>1 DEF RunResolves, JobEnds, ProcessJobThrows, TypeOK
      <4>2. work'[w][e] \in {"idle", "ended", "thrown"}
        BY <3>1 DEF RunResolves, JobEnds, ProcessJobThrows, TypeOK
      <4> QED BY <4>1, <4>2
    <3> QED BY <2>2, <3>2, <3>3, <3>4 DEF Settled, Stopping
  <2> QED BY <1>4, <2>3, <2>4, <2>5, <2>6, <2>7, <2>8 DEF StepOf
<1> QED BY <1>1, <1>2, <1>3, <1>4

-----------------------------------------------------------------------------
(* A recovery, and processes that go.                                      *)

\* The recovery looks for rows in progress, and marks none that has ended by its first look.
LEMMA RecoverStep ==
  ASSUME TypeOK, NEW e \in Executions, Safe(e), NEW p \in Servers, Recover(p) \/ RecoveryFails(p)
  PROVE  Safe(e)'
<1> USE DEF serverVars, stallVars, jobVars, workerVars, stopVars
<1>1. UNCHANGED <<job, lock, stalls, caller, work, runningJobs, cancelWrites, dropped, aborts,
                  stopper, unchallenged>>
  BY DEF Recover, ListRows, ListJobs, MarkAsCrashed, RecoveryFails
<1>2. row'[e] = row[e] \/ (row'[e] = "crashed" /\ e \in recovery[p].stored)
  BY DEF Recover, ListRows, ListJobs, MarkAsCrashed, RecoveryFails
<1>3. \A q \in Servers :
        e \in recovery'[q].stored => e \in recovery[q].stored \/ row[e] \in InProgress
  <2>1. CASE ListRows(p)
    BY <2>1 DEF ListRows, Listed, TypeOK
  <2>2. CASE ListJobs(p)
    BY <2>2 DEF ListJobs, Dangling, Idle, TypeOK
  <2>3. CASE MarkAsCrashed(p)
    BY <2>3 DEF MarkAsCrashed, Idle, TypeOK
  <2>4. CASE RecoveryFails(p)
    BY <2>4 DEF RecoveryFails, Idle, TypeOK
  <2> QED BY <2>1, <2>2, <2>3, <2>4 DEF Recover
<1>4. JobOK(e)' /\ StopOK(e)' /\ TakenOnce(e)'
  BY <1>1 DEF Safe, JobOK, JobIsOver, StopOK, TakenOnce
<1>5. RowOK(e)'
  BY <1>1, <1>2 DEF Safe, RowOK, MustWrite, Orphan, HasSaved, JobIsOver, InProgress
<1>6. SuccessOK(e)'
  BY <1>1, <1>2, <1>3 DEF Safe, SuccessOK, Settled, Stopping, InProgress
<1> QED BY <1>4, <1>5, <1>6 DEF Safe

\* What a server had in its hands is an orphan when it goes.
LEMMA ServerStep ==
  ASSUME TypeOK, NEW e \in Executions, Safe(e), NEW p \in Servers, ServerExits(p)
  PROVE  Safe(e)'
<1> USE DEF serverVars, stallVars, jobVars, workerVars, stopVars
<1>1. UNCHANGED <<row, job, lock, stalls, work, runningJobs, cancelWrites, dropped, aborts,
                  unchallenged>>
  BY DEF ServerExits
<1>2. caller'[e] = caller[e] \/ caller'[e] = "lost"
  BY DEF ServerExits
<1>3. \A s \in Stoppers : \/ stopper'[e][s] = stopper[e][s]
                          \/ stopper'[e][s] = "lost" /\ Stopping(e, s)
  BY DEF ServerExits
<1>4. \A q \in Servers : recovery'[q].stored \subseteq recovery[q].stored
  BY DEF ServerExits, Idle, TypeOK
<1>5. JobOK(e)' /\ TakenOnce(e)'
  BY <1>1, <1>2 DEF Safe, JobOK, JobIsOver, TakenOnce
<1>6. StopOK(e)'
  BY <1>3 DEF Safe, StopOK, Stopping, Stoppers
<1>7. RowOK(e)'
  BY <1>1, <1>2, <1>3 DEF Safe, RowOK, MustWrite, Orphan, HasSaved, JobIsOver
<1>8. SuccessOK(e)'
  BY <1>1, <1>2, <1>3, <1>4 DEF Safe, SuccessOK, Settled, Stopping
<1> QED BY <1>5, <1>6, <1>7, <1>8 DEF Safe

\* What a worker had in its hands is given back with the lock of its job, or dropped.
LEMMA WorkerStep ==
  ASSUME TypeOK, NEW e \in Executions, Safe(e), NEW w \in Workers, WorkerExits(w)
  PROVE  Safe(e)'
<1> USE DEF serverVars, stallVars, jobVars, workerVars, stopVars
<1>1. UNCHANGED <<row, job, lock, stalls, caller, stopper, aborts, recovery, unchallenged>>
  BY DEF WorkerExits
<1>2. work'[w][e] = "idle" /\ <<w, e>> \notin cancelWrites'
  BY DEF WorkerExits, TypeOK
<1>3. \A v \in Workers : v # w => /\ work'[v][e] = work[v][e]
                                  /\ <<v, e>> \in cancelWrites' <=> <<v, e>> \in cancelWrites
                                  /\ <<v, e>> \in runningJobs' <=> <<v, e>> \in runningJobs
  BY DEF WorkerExits, TypeOK
<1>4. dropped \subseteq dropped'
  BY DEF WorkerExits
<1>5. lock[e] # w /\ (work[w][e] # "idle" \/ <<w, e>> \in cancelWrites) => e \in dropped'
  BY DEF WorkerExits, Busy
<1>6. JobOK(e)' /\ StopOK(e)' /\ TakenOnce(e)'
  BY <1>1, <1>2, <1>3 DEF Safe, JobOK, JobIsOver, StopOK, TakenOnce
<1>7. SuccessOK(e)'
  BY <1>1, <1>2, <1>3 DEF Safe, SuccessOK, Settled, Stopping
<1>8. RowOK(e)'
  <2>1. CASE lock[e] = w
    <3>1. job[e] = "active" /\ ~HasSaved(w, e)'
      BY <1>2, <2>1, ScalingAssumption DEF Safe, JobOK, HasSaved
    <3> QED BY <1>1, <2>1, <3>1 DEF RowOK, MustWrite
  <2>2. CASE lock[e] # w
    <3>1. \A v \in Workers : v # w => (HasSaved(v, e)' <=> HasSaved(v, e))
      BY <1>3 DEF HasSaved
    <3>2. job[e] = "active" => lock[e] \in Workers
      BY DEF Safe, JobOK, TypeOK
    <3> QED BY <1>1, <1>3, <1>4, <1>5, <2>2, <3>1, <3>2
            DEF Safe, RowOK, MustWrite, Orphan, JobIsOver
  <2> QED BY <2>1, <2>2
<1> QED BY <1>6, <1>7, <1>8 DEF Safe

-----------------------------------------------------------------------------
(* The theorems.                                                           *)

LEMMA InitInvariant == Init => IInv
<1> SUFFICES ASSUME Init PROVE IInv
  OBVIOUS
<1>1. TypeOK
  <2>1. maxStalledCount \in Nat /\ MaxMishaps \in Nat
    BY ScalingAssumption DEF Init
  <2> QED BY <2>1 DEF Init, TypeOK, Idle, Stoppers
<1>2. ASSUME NEW e \in Executions PROVE Safe(e)
  BY DEF Init, Safe, JobOK, JobIsOver, StopOK, Stoppers, RowOK, InProgress, TakenOnce, SuccessOK
<1> QED BY <1>1, <1>2 DEF IInv

LEMMA NextInvariant == IInv /\ [Next]_vars => IInv'
<1> SUFFICES ASSUME TypeOK, [Next]_vars, NEW e \in Executions, Safe(e) PROVE Safe(e)'
  BY TypeStep DEF IInv
<1>1. ASSUME NEW f \in Executions, StepOf(f) PROVE Safe(e)'
  <2>1. CASE f # e
    BY <1>1, <2>1, OthersSame, SameSafe
  <2>2. CASE f = e
    <3>1. StepOf(e)
      BY <1>1, <2>2
    <3> QED BY <3>1, JobStep, StopStep, RowStep, TakenStep, SuccessStep DEF Safe
  <2> QED BY <2>1, <2>2
<1>2. ASSUME NEW p \in Recoverers, Recover(p) \/ RecoveryFails(p) PROVE Safe(e)'
  BY <1>2, RecoverStep, ScalingAssumption
<1>3. ASSUME NEW p \in Servers, ServerExits(p) PROVE Safe(e)'
  BY <1>3, ServerStep
<1>4. ASSUME NEW w \in Workers, WorkerExits(w) PROVE Safe(e)'
  BY <1>4, WorkerStep
<1>5. CASE UNCHANGED vars
  <2>1. Same(e)
    BY <1>5 DEF vars, serverVars, stallVars, jobVars, workerVars, stopVars, Same
  <2> QED BY <2>1, SameSafe
<1> QED
  <2>1. Next => \/ \E f \in Executions : StepOf(f)
                \/ (\E p \in Recoverers : Recover(p) \/ RecoveryFails(p)) \/ (\E p \in Servers : ServerExits(p))
                \/ \E w \in Workers : WorkerExits(w)
    BY ScalingAssumption DEF Next, StepOf
  <2> QED BY <1>1, <1>2, <1>3, <1>4, <1>5, <2>1

\* The inductive invariant.
THEOREM Invariance == Spec => []IInv
  BY InitInvariant, NextInvariant, PTL DEF Spec

\* Whoever is bound to write the row has the execution in hand.
LEMMA WritersOwn == ASSUME NEW e \in Executions, MustWrite(e) PROVE HasOwner(e)
<1>1. caller[e] = "added" => HasOwner(e)
  BY DEF HasOwner
<1>2. \A s \in Stoppers : stopper[e][s] \in {"check", "write"} => Stopping(e, s)
  BY DEF Stopping
<1> QED BY <1>1, <1>2 DEF MustWrite, HasOwner, InQueue

\* Whatever fails and whoever goes, a row that is new or running is in somebody's hands, or was
\* left behind in one of the known ways that the queue recovery repairs: enqueueExecution(),
\* processError(), processJob(), stopJob() and the lock of the job hand it to each other
\* without a gap, for every number of executions, servers, workers and failures.
THEOREM NobodyForgets == Spec => []Inv
<1>1. IInv => Inv
  BY WritersOwn DEF IInv, Inv, RowHasOwner, Safe, RowOK
<1> QED BY <1>1, Invariance, PTL

\* A success saved while nobody else had the row in view is never written over, unless its job
\* stalls and is run again: not by a failure of the job, a stop or a recovery that come later.
THEOREM SuccessStays == Spec => []SuccessIsFinal
<1>1. IInv => SuccessIsFinal
  <2> SUFFICES ASSUME IInv, NEW e \in unchallenged, stalls[e] = 0 PROVE row[e] = "success"
    BY DEF SuccessIsFinal
  <2>1. e \in Executions
    BY DEF IInv, TypeOK
  <2> QED BY <2>1 DEF IInv, Safe, SuccessOK, Settled
<1> QED BY <1>1, Invariance, PTL

=============================================================================
