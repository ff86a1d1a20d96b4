------------------------------ MODULE MultiMain ------------------------------
(***************************************************************************)
(* Main processes that elect a leader (LeaderElection) and what the leader *)
(* does: its wait tracker (packages/cli/src/wait-tracker.ts) polls the     *)
(* database for executions that wait and sets a timer for each.  Stepping  *)
(* down stops the poll and the timers, taking over starts the poll.        *)
(*                                                                         *)
(* The other duties (triggers, pruning, queue recovery) hang on the same   *)
(* two events.  A resumed execution is handed to the job queue.            *)
(***************************************************************************)
EXTENDS LeaderElection

CONSTANT Waits  \* executions that wait for a point in time

VARIABLES
  mainTimer,          \* running poll intervals of each process; the field knows one of them
  waitingExecutions,  \* the map of each process
  armed,              \* those of its entries whose timer has neither fired nor been cleared
  query,              \* the poll in flight of each process and what it has found
  row                 \* each execution in the database
trackerVars == <<mainTimer, waitingExecutions, armed, query, row>>
vars == <<electionVars, trackerVars>>

NoQuery == [busy |-> FALSE, found |-> {}]

TypeOK ==
  /\ ElectionTypeOK
  /\ mainTimer \in [Hosts -> Nat]
  /\ waitingExecutions \in [Hosts -> SUBSET Waits]
  /\ \A h \in Hosts : armed[h] \subseteq waitingExecutions[h]
  /\ query \in [Hosts -> [busy: BOOLEAN, found: SUBSET Waits]]
  /\ row \in [Waits -> {"waiting", "resumed"}]

Init ==
  /\ ElectionInit
  /\ mainTimer = [h \in Hosts |-> 0]
  /\ waitingExecutions = [h \in Hosts |-> {}]
  /\ armed = [h \in Hosts |-> {}]
  /\ query = [h \in Hosts |-> NoQuery]
  /\ row = [e \in Waits |-> "waiting"]

-----------------------------------------------------------------------------
(* The wait tracker.                                                       *)

StartTracking(h) ==
  /\ mainTimer' = [mainTimer EXCEPT ![h] = @ + 1]
  /\ UNCHANGED <<waitingExecutions, armed, query, row>>

\* (mutant) The timers are cleared, the interval runs on.
StopTimersOnly(h) ==
  /\ armed' = [armed EXCEPT ![h] = {}]
  /\ UNCHANGED <<mainTimer, waitingExecutions, query, row>>

\* The interval the field knows is cleared, and every timer; the entries stay.
StopTracking(h) ==
  /\ mainTimer' = [mainTimer EXCEPT ![h] = IF @ > 0 THEN @ - 1 ELSE 0]
  /\ armed' = [armed EXCEPT ![h] = {}]
  /\ UNCHANGED <<waitingExecutions, query, row>>

\* getWaitingExecutions() up to its await.
PollRead(h) ==
  /\ Alive(h) /\ mainTimer[h] > 0 /\ ~query[h].busy
  /\ query' = [query EXCEPT ![h] = [busy |-> TRUE, found |-> { e \in Waits : row[e] = "waiting" }]]
  /\ UNCHANGED <<electionVars, mainTimer, waitingExecutions, armed, row>>

\* A timer for each execution found that has no entry, whatever happened meanwhile.
PollSet(h) ==
  /\ Alive(h) /\ query[h].busy
  /\ waitingExecutions' = [waitingExecutions EXCEPT ![h] = @ \cup query[h].found]
  /\ armed' = [armed EXCEPT ![h] = @ \cup (query[h].found \ waitingExecutions[h])]
  /\ query' = [query EXCEPT ![h] = NoQuery]
  /\ UNCHANGED <<electionVars, mainTimer, row>>

\* (mutant) The entry is deleted and nothing is resumed.
TimerLost(h, e) ==
  /\ Alive(h) /\ e \in armed[h]
  /\ waitingExecutions' = [waitingExecutions EXCEPT ![h] = @ \ {e}]
  /\ armed' = [armed EXCEPT ![h] = @ \ {e}]
  /\ UNCHANGED <<electionVars, mainTimer, query, row>>

\* startExecution() deletes the entry and runs the execution.
TimerFires(h, e) ==
  /\ Alive(h) /\ e \in armed[h]
  /\ waitingExecutions' = [waitingExecutions EXCEPT ![h] = @ \ {e}]
  /\ armed' = [armed EXCEPT ![h] = @ \ {e}]
  /\ row' = [row EXCEPT ![e] = "resumed"]
  /\ UNCHANGED <<electionVars, mainTimer, query>>

-----------------------------------------------------------------------------
(* The election with its events.                                           *)

\* The listeners come after init(): what happens at a start is a takeover too.
LeaderTakesOver(h) == TakeOver(h) /\ StartTracking(h)

LeaderStepsDown(h) ==
  \/ LeaderIsOther(h) /\ (IF isLeader[h] THEN StopTracking(h) ELSE UNCHANGED trackerVars)
  \/ LeadershipVacant(h) /\ StopTracking(h)

ShutdownBegins(h) == StopProcess(h) /\ StopTracking(h)

\* What a process had in memory goes with it.
Memory(h) ==
  /\ mainTimer' = [mainTimer EXCEPT ![h] = 0]
  /\ waitingExecutions' = [waitingExecutions EXCEPT ![h] = {}]
  /\ armed' = [armed EXCEPT ![h] = {}]
  /\ query' = [query EXCEPT ![h] = NoQuery]
  /\ UNCHANGED row
ProcessEnds(h) == (Closed(h) \/ Crash(h)) /\ Memory(h)

Quiet(h) ==
  \/ Execute(h) \/ Start(h) \/ Check(h) \/ LeaderIsThis(h) \/ Renewed(h)
  \/ BecomeLeader(h) \/ StayFollower(h) \/ Shutdown(h)

Next ==
  \/ KeyExpires /\ UNCHANGED trackerVars
  \/ \E h \in Hosts :
       \/ Quiet(h) /\ UNCHANGED trackerVars
       \/ LeaderTakesOver(h) \/ LeaderStepsDown(h) \/ ShutdownBegins(h) \/ ProcessEnds(h)
       \/ PollRead(h) \/ PollSet(h)
       \/ \E e \in Waits : TimerFires(h, e)

Spec == Init /\ [][Next]_vars

\* Redis and the connections are up again and again, the timers of a process fire,
\* and the key of a process that is gone expires if it can.
Handle(h) ==
  \/ (LeaderIsThis(h) \/ Renewed(h) \/ BecomeLeader(h) \/ StayFollower(h)) /\ UNCHANGED trackerVars
  \/ LeaderTakesOver(h) \/ LeaderStepsDown(h)

Fairness ==
  /\ \A h \in Hosts :
       /\ WF_vars(Execute(h) /\ UNCHANGED trackerVars)
       /\ WF_vars(Handle(h))
       /\ WF_vars(Check(h) /\ UNCHANGED trackerVars)
       /\ WF_vars((Start(h) \/ Shutdown(h)) /\ UNCHANGED trackerVars)
       /\ WF_vars(Closed(h) /\ Memory(h))
       /\ WF_vars(PollRead(h) \/ PollSet(h))
       /\ \A e \in Waits : WF_vars(TimerFires(h, e))
  /\ WF_vars(leaderKey # NoHost /\ ~Alive(leaderKey) /\ KeyExpires /\ UNCHANGED trackerVars)

FairSpec == Spec /\ Fairness

-----------------------------------------------------------------------------
(* Properties.                                                             *)

\* While no key of a living process has expired, there are never two leaders,
\* whatever processes start, crash and shut down (tryBecomeLeader(), shutdown()).
SingleLeader == expiries = 0 => Cardinality(Leaders) <= 1

\* The duties are never started twice, and a process all of whose commands have been
\* answered polls if and only if it holds itself for the leader (MultiMainSetup's events).
DutiesFollowLeadership ==
  \A h \in Hosts :
    /\ mainTimer[h] <= 1
    /\ process[h] = "up" /\ InFlight(h) = 0 => mainTimer[h] = (IF isLeader[h] THEN 1 ELSE 0)

\* The state of the processes is consistent: of its types, and the duties are those of the
\* leader (MultiMainSetup's events, WaitTracker).
Inv == TypeOK /\ DutiesFollowLeadership

\* A key that never expires, for its holder was gone before it set the time to live.
Orphaned == leaderKey # NoHost /\ ~Alive(leaderKey) /\ ~expires

\* In the end there is one leader, as long as a process lives: two do not lead side by side
\* for good, and a vacancy is filled (checkLeader()).  Not so if the key is orphaned.
OneLeaderInTheEnd == <>[](Cardinality(Leaders) = 1) \/ <>[]Orphaned

\* An entry without a timer keeps the polls of its process from setting one.
Forgotten(e) == \E h \in Hosts : e \in waitingExecutions[h] \ armed[h]

\* Whoever leads, an execution that waits is resumed, but for those that a
\* process forgot when it stepped down (getWaitingExecutions(), stopTracking()).
WaitIsOver == \A e \in Waits : []<>(row[e] = "resumed" \/ Orphaned \/ Forgotten(e))

=============================================================================
