----------------------------- MODULE TaskBroker -----------------------------
(***************************************************************************)
(* Code nodes run in task runners. The broker of a main or worker process  *)
(* (packages/cli/src/runners/task-broker.service.ts) matches the requests  *)
(* of the process's own task manager (task-managers/task-manager.ts,       *)
(* local-task-manager.ts) with the offers of runners, which are processes  *)
(* connected by a web socket (runner-ws-server.ts,                         *)
(* packages/@n8n/task-runner/src/task-runner.ts).                          *)
(*                                                                         *)
(* The task manager is called in process and answers without awaiting      *)
(* anything else, so what it does when a task is ready or ends belongs to  *)
(* the broker's step. Messages to and from a runner take their time and    *)
(* are lost with the connection. There is one type of task.                *)
(***************************************************************************)
EXTENDS Integers, Sequences, FiniteSets, SequencesExt

CONSTANTS
  Requests,        \* calls of startTask()
  Runners,         \* runner processes: each start is a runner with an id of its own
  MaxConcurrency,  \* tasks a runner is configured to execute at a time
  MaxOffers,       \* bound: offers the broker holds at a time
  MaxTasks,        \* bound: task ids
  MaxMishaps       \* bound: refusals, late answers, timeouts, runners lost

ASSUME BrokerAssumption ==
  /\ IsFiniteSet(Requests) /\ IsFiniteSet(Runners)
  /\ MaxConcurrency \in Nat \ {0}
  /\ MaxOffers \in Nat /\ MaxTasks \in Nat /\ MaxMishaps \in Nat

VARIABLES
  mode,                 \* the configured mode: runners are child processes or started elsewhere
  runner,               \* each runner, as the server that holds its connection sees it
  alive,                \* runners whose process lives
  pendingTaskOffers,    \* the runners that made them, first come first
  pendingTaskRequests,  \* request objects, one of them perhaps more than once
  acceptInProgress,     \* requests that carry the flag
  offered,              \* tasks whose runner has been asked and has yet to answer
  tasks,                \* the broker's tasks
  taskOf,               \* the request and the runner of each task id given out
  messages,             \* messages on their way to or from a runner
  runningTasks,         \* tasks in the runningTasks of their runner
  active,               \* those that have their settings and execute
  request,              \* each request, as the task manager sees it
  started,              \* history: how often each request began to execute
  mishaps
vars == <<mode, runner, alive, pendingTaskOffers, pendingTaskRequests, acceptInProgress, offered, tasks,
          taskOf, messages, runningTasks, active, request, started, mishaps>>
brokerVars == <<pendingTaskOffers, pendingTaskRequests, acceptInProgress, offered, tasks, taskOf>>
runnerVars == <<runningTasks, active, started>>
linkVars   == <<mode, runner, alive>>

TaskIds == 1..MaxTasks
Kinds   == {"taskofferaccept", "taskaccepted", "taskrejected", "taskdeferred",
            "tasksettings", "taskdone"}

TypeOK ==
  /\ mode \in {"internal", "external"}
  /\ runner \in [Runners -> {"off", "known", "leaving", "gone"}]
  /\ alive \subseteq Runners
  /\ pendingTaskOffers \in Seq(Runners) /\ Len(pendingTaskOffers) <= MaxOffers
  /\ pendingTaskRequests \in Seq(Requests)
  /\ acceptInProgress \subseteq Requests
  /\ taskOf \in Seq([request: Requests, runner: Runners]) /\ Len(taskOf) <= MaxTasks
  /\ offered \subseteq DOMAIN taskOf /\ tasks \subseteq DOMAIN taskOf
  /\ runningTasks \subseteq DOMAIN taskOf /\ active \subseteq runningTasks
  /\ messages \subseteq [kind: Kinds, task: DOMAIN taskOf]
  /\ request \in [Requests -> {"idle", "pending", "running", "answered"}]
  /\ started \in [Requests -> Nat]
  /\ mishaps \in 0..MaxMishaps

Init ==
  /\ mode \in {"internal", "external"}
  /\ runner = [w \in Runners |-> "off"] /\ alive = {}
  /\ pendingTaskOffers = <<>> /\ pendingTaskRequests = <<>> /\ acceptInProgress = {}
  /\ offered = {} /\ tasks = {} /\ taskOf = <<>>
  /\ messages = {} /\ runningTasks = {} /\ active = {}
  /\ request = [r \in Requests |-> "idle"]
  /\ started = [r \in Requests |-> 0]
  /\ mishaps = 0

RunnerOf(t)  == taskOf[t].runner
RequestOf(t) == taskOf[t].request

\* The broker takes a message while it knows the runner, a runner while it lives and
\* is connected. What a runner sent before it died may arrive or be lost.
Known     == { w \in Runners : runner[w] \in {"known", "leaving"} }
Connected == alive \cap Known

Message(kind, t)  == [kind |-> kind, task |-> t]
Receive(kind, t)  == Message(kind, t) \in messages /\ RunnerOf(t) \in Known
Delivered(kind, t) == Message(kind, t) \in messages /\ RunnerOf(t) \in Connected

Mishap == mishaps < MaxMishaps /\ mishaps' = mishaps + 1

-----------------------------------------------------------------------------
(* Matching (task-broker.service.ts).                                      *)

\* The elements of a sequence at some of its positions, in their order.
Pick(s, positions) ==
  LET Nth(k) == CHOOSE i \in positions : Cardinality({ j \in positions : j <= i }) = k
  IN [k \in 1..Cardinality(positions) |-> s[Nth(k)]]

\* The requests a settleTasks() looks at: once each, the flag stops the second.
Free(reqs) ==
  Pick(reqs, { i \in DOMAIN reqs : /\ reqs[i] \notin acceptInProgress
                                  /\ \A j \in 1..(i - 1) : reqs[j] # reqs[i] })

\* settleTasks(): the free requests get the offers in their order, each a task id
\* of its own, and their runners are told.
SettleTasks(reqs, offers) ==
  LET free == Free(reqs)
      n    == IF Len(free) <= Len(offers) THEN Len(free) ELSE Len(offers)
      new  == (Len(taskOf) + 1)..(Len(taskOf) + n)
  IN /\ Len(taskOf) + n <= MaxTasks
     /\ pendingTaskRequests' = reqs
     /\ pendingTaskOffers' = SubSeq(offers, n + 1, Len(offers))
     /\ acceptInProgress' = acceptInProgress \cup { free[i] : i \in 1..n }
     /\ taskOf' = taskOf \o [i \in 1..n |-> [request |-> free[i], runner |-> offers[i]]]
     /\ offered' = offered \cup new
     /\ messages' = messages \cup { Message("taskofferaccept", t) :
                                      t \in { u \in new : offers[u - Len(taskOf)] \in Connected } }

\* startTask() sends a request.
TaskRequested(r) ==
  /\ request[r] = "idle"
  /\ request' = [request EXCEPT ![r] = "pending"]
  /\ SettleTasks(Append(pendingTaskRequests, r), pendingTaskOffers)
  /\ UNCHANGED <<linkVars, tasks, runnerVars, mishaps>>

\* The runner counts its offers and tasks with Object.values() of a Map, which
\* is empty whatever the Map holds.
CountOf(map) == 0
HasOpenTasks(w) == CountOf({ t \in runningTasks : RunnerOf(t) = w }) < MaxConcurrency

\* sendOffers() of a runner, one of its offers at a time.
TaskOffered(w) ==
  /\ w \in Connected
  /\ Len(pendingTaskOffers) < MaxOffers
  /\ HasOpenTasks(w)
  /\ SettleTasks(pendingTaskRequests, Append(pendingTaskOffers, w))
  /\ UNCHANGED <<linkVars, tasks, runnerVars, request, mishaps>>

\* The time of an offer is over: the next settleTasks() drops it before it looks.
OfferExpires(i) ==
  /\ i \in DOMAIN pendingTaskOffers
  /\ pendingTaskOffers' = RemoveAt(pendingTaskOffers, i)
  /\ UNCHANGED <<linkVars, pendingTaskRequests, acceptInProgress, offered, tasks, taskOf, messages,
                 runnerVars, request, mishaps>>

-----------------------------------------------------------------------------
(* The runner's answer to the acceptance of its offer.                     *)

\* (mutant) An answer that comes too late is taken all the same.
HandleLateAccept(t) ==
  /\ Receive("taskaccepted", t)
  /\ offered' = offered \ {t}
  /\ tasks' = tasks \cup {t}
  /\ messages' = (messages \ {Message("taskaccepted", t)}) \cup {Message("tasksettings", t)}
  /\ pendingTaskRequests' = SelectSeq(pendingTaskRequests, LAMBDA r : r # RequestOf(t))
  /\ request' = [request EXCEPT ![RequestOf(t)] = "running"]
  /\ UNCHANGED <<linkVars, pendingTaskOffers, acceptInProgress, taskOf, runnerVars, mishaps>>

\* The rest of acceptOffer() once the runner has accepted: the request leaves the
\* list, the task manager is told and sends the settings, the broker passes them
\* on and arms the timeout. An answer nobody awaits any more changes nothing.
HandleRunnerAccept(t) ==
  /\ Receive("taskaccepted", t)
  /\ IF t \in offered
     THEN /\ offered' = offered \ {t}
          /\ tasks' = tasks \cup {t}
          /\ pendingTaskRequests' = RemoveFirst(pendingTaskRequests, RequestOf(t))
          /\ request' = [request EXCEPT ![RequestOf(t)] = "running"]
          /\ messages' = (messages \ {Message("taskaccepted", t)}) \cup {Message("tasksettings", t)}
     ELSE /\ messages' = messages \ {Message("taskaccepted", t)}
          /\ UNCHANGED <<offered, tasks, pendingTaskRequests, request>>
  /\ UNCHANGED <<linkVars, pendingTaskOffers, acceptInProgress, taskOf, runnerVars, mishaps>>

\* (mutant) The flag is not reset.
GiveUpFlagged(t) == offered' = offered \ {t} /\ UNCHANGED acceptInProgress

\* acceptOffer() without a task: the request may be matched again, by the next
\* offer or request that comes.
GiveUp(t) ==
  /\ offered' = offered \ {t}
  /\ acceptInProgress' = acceptInProgress \ {RequestOf(t)}

HandleRunnerReject(t) ==
  /\ Receive("taskrejected", t)
  /\ messages' = messages \ {Message("taskrejected", t)}
  /\ IF t \in offered THEN GiveUp(t) ELSE UNCHANGED <<offered, acceptInProgress>>
  /\ UNCHANGED <<linkVars, pendingTaskOffers, pendingTaskRequests, tasks, taskOf, runnerVars,
                 request, mishaps>>

\* (mutant) A deferred request leaves the list.
HandleDeferredOnce(t) ==
  /\ Receive("taskdeferred", t)
  /\ messages' = messages \ {Message("taskdeferred", t)}
  /\ IF t \in offered
     THEN /\ GiveUp(t)
          /\ pendingTaskRequests' = SelectSeq(pendingTaskRequests, LAMBDA r : r # RequestOf(t))
     ELSE UNCHANGED <<offered, acceptInProgress, pendingTaskRequests>>
  /\ UNCHANGED <<linkVars, pendingTaskOffers, tasks, taskOf, runnerVars, request, mishaps>>

\* A deferred request is appended to the list that holds it already.
HandleRunnerDeferred(t) ==
  /\ Receive("taskdeferred", t)
  /\ messages' = messages \ {Message("taskdeferred", t)}
  /\ IF t \in offered
     THEN /\ GiveUp(t)
          /\ pendingTaskRequests' = Append(pendingTaskRequests, RequestOf(t))
     ELSE UNCHANGED <<offered, acceptInProgress, pendingTaskRequests>>
  /\ UNCHANGED <<linkVars, pendingTaskOffers, tasks, taskOf, runnerVars, request, mishaps>>

Answers == {"taskofferaccept", "taskaccepted", "taskrejected", "taskdeferred"}

\* No answer within two seconds, be it lost or merely late.
RunnerTimesOut(t) ==
  /\ t \in offered
  /\ GiveUp(t)
  /\ IF \E kind \in Answers : Delivered(kind, t) THEN Mishap ELSE UNCHANGED mishaps
  /\ UNCHANGED <<linkVars, pendingTaskOffers, pendingTaskRequests, tasks, taskOf, messages,
                 runnerVars, request>>

-----------------------------------------------------------------------------
(* The end of a task.                                                      *)

\* taskDoneHandler(), taskErrorHandler() and failTask() tell the task manager,
\* and only the first of them finds the task.
FinishTask(t) ==
  /\ tasks' = tasks \ {t}
  /\ request' = IF t \in tasks THEN [request EXCEPT ![RequestOf(t)] = "answered"] ELSE request

HandleTaskDone(t) ==
  /\ Receive("taskdone", t)
  /\ messages' = messages \ {Message("taskdone", t)}
  /\ FinishTask(t)
  /\ UNCHANGED <<linkVars, pendingTaskOffers, pendingTaskRequests, acceptInProgress, offered,
                 taskOf, runnerVars, mishaps>>

\* forceRestart() kills the child process of the moment, whatever runner it is about.
ForceRestart == alive' = IF mode = "internal" THEN {} ELSE alive

\* handleTaskTimeout(). An external runner goes on with the task.
TaskTimesOut(t) ==
  /\ t \in tasks
  /\ Mishap
  /\ FinishTask(t)
  /\ ForceRestart
  /\ UNCHANGED <<mode, runner, pendingTaskOffers, pendingTaskRequests, acceptInProgress, offered, taskOf,
                 messages, runnerVars>>

-----------------------------------------------------------------------------
(* The runner (task-runner.ts).                                            *)

\* offerAccepted(): a task slot for the task, if there is one.
OfferAccepted(t) ==
  LET answer == IF HasOpenTasks(RunnerOf(t)) THEN "taskaccepted" ELSE "taskrejected" IN
  /\ Delivered("taskofferaccept", t)
  /\ runningTasks' = IF HasOpenTasks(RunnerOf(t)) THEN runningTasks \cup {t} ELSE runningTasks
  /\ messages' = (messages \ {Message("taskofferaccept", t)}) \cup {Message(answer, t)}
  /\ UNCHANGED <<linkVars, brokerVars, active, request, started, mishaps>>

\* The offer has expired, or the launcher that made it defers the task.
OfferRefused(t, answer) ==
  /\ Delivered("taskofferaccept", t)
  /\ Mishap
  /\ messages' = (messages \ {Message("taskofferaccept", t)}) \cup {Message(answer, t)}
  /\ UNCHANGED <<linkVars, brokerVars, runnerVars, request>>

ReceivedSettings(t) ==
  /\ Delivered("tasksettings", t)
  /\ t \in runningTasks
  /\ active' = active \cup {t}
  /\ started' = [started EXCEPT ![RequestOf(t)] = @ + 1]
  /\ messages' = messages \ {Message("tasksettings", t)}
  /\ UNCHANGED <<linkVars, brokerVars, runningTasks, request, mishaps>>

\* taskDone() or taskErrored().
TaskEnds(t) ==
  /\ t \in active /\ RunnerOf(t) \in Connected
  /\ active' = active \ {t} /\ runningTasks' = runningTasks \ {t}
  /\ messages' = messages \cup {Message("taskdone", t)}
  /\ UNCHANGED <<linkVars, brokerVars, request, started, mishaps>>

-----------------------------------------------------------------------------
(* Connections (runner-ws-server.ts, task-runner-process.ts).              *)

\* A runner process starts, connects and is registered. There is one child process
\* at a time, started again when it exits. It does not matter which id is next.
RegisterRunner(w) ==
  /\ runner[w] = "off"
  /\ w = CHOOSE v \in Runners : runner[v] = "off"
  /\ mode = "internal" => alive = {}
  /\ runner' = [runner EXCEPT ![w] = "known"]
  /\ alive' = alive \cup {w}
  /\ UNCHANGED <<mode, brokerVars, messages, runnerVars, request, mishaps>>

\* Its process dies.
RunnerDies(w) ==
  /\ w \in alive
  /\ Mishap
  /\ alive' = alive \ {w}
  /\ UNCHANGED <<mode, runner, brokerVars, messages, runnerVars, request>>

\* removeConnection() of a closed connection: until it knows the reason, the runner
\* stays registered.
CloseConnection(w) ==
  /\ runner[w] = "known" /\ w \notin alive
  /\ runner' = [runner EXCEPT ![w] = "leaving"]
  /\ UNCHANGED <<mode, alive, brokerVars, messages, runnerVars, request, mishaps>>

\* removeConnection() of one that did not answer a ping.
FailHeartbeat(w) ==
  /\ runner[w] = "known"
  /\ Mishap
  /\ runner' = [runner EXCEPT ![w] = "leaving"]
  /\ ForceRestart
  /\ UNCHANGED <<mode, brokerVars, messages, runnerVars, request>>

\* (mutant) The tasks of the runner are forgotten.
FailNoTasks(w) == UNCHANGED <<tasks, request>>

\* The tasks of a runner that leaves fail.
FailTasks(w) ==
  LET failed == { t \in tasks : RunnerOf(t) = w } IN
  /\ tasks' = tasks \ failed
  /\ request' = [r \in Requests |-> IF \E t \in failed : RequestOf(t) = r
                                    THEN "answered" ELSE request[r]]

\* deregisterRunner(): its offers go, its tasks fail. Acceptances in progress are
\* left to their timeout: they are no tasks yet.
DeregisterRunner(w) ==
  /\ runner[w] = "leaving"
  /\ runner' = [runner EXCEPT ![w] = "gone"]
  /\ pendingTaskOffers' = Pick(pendingTaskOffers,
                               { i \in DOMAIN pendingTaskOffers : pendingTaskOffers[i] # w })
  /\ FailTasks(w)
  /\ UNCHANGED <<mode, alive, pendingTaskRequests, acceptInProgress, offered, taskOf, messages,
                 runnerVars, mishaps>>

-----------------------------------------------------------------------------
OnTask(t) ==
  \/ HandleRunnerAccept(t) \/ HandleRunnerReject(t) \/ HandleRunnerDeferred(t)
  \/ HandleTaskDone(t) \/ OfferAccepted(t) \/ ReceivedSettings(t) \/ TaskEnds(t)

Next ==
  \/ \E r \in Requests : TaskRequested(r)
  \/ \E w \in Runners : \/ TaskOffered(w) \/ RegisterRunner(w) \/ RunnerDies(w)
                        \/ CloseConnection(w) \/ FailHeartbeat(w) \/ DeregisterRunner(w)
  \/ \E i \in 1..MaxOffers : OfferExpires(i)
  \/ \E t \in TaskIds : \/ OnTask(t) \/ RunnerTimesOut(t) \/ TaskTimesOut(t)
                         \/ \E answer \in {"taskrejected", "taskdeferred"} : OfferRefused(t, answer)

Spec == Init /\ [][Next]_vars

\* Messages of a living runner are delivered and handled, tasks end or time out,
\* timers fire, runners send offers every 250 ms, and a process that exits is
\* started again. Nothing makes a node ask for a task.
Fairness ==
  /\ \A t \in TaskIds :
       /\ WF_vars(t \in DOMAIN taskOf /\ RunnerOf(t) \in Connected /\ OnTask(t))
       /\ WF_vars(RunnerTimesOut(t))
  /\ WF_vars(\E w \in Runners : TaskOffered(w))
  /\ WF_vars(\E w \in Runners : RegisterRunner(w))
  /\ WF_vars(\E i \in 1..MaxOffers : OfferExpires(i))
  /\ WF_vars(\E w \in Runners : CloseConnection(w) \/ DeregisterRunner(w))

FairSpec == Spec /\ Fairness

-----------------------------------------------------------------------------
(* Properties.                                                             *)

\* The code of a node begins to execute at most once per request, although a
\* request is offered again after a refusal or a timeout and the runner that
\* was asked first may have accepted meanwhile (acceptOffer()).
OneExecutionPerRequest == \A r \in Requests : started[r] <= 1

\* A pending request whose flag acceptInProgress is set is being offered to a
\* runner, to one only: else no settleTasks() would look at it again, or two
\* runners would take it (acceptOffer(), settleTasks()).
FlagMeansOneAcceptance ==
  \A r \in Requests :
    Cardinality({ t \in offered : RequestOf(t) = r })
      = IF r \in acceptInProgress /\ request[r] = "pending" THEN 1 ELSE 0

\* A request the task manager has not heard about is in the broker's list.
PendingIsListed == \A r \in Requests : request[r] = "pending" => Contains(pendingTaskRequests, r)

\* The state of the broker is consistent: of its types, every pending request in the list,
\* and offered to one runner while its flag is set (acceptOffer(), settleTasks()).
Inv == TypeOK /\ PendingIsListed /\ FlagMeansOneAcceptance

\* A node waits for the result of a task exactly while the broker holds one task
\* of its request, and the runner of that task is registered: else nothing but
\* the timeout would end the wait (taskDoneHandler(), deregisterRunner()).
WaiterHasTask ==
  /\ \A r \in Requests : Cardinality({ t \in tasks : RequestOf(t) = r })
                            = IF request[r] = "running" THEN 1 ELSE 0
  /\ \A t \in tasks : RunnerOf(t) \in Known

\* Every request is answered, by a result or by an error, whatever refusals,
\* timeouts and lost runners there are on the way, if they are finitely many.
EveryRequestAnswered == \A r \in Requests : request[r] = "pending" ~> request[r] = "answered"


=============================================================================
