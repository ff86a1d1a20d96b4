-------------------------- MODULE TaskBrokerProofs --------------------------
(***************************************************************************)
(* The broker of the task runners, proved for every number of requests,    *)
(* runners and tasks, whatever is refused, late or lost.                   *)
(***************************************************************************)
EXTENDS TaskBroker, QueueFacts

-----------------------------------------------------------------------------
(* The inductive invariant.                                                *)

\* A request is offered while it is pending and flagged, to one runner only, and is
\* flagged for ever once it has been accepted: the copies of it that deferrals left
\* in the list are never matched.
OfferInv ==
  /\ \A t \in offered : request[RequestOf(t)] = "pending" /\ RequestOf(t) \in acceptInProgress
  /\ \A t, u \in offered : RequestOf(t) = RequestOf(u) => t = u
  /\ \A r \in acceptInProgress : request[r] = "pending" => \E t \in offered : RequestOf(t) = r
  /\ \A r \in Requests : request[r] \in {"running", "answered"} => r \in acceptInProgress
  /\ \A r \in Requests : request[r] = "idle" => r \notin acceptInProgress

\* The list holds every pending request, and none that has yet to be made.
ListInv ==
  /\ PendingIsListed
  /\ \A i \in DOMAIN pendingTaskRequests : request[pendingTaskRequests[i]] # "idle"

\* A request runs exactly while it has a task, which is the only one.
WaitInv ==
  /\ \A t \in tasks : request[RequestOf(t)] = "running" /\ RunnerOf(t) \in Known
  /\ \A t, u \in tasks : RequestOf(t) = RequestOf(u) => t = u
  /\ \A r \in Requests : request[r] = "running" => \E t \in tasks : RequestOf(t) = r

\* The settings of a request are sent once, when it is accepted, and it executes when
\* they arrive.
HasSettings(t) == Message("tasksettings", t) \in messages
SettingsInv ==
  /\ \A t \in DOMAIN taskOf : HasSettings(t) =>
       started[RequestOf(t)] = 0 /\ request[RequestOf(t)] \in {"running", "answered"}
  /\ \A t, u \in DOMAIN taskOf :
       HasSettings(t) /\ HasSettings(u) /\ RequestOf(t) = RequestOf(u) => t = u
  /\ \A r \in Requests : /\ started[r] <= 1
                         /\ started[r] > 0 => request[r] \in {"running", "answered"}

IInv == TypeOK /\ OfferInv /\ ListInv /\ WaitInv /\ SettingsInv

-----------------------------------------------------------------------------
(* Matching.                                                               *)

\* Pick() takes each of the positions once: their ranks are the numbers up to how many
\* they are.
LEMMA PickFacts ==
  ASSUME NEW S, NEW s \in Seq(S), NEW I \in SUBSET (DOMAIN s)
  PROVE  /\ Pick(s, I) \in Seq(S)
         /\ Len(Pick(s, I)) <= Len(s)
         /\ \E nth \in [DOMAIN Pick(s, I) -> I] :
              /\ \A k \in DOMAIN Pick(s, I) : Pick(s, I)[k] = s[nth[k]]
              /\ \A j, k \in DOMAIN Pick(s, I) : nth[j] = nth[k] => j = k
<1> DEFINE UpTo(i) == { j \in I : j <= i }
           n == Cardinality(I)
           rank == [i \in I |-> Cardinality(UpTo(i))]
           Nth(k) == CHOOSE i \in I : Cardinality(UpTo(i)) = k
           nth == [k \in 1..n |-> Nth(k)]
<1>1. /\ DOMAIN s = 1..Len(s) /\ Len(s) \in Nat
      /\ IsFiniteSet(I) /\ n \in Nat /\ n <= Len(s)
  <2>1. DOMAIN s = 1..Len(s) /\ Len(s) \in Nat
    BY LenProperties
  <2>2. \A m \in Nat : IsFiniteSet(1..m) /\ Cardinality(1..m) = m
    BY FS_Interval
  <2>3. IsFiniteSet(I) /\ Cardinality(I) <= Len(s)
    BY <2>1, <2>2, FS_Subset
  <2> QED BY <2>1, <2>3, FS_CardinalityType
<1>2. \A i \in I : UpTo(i) \in SUBSET I /\ IsFiniteSet(UpTo(i)) /\ i \in UpTo(i)
  <2>1. \A i \in I : UpTo(i) \in SUBSET I /\ i \in UpTo(i)
    BY <1>1
  <2> QED BY <1>1, <2>1, FS_Subset
<1>3. \A i \in I : Cardinality(UpTo(i)) \in 1..n
  <2> TAKE i \in I
  <2> DEFINE U == UpTo(i)
  <2>1. U \in SUBSET I /\ IsFiniteSet(U) /\ U # {}
    BY <1>2
  <2> HIDE DEF U
  <2>2. Cardinality(U) \in Nat /\ Cardinality(U) <= n /\ Cardinality(U) # 0
    BY <1>1, <2>1, FS_Subset, FS_CardinalityType, FS_EmptySet
  <2> QED BY <1>1, <2>2 DEF U
<1>4. ASSUME NEW i \in I, NEW j \in I, i < j
      PROVE  Cardinality(UpTo(i)) # Cardinality(UpTo(j))
  <2> DEFINE U == UpTo(i)
             V == UpTo(j)
  <2>1. U \in SUBSET V /\ j \notin U /\ j \in V /\ IsFiniteSet(V)
    BY <1>1, <1>2, <1>4
  <2> HIDE DEF U, V
  <2>2. Cardinality(U) # Cardinality(V)
    BY <2>1, FS_Subset
  <2> QED BY <2>2 DEF U, V
<1>5. \A i, j \in I : Cardinality(UpTo(i)) = Cardinality(UpTo(j)) => i = j
  <2>1. \A i, j \in I : i < j \/ j < i \/ i = j
    BY <1>1
  <2> HIDE DEF UpTo
  <2> QED BY <1>4, <2>1
<1>6. rank \in Injection(I, 1..n)
  <2> HIDE DEF UpTo, n
  <2>1. rank \in [I -> 1..n]
    BY <1>3
  <2>2. \A i, j \in I : rank[i] = rank[j] => i = j
    BY <1>5
  <2> HIDE DEF rank
  <2> QED BY <2>1, <2>2 DEF Injection, IsInjective
<1>7. rank \in Surjection(I, 1..n)
  <2>1. IsFiniteSet(1..n) /\ Cardinality(1..n) = n
    BY <1>1, FS_Interval
  <2> HIDE DEF rank
  <2> QED BY <1>6, <2>1, FS_Injection
<1>8. \A k \in 1..n : \E i \in I : Cardinality(UpTo(i)) = k
  <2>1. \A k \in 1..n : \E i \in I : rank[i] = k
    <3> HIDE DEF rank
    <3> QED BY <1>7 DEF Surjection
  <2> QED BY <2>1
<1>9. \A k \in 1..n : Nth(k) \in I /\ Cardinality(UpTo(Nth(k))) = k
  BY <1>8
<1>10. nth \in [1..n -> I] /\ \A j, k \in 1..n : nth[j] = nth[k] => j = k
  <2> HIDE DEF Nth, UpTo, n
  <2>1. nth \in [1..n -> I] /\ \A k \in 1..n : Cardinality(UpTo(nth[k])) = k
    BY <1>9
  <2> QED BY <2>1
<1>11. Pick(s, I) = [k \in 1..n |-> s[nth[k]]]
  BY DEF Pick
<1> HIDE DEF nth, n
<1>12. Pick(s, I) \in Seq(S) /\ DOMAIN Pick(s, I) = 1..n /\ Len(Pick(s, I)) = n
  <2>1. \A k \in 1..n : s[nth[k]] \in S
    BY <1>1, <1>10, ElementOfSeq
  <2>2. [k \in 1..n |-> s[nth[k]]] \in Seq(S)
    BY <1>1, <2>1, IsASeq
  <2> QED BY <1>1, <1>11, <2>2, LenProperties
<1>13. \A k \in 1..n : Pick(s, I)[k] = s[nth[k]]
  BY <1>11
<1>14. /\ nth \in [DOMAIN Pick(s, I) -> I]
       /\ \A k \in DOMAIN Pick(s, I) : Pick(s, I)[k] = s[nth[k]]
       /\ \A j, k \in DOMAIN Pick(s, I) : nth[j] = nth[k] => j = k
  BY <1>10, <1>12, <1>13
<1> QED
  BY <1>1, <1>12, <1>14

\* The requests that are free are in the list, unflagged, and each of them once.
LEMMA FreeFacts ==
  ASSUME NEW reqs \in Seq(Requests)
  PROVE  /\ Free(reqs) \in Seq(Requests)
         /\ \A k \in DOMAIN Free(reqs) :
              Free(reqs)[k] \notin acceptInProgress /\ \E i \in DOMAIN reqs : reqs[i] = Free(reqs)[k]
         /\ \A j, k \in DOMAIN Free(reqs) : Free(reqs)[j] = Free(reqs)[k] => j = k
<1> DEFINE I == { i \in DOMAIN reqs : /\ reqs[i] \notin acceptInProgress
                                     /\ \A j \in 1..(i - 1) : reqs[j] # reqs[i] }
<1>1. I \in SUBSET (DOMAIN reqs) /\ Free(reqs) = Pick(reqs, I)
  BY DEF Free
<1>2. \A i \in I : reqs[i] \notin acceptInProgress
  OBVIOUS
<1>3. \A i, j \in I : reqs[i] = reqs[j] => i = j
  <2>1. DOMAIN reqs = 1..Len(reqs) /\ Len(reqs) \in Nat
    BY LenProperties
  <2>2. ASSUME NEW i \in I, NEW j \in I, i < j PROVE reqs[i] # reqs[j]
    BY <2>1, <2>2
  <2>3. \A i, j \in I : i < j \/ j < i \/ i = j
    BY <2>1
  <2> HIDE DEF I
  <2> QED BY <2>2, <2>3
<1> HIDE DEF I
<1>4. /\ Free(reqs) \in Seq(Requests)
      /\ \E nth \in [DOMAIN Free(reqs) -> I] :
           /\ \A k \in DOMAIN Free(reqs) : Free(reqs)[k] = reqs[nth[k]]
           /\ \A j, k \in DOMAIN Free(reqs) : nth[j] = nth[k] => j = k
  BY <1>1, PickFacts
<1> QED
  BY <1>1, <1>2, <1>3, <1>4

\* The task ids that a step gives out.
NewTasks == DOMAIN taskOf' \ DOMAIN taskOf

\* settleTasks() gives each new task id to a request of the list that is not being
\* offered yet, no two to the same one.
LEMMA SettleFacts ==
  ASSUME TypeOK, NEW reqs \in Seq(Requests), NEW offers \in Seq(Runners), SettleTasks(reqs, offers)
  PROVE  /\ taskOf' \in Seq([request: Requests, runner: Runners]) /\ Len(taskOf') <= MaxTasks
         /\ DOMAIN taskOf \subseteq DOMAIN taskOf'
         /\ \A t \in DOMAIN taskOf : taskOf'[t] = taskOf[t]
         /\ pendingTaskRequests' = reqs
         /\ pendingTaskOffers' \in Seq(Runners) /\ Len(pendingTaskOffers') <= Len(offers)
         /\ offered' = offered \cup NewTasks
         /\ messages \subseteq messages'
         /\ messages' \subseteq messages \cup { Message("taskofferaccept", t) : t \in NewTasks }
         /\ acceptInProgress' = acceptInProgress \cup { taskOf'[t].request : t \in NewTasks }
         /\ \A t \in NewTasks : /\ taskOf'[t].request \in Requests \ acceptInProgress
                                /\ \E i \in DOMAIN reqs : reqs[i] = taskOf'[t].request
         /\ \A t, u \in NewTasks : taskOf'[t].request = taskOf'[u].request => t = u
<1> DEFINE free == Free(reqs)
           n == IF Len(free) <= Len(offers) THEN Len(free) ELSE Len(offers)
           m == Len(taskOf)
           l == Len(offers)
           new == (m + 1)..(m + n)
           Tasks == [request: Requests, runner: Runners]
           matched == [i \in 1..n |-> [request |-> free[i], runner |-> offers[i]]]
<1>1. /\ free \in Seq(Requests)
      /\ \A k \in DOMAIN free :
           free[k] \notin acceptInProgress /\ \E i \in DOMAIN reqs : reqs[i] = free[k]
      /\ \A j, k \in DOMAIN free : free[j] = free[k] => j = k
  BY FreeFacts
<1>2. /\ DOMAIN free = 1..Len(free) /\ Len(free) \in Nat
      /\ DOMAIN offers = 1..l /\ l \in Nat
      /\ DOMAIN taskOf = 1..m /\ m \in Nat /\ taskOf \in Seq(Tasks)
  BY <1>1, LenProperties DEF TypeOK
<1>3. n \in Nat /\ n <= l /\ 1..n \subseteq DOMAIN free /\ 1..n \subseteq DOMAIN offers
  BY <1>2
<1>4. /\ m + n <= MaxTasks
      /\ pendingTaskRequests' = reqs
      /\ pendingTaskOffers' = SubSeq(offers, n + 1, Len(offers))
      /\ acceptInProgress' = acceptInProgress \cup { free[i] : i \in 1..n }
      /\ taskOf' = taskOf \o matched
      /\ offered' = offered \cup new
      /\ messages' = messages \cup { Message("taskofferaccept", t) :
                                       t \in { u \in new : offers[u - Len(taskOf)] \in Connected } }
  BY DEF SettleTasks
<1> HIDE DEF free, n, m, l
<1>5. \A i \in 1..n : free[i] \in Requests /\ offers[i] \in Runners
  BY <1>1, <1>2, <1>3, ElementOfSeq DEF l
<1>6. matched \in Seq(Tasks) /\ Len(matched) = n /\ \A i \in 1..n : matched[i].request = free[i]
  <2>1. \A i \in 1..n : [request |-> free[i], runner |-> offers[i]] \in Tasks
    BY <1>5
  <2>2. matched \in Seq(Tasks)
    BY <1>3, <2>1, IsASeq
  <2> QED BY <1>3, <2>2, LenProperties
<1> HIDE DEF matched, Tasks
<1>7. /\ taskOf' \in Seq(Tasks) /\ Len(taskOf') = m + n
      /\ \A t \in 1..(m + n) : taskOf'[t] = IF t <= m THEN taskOf[t] ELSE matched[t - m]
  BY <1>2, <1>4, <1>6, ConcatProperties DEF m
<1>8. /\ DOMAIN taskOf' = 1..(m + n) /\ NewTasks = new
      /\ \A t \in new : t - m \in 1..n /\ taskOf'[t].request = free[t - m]
  <2>1. DOMAIN taskOf' = 1..(m + n)
    BY <1>7, LenProperties
  <2>2. \A t \in new : t - m \in 1..n /\ t \in 1..(m + n) /\ ~(t <= m)
    BY <1>2, <1>3
  <2>3. NewTasks = new
    BY <1>2, <1>3, <2>1 DEF NewTasks
  <2>4. \A t \in new : taskOf'[t] = matched[t - m]
    BY <1>7, <2>2
  <2> QED BY <1>6, <2>1, <2>2, <2>3, <2>4
<1>9. /\ DOMAIN taskOf \subseteq DOMAIN taskOf'
      /\ \A t \in DOMAIN taskOf : taskOf'[t] = taskOf[t]
  BY <1>2, <1>3, <1>7, <1>8
<1>10. pendingTaskOffers' \in Seq(Runners) /\ Len(pendingTaskOffers') <= Len(offers)
  <2>1. \A i \in (n + 1)..l : offers[i] \in Runners
    BY <1>2, <1>3, ElementOfSeq DEF l
  <2>2. /\ SubSeq(offers, n + 1, l) \in Seq(Runners)
        /\ Len(SubSeq(offers, n + 1, l)) = (IF n + 1 <= l THEN l - (n + 1) + 1 ELSE 0)
    BY <1>2, <1>3, <2>1, SubSeqProperties DEF l
  <2>3. pendingTaskOffers' = SubSeq(offers, n + 1, l)
    BY <1>4 DEF l
  <2>4. Len(pendingTaskOffers') <= l
    BY <1>2, <1>3, <2>2, <2>3
  <2> QED BY <2>2, <2>3, <2>4 DEF l
<1>11. { free[i] : i \in 1..n } = { taskOf'[t].request : t \in new }
  <2>1. \A i \in 1..n : i + m \in new /\ (i + m) - m = i
    BY <1>2, <1>3
  <2>2. \A i \in 1..n : taskOf'[i + m].request = free[i]
    BY <1>8, <2>1
  <2> HIDE DEF new
  <2> QED BY <1>8, <2>1, <2>2
<1>12. \A t \in new : /\ taskOf'[t].request \in Requests \ acceptInProgress
                      /\ \E i \in DOMAIN reqs : reqs[i] = taskOf'[t].request
  BY <1>1, <1>3, <1>5, <1>8
<1>13. \A t, u \in new : taskOf'[t].request = taskOf'[u].request => t = u
  <2> SUFFICES ASSUME NEW t \in new, NEW u \in new, taskOf'[t].request = taskOf'[u].request
               PROVE  t = u
    OBVIOUS
  <2>1. t - m \in DOMAIN free /\ u - m \in DOMAIN free /\ free[t - m] = free[u - m]
    BY <1>3, <1>8
  <2>2. t - m = u - m
    BY <1>1, <2>1
  <2> QED BY <1>2, <1>3, <2>2
<1> HIDE DEF new
<1> QED
  BY <1>4, <1>7, <1>8, <1>9, <1>10, <1>11, <1>12, <1>13 DEF Tasks

-----------------------------------------------------------------------------
(* Types.                                                                  *)

\* A step that matches keeps the types.
LEMMA SettleTyped ==
  ASSUME TypeOK, NEW reqs \in Seq(Requests), NEW offers \in Seq(Runners), SettleTasks(reqs, offers),
         Len(offers) <= MaxOffers, UNCHANGED <<linkVars, tasks, runnerVars, mishaps>>,
         request' \in [Requests -> {"idle", "pending", "running", "answered"}]
  PROVE  TypeOK'
<1>1. /\ taskOf' \in Seq([request: Requests, runner: Runners]) /\ Len(taskOf') <= MaxTasks
      /\ DOMAIN taskOf \subseteq DOMAIN taskOf'
      /\ pendingTaskRequests' = reqs
      /\ pendingTaskOffers' \in Seq(Runners) /\ Len(pendingTaskOffers') <= Len(offers)
      /\ offered' = offered \cup NewTasks
      /\ messages' \subseteq messages \cup { Message("taskofferaccept", t) : t \in NewTasks }
      /\ acceptInProgress' = acceptInProgress \cup { taskOf'[t].request : t \in NewTasks }
      /\ \A t \in NewTasks : taskOf'[t].request \in Requests
  BY SettleFacts
<1>2. NewTasks \subseteq DOMAIN taskOf'
  BY DEF NewTasks
<1>3. Len(pendingTaskOffers') <= MaxOffers
  BY <1>1, BrokerAssumption, LenProperties
<1>4. messages' \subseteq [kind: Kinds, task: DOMAIN taskOf']
  BY <1>1, <1>2 DEF TypeOK, Message, Kinds
<1>5. /\ offered' \subseteq DOMAIN taskOf' /\ tasks' \subseteq DOMAIN taskOf'
      /\ runningTasks' \subseteq DOMAIN taskOf' /\ active' \subseteq runningTasks'
      /\ acceptInProgress' \subseteq Requests
  BY <1>1, <1>2 DEF TypeOK, runnerVars
<1>6. /\ mode' \in {"internal", "external"} /\ alive' \subseteq Runners
      /\ runner' \in [Runners -> {"off", "known", "leaving", "gone"}]
      /\ started' \in [Requests -> Nat] /\ mishaps' \in 0..MaxMishaps
  BY DEF TypeOK, runnerVars, linkVars
<1> QED
  BY <1>1, <1>3, <1>4, <1>5, <1>6 DEF TypeOK

\* A task has a request and a runner.
LEMMA TaskTyped ==
  ASSUME TypeOK, NEW t \in DOMAIN taskOf
  PROVE  RequestOf(t) \in Requests /\ RunnerOf(t) \in Runners
<1>1. taskOf \in Seq([request: Requests, runner: Runners])
  BY DEF TypeOK
<1>2. t \in 1..Len(taskOf)
  BY <1>1, LenProperties
<1>3. taskOf[t] \in [request: Requests, runner: Runners]
  BY <1>1, <1>2, ElementOfSeq
<1> QED
  BY <1>3 DEF RequestOf, RunnerOf

\* A message is about a task that has been given out.
LEMMA MessageTyped ==
  ASSUME TypeOK, NEW kind \in Kinds, NEW t, Message(kind, t) \in messages
  PROVE  t \in DOMAIN taskOf /\ RequestOf(t) \in Requests /\ RunnerOf(t) \in Runners
  BY TaskTyped DEF TypeOK, Message

\* Every step keeps the types.
LEMMA TypeStep == TypeOK /\ [Next]_vars => TypeOK'
<1> SUFFICES ASSUME TypeOK, [Next]_vars PROVE TypeOK'
  OBVIOUS
<1> USE DEF brokerVars, runnerVars, linkVars
<1>1. ASSUME NEW r \in Requests, TaskRequested(r) PROVE TypeOK'
  <2>1. Append(pendingTaskRequests, r) \in Seq(Requests)
    BY DEF TypeOK
  <2>2. request' \in [Requests -> {"idle", "pending", "running", "answered"}]
    BY <1>1 DEF TypeOK, TaskRequested
  <2> QED BY <1>1, <2>1, <2>2, SettleTyped DEF TypeOK, TaskRequested
<1>2. ASSUME NEW w \in Runners, TaskOffered(w) PROVE TypeOK'
  <2>1. /\ Append(pendingTaskOffers, w) \in Seq(Runners)
        /\ Len(Append(pendingTaskOffers, w)) <= MaxOffers
    BY <1>2, BrokerAssumption, LenProperties, AppendProperties DEF TypeOK, TaskOffered
  <2> QED BY <1>2, <2>1, SettleTyped DEF TypeOK, TaskOffered
<1>3. ASSUME NEW i \in 1..MaxOffers, OfferExpires(i) PROVE TypeOK'
  <2>1. /\ RemoveAt(pendingTaskOffers, i) \in Seq(Runners)
        /\ Len(RemoveAt(pendingTaskOffers, i)) = Len(pendingTaskOffers) - 1
    BY <1>3, RemoveAtFacts DEF TypeOK, OfferExpires
  <2>2. Len(RemoveAt(pendingTaskOffers, i)) <= MaxOffers
    BY <2>1, BrokerAssumption, LenProperties DEF TypeOK
  <2> QED BY <1>3, <2>1, <2>2 DEF TypeOK, OfferExpires
<1>4. ASSUME NEW t \in TaskIds, HandleRunnerAccept(t) PROVE TypeOK'
  <2>1. t \in DOMAIN taskOf /\ RequestOf(t) \in Requests
    BY <1>4, MessageTyped DEF HandleRunnerAccept, Receive, Kinds
  <2>2. RemoveFirst(pendingTaskRequests, RequestOf(t)) \in Seq(Requests)
    BY RemoveFirstFacts DEF TypeOK
  <2>3. messages' \subseteq [kind: Kinds, task: DOMAIN taskOf']
    BY <1>4, <2>1 DEF TypeOK, HandleRunnerAccept, Message, Kinds
  <2>4. /\ offered' \subseteq DOMAIN taskOf' /\ tasks' \subseteq DOMAIN taskOf'
        /\ pendingTaskRequests' \in Seq(Requests)
        /\ request' \in [Requests -> {"idle", "pending", "running", "answered"}]
    BY <1>4, <2>1, <2>2 DEF TypeOK, HandleRunnerAccept
  <2> QED BY <1>4, <2>3, <2>4 DEF TypeOK, HandleRunnerAccept
<1>5. ASSUME NEW t \in TaskIds, HandleRunnerReject(t) PROVE TypeOK'
  BY <1>5 DEF TypeOK, HandleRunnerReject, GiveUp
<1>6. ASSUME NEW t \in TaskIds, HandleRunnerDeferred(t) PROVE TypeOK'
  <2>1. RequestOf(t) \in Requests
    BY <1>6, MessageTyped DEF HandleRunnerDeferred, Receive, Kinds
  <2>2. Append(pendingTaskRequests, RequestOf(t)) \in Seq(Requests)
    BY <2>1 DEF TypeOK
  <2> QED BY <1>6, <2>2 DEF TypeOK, HandleRunnerDeferred, GiveUp
<1>7. ASSUME NEW t \in TaskIds, HandleTaskDone(t) PROVE TypeOK'
  BY <1>7 DEF TypeOK, HandleTaskDone, FinishTask
<1>8. ASSUME NEW t \in TaskIds, OfferAccepted(t) PROVE TypeOK'
  <2>1. t \in DOMAIN taskOf
    BY <1>8, MessageTyped DEF OfferAccepted, Delivered, Kinds
  <2> QED BY <1>8, <2>1 DEF TypeOK, OfferAccepted, Message, Kinds
<1>9. ASSUME NEW t \in TaskIds, ReceivedSettings(t) PROVE TypeOK'
  <2>1. RequestOf(t) \in Requests
    BY <1>9, MessageTyped DEF ReceivedSettings, Delivered, Kinds
  <2>2. started' \in [Requests -> Nat]
    BY <1>9, <2>1 DEF TypeOK, ReceivedSettings
  <2> QED BY <1>9, <2>2 DEF TypeOK, ReceivedSettings
<1>10. ASSUME NEW t \in TaskIds, TaskEnds(t) PROVE TypeOK'
  BY <1>10 DEF TypeOK, TaskEnds, Message, Kinds
<1>11. ASSUME NEW t \in TaskIds, RunnerTimesOut(t) PROVE TypeOK'
  <2>1. mishaps' \in 0..MaxMishaps
    BY <1>11, BrokerAssumption DEF TypeOK, RunnerTimesOut, Mishap
  <2>2. offered' \subseteq DOMAIN taskOf' /\ acceptInProgress' \subseteq Requests
    BY <1>11 DEF TypeOK, RunnerTimesOut, GiveUp
  <2> QED BY <1>11, <2>1, <2>2 DEF TypeOK, RunnerTimesOut
<1>12. ASSUME NEW t \in TaskIds, TaskTimesOut(t) PROVE TypeOK'
  <2>1. mishaps' \in 0..MaxMishaps
    BY <1>12, BrokerAssumption DEF TypeOK, TaskTimesOut, Mishap
  <2>2. /\ tasks' \subseteq DOMAIN taskOf' /\ alive' \subseteq Runners
        /\ request' \in [Requests -> {"idle", "pending", "running", "answered"}]
    BY <1>12 DEF TypeOK, TaskTimesOut, FinishTask, ForceRestart
  <2> QED BY <1>12, <2>1, <2>2 DEF TypeOK, TaskTimesOut
<1>13. ASSUME NEW t \in TaskIds, NEW answer \in {"taskrejected", "taskdeferred"}, OfferRefused(t, answer)
       PROVE  TypeOK'
  <2>1. t \in DOMAIN taskOf
    BY <1>13, MessageTyped DEF OfferRefused, Delivered, Kinds
  <2>2. messages' \subseteq [kind: Kinds, task: DOMAIN taskOf']
    BY <1>13, <2>1 DEF TypeOK, OfferRefused, Message, Kinds
  <2> QED BY <1>13, <2>2, BrokerAssumption DEF TypeOK, OfferRefused, Mishap
<1>14. ASSUME NEW w \in Runners, RegisterRunner(w) PROVE TypeOK'
  BY <1>14 DEF TypeOK, RegisterRunner
<1>15. ASSUME NEW w \in Runners, RunnerDies(w) PROVE TypeOK'
  BY <1>15, BrokerAssumption DEF TypeOK, RunnerDies, Mishap
<1>16. ASSUME NEW w \in Runners, CloseConnection(w) PROVE TypeOK'
  BY <1>16 DEF TypeOK, CloseConnection
<1>17. ASSUME NEW w \in Runners, FailHeartbeat(w) PROVE TypeOK'
  BY <1>17, BrokerAssumption DEF TypeOK, FailHeartbeat, ForceRestart, Mishap
<1>18. ASSUME NEW w \in Runners, DeregisterRunner(w) PROVE TypeOK'
  <2> DEFINE kept == Pick(pendingTaskOffers, { i \in DOMAIN pendingTaskOffers : pendingTaskOffers[i] # w })
  <2>1. kept \in Seq(Runners) /\ Len(kept) <= Len(pendingTaskOffers)
    BY PickFacts DEF TypeOK
  <2>2. pendingTaskOffers' = kept
    BY <1>18 DEF DeregisterRunner
  <2> HIDE DEF kept
  <2>3. pendingTaskOffers' \in Seq(Runners) /\ Len(pendingTaskOffers') <= MaxOffers
    BY <2>1, <2>2, BrokerAssumption, LenProperties DEF TypeOK
  <2>4. tasks' \subseteq tasks /\ request' \in [Requests -> {"idle", "pending", "running", "answered"}]
    BY <1>18 DEF TypeOK, DeregisterRunner, FailTasks
  <2> QED BY <1>18, <2>3, <2>4 DEF TypeOK, DeregisterRunner
<1>19. CASE UNCHANGED vars
  BY <1>19 DEF TypeOK, vars
<1> QED
  BY <1>1, <1>2, <1>3, <1>4, <1>5, <1>6, <1>7, <1>8, <1>9, <1>10, <1>11, <1>12, <1>13, <1>14,
     <1>15, <1>16, <1>17, <1>18, <1>19 DEF Next, OnTask

-----------------------------------------------------------------------------
(* The steps keep the invariant.                                           *)

\* Requests change by being answered only.
OnlyAnswers ==
  \A r \in Requests : request'[r] # request[r] => request[r] = "running" /\ request'[r] = "answered"

\* When tasks end, their requests are answered, and the others wait as before.
LEMMA TasksEnd ==
  ASSUME TypeOK, WaitInv, NEW ended \in SUBSET tasks,
         tasks' = tasks \ ended, taskOf' = taskOf,
         request' = [r \in Requests |-> IF \E t \in ended : RequestOf(t) = r
                                        THEN "answered" ELSE request[r]],
         \A t \in tasks \ ended : RunnerOf(t) \in Known'
  PROVE  WaitInv' /\ OnlyAnswers
<1>1. \A t \in tasks : RequestOf(t) \in Requests
  BY TaskTyped DEF TypeOK
<1>2. \A t : RequestOf(t)' = RequestOf(t) /\ RunnerOf(t)' = RunnerOf(t)
  BY DEF RequestOf, RunnerOf
<1>3. ASSUME NEW t \in tasks'
      PROVE  request'[RequestOf(t)] = "running" /\ RunnerOf(t) \in Known'
  BY <1>1 DEF WaitInv
<1>4. \A r \in Requests : request'[r] = "running" => \E t \in tasks' : RequestOf(t) = r
  BY DEF WaitInv
<1>5. \A t, u \in tasks' : RequestOf(t) = RequestOf(u) => t = u
  BY DEF WaitInv
<1>6. OnlyAnswers
  BY DEF WaitInv, OnlyAnswers
<1> QED
  BY <1>2, <1>3, <1>4, <1>5, <1>6 DEF WaitInv

\* taskDoneHandler() and failTask() end at most one task.
LEMMA FinishEnds ==
  ASSUME TypeOK, WaitInv, NEW t, FinishTask(t), taskOf' = taskOf, Known' = Known
  PROVE  WaitInv' /\ OnlyAnswers
<1> DEFINE ended == tasks \cap {t}
<1>1. tasks' = tasks \ ended
  BY DEF FinishTask
<1>2. request' = [r \in Requests |-> IF \E u \in ended : RequestOf(u) = r
                                     THEN "answered" ELSE request[r]]
  BY DEF FinishTask, TypeOK
<1>3. \A u \in tasks \ ended : RunnerOf(u) \in Known'
  BY DEF WaitInv
<1> HIDE DEF ended
<1>4. ended \in SUBSET tasks
  BY DEF ended
<1> QED
  BY <1>1, <1>2, <1>3, <1>4, TasksEnd

\* The end of an acceptance without a task: the request is free again.
LEMMA GiveUpOffer ==
  ASSUME TypeOK, OfferInv, NEW t \in offered, GiveUp(t), UNCHANGED <<request, taskOf>>
  PROVE  OfferInv'
<1>1. \A u : RequestOf(u)' = RequestOf(u)
  BY DEF RequestOf
<1>2. offered' = offered \ {t} /\ acceptInProgress' = acceptInProgress \ {RequestOf(t)}
  BY DEF GiveUp
<1>3. request[RequestOf(t)] = "pending"
  BY DEF OfferInv
<1>4. /\ \A u \in offered' : request'[RequestOf(u)] = "pending" /\ RequestOf(u) \in acceptInProgress'
      /\ \A u, v \in offered' : RequestOf(u) = RequestOf(v) => u = v
  BY <1>2 DEF OfferInv
<1>5. ASSUME NEW r \in acceptInProgress', request'[r] = "pending"
      PROVE  \E u \in offered' : RequestOf(u) = r
  BY <1>2, <1>5 DEF OfferInv
<1>6. \A r \in Requests : /\ request'[r] \in {"running", "answered"} => r \in acceptInProgress'
                          /\ request'[r] = "idle" => r \notin acceptInProgress'
  BY <1>2, <1>3 DEF OfferInv
<1> QED
  BY <1>1, <1>4, <1>5, <1>6 DEF OfferInv

\* A match offers a request that nobody offers, to one runner.
LEMMA SettleOffers ==
  ASSUME TypeOK, OfferInv, NEW reqs \in Seq(Requests), NEW offers \in Seq(Runners),
         SettleTasks(reqs, offers), request' \in [Requests -> {"idle", "pending", "running", "answered"}],
         \A i \in DOMAIN reqs : request'[reqs[i]] # "idle",
         \A r \in Requests : request'[r] # request[r] => request[r] = "idle" /\ request'[r] = "pending"
  PROVE  OfferInv'
<1>1. /\ DOMAIN taskOf \subseteq DOMAIN taskOf'
      /\ \A t \in DOMAIN taskOf : taskOf'[t] = taskOf[t]
      /\ offered' = offered \cup NewTasks
      /\ acceptInProgress' = acceptInProgress \cup { taskOf'[t].request : t \in NewTasks }
      /\ \A t \in NewTasks : /\ taskOf'[t].request \in Requests \ acceptInProgress
                             /\ \E i \in DOMAIN reqs : reqs[i] = taskOf'[t].request
      /\ \A t, u \in NewTasks : taskOf'[t].request = taskOf'[u].request => t = u
  BY SettleFacts
<1>2. \A t \in offered : t \in DOMAIN taskOf /\ RequestOf(t)' = RequestOf(t) /\ RequestOf(t) \in Requests
  BY <1>1, TaskTyped DEF TypeOK, RequestOf
<1>3. \A t \in NewTasks : RequestOf(t)' = taskOf'[t].request
  BY DEF RequestOf
<1>4. \A t \in NewTasks : request'[taskOf'[t].request] = "pending"
  BY <1>1 DEF OfferInv
<1>5. \A t \in offered' : request'[RequestOf(t)'] = "pending" /\ RequestOf(t)' \in acceptInProgress'
  <2>1. \A t \in offered : request'[RequestOf(t)] = "pending" /\ RequestOf(t) \in acceptInProgress
    BY <1>2 DEF OfferInv
  <2> QED BY <1>1, <1>2, <1>3, <1>4, <2>1
<1>6. \A t, u \in offered' : RequestOf(t)' = RequestOf(u)' => t = u
  <2>1. \A t \in offered, u \in NewTasks : RequestOf(t)' # RequestOf(u)'
    BY <1>1, <1>2, <1>3 DEF OfferInv
  <2>2. \A t, u \in offered : RequestOf(t)' = RequestOf(u)' => t = u
    BY <1>2 DEF OfferInv
  <2>3. \A t, u \in NewTasks : RequestOf(t)' = RequestOf(u)' => t = u
    BY <1>1, <1>3
  <2> QED BY <1>1, <2>1, <2>2, <2>3
<1>7. \A r \in acceptInProgress' : request'[r] = "pending" => \E t \in offered' : RequestOf(t)' = r
  <2> SUFFICES ASSUME NEW r \in acceptInProgress', request'[r] = "pending"
               PROVE  \E t \in offered' : RequestOf(t)' = r
    OBVIOUS
  <2>1. CASE r \in acceptInProgress
    <3>1. request[r] = "pending"
      BY <2>1 DEF OfferInv, TypeOK
    <3>2. PICK t \in offered : RequestOf(t) = r
      BY <2>1, <3>1 DEF OfferInv
    <3> QED BY <1>1, <1>2, <3>2
  <2>2. CASE \E t \in NewTasks : taskOf'[t].request = r
    BY <2>2, <1>1, <1>3
  <2> QED BY <1>1, <2>1, <2>2
<1>8. \A r \in Requests : request'[r] \in {"running", "answered"} => r \in acceptInProgress'
  BY <1>1 DEF OfferInv
<1>9. \A r \in Requests : request'[r] = "idle" => r \notin acceptInProgress'
  BY <1>1 DEF OfferInv
<1> QED
  BY <1>5, <1>6, <1>7, <1>8, <1>9 DEF OfferInv

\* The offers: of all steps, only those of an acceptance and of a match change them.
LEMMA OfferStep ==
  ASSUME TypeOK, OfferInv, ListInv, WaitInv, [Next]_vars
  PROVE  OfferInv'
<1>1. ASSUME NEW r \in Requests, TaskRequested(r) PROVE OfferInv'
  <2>1. Append(pendingTaskRequests, r) \in Seq(Requests)
    BY DEF TypeOK
  <2>2. request' = [request EXCEPT ![r] = "pending"] /\ request[r] = "idle"
    BY <1>1 DEF TaskRequested
  <2>3. /\ request' \in [Requests -> {"idle", "pending", "running", "answered"}]
        /\ \A q \in Requests : request'[q] # request[q] => request[q] = "idle" /\ request'[q] = "pending"
    BY <2>2 DEF TypeOK
  <2>4. \A i \in DOMAIN Append(pendingTaskRequests, r) : request'[Append(pendingTaskRequests, r)[i]] # "idle"
    <3>1. pendingTaskRequests \in Seq(Requests)
      BY DEF TypeOK
    <3>2. \A i \in DOMAIN pendingTaskRequests :
            pendingTaskRequests[i] \in Requests /\ request[pendingTaskRequests[i]] # "idle"
      BY <3>1, ElementOfSeq, LenProperties DEF ListInv
    <3> QED BY <2>2, <3>1, <3>2, AppendFacts DEF TypeOK
  <2> QED BY <1>1, <2>1, <2>3, <2>4, SettleOffers DEF TypeOK, TaskRequested
<1>2. ASSUME NEW w \in Runners, TaskOffered(w) PROVE OfferInv'
  <2>1. pendingTaskRequests \in Seq(Requests) /\ Append(pendingTaskOffers, w) \in Seq(Runners)
    BY DEF TypeOK
  <2>2. request' = request
    BY <1>2 DEF TaskOffered
  <2>3. \A i \in DOMAIN pendingTaskRequests : request'[pendingTaskRequests[i]] # "idle"
    BY <2>2 DEF ListInv
  <2> QED BY <1>2, <2>1, <2>2, <2>3, SettleOffers DEF TypeOK, TaskOffered
<1>3. ASSUME NEW t \in TaskIds, HandleRunnerAccept(t), t \in offered PROVE OfferInv'
  <2>1. \A u : RequestOf(u)' = RequestOf(u)
    BY <1>3 DEF HandleRunnerAccept, RequestOf
  <2>2. /\ offered' = offered \ {t} /\ acceptInProgress' = acceptInProgress
        /\ request' = [request EXCEPT ![RequestOf(t)] = "running"]
    BY <1>3 DEF HandleRunnerAccept
  <2>3. \A u \in offered : RequestOf(u) \in Requests
    BY TaskTyped DEF TypeOK
  <2> HIDE DEF RequestOf
  <2> QED BY <1>3, <2>1, <2>2, <2>3 DEF OfferInv, TypeOK
<1>4. ASSUME NEW t \in offered, GiveUp(t), UNCHANGED <<request, taskOf>> PROVE OfferInv'
  BY <1>4, GiveUpOffer
<1>5. ASSUME UNCHANGED <<offered, acceptInProgress, taskOf>>, OnlyAnswers PROVE OfferInv'
  <2>1. \A u : RequestOf(u)' = RequestOf(u)
    BY <1>5 DEF RequestOf
  <2>2. \A u \in offered : RequestOf(u) \in Requests
    BY TaskTyped DEF TypeOK
  <2>3. acceptInProgress \subseteq Requests
    BY DEF TypeOK
  <2> QED BY <1>5, <2>1, <2>2, <2>3 DEF OfferInv, OnlyAnswers
<1>6. ASSUME NEW t \in TaskIds, HandleTaskDone(t) \/ TaskTimesOut(t) PROVE OfferInv'
  <2>1. Known' = Known
    BY <1>6 DEF HandleTaskDone, TaskTimesOut, Known, linkVars
  <2>2. OnlyAnswers
    BY <1>6, <2>1, FinishEnds DEF HandleTaskDone, TaskTimesOut
  <2> QED BY <1>5, <1>6, <2>2 DEF HandleTaskDone, TaskTimesOut
<1>7. ASSUME NEW w \in Runners, DeregisterRunner(w) PROVE OfferInv'
  <2>1. OnlyAnswers
    BY <1>7, TaskTyped DEF DeregisterRunner, FailTasks, OnlyAnswers, WaitInv
  <2> QED BY <1>5, <1>7, <2>1 DEF DeregisterRunner
<1>8. ASSUME UNCHANGED <<offered, acceptInProgress, taskOf, request>> PROVE OfferInv'
  BY <1>5, <1>8 DEF OnlyAnswers
<1>9. ASSUME NEW t \in TaskIds, OnTask(t) PROVE OfferInv'
  <2>1. CASE HandleRunnerAccept(t) /\ t \notin offered
    BY <1>8, <2>1 DEF HandleRunnerAccept
  <2>2. CASE HandleRunnerReject(t) \/ HandleRunnerDeferred(t)
    BY <1>4, <1>8, <2>2 DEF HandleRunnerReject, HandleRunnerDeferred
  <2>3. CASE OfferAccepted(t) \/ ReceivedSettings(t) \/ TaskEnds(t)
    BY <1>8, <2>3 DEF OfferAccepted, ReceivedSettings, TaskEnds, brokerVars
  <2> QED BY <1>3, <1>6, <1>9, <2>1, <2>2, <2>3 DEF OnTask
<1>10. ASSUME NEW t \in TaskIds, RunnerTimesOut(t) PROVE OfferInv'
  BY <1>4, <1>10 DEF RunnerTimesOut
<1>11. ASSUME NEW t \in TaskIds, NEW answer \in {"taskrejected", "taskdeferred"}, OfferRefused(t, answer)
       PROVE  OfferInv'
  BY <1>8, <1>11 DEF OfferRefused, brokerVars
<1>12. ASSUME NEW w \in Runners,
              RegisterRunner(w) \/ RunnerDies(w) \/ CloseConnection(w) \/ FailHeartbeat(w)
       PROVE  OfferInv'
  BY <1>8, <1>12 DEF RegisterRunner, RunnerDies, CloseConnection, FailHeartbeat, brokerVars
<1>13. ASSUME NEW i \in 1..MaxOffers, OfferExpires(i) PROVE OfferInv'
  BY <1>8, <1>13 DEF OfferExpires
<1>14. CASE UNCHANGED vars
  BY <1>8, <1>14 DEF vars
<1> QED
  BY <1>1, <1>2, <1>6, <1>7, <1>9, <1>10, <1>11, <1>12, <1>13, <1>14 DEF Next

\* The list after a request of the list has been accepted, or another one appended.
LEMMA ListStep ==
  ASSUME TypeOK, OfferInv, ListInv, WaitInv, [Next]_vars
  PROVE  ListInv'
<1> DEFINE list == pendingTaskRequests
<1>1. list \in Seq(Requests) /\ \A i \in DOMAIN list : list[i] \in Requests
  BY ElementOfSeq, LenProperties DEF TypeOK
<1>2. \A r \in Requests : request[r] = "pending" => \E i \in DOMAIN list : list[i] = r
  BY <1>1, LenProperties DEF ListInv, PendingIsListed, Contains
<1>3. ASSUME \A r \in Requests : request'[r] = "pending" => \E i \in DOMAIN list' : list'[i] = r,
             \A i \in DOMAIN list' : request'[list'[i]] # "idle",
             list' \in Seq(Requests)
      PROVE  ListInv'
  BY <1>3, LenProperties DEF ListInv, PendingIsListed, Contains
<1>4. ASSUME list' = list, OnlyAnswers PROVE ListInv'
  BY <1>1, <1>2, <1>3, <1>4 DEF OnlyAnswers, ListInv
<1>5. ASSUME UNCHANGED <<list, request>> PROVE ListInv'
  BY <1>4, <1>5 DEF OnlyAnswers
<1>6. ASSUME NEW r \in Requests, list' = Append(list, r),
             \A q \in Requests \ {r} : request'[q] = request[q], request'[r] # "idle"
      PROVE  ListInv'
  <2>1. /\ list' \in Seq(Requests)
        /\ DOMAIN list' = DOMAIN list \cup {Len(list) + 1}
        /\ \A i \in DOMAIN list : list'[i] = list[i]
        /\ list'[Len(list) + 1] = r
    BY <1>1, <1>6, AppendFacts
  <2>2. \A q \in Requests : request'[q] = "pending" => \E i \in DOMAIN list' : list'[i] = q
    BY <1>2, <1>6, <2>1
  <2>3. \A i \in DOMAIN list' : request'[list'[i]] # "idle"
    BY <1>1, <1>6, <2>1 DEF ListInv
  <2> QED BY <1>3, <2>1, <2>2, <2>3
<1>7. ASSUME NEW r \in Requests, TaskRequested(r) PROVE ListInv'
  BY <1>6, <1>7 DEF TaskRequested, SettleTasks, TypeOK
<1>8. ASSUME NEW w \in Runners, TaskOffered(w) PROVE ListInv'
  BY <1>5, <1>8 DEF TaskOffered, SettleTasks
<1>9. ASSUME NEW t \in TaskIds, HandleRunnerAccept(t) PROVE ListInv'
  <2>1. CASE t \notin offered
    BY <1>5, <1>9, <2>1 DEF HandleRunnerAccept
  <2>2. CASE t \in offered
    <3> DEFINE r == RequestOf(t)
    <3>1. r \in Requests /\ request[r] = "pending"
      BY <2>2, TaskTyped DEF OfferInv, TypeOK
    <3>2. list' = RemoveFirst(list, r) /\ request' = [request EXCEPT ![r] = "running"]
      BY <1>9, <2>2 DEF HandleRunnerAccept
    <3> HIDE DEF r
    <3>3. /\ list' \in Seq(Requests)
          /\ \A x : x # r /\ Contains(list, x) => Contains(list', x)
          /\ \A k \in DOMAIN list' : Contains(list, list'[k])
      BY <1>1, <3>2, RemoveFirstFacts
    <3>4. DOMAIN list = 1..Len(list) /\ DOMAIN list' = 1..Len(list')
      BY <1>1, <3>3, LenProperties
    <3>5. ASSUME NEW q \in Requests, request'[q] = "pending"
          PROVE  \E i \in DOMAIN list' : list'[i] = q
      <4>1. q # r /\ request[q] = "pending"
        BY <3>1, <3>2, <3>5 DEF TypeOK
      <4>2. Contains(list, q)
        BY <1>2, <3>4, <4>1 DEF Contains
      <4> QED BY <3>3, <3>4, <4>1, <4>2 DEF Contains
    <3>6. ASSUME NEW k \in DOMAIN list'
          PROVE  request'[list'[k]] # "idle"
      <4>1. PICK i \in DOMAIN list : list[i] = list'[k]
        BY <3>3, <3>4 DEF Contains
      <4>2. list'[k] \in Requests /\ request[list'[k]] # "idle"
        BY <1>1, <4>1 DEF ListInv
      <4> QED BY <3>1, <3>2, <4>2 DEF TypeOK
    <3> QED BY <1>3, <3>3, <3>5, <3>6
  <2> QED BY <2>1, <2>2
<1>10. ASSUME NEW t \in TaskIds, HandleRunnerDeferred(t) PROVE ListInv'
  <2>1. CASE t \notin offered
    BY <1>5, <1>10, <2>1 DEF HandleRunnerDeferred
  <2>2. CASE t \in offered
    <3>1. RequestOf(t) \in Requests /\ request[RequestOf(t)] = "pending"
      BY <2>2, TaskTyped DEF OfferInv, TypeOK
    <3>2. list' = Append(list, RequestOf(t)) /\ request' = request
      BY <1>10, <2>2 DEF HandleRunnerDeferred
    <3> QED BY <1>6, <3>1, <3>2
  <2> QED BY <2>1, <2>2
<1>11. ASSUME NEW t \in TaskIds, HandleTaskDone(t) \/ TaskTimesOut(t) PROVE ListInv'
  <2>1. Known' = Known
    BY <1>11 DEF HandleTaskDone, TaskTimesOut, Known, linkVars
  <2>2. OnlyAnswers
    BY <1>11, <2>1, FinishEnds DEF HandleTaskDone, TaskTimesOut
  <2> QED BY <1>4, <1>11, <2>2 DEF HandleTaskDone, TaskTimesOut
<1>12. ASSUME NEW w \in Runners, DeregisterRunner(w) PROVE ListInv'
  <2>1. OnlyAnswers
    BY <1>12, TaskTyped DEF DeregisterRunner, FailTasks, OnlyAnswers, WaitInv
  <2> QED BY <1>4, <1>12, <2>1 DEF DeregisterRunner
<1> HIDE DEF list
<1>13. ASSUME NEW t \in TaskIds, OnTask(t) PROVE ListInv'
  <2>1. CASE HandleRunnerReject(t) \/ OfferAccepted(t) \/ ReceivedSettings(t) \/ TaskEnds(t)
    BY <1>5, <2>1 DEF HandleRunnerReject, OfferAccepted, ReceivedSettings, TaskEnds, brokerVars, list
  <2> QED BY <1>9, <1>10, <1>11, <1>13, <2>1 DEF OnTask
<1>14. ASSUME NEW t \in TaskIds, RunnerTimesOut(t) PROVE ListInv'
  BY <1>5, <1>14 DEF RunnerTimesOut, list
<1>15. ASSUME NEW t \in TaskIds, NEW answer \in {"taskrejected", "taskdeferred"}, OfferRefused(t, answer)
       PROVE  ListInv'
  BY <1>5, <1>15 DEF OfferRefused, brokerVars, list
<1>16. ASSUME NEW w \in Runners,
              RegisterRunner(w) \/ RunnerDies(w) \/ CloseConnection(w) \/ FailHeartbeat(w)
       PROVE  ListInv'
  BY <1>5, <1>16 DEF RegisterRunner, RunnerDies, CloseConnection, FailHeartbeat, brokerVars, list
<1>17. ASSUME NEW i \in 1..MaxOffers, OfferExpires(i) PROVE ListInv'
  BY <1>5, <1>17 DEF OfferExpires, list
<1>18. CASE UNCHANGED vars
  BY <1>5, <1>18 DEF vars, list
<1> QED
  BY <1>7, <1>8, <1>11, <1>12, <1>13, <1>14, <1>15, <1>16, <1>17, <1>18 DEF Next

\* The waits: an accepted request gets its task, and a task that ends ends the wait.
LEMMA WaitStep ==
  ASSUME TypeOK, OfferInv, WaitInv, [Next]_vars
  PROVE  WaitInv'
<1>1. \A t \in tasks : t \in DOMAIN taskOf /\ RequestOf(t) \in Requests /\ RunnerOf(t) \in Runners
  BY TaskTyped DEF TypeOK
<1>2. ASSUME UNCHANGED <<tasks, request, taskOf>>, Known \subseteq Known' PROVE WaitInv'
  BY <1>2 DEF WaitInv, RequestOf, RunnerOf
<1>3. ASSUME NEW reqs \in Seq(Requests), NEW offers \in Seq(Runners), SettleTasks(reqs, offers),
             UNCHANGED <<tasks, runner>>,
             \A r \in Requests : request'[r] = "running" <=> request[r] = "running"
      PROVE  WaitInv'
  <2>1. \A t \in DOMAIN taskOf : RequestOf(t)' = RequestOf(t) /\ RunnerOf(t)' = RunnerOf(t)
    BY <1>3, SettleFacts DEF RequestOf, RunnerOf
  <2>2. Known' = Known
    BY <1>3 DEF Known
  <2> QED BY <1>1, <1>3, <2>1, <2>2 DEF WaitInv
<1>4. ASSUME NEW r \in Requests, TaskRequested(r) PROVE WaitInv'
  <2>1. Append(pendingTaskRequests, r) \in Seq(Requests) /\ pendingTaskOffers \in Seq(Runners)
    BY DEF TypeOK
  <2> QED BY <1>3, <1>4, <2>1 DEF TaskRequested, linkVars, TypeOK
<1>5. ASSUME NEW w \in Runners, TaskOffered(w) PROVE WaitInv'
  <2>1. pendingTaskRequests \in Seq(Requests) /\ Append(pendingTaskOffers, w) \in Seq(Runners)
    BY DEF TypeOK
  <2> QED BY <1>3, <1>5, <2>1 DEF TaskOffered, linkVars
<1>6. ASSUME NEW t \in TaskIds, HandleRunnerAccept(t), t \in offered PROVE WaitInv'
  <2>1. \A u : RequestOf(u)' = RequestOf(u) /\ RunnerOf(u)' = RunnerOf(u)
    BY <1>6 DEF HandleRunnerAccept, RequestOf, RunnerOf
  <2>2. Known' = Known /\ RunnerOf(t) \in Known
    BY <1>6 DEF HandleRunnerAccept, Receive, Known, linkVars
  <2>3. tasks' = tasks \cup {t} /\ request' = [request EXCEPT ![RequestOf(t)] = "running"]
    BY <1>6 DEF HandleRunnerAccept
  <2>4. RequestOf(t) \in Requests /\ request[RequestOf(t)] = "pending"
    BY <1>6, TaskTyped DEF TypeOK, OfferInv
  <2>5. \A u \in tasks : RequestOf(u) # RequestOf(t)
    BY <2>4 DEF WaitInv
  <2> HIDE DEF RequestOf, RunnerOf
  <2>6. \A u \in tasks' : request'[RequestOf(u)] = "running" /\ RunnerOf(u) \in Known'
    BY <1>1, <2>2, <2>3, <2>4 DEF WaitInv, TypeOK
  <2>7. \A u, v \in tasks' : RequestOf(u) = RequestOf(v) => u = v
    BY <2>3, <2>5 DEF WaitInv
  <2>8. \A r \in Requests : request'[r] = "running" => \E u \in tasks' : RequestOf(u) = r
    BY <2>3, <2>4 DEF WaitInv, TypeOK
  <2> QED BY <2>1, <2>6, <2>7, <2>8 DEF WaitInv
<1>7. ASSUME NEW t \in TaskIds, HandleTaskDone(t) \/ TaskTimesOut(t) PROVE WaitInv'
  <2>1. Known' = Known
    BY <1>7 DEF HandleTaskDone, TaskTimesOut, Known, linkVars
  <2> QED BY <1>7, <2>1, FinishEnds DEF HandleTaskDone, TaskTimesOut
<1>8. ASSUME NEW w \in Runners, DeregisterRunner(w) PROVE WaitInv'
  <2> DEFINE ended == { t \in tasks : RunnerOf(t) = w }
  <2>1. /\ tasks' = tasks \ ended /\ taskOf' = taskOf
        /\ request' = [r \in Requests |-> IF \E t \in ended : RequestOf(t) = r
                                          THEN "answered" ELSE request[r]]
    BY <1>8 DEF DeregisterRunner, FailTasks
  <2>2. Known' = Known \ {w}
    BY <1>8 DEF DeregisterRunner, Known, TypeOK
  <2>3. \A t \in tasks \ ended : RunnerOf(t) \in Known'
    BY <2>2 DEF WaitInv
  <2>4. ended \in SUBSET tasks
    OBVIOUS
  <2> HIDE DEF ended
  <2> QED BY <2>1, <2>3, <2>4, TasksEnd
<1>9. ASSUME NEW w \in Runners,
             RegisterRunner(w) \/ RunnerDies(w) \/ CloseConnection(w) \/ FailHeartbeat(w)
      PROVE  WaitInv'
  <2>1. Known \subseteq Known'
    BY <1>9 DEF Known, TypeOK, RegisterRunner, RunnerDies, CloseConnection, FailHeartbeat
  <2> QED BY <1>2, <1>9, <2>1
          DEF RegisterRunner, RunnerDies, CloseConnection, FailHeartbeat, brokerVars
<1>10. ASSUME UNCHANGED <<tasks, request, taskOf, runner>> PROVE WaitInv'
  BY <1>2, <1>10 DEF Known
<1>11. ASSUME NEW t \in TaskIds, OnTask(t) PROVE WaitInv'
  <2>1. CASE HandleRunnerAccept(t) /\ t \notin offered
    BY <1>10, <2>1 DEF HandleRunnerAccept, linkVars
  <2>2. CASE HandleRunnerReject(t) \/ HandleRunnerDeferred(t)
    BY <1>10, <2>2 DEF HandleRunnerReject, HandleRunnerDeferred, linkVars
  <2>3. CASE OfferAccepted(t) \/ ReceivedSettings(t) \/ TaskEnds(t)
    BY <1>10, <2>3 DEF OfferAccepted, ReceivedSettings, TaskEnds, brokerVars, linkVars
  <2> QED BY <1>6, <1>7, <1>11, <2>1, <2>2, <2>3 DEF OnTask
<1>12. ASSUME NEW t \in TaskIds, RunnerTimesOut(t) PROVE WaitInv'
  BY <1>10, <1>12 DEF RunnerTimesOut, linkVars
<1>13. ASSUME NEW t \in TaskIds, NEW answer \in {"taskrejected", "taskdeferred"}, OfferRefused(t, answer)
       PROVE  WaitInv'
  BY <1>10, <1>13 DEF OfferRefused, brokerVars, linkVars
<1>14. ASSUME NEW i \in 1..MaxOffers, OfferExpires(i) PROVE WaitInv'
  BY <1>10, <1>14 DEF OfferExpires, linkVars
<1>15. CASE UNCHANGED vars
  BY <1>10, <1>15 DEF vars
<1> QED
  BY <1>4, <1>5, <1>7, <1>8, <1>9, <1>11, <1>12, <1>13, <1>14, <1>15 DEF Next

\* Settings are sent when a request is accepted, and no step before or after sends others.
LEMMA SettingsStep ==
  ASSUME TypeOK, OfferInv, WaitInv, SettingsInv, [Next]_vars
  PROVE  SettingsInv'
<1> DEFINE Accepted(r) == request[r] \in {"running", "answered"}
<1>1. \A t : HasSettings(t) => t \in DOMAIN taskOf /\ RequestOf(t) \in Requests
  BY MessageTyped DEF HasSettings, Kinds
<1>2. \A kind, t, u : kind # "tasksettings" => Message(kind, u) # Message("tasksettings", t)
  BY DEF Message
<1>3. ASSUME \A t : HasSettings(t)' => HasSettings(t),
             \A t \in DOMAIN taskOf : RequestOf(t)' = RequestOf(t),
             started' = started, \A r \in Requests : Accepted(r) => Accepted(r)'
      PROVE  SettingsInv'
  <2> HIDE DEF RequestOf, HasSettings
  <2> QED BY <1>1, <1>3 DEF SettingsInv
<1>4. ASSUME taskOf' = taskOf PROVE \A t : RequestOf(t)' = RequestOf(t)
  BY <1>4 DEF RequestOf
<1>5. ASSUME NEW reqs \in Seq(Requests), NEW offers \in Seq(Runners), SettleTasks(reqs, offers),
             started' = started, \A r \in Requests : Accepted(r) => Accepted(r)'
      PROVE  SettingsInv'
  <2>1. /\ \A t \in DOMAIN taskOf : taskOf'[t] = taskOf[t]
        /\ messages' \subseteq messages \cup { Message("taskofferaccept", t) : t \in NewTasks }
    BY <1>5, SettleFacts
  <2>2. \A t : HasSettings(t)' => HasSettings(t)
    BY <1>2, <2>1 DEF HasSettings, Message
  <2>3. \A t \in DOMAIN taskOf : RequestOf(t)' = RequestOf(t)
    BY <2>1 DEF RequestOf
  <2> QED BY <1>3, <1>5, <2>2, <2>3
<1>6. ASSUME NEW r \in Requests, TaskRequested(r) PROVE SettingsInv'
  <2>1. Append(pendingTaskRequests, r) \in Seq(Requests) /\ pendingTaskOffers \in Seq(Runners)
    BY DEF TypeOK
  <2>2. \A q \in Requests : Accepted(q) => Accepted(q)'
    BY <1>6 DEF TaskRequested, TypeOK
  <2> QED BY <1>5, <1>6, <2>1, <2>2 DEF TaskRequested, runnerVars
<1>7. ASSUME NEW w \in Runners, TaskOffered(w) PROVE SettingsInv'
  <2>1. pendingTaskRequests \in Seq(Requests) /\ Append(pendingTaskOffers, w) \in Seq(Runners)
    BY DEF TypeOK
  <2> QED BY <1>5, <1>7, <2>1 DEF TaskOffered, runnerVars
<1>8. ASSUME UNCHANGED <<taskOf, started, request>>, \A t : HasSettings(t)' => HasSettings(t)
      PROVE  SettingsInv'
  BY <1>3, <1>4, <1>8
<1>9. ASSUME NEW t \in TaskIds, HandleRunnerAccept(t), t \in offered PROVE SettingsInv'
  <2> DEFINE r == RequestOf(t)
  <2>1. r \in Requests /\ request[r] = "pending" /\ started[r] = 0
    <3>1. r \in Requests /\ t \in DOMAIN taskOf
      <4>1. offered \subseteq DOMAIN taskOf
        BY DEF TypeOK
      <4>2. t \in DOMAIN taskOf
        BY <1>9, <4>1
      <4> QED BY <4>2, TaskTyped
    <3>2. request[r] = "pending"
      BY <1>9, <3>1 DEF OfferInv
    <3>3. started[r] \in Nat /\ (started[r] > 0 => request[r] \in {"running", "answered"})
      BY <3>1 DEF TypeOK, SettingsInv
    <3> QED BY <3>1, <3>2, <3>3
  <2>2. \A u : HasSettings(u)' => HasSettings(u) \/ u = t
    BY <1>9 DEF HandleRunnerAccept, HasSettings, Message
  <2>3. /\ taskOf' = taskOf /\ started' = started
        /\ request' = [request EXCEPT ![r] = "running"]
    BY <1>9 DEF HandleRunnerAccept, runnerVars
  <2>4. \A u : RequestOf(u)' = RequestOf(u)
    BY <1>4, <2>3
  <2> HIDE DEF r
  <2>5. ASSUME NEW u \in DOMAIN taskOf, HasSettings(u)'
        PROVE  started'[RequestOf(u)] = 0 /\ request'[RequestOf(u)] \in {"running", "answered"}
    <3>1. CASE u = t
      BY <3>1, <2>1, <2>3 DEF r, TypeOK
    <3>2. CASE HasSettings(u)
      BY <3>2, <1>1, <2>1, <2>3 DEF SettingsInv, TypeOK
    <3> QED BY <2>2, <2>5, <3>1, <3>2
  <2>6. \A u \in DOMAIN taskOf : HasSettings(u) => RequestOf(u) # r
    BY <2>1 DEF SettingsInv
  <2>7. \A u, v \in DOMAIN taskOf :
          HasSettings(u)' /\ HasSettings(v)' /\ RequestOf(u) = RequestOf(v) => u = v
    BY <2>2, <2>6 DEF SettingsInv, r
  <2>8. \A q \in Requests : /\ started'[q] <= 1
                            /\ started'[q] > 0 => request'[q] \in {"running", "answered"}
    BY <2>1, <2>3 DEF SettingsInv, TypeOK
  <2> HIDE DEF HasSettings, RequestOf
  <2> QED BY <2>3, <2>4, <2>5, <2>7, <2>8 DEF SettingsInv
<1>10. ASSUME NEW t \in TaskIds, ReceivedSettings(t) PROVE SettingsInv'
  <2> DEFINE r == RequestOf(t)
  <2>1. HasSettings(t)
    BY <1>10 DEF ReceivedSettings, Delivered, HasSettings
  <2>2. t \in DOMAIN taskOf /\ r \in Requests /\ started[r] = 0 /\ Accepted(r)
    BY <1>1, <2>1 DEF SettingsInv
  <2>3. taskOf' = taskOf /\ request' = request /\ started' = [started EXCEPT ![r] = 1]
    BY <1>10, <2>2 DEF ReceivedSettings, brokerVars, TypeOK
  <2>4. \A u : HasSettings(u)' => HasSettings(u) /\ u # t
    BY <1>10 DEF ReceivedSettings, HasSettings
  <2>5. \A u : RequestOf(u)' = RequestOf(u)
    BY <1>4, <2>3
  <2>6. \A u \in DOMAIN taskOf : HasSettings(u)' => RequestOf(u) # r
    BY <2>1, <2>2, <2>4 DEF SettingsInv
  <2> HIDE DEF r, HasSettings
  <2>7. ASSUME NEW u \in DOMAIN taskOf, HasSettings(u)'
        PROVE  started'[RequestOf(u)] = 0 /\ request'[RequestOf(u)] \in {"running", "answered"}
    BY <1>1, <2>3, <2>4, <2>6, <2>7 DEF SettingsInv, TypeOK
  <2>8. \A u, v \in DOMAIN taskOf :
          HasSettings(u)' /\ HasSettings(v)' /\ RequestOf(u) = RequestOf(v) => u = v
    BY <2>4 DEF SettingsInv
  <2>9. \A q \in Requests : /\ started'[q] <= 1
                            /\ started'[q] > 0 => request'[q] \in {"running", "answered"}
    BY <2>2, <2>3 DEF SettingsInv, TypeOK
  <2> HIDE DEF RequestOf
  <2> QED BY <2>3, <2>5, <2>7, <2>8, <2>9 DEF SettingsInv
<1>11. ASSUME UNCHANGED <<taskOf, started>>, OnlyAnswers, \A t : HasSettings(t)' => HasSettings(t)
       PROVE  SettingsInv'
  <2>1. \A r \in Requests : Accepted(r) => Accepted(r)'
    BY <1>11 DEF OnlyAnswers
  <2> QED BY <1>3, <1>4, <1>11, <2>1
<1>12. ASSUME NEW t \in TaskIds, HandleTaskDone(t) \/ TaskTimesOut(t) PROVE SettingsInv'
  <2>1. Known' = Known
    BY <1>12 DEF HandleTaskDone, TaskTimesOut, Known, linkVars
  <2>2. OnlyAnswers
    BY <1>12, <2>1, FinishEnds DEF HandleTaskDone, TaskTimesOut
  <2>3. \A u : HasSettings(u)' => HasSettings(u)
    BY <1>12 DEF HandleTaskDone, TaskTimesOut, HasSettings
  <2> QED BY <1>11, <1>12, <2>2, <2>3 DEF HandleTaskDone, TaskTimesOut, runnerVars
<1>13. ASSUME NEW w \in Runners, DeregisterRunner(w) PROVE SettingsInv'
  <2>1. OnlyAnswers
    BY <1>13, TaskTyped DEF DeregisterRunner, FailTasks, OnlyAnswers, WaitInv
  <2>2. \A u : HasSettings(u)' => HasSettings(u)
    BY <1>13 DEF DeregisterRunner, HasSettings
  <2> QED BY <1>11, <1>13, <2>1, <2>2 DEF DeregisterRunner, runnerVars
<1> HIDE DEF Accepted
<1>14. ASSUME NEW t \in TaskIds, OnTask(t) PROVE SettingsInv'
  <2>1. CASE HandleRunnerAccept(t) /\ t \notin offered
    BY <1>8, <2>1 DEF HandleRunnerAccept, runnerVars, HasSettings
  <2>2. CASE HandleRunnerReject(t) \/ HandleRunnerDeferred(t)
    BY <1>8, <2>2 DEF HandleRunnerReject, HandleRunnerDeferred, runnerVars, HasSettings
  <2>3. CASE TaskEnds(t)
    BY <1>2, <1>8, <2>3 DEF TaskEnds, brokerVars, HasSettings
  <2>4. CASE OfferAccepted(t)
    <3>1. \A u : HasSettings(u)' => HasSettings(u)
      BY <1>2, <2>4 DEF OfferAccepted, HasSettings
    <3> QED BY <1>8, <2>4, <3>1 DEF OfferAccepted, brokerVars
  <2> QED BY <1>9, <1>10, <1>12, <1>14, <2>1, <2>2, <2>3, <2>4 DEF OnTask
<1>15. ASSUME NEW t \in TaskIds, RunnerTimesOut(t) PROVE SettingsInv'
  BY <1>8, <1>15 DEF RunnerTimesOut, runnerVars, HasSettings
<1>16. ASSUME NEW t \in TaskIds, NEW answer \in {"taskrejected", "taskdeferred"}, OfferRefused(t, answer)
       PROVE  SettingsInv'
  <2>1. \A u : HasSettings(u)' => HasSettings(u)
    BY <1>2, <1>16 DEF OfferRefused, HasSettings
  <2> QED BY <1>8, <1>16, <2>1 DEF OfferRefused, brokerVars, runnerVars
<1>17. ASSUME NEW w \in Runners,
              RegisterRunner(w) \/ RunnerDies(w) \/ CloseConnection(w) \/ FailHeartbeat(w)
       PROVE  SettingsInv'
  BY <1>8, <1>17 DEF RegisterRunner, RunnerDies, CloseConnection, FailHeartbeat, brokerVars,
                     runnerVars, HasSettings
<1>18. ASSUME NEW i \in 1..MaxOffers, OfferExpires(i) PROVE SettingsInv'
  BY <1>8, <1>18 DEF OfferExpires, runnerVars, HasSettings
<1>19. CASE UNCHANGED vars
  BY <1>8, <1>19 DEF vars, HasSettings
<1> QED
  BY <1>6, <1>7, <1>12, <1>13, <1>14, <1>15, <1>16, <1>17, <1>18, <1>19 DEF Next

-----------------------------------------------------------------------------
(* The theorems.                                                           *)

\* The invariant holds in the initial states, and every step keeps it.
LEMMA InitInvariant == Init => IInv
<1> SUFFICES ASSUME Init PROVE IInv
  OBVIOUS
<1>1. TypeOK
  <2>1. /\ pendingTaskOffers \in Seq(Runners) /\ Len(pendingTaskOffers) <= MaxOffers
        /\ pendingTaskRequests \in Seq(Requests)
        /\ taskOf \in Seq([request: Requests, runner: Runners]) /\ Len(taskOf) <= MaxTasks
    BY BrokerAssumption, EmptySeq DEF Init
  <2>2. 0 \in 0..MaxMishaps
    BY BrokerAssumption
  <2> QED BY <2>1, <2>2 DEF Init, TypeOK
<1>2. OfferInv /\ WaitInv /\ SettingsInv
  BY DEF Init, OfferInv, WaitInv, SettingsInv, HasSettings
<1>3. ListInv
  BY DEF Init, ListInv, PendingIsListed
<1> QED
  BY <1>1, <1>2, <1>3 DEF IInv

\* Each part is kept with the help of those before it.
LEMMA NextInvariant == IInv /\ [Next]_vars => IInv'
  BY TypeStep, OfferStep, ListStep, WaitStep, SettingsStep DEF IInv

\* The invariant holds in every state of the broker.
THEOREM Invariance == Spec => []IInv
  BY InitInvariant, NextInvariant, PTL DEF Spec

\* A request is offered to one runner exactly while its flag is set and it is pending.
LEMMA OneOffered == TypeOK /\ OfferInv => FlagMeansOneAcceptance
<1> SUFFICES ASSUME TypeOK, OfferInv, NEW r \in Requests
             PROVE  Cardinality({ t \in offered : RequestOf(t) = r })
                      = IF r \in acceptInProgress /\ request[r] = "pending" THEN 1 ELSE 0
  BY DEF FlagMeansOneAcceptance
<1> DEFINE T == { t \in offered : RequestOf(t) = r }
<1>1. CASE r \in acceptInProgress /\ request[r] = "pending"
  <2>1. PICK t \in offered : RequestOf(t) = r
    BY <1>1 DEF OfferInv
  <2>2. T = {t}
    BY <2>1 DEF OfferInv
  <2> QED BY <1>1, <2>2, FS_Singleton
<1>2. CASE ~(r \in acceptInProgress /\ request[r] = "pending")
  <2>1. T = {}
    BY <1>2 DEF OfferInv
  <2> QED BY <1>2, <2>1, FS_EmptySet
<1> QED
  BY <1>1, <1>2

\* A waiter has one task, on a runner that the broker knows.
LEMMA OneTask == TypeOK /\ WaitInv => WaiterHasTask
<1> SUFFICES ASSUME TypeOK, WaitInv, NEW r \in Requests
             PROVE  Cardinality({ t \in tasks : RequestOf(t) = r })
                      = IF request[r] = "running" THEN 1 ELSE 0
  BY DEF WaiterHasTask, WaitInv
<1> DEFINE T == { t \in tasks : RequestOf(t) = r }
<1>1. CASE request[r] = "running"
  <2>1. PICK t \in tasks : RequestOf(t) = r
    BY <1>1 DEF WaitInv
  <2>2. T = {t}
    BY <2>1 DEF WaitInv
  <2> QED BY <1>1, <2>2, FS_Singleton
<1>2. CASE request[r] # "running"
  <2>1. T = {}
    BY <1>2 DEF WaitInv
  <2> QED BY <1>2, <2>1, FS_EmptySet
<1> QED
  BY <1>1, <1>2

\* In every state of the broker the types hold, each pending request is in the list, and it
\* is offered to one runner exactly while its flag acceptInProgress is set (acceptOffer(),
\* settleTasks()).
THEOREM BrokerConsistent == Spec => []Inv
<1>1. IInv => Inv
  BY OneOffered DEF IInv, ListInv, Inv
<1> QED
  BY <1>1, Invariance, PTL

\* The code of a node begins to execute at most once per request, whatever was refused,
\* deferred, timed out or answered late before (acceptOffer()).
THEOREM ExecutesOnce == Spec => []OneExecutionPerRequest
<1>1. IInv => OneExecutionPerRequest
  BY DEF IInv, SettingsInv, OneExecutionPerRequest
<1> QED
  BY <1>1, Invariance, PTL

\* Whoever waits for a task has exactly one, of a runner that is registered, in every
\* state (taskDoneHandler(), deregisterRunner()).
THEOREM WaitersHaveTasks == Spec => []WaiterHasTask
<1>1. IInv => WaiterHasTask
  BY OneTask DEF IInv
<1> QED
  BY <1>1, Invariance, PTL

=============================================================================
