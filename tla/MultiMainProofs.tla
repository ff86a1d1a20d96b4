--------------------------- MODULE MultiMainProofs ---------------------------
(***************************************************************************)
(* The election and the duties of the leader, proved for every number of   *)
(* processes and executions and for every bound.                           *)
(***************************************************************************)
EXTENDS MultiMain, QueueFacts

-----------------------------------------------------------------------------
(* The inductive invariants.                                               *)

\* The map of timers is a function as well; the rest is typed by TypeOK.
Typed == TypeOK /\ armed \in [Hosts -> SUBSET Waits]

\* A command of a process that Redis has yet to execute, or the process to handle.
Asks(h, command)     == \E i \in DOMAIN requests[h] : requests[h][i] = command
IsTold(h, command)   == \E i \in DOMAIN replies[h] : replies[h][i].command = command
Underway(h, command) == Asks(h, command) \/ IsTold(h, command)

\* Who leads, and who has been told that it set the key, holds the key.
HoldsKey(h) ==
  process[h] \in {"starting", "up", "stopping"} =>
    /\ isLeader[h] => leaderKey = h
    /\ \A i \in DOMAIN replies[h] :
         replies[h][i].command = "setnx" /\ replies[h][i].value = h => leaderKey = h

\* Only a process that shuts down deletes the key, once, and it is its own.
DeletesOwnKey(h) ==
  \A i \in DOMAIN requests[h] : requests[h][i] = "del" =>
      /\ process[h] = "closing" /\ leaderKey = h
      /\ \A j \in DOMAIN requests[h] : requests[h][j] = "del" => j = i

\* Nothing has happened to a process before it starts.
Fresh == \A h \in Hosts : process[h] = "off" =>
           requests[h] = <<>> /\ replies[h] = <<>> /\ ~isLeader[h]

\* These hold until the key of a living process expires for the first time.
KeyInv == Fresh /\ (expiries = 0 => \A h \in Hosts : HoldsKey(h) /\ DeletesOwnKey(h))

\* Without overlapping checks a living process has one command under way, except that
\* it may delete the key.
OneCommand(h) ==
  Alive(h) =>
    /\ process[h] # "closing" => ~Asks(h, "del") /\ ~IsTold(h, "del")
    /\ \A i, j \in DOMAIN requests[h] : requests[h][i] # "del" /\ requests[h][j] # "del" => i = j
    /\ \A i, j \in DOMAIN replies[h] :
         replies[h][i].command # "del" /\ replies[h][j].command # "del" => i = j
    /\ \A i \in DOMAIN requests[h], j \in DOMAIN replies[h] :
         requests[h][i] = "del" \/ replies[h][j].command = "del"

\* While a process tries to become the leader it does not poll. Before it has started and
\* after it is gone it does not either, and while it is up it polls if it leads.
Duty(h) ==
  /\ mainTimer[h] \in {0, 1}
  /\ process[h] \in {"off", "starting", "down"} => mainTimer[h] = 0
  /\ Alive(h) => /\ Underway(h, "setnx") => mainTimer[h] = 0
                 /\ Underway(h, "expire") => mainTimer[h] = 0 /\ isLeader[h]
  /\ process[h] = "up" =>
       \/ Underway(h, "setnx") \/ Underway(h, "expire")
       \/ mainTimer[h] = (IF isLeader[h] THEN 1 ELSE 0)

CheckInv == Fresh /\ \A h \in Hosts : OneCommand(h) /\ Duty(h)

-----------------------------------------------------------------------------
(* What sending, receiving and losing commands does to the channels.       *)

\* The command a process sends is the last of those on their way.
LEMMA SendFacts ==
  ASSUME Typed, NEW h \in Hosts, NEW command \in Commands, Send(h, command)
  PROVE  /\ requests' \in [Hosts -> Seq(Commands)]
         /\ \A g \in Hosts \ {h} : requests'[g] = requests[g]
         /\ DOMAIN requests'[h] = DOMAIN requests[h] \cup {Len(requests[h]) + 1}
         /\ Len(requests[h]) + 1 \notin DOMAIN requests[h]
         /\ \A i \in DOMAIN requests[h] : requests'[h][i] = requests[h][i]
         /\ requests'[h][Len(requests[h]) + 1] = command
<1>1. requests[h] \in Seq(Commands)
  BY DEF Typed, TypeOK, ElectionTypeOK
<1>2. requests' = [requests EXCEPT ![h] = Append(requests[h], command)]
  BY DEF Send
<1>3. Append(requests[h], command) \in Seq(Commands)
  BY <1>1, AppendFacts
<1>4. requests' \in [Hosts -> Seq(Commands)] /\ requests'[h] = Append(requests[h], command)
  BY <1>2, <1>3 DEF Typed, TypeOK, ElectionTypeOK
<1> QED
  BY <1>1, <1>2, <1>4, AppendFacts DEF Typed, TypeOK, ElectionTypeOK

\* A reply is the last on its way to a process that lives, and lost on a dead one.
LEMMA ReplyFacts ==
  ASSUME Typed, NEW h \in Hosts, NEW command \in Commands, NEW value \in Hosts \cup {NoHost},
         Reply(h, command, value)
  PROVE  /\ replies' \in [Hosts -> Seq(Replies)]
         /\ \A g \in Hosts \ {h} : replies'[g] = replies[g]
         /\ ~Alive(h) => replies'[h] = replies[h]
         /\ Alive(h) =>
              /\ DOMAIN replies'[h] = DOMAIN replies[h] \cup {Len(replies[h]) + 1}
              /\ Len(replies[h]) + 1 \notin DOMAIN replies[h]
              /\ \A i \in DOMAIN replies[h] : replies'[h][i] = replies[h][i]
              /\ replies'[h][Len(replies[h]) + 1] = [command |-> command, value |-> value]
<1> DEFINE reply == [command |-> command, value |-> value]
<1>1. replies[h] \in Seq(Replies) /\ reply \in Replies
  BY DEF Typed, TypeOK, ElectionTypeOK, Replies
<1>2. replies' = IF Alive(h) THEN [replies EXCEPT ![h] = Append(replies[h], reply)] ELSE replies
  BY DEF Reply
<1> HIDE DEF reply
<1>3. Append(replies[h], reply) \in Seq(Replies)
  BY <1>1, AppendFacts
<1>4. /\ replies' \in [Hosts -> Seq(Replies)]
      /\ Alive(h) => replies'[h] = Append(replies[h], reply)
  BY <1>2, <1>3 DEF Typed, TypeOK, ElectionTypeOK
<1>5. \A g \in Hosts \ {h} : replies'[g] = replies[g]
  BY <1>2 DEF Typed, TypeOK, ElectionTypeOK
<1>6. ~Alive(h) => replies'[h] = replies[h]
  BY <1>2
<1>7. Alive(h) =>
        /\ DOMAIN replies'[h] = DOMAIN replies[h] \cup {Len(replies[h]) + 1}
        /\ Len(replies[h]) + 1 \notin DOMAIN replies[h]
        /\ \A i \in DOMAIN replies[h] : replies'[h][i] = replies[h][i]
        /\ replies'[h][Len(replies[h]) + 1] = reply
  BY <1>1, <1>4, AppendFacts
<1> QED
  BY <1>4, <1>5, <1>6, <1>7 DEF reply

\* What is received leaves the channel, the rest moves up.
LEMMA ReceiveFacts ==
  ASSUME Typed, NEW h \in Hosts, NEW command, Receive(h, command)
  PROVE  /\ replies' \in [Hosts -> Seq(Replies)]
         /\ \A g \in Hosts \ {h} : replies'[g] = replies[g]
         /\ 1 \in DOMAIN replies[h] /\ replies[h][1].command = command
         /\ replies[h][1].value = Received(h) /\ Received(h) \in Hosts \cup {NoHost}
         /\ \A i \in DOMAIN replies'[h] : /\ i + 1 \in DOMAIN replies[h] /\ i + 1 # 1
                                          /\ replies'[h][i] = replies[h][i + 1]
         /\ \A i, j \in DOMAIN replies'[h] : i + 1 = j + 1 => i = j
<1>1. replies[h] \in Seq(Replies) /\ replies[h] # <<>>
  BY DEF Typed, TypeOK, ElectionTypeOK, Receive
<1>2. /\ Tail(replies[h]) \in Seq(Replies)
      /\ Head(replies[h]) = replies[h][1] /\ Head(replies[h]) \in Replies
  BY <1>1, TailFacts
<1>3. replies' = [replies EXCEPT ![h] = Tail(replies[h])]
  BY DEF Receive
<1>4. replies' \in [Hosts -> Seq(Replies)] /\ replies'[h] = Tail(replies[h])
  BY <1>2, <1>3 DEF Typed, TypeOK, ElectionTypeOK
<1>5. /\ replies[h][1].command = command
      /\ replies[h][1].value = Received(h) /\ Received(h) \in Hosts \cup {NoHost}
  BY <1>2 DEF Receive, Received, Replies
<1> QED
  BY <1>1, <1>3, <1>4, <1>5, TailFacts, SMTT(30) DEF Typed, TypeOK, ElectionTypeOK

\* The command that is executed leaves the channel, the rest moves up.
LEMMA ExecuteFacts ==
  ASSUME Typed, NEW h \in Hosts, Execute(h)
  PROVE  /\ requests' \in [Hosts -> Seq(Commands)]
         /\ \A g \in Hosts \ {h} : requests'[g] = requests[g]
         /\ 1 \in DOMAIN requests[h] /\ requests[h][1] = Head(requests[h])
         /\ Head(requests[h]) \in Commands
         /\ \A i \in DOMAIN requests'[h] : /\ i + 1 \in DOMAIN requests[h] /\ i + 1 # 1
                                           /\ requests'[h][i] = requests[h][i + 1]
         /\ \A i, j \in DOMAIN requests'[h] : i + 1 = j + 1 => i = j
<1>1. /\ requests[h] \in Seq(Commands) /\ requests[h] # <<>>
      /\ requests' = [requests EXCEPT ![h] = Tail(requests[h])]
  BY DEF Typed, TypeOK, ElectionTypeOK, Execute
<1>2. Tail(requests[h]) \in Seq(Commands)
  BY <1>1, TailFacts
<1>3. requests' \in [Hosts -> Seq(Commands)] /\ requests'[h] = Tail(requests[h])
  BY <1>1, <1>2 DEF Typed, TypeOK, ElectionTypeOK
<1> QED
  BY <1>1, <1>3, TailFacts DEF Typed, TypeOK, ElectionTypeOK

\* A process that is gone loses its replies, and some of what it sent last.
LEMMA GoneFacts ==
  ASSUME Typed, NEW h \in Hosts, Gone(h)
  PROVE  /\ requests' \in [Hosts -> Seq(Commands)] /\ replies' \in [Hosts -> Seq(Replies)]
         /\ \A g \in Hosts \ {h} : requests'[g] = requests[g] /\ replies'[g] = replies[g]
         /\ \A i \in DOMAIN requests'[h] : /\ i \in DOMAIN requests[h]
                                           /\ requests'[h][i] = requests[h][i]
         /\ DOMAIN replies'[h] = {}
<1>1. requests[h] \in Seq(Commands) /\ <<>> \in Seq(Replies)
  BY EmptySeq DEF Typed, TypeOK, ElectionTypeOK
<1>2. PICK n \in 0..Len(requests[h]) : requests' = [requests EXCEPT ![h] = SubSeq(requests[h], 1, n)]
  BY DEF Gone
<1>3. SubSeq(requests[h], 1, n) \in Seq(Commands)
  BY <1>1, PrefixFacts
<1>4. requests' \in [Hosts -> Seq(Commands)] /\ requests'[h] = SubSeq(requests[h], 1, n)
  BY <1>2, <1>3 DEF Typed, TypeOK, ElectionTypeOK
<1>5. replies' \in [Hosts -> Seq(Replies)] /\ replies'[h] = <<>>
  BY <1>1 DEF Gone, Typed, TypeOK, ElectionTypeOK
<1> QED
  BY <1>1, <1>2, <1>4, <1>5, PrefixFacts DEF Gone, Typed, TypeOK, ElectionTypeOK

-----------------------------------------------------------------------------
(* Types.                                                                  *)

\* What a process does, or Redis does for it.
Step(h) ==
  \/ Execute(h) \/ Start(h) \/ Check(h) \/ LeaderIsThis(h) \/ Renewed(h)
  \/ LeaderIsOther(h) \/ LeadershipVacant(h) \/ BecomeLeader(h) \/ StayFollower(h)
  \/ TakeOver(h) \/ StopProcess(h) \/ Shutdown(h) \/ Closed(h) \/ Crash(h)

LEMMA CommandsAre == {"get", "setnx", "expire", "renew", "del"} = Commands
  BY DEF Commands

\* The handlers of the election leave its variables of their types.
LEMMA ElectionTyped ==
  ASSUME Typed, NEW h \in Hosts, Step(h)
  PROVE  ElectionTypeOK'
<1> DEFINE States == {"off", "starting", "up", "stopping", "closing", "down"}
<1>1. /\ process \in [Hosts -> States]
      /\ isLeader \in [Hosts -> BOOLEAN]
      /\ leaderKey \in Hosts \cup {NoHost}
      /\ expires \in BOOLEAN
      /\ requests \in [Hosts -> Seq(Commands)]
      /\ replies \in [Hosts -> Seq(Replies)]
      /\ expiries \in 0..MaxExpiries /\ exits \in 0..MaxExits
      /\ MaxExpiries \in Nat /\ MaxExits \in Nat
  BY ElectionAssumption DEF Typed, TypeOK, ElectionTypeOK
<1>2. ASSUME NEW command \in Commands, Send(h, command) PROVE requests' \in [Hosts -> Seq(Commands)]
  BY <1>2, SendFacts
<1>3. ASSUME NEW command, Receive(h, command) PROVE replies' \in [Hosts -> Seq(Replies)]
  BY <1>3, ReceiveFacts
<1>4. ASSUME Gone(h)
      PROVE  requests' \in [Hosts -> Seq(Commands)] /\ replies' \in [Hosts -> Seq(Replies)]
  BY <1>4, GoneFacts
<1>5. ASSUME NEW s \in States, process' = [process EXCEPT ![h] = s] PROVE process' \in [Hosts -> States]
  BY <1>5, <1>1
<1>6. ASSUME NEW b \in BOOLEAN, MarkAs(h, b) PROVE isLeader' \in [Hosts -> BOOLEAN]
  BY <1>6, <1>1 DEF MarkAs
<1>7. ASSUME Started(h) PROVE process' \in [Hosts -> States]
  BY <1>7, <1>1 DEF Started
<1> USE DEF ElectionTypeOK, keyVars, boundVars
<1>8. CASE Execute(h)
  <2>1. requests' \in [Hosts -> Seq(Commands)]
    BY <1>8, ExecuteFacts
  <2>2. UNCHANGED <<process, isLeader, expiries, exits>>
    BY <1>8 DEF Execute
  <2>3. ASSUME NEW command \in Commands, NEW value \in Hosts \cup {NoHost}, Reply(h, command, value)
        PROVE  replies' \in [Hosts -> Seq(Replies)]
    BY <2>3, ReplyFacts
  <2>4. replies' \in [Hosts -> Seq(Replies)] /\ leaderKey' \in Hosts \cup {NoHost} /\ expires' \in BOOLEAN
    <3>1. CASE SetIfNotExists(h)
      BY <3>1, <2>3, <1>1, CommandsAre DEF SetIfNotExists
    <3>2. CASE Reply(h, "get", leaderKey) /\ UNCHANGED keyVars
      BY <3>2, <2>3, <1>1, CommandsAre
    <3>3. CASE \E command \in {"expire", "renew"} : Reply(h, command, NoHost) /\ UNCHANGED leaderKey
                                                    /\ expires' = (leaderKey # NoHost)
      BY <3>3, <2>3, <1>1, CommandsAre
    <3>4. CASE leaderKey' = NoHost /\ expires' = FALSE /\ Reply(h, "del", NoHost)
      BY <3>4, <2>3, <1>1, CommandsAre
    <3> QED BY <1>8, <3>1, <3>2, <3>3, <3>4 DEF Execute
  <2> QED BY <2>1, <2>2, <2>4, <1>1
<1>9. CASE Start(h)
  BY <1>9, <1>1, <1>2, <1>5, CommandsAre DEF Start
<1>10. CASE Check(h)
  BY <1>10, <1>1, <1>2, CommandsAre DEF Check
<1>11. CASE LeaderIsThis(h) \/ Renewed(h)
  BY <1>11, <1>1, <1>2, <1>3, CommandsAre DEF LeaderIsThis, Renewed
<1>12. CASE LeaderIsOther(h) \/ LeadershipVacant(h)
  BY <1>12, <1>1, <1>2, <1>3, <1>6, CommandsAre DEF LeaderIsOther, LeadershipVacant
<1>13. CASE BecomeLeader(h)
  BY <1>13, <1>1, <1>2, <1>3, <1>6, CommandsAre DEF BecomeLeader
<1>14. CASE StayFollower(h) \/ TakeOver(h)
  BY <1>14, <1>1, <1>3, <1>6, <1>7 DEF StayFollower, TakeOver
<1>15. CASE StopProcess(h)
  BY <1>15, <1>1, <1>5 DEF StopProcess, Exit
<1>16. CASE Shutdown(h)
  BY <1>16, <1>1, <1>2, <1>5, CommandsAre DEF Shutdown
<1>17. CASE Closed(h) \/ Crash(h)
  <2>1. Gone(h) /\ process' = [process EXCEPT ![h] = "down"] /\ UNCHANGED <<isLeader, keyVars, expiries>>
    BY <1>17 DEF Closed, Crash, Gone
  <2>2. exits' \in 0..MaxExits
    BY <1>17, <1>1 DEF Closed, Crash, Exit
  <2> QED BY <2>1, <2>2, <1>1, <1>4, <1>5
<1> QED
  BY <1>8, <1>9, <1>10, <1>11, <1>12, <1>13, <1>14, <1>15, <1>16, <1>17 DEF Step

LEMMA TypedStep == Typed /\ [Next]_vars => Typed'
<1> SUFFICES ASSUME Typed, [Next]_vars PROVE Typed'
  OBVIOUS
<1> DEFINE TrackerTyped == /\ mainTimer \in [Hosts -> Nat]
                           /\ waitingExecutions \in [Hosts -> SUBSET Waits]
                           /\ armed \in [Hosts -> SUBSET Waits]
                           /\ \A h \in Hosts : armed[h] \subseteq waitingExecutions[h]
                           /\ query \in [Hosts -> [busy: BOOLEAN, found: SUBSET Waits]]
                           /\ row \in [Waits -> {"waiting", "resumed"}]
<1>1. TrackerTyped
  BY DEF Typed, TypeOK
<1>2. ASSUME ElectionTypeOK', TrackerTyped' PROVE Typed'
  BY <1>2 DEF Typed, TypeOK
<1>3. UNCHANGED trackerVars => TrackerTyped'
  BY <1>1 DEF trackerVars
<1>4. UNCHANGED electionVars => ElectionTypeOK'
  BY DEF electionVars, Typed, TypeOK, ElectionTypeOK
<1>5. CASE KeyExpires /\ UNCHANGED trackerVars
  <2>1. ElectionTypeOK'
    <3>1. /\ ElectionTypeOK /\ leaderKey' = NoHost /\ expires' = FALSE
          /\ UNCHANGED <<process, isLeader, requests, replies, exits>>
      BY <1>5 DEF KeyExpires, Typed, TypeOK
    <3>2. expiries' \in 0..MaxExpiries
      BY <1>5, <3>1, ElectionAssumption DEF KeyExpires, ElectionTypeOK
    <3> QED BY <3>1, <3>2 DEF ElectionTypeOK
  <2> QED BY <2>1, <1>2, <1>3, <1>5
<1>6. ASSUME NEW h \in Hosts, Quiet(h) /\ UNCHANGED trackerVars PROVE Typed'
  <2>1. ElectionTypeOK'
    BY <1>6, ElectionTyped DEF Quiet, Step
  <2> QED BY <2>1, <1>2, <1>3, <1>6
<1>7. ASSUME NEW h \in Hosts, StartTracking(h) PROVE TrackerTyped'
  BY <1>7, <1>1 DEF StartTracking
<1>8. ASSUME NEW h \in Hosts, StopTracking(h) PROVE TrackerTyped'
  BY <1>8, <1>1 DEF StopTracking
<1>9. ASSUME NEW h \in Hosts, LeaderTakesOver(h) PROVE Typed'
  BY <1>9, <1>2, <1>7, ElectionTyped DEF Step, LeaderTakesOver
<1>10. ASSUME NEW h \in Hosts, LeaderStepsDown(h) PROVE Typed'
  BY <1>10, <1>2, <1>3, <1>8, ElectionTyped DEF Step, LeaderStepsDown
<1>11. ASSUME NEW h \in Hosts, ShutdownBegins(h) PROVE Typed'
  BY <1>11, <1>2, <1>8, ElectionTyped DEF Step, ShutdownBegins
<1>12. ASSUME NEW h \in Hosts, ProcessEnds(h) PROVE Typed'
  <2>1. TrackerTyped'
    BY <1>12, <1>1 DEF ProcessEnds, Memory, NoQuery
  <2> QED BY <2>1, <1>12, <1>2, ElectionTyped DEF Step, ProcessEnds
<1>13. ASSUME NEW h \in Hosts, PollRead(h) PROVE Typed'
  <2>1. TrackerTyped'
    BY <1>13, <1>1 DEF PollRead
  <2> QED BY <2>1, <1>13, <1>2, <1>4 DEF PollRead
<1>14. ASSUME NEW h \in Hosts, PollSet(h) PROVE Typed'
  <2>1. TrackerTyped'
    BY <1>14, <1>1 DEF PollSet, NoQuery
  <2> QED BY <2>1, <1>14, <1>2, <1>4 DEF PollSet
<1>15. ASSUME NEW h \in Hosts, NEW e \in Waits, TimerFires(h, e) PROVE Typed'
  <2>1. TrackerTyped'
    BY <1>15, <1>1 DEF TimerFires
  <2> QED BY <2>1, <1>15, <1>2, <1>4 DEF TimerFires
<1>16. CASE UNCHANGED vars
  BY <1>16, <1>2, <1>3, <1>4 DEF vars
<1> HIDE DEF TrackerTyped
<1> QED
  BY <1>5, <1>6, <1>9, <1>10, <1>11, <1>12, <1>13, <1>14, <1>15, <1>16 DEF Next

-----------------------------------------------------------------------------
(* One leader.                                                             *)

\* Such a step leaves the other processes alone.
LEMMA Untouched ==
  ASSUME Typed, NEW h \in Hosts, Step(h), NEW g \in Hosts \ {h}
  PROVE  /\ process'[g] = process[g] /\ isLeader'[g] = isLeader[g]
         /\ requests'[g] = requests[g] /\ replies'[g] = replies[g]
<1> USE DEF Typed, TypeOK, ElectionTypeOK, Send, Receive, Reply, MarkAs, Started, Gone
<1>1. CASE Execute(h)
  <2>1. \A command, value : Reply(h, command, value) => replies'[g] = replies[g]
    OBVIOUS
  <2> QED BY <1>1, <2>1 DEF Execute, SetIfNotExists
<1>2. CASE Closed(h) \/ Crash(h)
  BY <1>2, GoneFacts DEF Closed, Crash
<1>3. CASE ~(Execute(h) \/ Closed(h) \/ Crash(h))
  BY <1>3 DEF Step, Start, Check, LeaderIsThis, Renewed, LeaderIsOther, LeadershipVacant,
     BecomeLeader, StayFollower, TakeOver, StopProcess, Shutdown
<1> QED
  BY <1>1, <1>2, <1>3

\* No handler is run by a process that has not started, but for its start.
LEMMA FreshStep ==
  ASSUME Typed, Fresh, NEW h \in Hosts, Step(h)
  PROVE  Fresh'
<1>1. process[h] # "off" \/ Start(h)
  BY DEF Step, Execute, Fresh, Check, LeaderIsThis, Renewed, LeaderIsOther, LeadershipVacant,
         BecomeLeader, StayFollower, TakeOver, StopProcess, Shutdown, Closed, Crash, Receive, Alive
<1>2. process'[h] # "off"
  BY <1>1 DEF Step, Execute, Start, Check, LeaderIsThis, Renewed, LeaderIsOther, LeadershipVacant,
     BecomeLeader, StayFollower, TakeOver, StopProcess, Shutdown, Closed, Crash, Started, Gone,
     Typed, TypeOK, ElectionTypeOK
<1> QED
  BY <1>2, Untouched DEF Fresh

\* What one process does is no other's business, as long as it leaves another's key.
LEMMA OthersKey ==
  ASSUME NEW h \in Hosts, NEW g \in Hosts \ {h}, HoldsKey(g), DeletesOwnKey(g),
         process'[g] = process[g], isLeader'[g] = isLeader[g],
         requests'[g] = requests[g], replies'[g] = replies[g],
         leaderKey = g => leaderKey' = g
  PROVE  HoldsKey(g)' /\ DeletesOwnKey(g)'
  BY DEF HoldsKey, DeletesOwnKey

\* Redis executes a command.
LEMMA ExecuteKeepsKey ==
  ASSUME Typed, \A g \in Hosts : HoldsKey(g) /\ DeletesOwnKey(g), NEW h \in Hosts, Execute(h)
  PROVE  \A g \in Hosts : HoldsKey(g)' /\ DeletesOwnKey(g)'
<1> DEFINE command == Head(requests[h])
<1>1. /\ \A g \in Hosts \ {h} : requests'[g] = requests[g]
      /\ 1 \in DOMAIN requests[h] /\ requests[h][1] = command
      /\ \A i \in DOMAIN requests'[h] : /\ i + 1 \in DOMAIN requests[h] /\ i + 1 # 1
                                        /\ requests'[h][i] = requests[h][i + 1]
      /\ \A i, j \in DOMAIN requests'[h] : i + 1 = j + 1 => i = j
  BY ExecuteFacts
<1>2. UNCHANGED <<process, isLeader, expiries, exits>> /\ leaderKey \in Hosts \cup {NoHost}
  BY DEF Execute, boundVars, Typed, TypeOK, ElectionTypeOK
<1>3. /\ command = "setnx" => SetIfNotExists(h)
      /\ command = "del" => leaderKey' = NoHost
      /\ command \notin {"setnx", "del"} => leaderKey' = leaderKey
  BY DEF Execute, keyVars
<1>4. \E value \in Hosts \cup {NoHost} :
        /\ Reply(h, command, value)
        /\ command = "setnx" => value = (IF leaderKey = NoHost THEN h ELSE NoHost)
  BY <1>2 DEF Execute, SetIfNotExists
<1>5. PICK value \in Hosts \cup {NoHost} :
        /\ Reply(h, command, value)
        /\ command = "setnx" => value = (IF leaderKey = NoHost THEN h ELSE NoHost)
  BY <1>4
<1>6. command \in Commands
  BY ExecuteFacts
<1>7. /\ \A g \in Hosts \ {h} : replies'[g] = replies[g]
      /\ ~Alive(h) => replies'[h] = replies[h]
      /\ Alive(h) =>
           /\ DOMAIN replies'[h] = DOMAIN replies[h] \cup {Len(replies[h]) + 1}
           /\ Len(replies[h]) + 1 \notin DOMAIN replies[h]
           /\ \A i \in DOMAIN replies[h] : replies'[h][i] = replies[h][i]
           /\ replies'[h][Len(replies[h]) + 1] = [command |-> command, value |-> value]
  BY <1>5, <1>6, ReplyFacts
<1>8. command = "del" => leaderKey = h /\ process[h] = "closing"
  BY <1>1 DEF DeletesOwnKey
<1>9. command = "setnx" => leaderKey' = IF leaderKey = NoHost THEN h ELSE leaderKey
  BY <1>3 DEF SetIfNotExists, keyVars
<1> HIDE DEF command
<1>10. \A g \in Hosts : leaderKey = g => leaderKey' = g \/ (g = h /\ command = "del")
  BY <1>3, <1>8, <1>9, ElectionAssumption
<1>11. ASSUME NEW g \in Hosts \ {h} PROVE HoldsKey(g)' /\ DeletesOwnKey(g)'
  <2>1. HoldsKey(g) /\ DeletesOwnKey(g) /\ (leaderKey = g => leaderKey' = g)
    BY <1>10
  <2> QED BY <2>1, <1>1, <1>2, <1>7, OthersKey
<1>12. HoldsKey(h)'
  <2>1. CASE command = "del"
    BY <2>1, <1>8, <1>2 DEF HoldsKey
  <2>2. CASE command # "del"
    <3> SUFFICES ASSUME process[h] \in {"starting", "up", "stopping"}
                 PROVE  /\ isLeader[h] => leaderKey' = h
                        /\ \A i \in DOMAIN replies'[h] :
                             replies'[h][i].command = "setnx" /\ replies'[h][i].value = h
                             => leaderKey' = h
      BY <1>2 DEF HoldsKey
    <3>1. Alive(h)
      BY DEF Alive
    <3>2. isLeader[h] => leaderKey' = h
      BY <2>2, <1>10 DEF HoldsKey
    <3>3. ASSUME NEW i \in DOMAIN replies[h], replies[h][i].command = "setnx", replies[h][i].value = h
          PROVE  leaderKey' = h
      BY <3>3, <2>2, <1>10 DEF HoldsKey
    <3>4. ASSUME command = "setnx", value = h PROVE leaderKey' = h
      BY <3>4, <1>5, <1>9, ElectionAssumption
    <3> QED BY <3>1, <3>2, <3>3, <3>4, <1>7
  <2> QED BY <2>1, <2>2
<1>13. DeletesOwnKey(h)'
  <2> SUFFICES ASSUME NEW i \in DOMAIN requests'[h], requests'[h][i] = "del"
               PROVE  /\ process[h] = "closing" /\ leaderKey' = h
                      /\ \A j \in DOMAIN requests'[h] : requests'[h][j] = "del" => j = i
    BY <1>2 DEF DeletesOwnKey
  <2>1. i + 1 \in DOMAIN requests[h] /\ requests[h][i + 1] = "del" /\ i + 1 # 1
    BY <1>1
  <2>2. /\ process[h] = "closing" /\ leaderKey = h
        /\ \A j \in DOMAIN requests[h] : requests[h][j] = "del" => j = i + 1
    BY <2>1 DEF DeletesOwnKey
  <2>3. command # "del"
    BY <2>1, <2>2, <1>1
  <2> QED BY <2>2, <2>3, <1>1, <1>10
<1> QED
  BY <1>11, <1>12, <1>13

\* A process handles a reply, starts, checks or ends; Redis is not touched.
LEMMA HandlerKeepsKey ==
  ASSUME Typed, Fresh, \A g \in Hosts : HoldsKey(g) /\ DeletesOwnKey(g), NEW h \in Hosts,
         Step(h), ~Execute(h)
  PROVE  \A g \in Hosts : HoldsKey(g)' /\ DeletesOwnKey(g)'
<1> DEFINE Sends == {"get", "setnx", "expire", "renew"}
           ReplyKept(i) == \E j \in DOMAIN replies[h] : replies'[h][i] = replies[h][j]
<1>1. process \in [Hosts -> {"off", "starting", "up", "stopping", "closing", "down"}]
      /\ isLeader \in [Hosts -> BOOLEAN]
  BY DEF Typed, TypeOK, ElectionTypeOK
<1>2. HoldsKey(h) /\ DeletesOwnKey(h)
  OBVIOUS
<1>3. leaderKey' = leaderKey
  BY DEF Step, Start, Check, LeaderIsThis, Renewed, LeaderIsOther, LeadershipVacant, BecomeLeader,
         StayFollower, TakeOver, StopProcess, Shutdown, Closed, Crash, keyVars
\* Nothing but a shutdown adds a "del" to what the process has sent.
<1>4. ASSUME NEW command \in Sends, Send(h, command)
      PROVE  /\ \A i \in DOMAIN requests'[h] : requests'[h][i] = "del" =>
                   i \in DOMAIN requests[h] /\ requests[h][i] = "del"
             /\ \A g \in Hosts \ {h} : requests'[g] = requests[g]
  <2>1. command \in Commands /\ command # "del"
    BY CommandsAre
  <2> QED BY <2>1, <1>4, SendFacts
<1>5. ASSUME NEW command, Receive(h, command)
      PROVE  /\ \A i \in DOMAIN replies'[h] : ReplyKept(i)
             /\ \A g \in Hosts \ {h} : replies'[g] = replies[g]
  BY <1>5, ReceiveFacts
<1>6. ASSUME replies' = replies
      PROVE  /\ \A i \in DOMAIN replies'[h] : ReplyKept(i)
             /\ \A g \in Hosts \ {h} : replies'[g] = replies[g]
  BY <1>6
<1>7. ASSUME requests' = requests
      PROVE  /\ \A i \in DOMAIN requests'[h] : requests'[h][i] = "del" =>
                   i \in DOMAIN requests[h] /\ requests[h][i] = "del"
             /\ \A g \in Hosts \ {h} : requests'[g] = requests[g]
  BY <1>7
<1>8. ASSUME Gone(h)
      PROVE  /\ \A i \in DOMAIN requests'[h] : i \in DOMAIN requests[h] /\ requests'[h][i] = requests[h][i]
             /\ DOMAIN replies'[h] = {} /\ process'[h] = "down"
             /\ \A g \in Hosts \ {h} : /\ requests'[g] = requests[g] /\ replies'[g] = replies[g]
                                       /\ process'[g] = process[g]
  BY <1>8, <1>1, GoneFacts DEF Gone
<1> HIDE DEF Sends
<1>9. Sends = {"get", "setnx", "expire", "renew"}
  BY DEF Sends
\* The others.
<1>10. ASSUME NEW g \in Hosts \ {h}
       PROVE  HoldsKey(g)' /\ DeletesOwnKey(g)'
  BY <1>3, Untouched, OthersKey DEF Step
\* A process that holds itself for the leader no more, or goes on as it was, loses nothing.
<1>11. ASSUME \A i \in DOMAIN replies'[h] : ReplyKept(i),
              process'[h] \in {"starting", "up", "stopping"} => process[h] \in {"starting", "up", "stopping"},
              isLeader'[h] => isLeader[h]
       PROVE  HoldsKey(h)'
  BY <1>11, <1>2, <1>3 DEF HoldsKey
<1>12. ASSUME \A i \in DOMAIN requests'[h] : requests'[h][i] = "del" =>
                   i \in DOMAIN requests[h] /\ requests[h][i] = "del",
              process[h] = "closing" => process'[h] = "closing"
       PROVE  DeletesOwnKey(h)'
  BY <1>12, <1>2, <1>3 DEF DeletesOwnKey
<1>13. CASE Start(h)
  <2>1. process[h] = "off" /\ process'[h] = "starting" /\ isLeader' = isLeader /\ replies' = replies
    BY <1>13, <1>1 DEF Start
  <2>2. ~isLeader'[h] /\ DOMAIN replies'[h] = {}
    BY <2>1 DEF Fresh
  <2>3. HoldsKey(h)'
    BY <2>2 DEF HoldsKey
  <2>4. DeletesOwnKey(h)'
    BY <2>1, <1>13, <1>4, <1>9, <1>12 DEF Start
  <2> QED BY <2>3, <2>4, <1>10
<1>14. CASE Check(h)
  BY <1>14, <1>4, <1>6, <1>9, <1>10, <1>11, <1>12 DEF Check
<1>15. CASE LeaderIsThis(h)
  BY <1>15, <1>4, <1>5, <1>9, <1>10, <1>11, <1>12 DEF LeaderIsThis
<1>16. CASE Renewed(h)
  BY <1>16, <1>5, <1>7, <1>10, <1>11, <1>12 DEF Renewed
<1>17. CASE LeaderIsOther(h)
  BY <1>17, <1>1, <1>5, <1>7, <1>10, <1>11, <1>12 DEF LeaderIsOther, MarkAs
<1>18. CASE LeadershipVacant(h)
  BY <1>18, <1>1, <1>4, <1>5, <1>9, <1>10, <1>11, <1>12 DEF LeadershipVacant, MarkAs
\* It has been told that it set the key.
<1>19. CASE BecomeLeader(h)
  <2>1. DeletesOwnKey(h)'
    BY <1>19, <1>4, <1>9, <1>12 DEF BecomeLeader
  <2>2. process' = process /\ Receive(h, "setnx") /\ Received(h) = h
    BY <1>19 DEF BecomeLeader
  <2>3. process[h] \in {"starting", "up", "stopping"} => leaderKey = h
    BY <2>2, <1>2, ReceiveFacts DEF HoldsKey
  <2>4. HoldsKey(h)'
    BY <2>2, <2>3, <1>3 DEF HoldsKey
  <2> QED BY <2>1, <2>4, <1>10
<1>20. CASE StayFollower(h)
  BY <1>20, <1>1, <1>5, <1>7, <1>10, <1>11, <1>12 DEF StayFollower, MarkAs, Started
<1>21. CASE TakeOver(h)
  BY <1>21, <1>1, <1>5, <1>7, <1>10, <1>11, <1>12 DEF TakeOver, Started
<1>22. CASE StopProcess(h)
  BY <1>22, <1>1, <1>6, <1>7, <1>10, <1>11, <1>12 DEF StopProcess
\* A leader, which holds the key, deletes it. It has not done so before.
<1>23. CASE Shutdown(h)
  <2>1. process[h] = "stopping" /\ process'[h] = "closing" /\ replies' = replies /\ isLeader' = isLeader
    BY <1>23, <1>1 DEF Shutdown
  <2>2. HoldsKey(h)'
    BY <2>1 DEF HoldsKey
  <2>3. \A i \in DOMAIN requests[h] : requests[h][i] # "del"
    BY <2>1, <1>2 DEF DeletesOwnKey
  <2>4. CASE isLeader[h]
    <3>1. leaderKey' = h
      BY <2>4, <2>1, <1>2, <1>3 DEF HoldsKey
    <3>2. /\ DOMAIN requests'[h] = DOMAIN requests[h] \cup {Len(requests[h]) + 1}
          /\ \A i \in DOMAIN requests[h] : requests'[h][i] = requests[h][i]
      BY <2>4, <1>23, CommandsAre, SendFacts DEF Shutdown
    <3> QED BY <2>1, <2>2, <2>3, <3>1, <3>2, <1>10 DEF DeletesOwnKey
  <2>5. CASE ~isLeader[h]
    BY <2>5, <2>1, <2>2, <2>3, <1>23, <1>10 DEF Shutdown, DeletesOwnKey
  <2> QED BY <2>4, <2>5
<1>24. CASE Closed(h) \/ Crash(h)
  <2>1. Gone(h)
    BY <1>24 DEF Closed, Crash
  <2>2. \A i \in DOMAIN requests'[h] : requests'[h][i] # "del"
    <3>1. CASE Closed(h)
      <4>1. DOMAIN requests[h] = 1..Len(requests[h])
        BY DEF Typed, TypeOK, ElectionTypeOK
      <4> QED BY <3>1, <4>1, <2>1, <1>8 DEF Closed
    <3>2. CASE Crash(h)
      <4>1. requests'[h] \in Seq(Commands)
        BY <2>1, GoneFacts
      <4>2. DOMAIN requests'[h] = 1..Len(requests'[h])
        BY <4>1
      <4> QED BY <3>2, <4>2 DEF Crash
    <3> QED BY <1>24, <3>1, <3>2
  <2> QED BY <2>1, <2>2, <1>8, <1>10 DEF HoldsKey, DeletesOwnKey
<1> QED
  BY <1>13, <1>14, <1>15, <1>16, <1>17, <1>18, <1>19, <1>20, <1>21, <1>22, <1>23, <1>24
     DEF Step

LEMMA KeyStep == Typed /\ KeyInv /\ [Next]_vars => KeyInv'
<1> SUFFICES ASSUME Typed, KeyInv, [Next]_vars PROVE KeyInv'
  OBVIOUS
<1>1. ASSUME NEW h \in Hosts, Execute(h) PROVE KeyInv'
  <2>1. expiries' = expiries
    BY <1>1 DEF Execute, boundVars
  <2> QED BY <2>1, <1>1, FreshStep, ExecuteKeepsKey DEF KeyInv, Step
<1>2. ASSUME NEW h \in Hosts, Step(h), ~Execute(h) PROVE KeyInv'
  <2>1. expiries' = expiries
    BY <1>2 DEF Step, Start, Check, LeaderIsThis, Renewed, LeaderIsOther, LeadershipVacant, BecomeLeader,
         StayFollower, TakeOver, StopProcess, Shutdown, Closed, Crash, boundVars
  <2> QED BY <2>1, <1>2, FreshStep, HandlerKeepsKey DEF KeyInv
<1>3. CASE UNCHANGED electionVars
  BY <1>3 DEF electionVars, KeyInv, Fresh, HoldsKey, DeletesOwnKey
\* The key of a process that is gone is no leader's. Another expiry counts.
<1>4. CASE KeyExpires
  <2>1. Fresh'
    BY <1>4 DEF KeyExpires, KeyInv, Fresh
  <2> SUFFICES ASSUME expiries' = 0, NEW g \in Hosts PROVE HoldsKey(g)' /\ DeletesOwnKey(g)'
    BY <2>1 DEF KeyInv
  <2>2. ~Alive(leaderKey) /\ expiries = 0
    BY <1>4 DEF KeyExpires, Typed, TypeOK, ElectionTypeOK
  <2>3. HoldsKey(g) /\ DeletesOwnKey(g)
    BY <2>2 DEF KeyInv
  <2>4. UNCHANGED <<process, isLeader, requests, replies>>
    BY <1>4 DEF KeyExpires
  <2> QED BY <2>2, <2>3, <2>4 DEF HoldsKey, DeletesOwnKey, Alive
<1> QED
  BY <1>1, <1>2, <1>3, <1>4 DEF Next, Quiet, Step, LeaderTakesOver, LeaderStepsDown, ShutdownBegins,
     ProcessEnds, PollRead, PollSet, TimerFires, vars

-----------------------------------------------------------------------------
(* The duties of the leader, when checks do not overlap.                   *)

\* Nothing of a process is under way, but perhaps the deletion of its key.
Idle(reqs, reps) == /\ \A i \in DOMAIN reqs : reqs[i] = "del"
                    /\ \A i \in DOMAIN reps : reps[i].command = "del"

\* A process that receives an answer has nothing else under way.
LEMMA ReceivedAlone ==
  ASSUME Typed, NEW h \in Hosts, OneCommand(h), NEW command, command # "del", Receive(h, command)
  PROVE  /\ Idle(requests[h], replies'[h])
         /\ IsTold(h, command)
         /\ \A c \in Commands \ {"del"} : Underway(h, c) => c = command
         /\ process[h] # "closing" => ~Asks(h, "del") /\ DOMAIN replies'[h] = {}
<1>1. /\ 1 \in DOMAIN replies[h] /\ replies[h][1].command = command
      /\ \A i \in DOMAIN replies'[h] : /\ i + 1 \in DOMAIN replies[h] /\ i + 1 # 1
                                       /\ replies'[h][i] = replies[h][i + 1]
  BY ReceiveFacts
<1>2. /\ process[h] # "closing" => ~Asks(h, "del") /\ ~IsTold(h, "del")
      /\ \A i, j \in DOMAIN replies[h] :
           replies[h][i].command # "del" /\ replies[h][j].command # "del" => i = j
      /\ \A i \in DOMAIN requests[h], j \in DOMAIN replies[h] :
           requests[h][i] = "del" \/ replies[h][j].command = "del"
  BY DEF OneCommand, Receive
<1>3. Idle(requests[h], replies'[h])
  BY <1>1, <1>2 DEF Idle
<1>4. \A c \in Commands \ {"del"} : Underway(h, c) => c = command
  BY <1>1, <1>2 DEF Underway, Asks, IsTold
<1>5. process[h] # "closing" => ~Asks(h, "del") /\ DOMAIN replies'[h] = {}
  BY <1>1, <1>2 DEF IsTold
<1> QED
  BY <1>1, <1>3, <1>4, <1>5 DEF IsTold

\* A process that had nothing under way and sends a command has that command under way.
LEMMA SentAlone ==
  ASSUME Typed, NEW h \in Hosts, NEW command \in Commands \ {"del"}, Send(h, command),
         Idle(requests[h], replies'[h]),
         process'[h] # "closing" => ~Asks(h, "del") /\ DOMAIN replies'[h] = {}
  PROVE  /\ OneCommand(h)'
         /\ \A c \in Commands \ {"del"} : Underway(h, c)' <=> c = command
<1>1. /\ DOMAIN requests'[h] = DOMAIN requests[h] \cup {Len(requests[h]) + 1}
      /\ Len(requests[h]) + 1 \notin DOMAIN requests[h]
      /\ \A i \in DOMAIN requests[h] : requests'[h][i] = requests[h][i]
      /\ requests'[h][Len(requests[h]) + 1] = command
  BY SendFacts
<1>2. OneCommand(h)'
  BY <1>1 DEF OneCommand, Idle, Asks, IsTold
<1>3. \A c \in Commands \ {"del"} : Underway(h, c)' <=> c = command
  BY <1>1 DEF Underway, Asks, IsTold, Idle
<1> QED
  BY <1>2, <1>3

\* A process that had nothing under way and sends nothing still has nothing.
LEMMA IdleStays ==
  ASSUME NEW h \in Hosts, Idle(requests'[h], replies'[h]),
         process'[h] # "closing" => DOMAIN requests'[h] = {} /\ DOMAIN replies'[h] = {}
  PROVE  OneCommand(h)' /\ \A c \in Commands \ {"del"} : ~Underway(h, c)'
  BY DEF OneCommand, Underway, Asks, IsTold, Idle

\* What Redis executes stays under way until it is answered.
LEMMA ExecutedStays ==
  ASSUME Typed, NEW h \in Hosts, OneCommand(h), Execute(h), Alive(h)
  PROVE  OneCommand(h)' /\ \A c \in Commands : Underway(h, c)' <=> Underway(h, c)
<1> DEFINE command == Head(requests[h])
<1>1. /\ 1 \in DOMAIN requests[h] /\ requests[h][1] = command
      /\ command \in Commands
      /\ \A i \in DOMAIN requests'[h] : /\ i + 1 \in DOMAIN requests[h] /\ i + 1 # 1
                                        /\ requests'[h][i] = requests[h][i + 1]
      /\ \A i, j \in DOMAIN requests'[h] : i + 1 = j + 1 => i = j
  BY ExecuteFacts
<1>2. \E value \in Hosts \cup {NoHost} : Reply(h, command, value)
  BY DEF Execute, SetIfNotExists, Typed, TypeOK, ElectionTypeOK
<1>3. PICK value \in Hosts \cup {NoHost} : Reply(h, command, value)
  BY <1>2
<1>4. process' = process
  BY DEF Execute
<1>5. \A i \in DOMAIN requests[h] : i # 1 => \E j \in DOMAIN requests'[h] : i = j + 1
  <2>1. requests'[h] = Tail(requests[h]) /\ requests[h] \in Seq(Commands) /\ requests[h] # <<>>
    BY DEF Execute, Typed, TypeOK, ElectionTypeOK
  <2>2. /\ Len(Tail(requests[h])) = Len(requests[h]) - 1 /\ Tail(requests[h]) \in Seq(Commands)
    BY <2>1, HeadTailProperties
  <2>3. Len(requests[h]) \in Nat \ {0} /\ DOMAIN requests[h] = 1..Len(requests[h])
        /\ DOMAIN requests'[h] = 1..(Len(requests[h]) - 1)
    BY <2>1, <2>2, EmptySeq, LenProperties
  <2> TAKE i \in DOMAIN requests[h]
  <2> SUFFICES ASSUME i # 1 PROVE i - 1 \in DOMAIN requests'[h] /\ i = (i - 1) + 1
    OBVIOUS
  <2> QED BY <2>3
<1> HIDE DEF command
<1>6. /\ DOMAIN replies'[h] = DOMAIN replies[h] \cup {Len(replies[h]) + 1}
      /\ Len(replies[h]) + 1 \notin DOMAIN replies[h]
      /\ \A i \in DOMAIN replies[h] : replies'[h][i] = replies[h][i]
      /\ replies'[h][Len(replies[h]) + 1].command = command
  <2>1. /\ DOMAIN replies'[h] = DOMAIN replies[h] \cup {Len(replies[h]) + 1}
        /\ Len(replies[h]) + 1 \notin DOMAIN replies[h]
        /\ \A i \in DOMAIN replies[h] : replies'[h][i] = replies[h][i]
        /\ replies'[h][Len(replies[h]) + 1] = [command |-> command, value |-> value]
    BY <1>1, <1>3, ReplyFacts
  <2> QED BY <2>1
<1>7. OneCommand(h)'
  <2>1. process[h] # "closing" => ~Asks(h, "del")' /\ ~IsTold(h, "del")'
    BY <1>1, <1>6 DEF OneCommand, Asks, IsTold
  <2>2. \A i, j \in DOMAIN requests'[h] : requests'[h][i] # "del" /\ requests'[h][j] # "del" => i = j
    BY <1>1 DEF OneCommand
  <2>3. \A i, j \in DOMAIN replies'[h] :
          replies'[h][i].command # "del" /\ replies'[h][j].command # "del" => i = j
    BY <1>1, <1>6 DEF OneCommand
  <2>4. \A i \in DOMAIN requests'[h], j \in DOMAIN replies'[h] :
          requests'[h][i] = "del" \/ replies'[h][j].command = "del"
    BY <1>1, <1>6 DEF OneCommand
  <2> QED BY <2>1, <2>2, <2>3, <2>4, <1>4 DEF OneCommand
<1>8. ASSUME NEW c \in Commands PROVE Underway(h, c)' <=> Underway(h, c)
  <2>1. Underway(h, c)' => Underway(h, c)
    BY <1>1, <1>6 DEF Underway, Asks, IsTold
  <2>2. IsTold(h, c) => IsTold(h, c)'
    BY <1>6 DEF IsTold
  <2>3. Asks(h, c) => Underway(h, c)'
    <3> SUFFICES ASSUME NEW i \in DOMAIN requests[h], requests[h][i] = c PROVE Underway(h, c)'
      BY DEF Asks
    <3>1. CASE i = 1
      BY <3>1, <1>1, <1>6 DEF Underway, IsTold
    <3>2. CASE i # 1
      BY <3>2, <1>1, <1>5 DEF Underway, Asks
    <3> QED BY <3>1, <3>2
  <2> QED BY <2>1, <2>2, <2>3 DEF Underway
<1> QED
  BY <1>7, <1>8

\* What a step does to the duties of another process: nothing.
LEMMA OthersDuty ==
  ASSUME NEW g \in Hosts, OneCommand(g), Duty(g), mainTimer'[g] = mainTimer[g],
         process'[g] = process[g], isLeader'[g] = isLeader[g],
         requests'[g] = requests[g], replies'[g] = replies[g]
  PROVE  OneCommand(g)' /\ Duty(g)'
  BY DEF OneCommand, Duty, Alive, Underway, Asks, IsTold

\* A process is done with what it had under way, and its duties follow.
LEMMA DoneDuty ==
  ASSUME Typed, NEW h \in Hosts, Idle(requests'[h], replies'[h]),
         process'[h] # "closing" => DOMAIN requests'[h] = {} /\ DOMAIN replies'[h] = {},
         mainTimer'[h] \in {0, 1},
         process'[h] \in {"off", "starting", "down"} => mainTimer'[h] = 0,
         process'[h] = "up" => mainTimer'[h] = IF isLeader'[h] THEN 1 ELSE 0
  PROVE  OneCommand(h)' /\ Duty(h)'
<1>1. OneCommand(h)' /\ \A c \in Commands \ {"del"} : ~Underway(h, c)'
  BY IdleStays
<1>2. ~Underway(h, "setnx")' /\ ~Underway(h, "expire")'
  BY <1>1, CommandsAre
<1> QED
  BY <1>1, <1>2 DEF Duty

\* Nothing is in flight when both channels are empty.
LEMMA LenAdds ==
  ASSUME NEW h \in Hosts, requests[h] \in Seq(Commands), replies[h] \in Seq(Replies), InFlight(h) < 1
  PROVE  Len(requests[h]) = 0 /\ Len(replies[h]) = 0
<1>1. Len(requests[h]) \in Nat /\ Len(replies[h]) \in Nat
  BY LenProperties
<1> DEFINE m == Len(requests[h])
           n == Len(replies[h])
<1>2. m \in Nat /\ n \in Nat /\ m + n < 1
  BY <1>1 DEF InFlight
<1> HIDE DEF m, n
<1>3. m = 0 /\ n = 0
  BY <1>2
<1> QED
  BY <1>3 DEF m, n

\* A process handles an answer, or is told to start or to check.
LEMMA HandlerDuty ==
  ASSUME Typed, Fresh, MaxChecks = 1, NEW h \in Hosts, OneCommand(h), Duty(h),
         mainTimer'[h] = mainTimer[h],
         \/ Start(h) \/ Check(h) \/ LeaderIsThis(h) \/ Renewed(h)
         \/ BecomeLeader(h) \/ StayFollower(h) \/ Shutdown(h)
  PROVE  OneCommand(h)' /\ Duty(h)'
<1>1. /\ process \in [Hosts -> {"off", "starting", "up", "stopping", "closing", "down"}]
      /\ isLeader \in [Hosts -> BOOLEAN]
      /\ requests[h] \in Seq(Commands) /\ replies[h] \in Seq(Replies)
  BY DEF Typed, TypeOK, ElectionTypeOK
<1>2. /\ DOMAIN requests[h] = 1..Len(requests[h]) /\ Len(requests[h]) \in Nat
      /\ DOMAIN replies[h] = 1..Len(replies[h]) /\ Len(replies[h]) \in Nat
  BY <1>1, LenProperties
<1>3. {"get", "setnx", "expire", "renew"} = Commands \ {"del"}
  BY CommandsAre
<1>4. CASE Start(h)
  <2>1. /\ process[h] = "off" /\ process'[h] = "starting" /\ Send(h, "setnx")
        /\ replies' = replies /\ DOMAIN requests[h] = {} /\ DOMAIN replies[h] = {}
    BY <1>4, <1>1 DEF Start, Fresh
  <2>2. OneCommand(h)' /\ Underway(h, "setnx")' /\ ~Underway(h, "expire")'
    BY <2>1, <1>3, SentAlone DEF Idle, Asks
  <2> QED BY <2>1, <2>2 DEF Duty
<1>5. CASE Check(h)
  <2>1. /\ process' = process /\ isLeader' = isLeader /\ Send(h, "get") /\ replies' = replies
        /\ process[h] \in {"up", "stopping"} /\ DOMAIN requests[h] = {} /\ DOMAIN replies[h] = {}
    <3>1. InFlight(h) < 1
      BY <1>5 DEF Check
    <3>2. Len(requests[h]) = 0 /\ Len(replies[h]) = 0
      BY <3>1, <1>1, LenAdds
    <3>3. DOMAIN requests[h] = {} /\ DOMAIN replies[h] = {}
      BY <3>2, <1>2
    <3> QED BY <3>3, <1>5 DEF Check
  <2>2. OneCommand(h)' /\ ~Underway(h, "setnx")' /\ ~Underway(h, "expire")'
    BY <2>1, <1>3, SentAlone DEF Idle, Asks
  <2>3. ~Underway(h, "setnx") /\ ~Underway(h, "expire")
    BY <2>1 DEF Underway, Asks, IsTold
  <2> QED BY <2>1, <2>2, <2>3 DEF Duty, Alive
<1>6. CASE LeaderIsThis(h)
  <2>1. /\ process' = process /\ isLeader' = isLeader /\ Receive(h, "get") /\ Send(h, "renew")
    BY <1>6 DEF LeaderIsThis
  <2>2. /\ Idle(requests[h], replies'[h])
        /\ process[h] # "closing" => ~Asks(h, "del") /\ DOMAIN replies'[h] = {}
        /\ ~Underway(h, "setnx") /\ ~Underway(h, "expire")
    BY <2>1, <1>3, ReceivedAlone
  <2>3. OneCommand(h)' /\ ~Underway(h, "setnx")' /\ ~Underway(h, "expire")'
    BY <2>1, <2>2, <1>3, SentAlone
  <2> QED BY <2>1, <2>2, <2>3 DEF Duty, Alive
<1>7. CASE Renewed(h)
  <2>1. process' = process /\ isLeader' = isLeader /\ Receive(h, "renew") /\ requests' = requests
    BY <1>7 DEF Renewed
  <2>2. /\ Idle(requests[h], replies'[h])
        /\ process[h] # "closing" => ~Asks(h, "del") /\ DOMAIN replies'[h] = {}
        /\ ~Underway(h, "setnx") /\ ~Underway(h, "expire")
    BY <2>1, <1>3, ReceivedAlone
  <2>3. process[h] # "closing" => DOMAIN requests[h] = {}
    BY <2>2 DEF Idle, Asks
  <2> QED BY <2>1, <2>2, <2>3, DoneDuty DEF Duty
<1>8. CASE BecomeLeader(h)
  <2>1. process' = process /\ isLeader'[h] = TRUE /\ Receive(h, "setnx") /\ Send(h, "expire")
    BY <1>8, <1>1 DEF BecomeLeader, MarkAs
  <2>2. /\ Idle(requests[h], replies'[h]) /\ Underway(h, "setnx") /\ Alive(h)
        /\ process[h] # "closing" => ~Asks(h, "del") /\ DOMAIN replies'[h] = {}
    BY <2>1, ReceivedAlone DEF Underway, Receive
  <2>3. OneCommand(h)' /\ ~Underway(h, "setnx")' /\ Underway(h, "expire")'
    BY <2>1, <2>2, <1>3, SentAlone
  <2> QED BY <2>1, <2>2, <2>3 DEF Duty
<1>9. CASE StayFollower(h)
  <2>1. isLeader'[h] = FALSE /\ Receive(h, "setnx") /\ requests' = requests /\ Started(h)
    BY <1>9, <1>1 DEF StayFollower, MarkAs
  <2>2. /\ Idle(requests[h], replies'[h]) /\ Underway(h, "setnx") /\ Alive(h)
        /\ process[h] # "closing" => ~Asks(h, "del") /\ DOMAIN replies'[h] = {}
    BY <2>1, ReceivedAlone DEF Underway, Receive
  <2>3. mainTimer'[h] = 0 /\ (process'[h] = "closing" <=> process[h] = "closing")
    BY <2>1, <2>2, <1>1 DEF Duty, Started
  <2>4. process[h] # "closing" => DOMAIN requests[h] = {}
    BY <2>2 DEF Idle, Asks
  <2> QED BY <2>1, <2>2, <2>3, <2>4, DoneDuty
<1>10. CASE Shutdown(h)
  <2>1. /\ process[h] = "stopping" /\ process'[h] = "closing"
        /\ isLeader' = isLeader /\ replies' = replies
        /\ Send(h, "del") \/ requests' = requests
    BY <1>10, <1>1 DEF Shutdown
  <2>2. \/ requests' = requests
        \/ /\ DOMAIN requests'[h] = DOMAIN requests[h] \cup {Len(requests[h]) + 1}
           /\ \A i \in DOMAIN requests[h] : requests'[h][i] = requests[h][i]
           /\ requests'[h][Len(requests[h]) + 1] = "del"
    BY <2>1, SendFacts, CommandsAre
  <2>3. OneCommand(h)'
    BY <2>1, <2>2 DEF OneCommand, Alive
  <2>4. /\ Underway(h, "setnx")' => Underway(h, "setnx")
        /\ Underway(h, "expire")' => Underway(h, "expire")
    BY <2>1, <2>2 DEF Underway, Asks, IsTold
  <2> QED BY <2>1, <2>3, <2>4 DEF Duty, Alive
<1> QED
  BY <1>4, <1>5, <1>6, <1>7, <1>8, <1>9, <1>10

\* It takes over, steps down, begins to shut down or is gone.
LEMMA EventDuty ==
  ASSUME Typed, NEW h \in Hosts, OneCommand(h), Duty(h),
         LeaderTakesOver(h) \/ LeaderStepsDown(h) \/ ShutdownBegins(h) \/ ProcessEnds(h)
  PROVE  OneCommand(h)' /\ Duty(h)'
<1>1. /\ process \in [Hosts -> {"off", "starting", "up", "stopping", "closing", "down"}]
      /\ isLeader \in [Hosts -> BOOLEAN] /\ mainTimer \in [Hosts -> Nat]
  BY DEF Typed, TypeOK, ElectionTypeOK
<1>2. {"get", "setnx", "expire", "renew"} = Commands \ {"del"}
  BY CommandsAre
<1>3. StopTracking(h) => mainTimer'[h] = 0
  BY <1>1 DEF StopTracking, Duty
<1>4. CASE LeaderTakesOver(h)
  <2>1. Receive(h, "expire") /\ isLeader' = isLeader /\ requests' = requests /\ Started(h)
    BY <1>4 DEF LeaderTakesOver, TakeOver
  <2>2. /\ Idle(requests[h], replies'[h]) /\ Underway(h, "expire") /\ Alive(h)
        /\ process[h] # "closing" => ~Asks(h, "del") /\ DOMAIN replies'[h] = {}
    BY <2>1, ReceivedAlone DEF Underway, Receive
  <2>3. mainTimer'[h] = 1 /\ isLeader[h]
    BY <1>4, <1>1, <2>2 DEF LeaderTakesOver, StartTracking, Duty
  <2>4. /\ process'[h] = "closing" <=> process[h] = "closing"
        /\ process'[h] \notin {"off", "starting", "down"}
    BY <2>1, <2>2, <1>1 DEF Started, Alive
  <2>5. process[h] # "closing" => DOMAIN requests[h] = {}
    BY <2>2 DEF Idle, Asks
  <2> QED BY <2>1, <2>2, <2>3, <2>4, <2>5, DoneDuty
<1>5. CASE LeaderStepsDown(h)
  <2>1. process' = process /\ isLeader'[h] = FALSE /\ Receive(h, "get")
    BY <1>5, <1>1 DEF LeaderStepsDown, LeaderIsOther, LeadershipVacant, MarkAs
  <2>2. /\ Idle(requests[h], replies'[h]) /\ Alive(h)
        /\ process[h] # "closing" => ~Asks(h, "del") /\ DOMAIN replies'[h] = {}
        /\ ~Underway(h, "setnx") /\ ~Underway(h, "expire")
    BY <2>1, <1>2, ReceivedAlone DEF Receive
  <2>3. CASE LeadershipVacant(h) /\ StopTracking(h)
    <3>1. Send(h, "setnx")
      BY <2>3 DEF LeadershipVacant
    <3>2. OneCommand(h)' /\ Underway(h, "setnx")' /\ ~Underway(h, "expire")'
      BY <3>1, <2>1, <2>2, <1>2, SentAlone
    <3> QED BY <3>2, <2>1, <2>3, <1>3 DEF Duty
  <2>4. CASE LeaderIsOther(h) /\ (IF isLeader[h] THEN StopTracking(h) ELSE UNCHANGED trackerVars)
    <3>1. requests' = requests
      BY <2>4 DEF LeaderIsOther
    <3>2. process[h] # "closing" => DOMAIN requests[h] = {}
      BY <2>2 DEF Idle, Asks
    <3>3. /\ mainTimer'[h] \in {0, 1}
          /\ process[h] = "starting" => mainTimer'[h] = 0
          /\ process[h] = "up" => mainTimer'[h] = 0
      BY <2>2, <2>4, <1>3 DEF Duty, trackerVars
    <3> QED BY <3>1, <3>2, <3>3, <2>1, <2>2, DoneDuty DEF Alive
  <2> QED BY <1>5, <2>3, <2>4 DEF LeaderStepsDown
<1>6. CASE ShutdownBegins(h)
  <2>1. /\ process[h] = "up" /\ process'[h] = "stopping" /\ mainTimer'[h] = 0
        /\ UNCHANGED <<isLeader, requests, replies>>
    BY <1>6, <1>1, <1>3 DEF ShutdownBegins, StopProcess
  <2> QED BY <2>1 DEF OneCommand, Duty, Alive, Underway, Asks, IsTold
<1>7. CASE ProcessEnds(h)
  <2>1. process'[h] = "down" /\ mainTimer'[h] = 0
    BY <1>7, <1>1 DEF ProcessEnds, Closed, Crash, Gone, Memory
  <2> QED BY <2>1 DEF OneCommand, Duty, Alive
<1> QED
  BY <1>4, <1>5, <1>6, <1>7

LEMMA CheckStep == MaxChecks = 1 /\ Typed /\ CheckInv /\ [Next]_vars => CheckInv'
<1> SUFFICES ASSUME MaxChecks = 1, Typed, CheckInv, [Next]_vars PROVE CheckInv'
  OBVIOUS
<1>1. ASSUME NEW h \in Hosts, Step(h), \A g \in Hosts \ {h} : mainTimer'[g] = mainTimer[g],
             OneCommand(h)' /\ Duty(h)'
      PROVE  CheckInv'
  <2>1. ASSUME NEW g \in Hosts \ {h} PROVE OneCommand(g)' /\ Duty(g)'
    BY <1>1, Untouched, OthersDuty DEF CheckInv
  <2> QED BY <2>1, <1>1, FreshStep DEF CheckInv
<1>2. ASSUME NEW h \in Hosts, Execute(h), UNCHANGED trackerVars PROVE CheckInv'
  <2>1. process' = process /\ isLeader' = isLeader /\ mainTimer' = mainTimer
    BY <1>2 DEF Execute, trackerVars
  <2>2. OneCommand(h) /\ Duty(h)
    BY DEF CheckInv
  <2>3. CASE Alive(h)
    <3>1. OneCommand(h)'
      BY <2>2, <2>3, <1>2, ExecutedStays
    <3>2. /\ Underway(h, "setnx")' <=> Underway(h, "setnx")
          /\ Underway(h, "expire")' <=> Underway(h, "expire")
      BY <2>2, <2>3, <1>2, ExecutedStays, CommandsAre
    <3>3. Duty(h)'
      BY <2>1, <2>2, <3>2 DEF Duty, Alive
    <3> QED BY <3>1, <3>3, <2>1, <1>1, <1>2 DEF Step
  <2>4. CASE ~Alive(h)
    <3>1. OneCommand(h)' /\ Duty(h)'
      BY <2>1, <2>2, <2>4 DEF OneCommand, Duty, Alive
    <3> QED BY <3>1, <2>1, <1>1, <1>2 DEF Step
  <2> QED BY <2>3, <2>4
<1>3. ASSUME NEW h \in Hosts, Quiet(h), UNCHANGED trackerVars, ~Execute(h) PROVE CheckInv'
  <2>1. mainTimer' = mainTimer /\ OneCommand(h) /\ Duty(h) /\ Fresh
    BY <1>3 DEF trackerVars, CheckInv
  <2>2. OneCommand(h)' /\ Duty(h)'
    BY <2>1, <1>3, HandlerDuty DEF Quiet
  <2> QED BY <2>1, <2>2, <1>1, <1>3 DEF Quiet, Step
<1>4. ASSUME NEW h \in Hosts,
             LeaderTakesOver(h) \/ LeaderStepsDown(h) \/ ShutdownBegins(h) \/ ProcessEnds(h)
      PROVE  CheckInv'
  <2>1. OneCommand(h)' /\ Duty(h)'
    BY <1>4, EventDuty DEF CheckInv
  <2>2. \A g \in Hosts \ {h} : mainTimer'[g] = mainTimer[g]
    BY <1>4 DEF LeaderTakesOver, LeaderStepsDown, ShutdownBegins, ProcessEnds, StartTracking,
       StopTracking, Memory, trackerVars, Typed, TypeOK
  <2>3. Step(h)
    BY <1>4 DEF LeaderTakesOver, LeaderStepsDown, ShutdownBegins, ProcessEnds, Step
  <2> QED BY <2>1, <2>2, <2>3, <1>1
<1>5. ASSUME UNCHANGED <<process, isLeader, requests, replies, mainTimer>> PROVE CheckInv'
  BY <1>5 DEF CheckInv, Fresh, OneCommand, Duty, Alive, Underway, Asks, IsTold
<1>6. CASE KeyExpires /\ UNCHANGED trackerVars
  BY <1>6, <1>5 DEF KeyExpires, trackerVars
<1>7. ASSUME NEW h \in Hosts, \/ PollRead(h) \/ PollSet(h) \/ \E e \in Waits : TimerFires(h, e)
      PROVE  CheckInv'
  BY <1>7, <1>5 DEF PollRead, PollSet, TimerFires, electionVars
<1>8. CASE UNCHANGED vars
  BY <1>8, <1>5 DEF vars, electionVars, trackerVars
<1> QED
  BY <1>2, <1>3, <1>4, <1>6, <1>7, <1>8 DEF Next

-----------------------------------------------------------------------------
(* The theorems.                                                           *)

LEMMA InitInvariants == Init => Typed /\ KeyInv /\ CheckInv
<1> SUFFICES ASSUME Init PROVE Typed /\ KeyInv /\ CheckInv
  OBVIOUS
<1> USE DEF Init, ElectionInit
<1>1. Typed
  <2>1. <<>> \in Seq(Commands) /\ <<>> \in Seq(Replies)
    BY EmptySeq
  <2>2. ElectionTypeOK
    <3>1. 0 \in 0..MaxExpiries /\ 0 \in 0..MaxExits
      BY ElectionAssumption
    <3> QED BY <2>1, <3>1 DEF ElectionTypeOK
  <2>3. NoQuery \in [busy: BOOLEAN, found: SUBSET Waits]
    BY DEF NoQuery
  <2> QED BY <2>2, <2>3 DEF Typed, TypeOK
<1>2. KeyInv
  BY DEF KeyInv, Fresh, HoldsKey, DeletesOwnKey
<1>3. CheckInv
  BY DEF CheckInv, Fresh, OneCommand, Duty, Alive
<1> QED
  BY <1>1, <1>2, <1>3

\* The types of the election and of the wait trackers.
THEOREM TypeCorrect == Spec => []Typed
  BY InitInvariants, TypedStep, PTL DEF Spec

\* Until the key of a living process expires there are never two leaders, for any number of
\* processes that start, check, crash and shut down in any order, and of checks in flight
\* (tryBecomeLeader(), checkLeader(), shutdown()).
THEOREM OneLeader == Spec => []SingleLeader
<1>1. KeyInv => SingleLeader
  <2> SUFFICES ASSUME KeyInv, expiries = 0 PROVE Cardinality(Leaders) <= 1
    BY DEF SingleLeader
  <2>1. Leaders \subseteq {leaderKey}
    BY DEF KeyInv, HoldsKey, Leaders
  <2>2. IsFiniteSet({leaderKey}) /\ Cardinality({leaderKey}) = 1
    BY FS_Singleton
  <2>3. Cardinality(Leaders) <= Cardinality({leaderKey})
    BY <2>1, <2>2, FS_Subset
  <2> QED BY <2>2, <2>3
<1> QED
  BY <1>1, InitInvariants, KeyStep, TypeCorrect, PTL DEF Spec

\* If the checks of a process do not overlap, its duties are those of the leader: one poll
\* interval at most, and once all its commands have been answered one if and only if it
\* leads, after any sequence of takeovers, stepdowns and shutdowns (MultiMainSetup's events).
THEOREM DutiesFollow == MaxChecks = 1 => (Spec => []Inv)
<1>1. Typed /\ CheckInv => Inv
  <2> SUFFICES ASSUME Typed, CheckInv PROVE DutiesFollowLeadership
    BY DEF Inv, Typed
  <2> SUFFICES ASSUME NEW h \in Hosts
               PROVE  /\ mainTimer[h] <= 1
                      /\ process[h] = "up" /\ InFlight(h) = 0
                         => mainTimer[h] = (IF isLeader[h] THEN 1 ELSE 0)
    BY DEF DutiesFollowLeadership
  <2>1. Duty(h)
    BY DEF CheckInv
  <2>2. InFlight(h) = 0 => ~Underway(h, "setnx") /\ ~Underway(h, "expire")
    <3>1. requests[h] \in Seq(Commands) /\ replies[h] \in Seq(Replies)
      BY DEF Typed, TypeOK, ElectionTypeOK
    <3>2. /\ DOMAIN requests[h] = 1..Len(requests[h]) /\ Len(requests[h]) \in Nat
          /\ DOMAIN replies[h] = 1..Len(replies[h]) /\ Len(replies[h]) \in Nat
      BY <3>1, LenProperties
    <3>3. InFlight(h) = 0 => Len(requests[h]) = 0 /\ Len(replies[h]) = 0
      BY <3>1, LenAdds
    <3> QED BY <3>2, <3>3 DEF Underway, Asks, IsTold
  <2> QED BY <2>1, <2>2 DEF Duty
<1> SUFFICES ASSUME MaxChecks = 1 PROVE Spec => []Inv
  OBVIOUS
<1>2. Typed /\ CheckInv /\ [Next]_vars => CheckInv'
  BY CheckStep
<1> QED
  BY <1>1, <1>2, InitInvariants, TypeCorrect, PTL DEF Spec

=============================================================================
