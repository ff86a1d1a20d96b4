--------------------------- MODULE LeaderElection ---------------------------
(***************************************************************************)
(* Several main processes agree on a leader by a key in Redis              *)
(* (packages/cli/src/scaling/multi-main-setup.ee.ts).  Every process tries *)
(* to set the key when it starts and looks at it every few seconds.        *)
(*                                                                         *)
(* A process talks to Redis over one connection (pubsub/publisher.service. *)
(* ts): its commands are executed in the order they were sent, and the     *)
(* replies come back in that order.  The checks of one process overlap     *)
(* when Redis is slow or away, since the timer does not wait for them.     *)
(***************************************************************************)
EXTENDS Integers, Sequences, FiniteSets

CONSTANTS
  Hosts,       \* host ids: a process that starts has a new one
  NoHost,
  MaxChecks,   \* bound: checks of one process in flight at a time
  MaxExpiries, \* bound: how often the key of a living process expires
  MaxExits     \* bound: processes that crash or are shut down

ASSUME ElectionAssumption ==
  /\ IsFiniteSet(Hosts) /\ NoHost \notin Hosts
  /\ MaxChecks \in Nat \ {0} /\ MaxExpiries \in Nat /\ MaxExits \in Nat

VARIABLES
  process,    \* each process
  isLeader,   \* what each process holds itself for
  leaderKey,  \* the key in Redis, and whether it has a time to live
  expires,
  requests,   \* commands of each process on their way to Redis
  replies,    \* replies on their way back
  expiries, exits
electionVars == <<process, isLeader, leaderKey, expires, requests, replies, expiries, exits>>

Commands == {"get", "setnx", "expire", "renew", "del"}
Replies  == [command: Commands, value: Hosts \cup {NoHost}]

ElectionTypeOK ==
  /\ process \in [Hosts -> {"off", "starting", "up", "stopping", "closing", "down"}]
  /\ isLeader \in [Hosts -> BOOLEAN]
  /\ leaderKey \in Hosts \cup {NoHost}
  /\ expires \in BOOLEAN
  /\ requests \in [Hosts -> Seq(Commands)]
  /\ replies \in [Hosts -> Seq(Replies)]
  /\ expiries \in 0..MaxExpiries /\ exits \in 0..MaxExits

ElectionInit ==
  /\ process = [h \in Hosts |-> "off"]
  /\ isLeader = [h \in Hosts |-> FALSE]
  /\ leaderKey = NoHost /\ expires = FALSE
  /\ requests = [h \in Hosts |-> <<>>]
  /\ replies = [h \in Hosts |-> <<>>]
  /\ expiries = 0 /\ exits = 0

Alive(h)     == process[h] \in {"starting", "up", "stopping", "closing"}
Leaders      == { h \in Hosts : process[h] \in {"up", "stopping"} /\ isLeader[h] }
InFlight(h)  == Len(requests[h]) + Len(replies[h])
keyVars      == <<leaderKey, expires>>
boundVars    == <<expiries, exits>>

Send(h, command) == requests' = [requests EXCEPT ![h] = Append(@, command)]

-----------------------------------------------------------------------------
(* Redis.                                                                  *)

\* The value of the reply to setnx is the process when it set the key.
Reply(h, command, value) ==
  replies' = IF Alive(h)
             THEN [replies EXCEPT ![h] = Append(@, [command |-> command, value |-> value])]
             ELSE replies

\* (mutant) The key is set although there is one.
SetAlways(h) ==
  /\ leaderKey' = h
  /\ expires' = FALSE
  /\ Reply(h, "setnx", h)

SetIfNotExists(h) ==
  /\ IF leaderKey = NoHost THEN leaderKey' = h /\ expires' = FALSE ELSE UNCHANGED keyVars
  /\ Reply(h, "setnx", IF leaderKey = NoHost THEN h ELSE NoHost)

\* The next command of a process is executed, whoever holds the key.
Execute(h) ==
  LET command == Head(requests[h]) IN
  /\ requests[h] # <<>>
  /\ requests' = [requests EXCEPT ![h] = Tail(@)]
  /\ \/ command = "setnx" /\ SetIfNotExists(h)
     \/ command = "get" /\ Reply(h, "get", leaderKey) /\ UNCHANGED keyVars
     \/ /\ command \in {"expire", "renew"}
        /\ expires' = (leaderKey # NoHost)
        /\ Reply(h, command, NoHost) /\ UNCHANGED leaderKey
     \/ /\ command = "del"
        /\ leaderKey' = NoHost /\ expires' = FALSE
        /\ Reply(h, "del", NoHost)
  /\ UNCHANGED <<process, isLeader, boundVars>>

\* The time to live of the key is over.  A living holder renews it in time, but
\* for MaxExpiries times.
KeyExpires ==
  /\ leaderKey # NoHost /\ expires
  /\ IF Alive(leaderKey)
     THEN expiries < MaxExpiries /\ expiries' = expiries + 1
     ELSE UNCHANGED expiries
  /\ leaderKey' = NoHost /\ expires' = FALSE
  /\ UNCHANGED <<process, isLeader, requests, replies, exits>>

-----------------------------------------------------------------------------
(* init(), checkLeader(), tryBecomeLeader().                               *)

Start(h) ==
  /\ process[h] = "off"
  /\ process' = [process EXCEPT ![h] = "starting"]
  /\ Send(h, "setnx")
  /\ UNCHANGED <<isLeader, replies, keyVars, boundVars>>

\* The timer of leaderCheckInterval, which is set when init() has finished.
Check(h) ==
  /\ process[h] \in {"up", "stopping"}
  /\ InFlight(h) < MaxChecks
  /\ Send(h, "get")
  /\ UNCHANGED <<process, isLeader, replies, keyVars, boundVars>>

Receive(h, command) ==
  /\ Alive(h)
  /\ replies[h] # <<>> /\ Head(replies[h]).command = command
  /\ replies' = [replies EXCEPT ![h] = Tail(@)]
Received(h) == Head(replies[h]).value

MarkAs(h, leader) == isLeader' = [isLeader EXCEPT ![h] = leader]

\* The end of tryBecomeLeader(): a process that starts has started.
Started(h) ==
  process' = IF process[h] = "starting" THEN [process EXCEPT ![h] = "up"] ELSE process

LeaderIsThis(h) ==
  /\ Receive(h, "get") /\ Received(h) = h
  /\ Send(h, "renew")
  /\ UNCHANGED <<process, isLeader, keyVars, boundVars>>

Renewed(h) ==
  /\ Receive(h, "renew")
  /\ UNCHANGED <<process, isLeader, requests, keyVars, boundVars>>

\* (mutant) A leader that has been replaced goes on.
OtherIgnored(h) ==
  /\ Receive(h, "get") /\ Received(h) \notin {h, NoHost}
  /\ UNCHANGED <<process, isLeader, requests, keyVars, boundVars>>

\* `leader-stepdown' if this process was the leader.
LeaderIsOther(h) ==
  /\ Receive(h, "get") /\ Received(h) \notin {h, NoHost}
  /\ MarkAs(h, FALSE)
  /\ UNCHANGED <<process, requests, keyVars, boundVars>>

\* `leader-stepdown' and the next attempt.
LeadershipVacant(h) ==
  /\ Receive(h, "get") /\ Received(h) = NoHost
  /\ MarkAs(h, FALSE)
  /\ Send(h, "setnx")
  /\ UNCHANGED <<process, keyVars, boundVars>>

BecomeLeader(h) ==
  /\ Receive(h, "setnx") /\ Received(h) = h
  /\ MarkAs(h, TRUE)
  /\ Send(h, "expire")
  /\ UNCHANGED <<process, keyVars, boundVars>>

StayFollower(h) ==
  /\ Receive(h, "setnx") /\ Received(h) # h
  /\ MarkAs(h, FALSE)
  /\ Started(h)
  /\ UNCHANGED <<requests, keyVars, boundVars>>

\* `leader-takeover'.
TakeOver(h) ==
  /\ Receive(h, "expire")
  /\ Started(h)
  /\ UNCHANGED <<isLeader, requests, keyVars, boundVars>>

-----------------------------------------------------------------------------
(* Shutdown (start.ts) and crash.                                          *)

Exit == exits < MaxExits /\ exits' = exits + 1

\* stopProcess() begins; the checks go on.
StopProcess(h) ==
  /\ process[h] = "up"
  /\ Exit
  /\ process' = [process EXCEPT ![h] = "stopping"]
  /\ UNCHANGED <<isLeader, requests, replies, keyVars, expiries>>

\* shutdown(): a leader, and only a leader, clears the key.
Shutdown(h) ==
  /\ process[h] = "stopping"
  /\ process' = [process EXCEPT ![h] = "closing"]
  /\ IF isLeader[h] THEN Send(h, "del") ELSE UNCHANGED requests
  /\ UNCHANGED <<isLeader, replies, keyVars, boundVars>>

\* The process is gone: what it sent last may not have been executed.
Gone(h) ==
  /\ process' = [process EXCEPT ![h] = "down"]
  /\ \E n \in 0..Len(requests[h]) : requests' = [requests EXCEPT ![h] = SubSeq(@, 1, n)]
  /\ replies' = [replies EXCEPT ![h] = <<>>]

Closed(h) ==
  /\ process[h] = "closing"
  /\ \A i \in 1..Len(requests[h]) : requests[h][i] # "del"
  /\ Gone(h)
  /\ UNCHANGED <<isLeader, keyVars, boundVars>>

\* Also in the middle of a shutdown. A key that is deleted thereafter counts as deleted before.
Crash(h) ==
  /\ Alive(h)
  /\ IF process[h] \in {"starting", "up"} THEN Exit ELSE UNCHANGED exits
  /\ Gone(h)
  /\ \A i \in 1..Len(requests'[h]) : requests'[h][i] # "del"
  /\ UNCHANGED <<isLeader, keyVars, expiries>>

=============================================================================
