--------------------------- MODULE WorkflowEngine ---------------------------
(***************************************************************************)
(* The engine of one execution (packages/core/src/WorkflowExecute.ts): a   *)
(* stack of nodes to execute, each with the data of its inputs, and a      *)
(* waiting area for nodes with several inputs of which some have no data   *)
(* yet. This is the order of execution `v1', in which a branch is executed *)
(* to its end before the next one begins.                                  *)
(*                                                                         *)
(* The items that flow along a connection are abstracted to the output     *)
(* that sent them: the node, the run of the node and the output. In v1 an  *)
(* output without items sends nothing. The data of a node's inputs is a    *)
(* function on the inputs that have some.                                  *)
(***************************************************************************)
EXTENDS Integers, Sequences, FiniteSets, SequencesExt

CONSTANTS
  Nodes,        \* the nodes a workflow may have
  NoNode,       \* no node
  Workflows,    \* the workflows the execution may be of
  MaxRuns,      \* bound: runs of a node that send data on
  MaxMishaps    \* bound: failures, waits, cancelations, results without data

\* What the engine reads of a workflow: the node it starts with, the node it is to
\* stop at, the connections of each node in the order of its outputs, where each node is
\* from the top-left to the bottom-right, the inputs of its type and how many of them the
\* type requires to have data (0: it does not say). Outputs, inputs and positions count
\* from 1. The editor makes a connection once (addConnection() of its workflows store).
ASSUME EngineAssumption ==
  /\ IsFiniteSet(Nodes) /\ NoNode \notin Nodes
  /\ MaxRuns \in Nat /\ MaxMishaps \in Nat
  /\ \A w \in Workflows :
       /\ w.start \in Nodes /\ w.destination \in Nodes \cup {NoNode}
       /\ w.connections \in [Nodes -> Seq([output: Nat, node: Nodes, index: Nat \ {0}])]
       /\ \A n \in Nodes : IsInjective(w.connections[n])
       /\ w.position \in [Nodes -> Nat]
       /\ w.inputs \in [Nodes -> Nat] /\ w.required \in [Nodes -> Nat]

VARIABLES
  workflow,
  pc,                  \* the engine is at the head of its loop, runs a node, or has ended
  status,              \* "running", or "canceled" by a stop or a timeout
  nodeExecutionStack,  \* items: a node with the data of its inputs
  executionData,       \* the item last taken from the stack
  waitingExecution,    \* the entries of each node that waits for data
  waitingNodes,        \* the nodes that have entries, the first to wait first
  runData,             \* the runs of each node that has run
  lastNodeExecuted,
  executionError,      \* the node that ran last has failed
  waitTill,            \* a node has put the execution to wait
  result,              \* what the execution has ended with
  delivered,           \* history: the data sent along connections
  consumed,            \* history: the data that nodes have processed
  instance,            \* the engine that works on the execution: the first, or a later one
  mishaps
queueVars == <<nodeExecutionStack, waitingExecution, waitingNodes>>
engineVars == <<pc, status, executionData, executionError, result, instance>>
vars == <<workflow, queueVars, engineVars, runData, lastNodeExecuted, waitTill, delivered, consumed,
          mishaps>>

\* An object with the value of a key set.
Put(object, key, value) ==
  [k \in DOMAIN object \cup {key} |-> IF k = key THEN value ELSE object[k]]
Only(key, value) == Put(<<>>, key, value)

ConnectionsOf(n) == workflow.connections[n]
ConnectionsTo(n) == UNION { { c \in Range(ConnectionsOf(m)) : c.node = n } : m \in Nodes }
Outputs(n)       == { c.output : c \in Range(ConnectionsOf(n)) }

\* connectionsByDestinationNode[n].main.length
Inputs(n) == LET indices == { c.index : c \in ConnectionsTo(n) }
             IN IF indices = {} THEN 0 ELSE Max(indices)

\* getParentNodes(): every node a path leads from to n.
ParentNodes(n) ==
  LET feeding(m) == { k \in Nodes : \E c \in Range(ConnectionsOf(k)) : c.node = m }
      up[depth \in Nat] == IF depth = 0 THEN {n} ELSE UNION { {m} \cup feeding(m) : m \in up[depth - 1] }
  IN up[Cardinality(Nodes)] \ {n}

Datum == [node: Nodes \cup {NoNode}, run: Nat, output: Nat]
IsData(data) == \A i \in DOMAIN data : i \in Nat \ {0} /\ data[i] \in Datum

\* The node of an item is an object of the engine that put it on the stack.
Item(n, data, source) ==
  [node |-> n, data |-> data, source |-> source, disabled |-> FALSE, instance |-> instance]
StartData == Only(1, [node |-> NoNode, run |-> 0, output |-> 1])
NoItem    == [node |-> NoNode, data |-> <<>>, source |-> <<>>, disabled |-> FALSE, instance |-> 0]
IsItem(item) ==
  /\ item.node \in Nodes /\ item.disabled \in BOOLEAN /\ item.instance \in 0..instance
  /\ IsData(item.data) /\ IsData(item.source)

TypeOK ==
  /\ pc \in {"loop", "node", "ended"}
  /\ status \in {"running", "canceled"}
  /\ \A k \in DOMAIN nodeExecutionStack : IsItem(nodeExecutionStack[k])
  /\ executionData = NoItem \/ IsItem(executionData)
  /\ DOMAIN waitingExecution = Nodes
  /\ \A n \in Nodes : \A k \in DOMAIN waitingExecution[n] :
       /\ k \in Nat
       /\ IsData(waitingExecution[n][k].data) /\ IsData(waitingExecution[n][k].source)
       /\ DOMAIN waitingExecution[n][k].data \in (SUBSET (1..Inputs(n))) \ {{}, 1..Inputs(n)}
  /\ Range(waitingNodes) = { n \in Nodes : DOMAIN waitingExecution[n] # {} }
  /\ IsInjective(waitingNodes)
  /\ DOMAIN runData \subseteq Nodes
  /\ \A n \in DOMAIN runData : \A r \in DOMAIN runData[n] :
       runData[n][r].status \in {"success", "error", "waiting"}
  /\ lastNodeExecuted \in Nodes \cup {NoNode}
  /\ executionError \in BOOLEAN /\ waitTill \in BOOLEAN
  /\ result \in {"none", "success", "error", "canceled", "waiting"}
  /\ instance \in 0..mishaps
  /\ mishaps \in 0..MaxMishaps

\* run()
Init ==
  /\ workflow \in Workflows
  /\ instance = 0
  /\ pc = "loop" /\ status = "running"
  /\ nodeExecutionStack = <<Item(workflow.start, StartData, <<>>)>>
  /\ executionData = NoItem
  /\ waitingExecution = [n \in Nodes |-> <<>>] /\ waitingNodes = <<>>
  /\ runData = <<>>
  /\ lastNodeExecuted = NoNode
  /\ executionError = FALSE /\ waitTill = FALSE
  /\ result = "none"
  /\ delivered = {} /\ consumed = {}
  /\ mishaps = 0

Mishap == mishaps < MaxMishaps /\ mishaps' = mishaps + 1

-----------------------------------------------------------------------------
(* addNodeToBeExecuted(). A queue record holds the stack and what waits.   *)

\* (mutant) The node goes to the bottom of the stack.
EnqueuedLast(q, item) == [q EXCEPT !.stack = Append(@, item)]

Enqueued(q, item) == [q EXCEPT !.stack = <<item>> \o @]

\* (mutant) The first entry, whatever it has.
EntryForFirst(entries, input) == IF DOMAIN entries = {} THEN 0 ELSE Min(DOMAIN entries)

\* The entry of n that data of an input is added to: the first that has none for
\* it, else a new one, whose index is the number of entries there are.
EntryFor(entries, input) ==
  LET lacking == { k \in DOMAIN entries : input \notin DOMAIN entries[k].data }
  IN IF lacking # {} THEN Min(lacking) ELSE Cardinality(DOMAIN entries)

\* The entry with the data added. If others are still missing
\* prepareWaitingToExecution() clears the sources of those that came before.
Added(entries, k, input, datum) ==
  IF k \in DOMAIN entries /\ input \notin DOMAIN entries[k].data
  THEN [data |-> Put(entries[k].data, input, datum), source |-> entries[k].source]
  ELSE [data |-> Only(input, datum), source |-> <<>>]

\* The entries of n replaced; a node without entries is no longer in the waiting area.
Waits(q, n, entries) ==
  [q EXCEPT !.waiting[n] = entries,
            !.nodes = IF DOMAIN entries = {} THEN RemoveFirst(@, n)
                      ELSE IF Contains(@, n) THEN @ ELSE Append(@, n)]

Without(entries, k) == [j \in DOMAIN entries \ {k} |-> entries[j]]

AddNodeToBeExecuted(q, c, datum) ==
  IF Inputs(c.node) <= 1
  THEN Enqueued(q, Item(c.node, Only(1, datum), Only(1, datum)))
  ELSE LET entries == q.waiting[c.node]
           k       == EntryFor(entries, c.index)
           entry   == Added(entries, k, c.index, datum)
       IN IF DOMAIN entry.data = 1..Inputs(c.node)
          THEN Waits(Enqueued(q, Item(c.node, entry.data, Put(entry.source, c.index, datum))),
                     c.node, Without(entries, k))
          ELSE Waits(q, c.node,
                     Put(entries, k, [data |-> entry.data, source |-> Only(c.index, datum)]))

\* The connections of the outputs that have data, the bottom-right node first, so
\* that the top-left one ends on top of the stack.
NodesToAdd(n, outputs) ==
  LET all     == ConnectionsOf(n)
      sending == { i \in DOMAIN all : all[i].output \in outputs }
      UpTo(i) == { j \in sending : \/ workflow.position[all[j].node] > workflow.position[all[i].node]
                                  \/ /\ workflow.position[all[j].node] = workflow.position[all[i].node]
                                     /\ j <= i }
      Nth(k)  == CHOOSE i \in sending : Cardinality(UpTo(i)) = k
  IN [k \in 1..Cardinality(sending) |-> all[Nth(k)]]

AddNodes(q, n, run, outputs) ==
  LET connections == NodesToAdd(n, outputs)
      Sent(c) == [node |-> n, run |-> run, output |-> c.output]
      added[i \in 0..Len(connections)] ==
        IF i = 0 THEN q
        ELSE AddNodeToBeExecuted(added[i - 1], connections[i], Sent(connections[i]))
  IN added[Len(connections)]

-----------------------------------------------------------------------------
(* The search for a waiting node when the stack is empty.                  *)

\* (mutant) The nodes on a path to n are not looked at.
MayRunEarly(q, n) ==
  LET entries == q.waiting[n] IN
  \/ workflow.required[n] = 0
  \/ /\ workflow.required[n] # workflow.inputs[n]
     /\ Cardinality(DOMAIN entries[Min(DOMAIN entries)].data) >= workflow.required[n]

\* The first entry of n may be executed although inputs have no data: its type does
\* not require them, and no node on a path to n waits itself.
MayRun(q, n) ==
  LET entries == q.waiting[n] IN
  /\ \/ workflow.required[n] = 0
     \/ /\ workflow.required[n] # workflow.inputs[n]
        /\ Cardinality(DOMAIN entries[Min(DOMAIN entries)].data) >= workflow.required[n]
  /\ ParentNodes(n) \cap Range(q.nodes) = {}

\* (mutant) Only the node that has waited longest is looked at.
SearchFirst(q) ==
  IF q.stack # <<>> \/ q.nodes = <<>> THEN q
  ELSE LET n == Head(q.nodes)
           k == Min(DOMAIN q.waiting[n])
           entry == q.waiting[n][k]
       IN IF ~MayRun(q, n) THEN q
          ELSE Waits([q EXCEPT !.stack = <<Item(n, entry.data, entry.source)>>], n, Without(q.waiting[n], k))

Search(q) ==
  LET ready == { i \in DOMAIN q.nodes : MayRun(q, q.nodes[i]) } IN
  IF q.stack # <<>> \/ ready = {} THEN q
  ELSE LET n == q.nodes[Min(ready)]
           k == Min(DOMAIN q.waiting[n])
           entry == q.waiting[n][k]
       IN Waits([q EXCEPT !.stack = <<Item(n, entry.data, entry.source)>>], n, Without(q.waiting[n], k))

-----------------------------------------------------------------------------
(* The loop over the stack, processRunExecutionData().                     *)

Tokens(item) == { [to |-> item.node, index |-> i, datum |-> item.data[i]] : i \in DOMAIN item.data }

\* runNodeFilter: with a destination, its ancestors and itself are executed.
RunNodeFilter ==
  IF workflow.destination = NoNode THEN Nodes
  ELSE ParentNodes(workflow.destination) \cup {workflow.destination}

Shift ==
  /\ pc = "loop" /\ status = "running" /\ nodeExecutionStack # <<>>
  /\ executionData' = Head(nodeExecutionStack)
  /\ nodeExecutionStack' = Tail(nodeExecutionStack)
  /\ executionError' = FALSE
  /\ UNCHANGED <<workflow, status, waitingExecution, waitingNodes, runData, lastNodeExecuted, waitTill,
                 result, delivered, instance, mishaps>>

Take ==
  /\ Shift
  /\ Head(nodeExecutionStack).node \in RunNodeFilter
  /\ pc' = "node" /\ UNCHANGED consumed

Skip ==
  /\ Shift
  /\ Head(nodeExecutionStack).node \notin RunNodeFilter
  /\ consumed' = consumed \cup Tokens(Head(nodeExecutionStack)) /\ UNCHANGED pc

RunsOf(n)   == IF n \in DOMAIN runData THEN runData[n] ELSE <<>>
StartTime   == Cardinality(UNION { {n} \X DOMAIN runData[n] : n \in DOMAIN runData })
Run(status_) == [data |-> executionData.data, source |-> executionData.source, status |-> status_,
                 startTime |-> StartTime]
PushRun(status_) ==
  LET n == executionData.node IN runData' = Put(runData, n, Append(RunsOf(n), Run(status_)))

\* The node has a result with items for these outputs. The nodes behind them are
\* added, unless it is the destination; with an empty stack the waiting nodes are searched.
Proceed(status_, outputs) ==
  LET n   == executionData.node
      run == Len(RunsOf(n))
      q   == [stack |-> nodeExecutionStack, waiting |-> waitingExecution, nodes |-> waitingNodes]
      added == IF n = workflow.destination THEN q ELSE Search(AddNodes(q, n, run, outputs))
      sent  == IF n = workflow.destination THEN {} ELSE
                 { [to |-> c.node, index |-> c.index, datum |-> [node |-> n, run |-> run, output |-> c.output]] :
                     c \in Range(NodesToAdd(n, outputs)) }
  IN /\ PushRun(status_)
     /\ nodeExecutionStack' = added.stack
     /\ waitingExecution' = added.waiting /\ waitingNodes' = added.nodes
     /\ delivered' = delivered \cup sent
     /\ consumed' = consumed \cup Tokens(executionData)
     /\ lastNodeExecuted' = n /\ pc' = "loop"

\* A disabled node passes the data of its first input on.
FirstInput == Outputs(executionData.node) \cap (DOMAIN executionData.data \cap {1})

NodeReturns(outputs) ==
  /\ pc = "node"
  /\ outputs \subseteq Outputs(executionData.node)
  /\ executionData.disabled => outputs = FirstInput
  /\ executionData.disabled \/ outputs = {} \/ Len(RunsOf(executionData.node)) < MaxRuns
  /\ Proceed("success", outputs)
  /\ UNCHANGED <<workflow, status, executionData, executionError, waitTill, result, instance, mishaps>>

\* The node returns null: the branch ends here, and the search for waiting nodes is left out.
NodeReturnsNull ==
  /\ pc = "node" /\ ~executionData.disabled /\ Mishap
  /\ lastNodeExecuted' = executionData.node /\ pc' = "loop"
  /\ consumed' = consumed \cup Tokens(executionData)
  /\ UNCHANGED <<workflow, status, queueVars, executionData, executionError, runData, waitTill, result,
                 delivered, instance>>

\* The node throws and is set to continue: its first input is its result.
NodeContinuesOnFail ==
  /\ pc = "node" /\ ~executionData.disabled /\ Mishap
  /\ FirstInput # {} => Len(RunsOf(executionData.node)) < MaxRuns
  /\ Proceed("error", FirstInput)
  /\ executionError' = TRUE
  /\ UNCHANGED <<workflow, status, executionData, waitTill, result, instance>>

\* The engine leaves the loop with the item back on the stack.
PutBack(status_, result_) ==
  /\ PushRun(status_)
  /\ nodeExecutionStack' = <<executionData>> \o nodeExecutionStack
  /\ lastNodeExecuted' = executionData.node
  /\ pc' = "ended" /\ result' = IF status = "canceled" THEN "canceled" ELSE result_
  /\ UNCHANGED <<workflow, status, executionData, waitingExecution, waitingNodes, delivered, consumed,
                 instance>>

NodeFails ==
  /\ pc = "node" /\ ~executionData.disabled /\ Mishap
  /\ PutBack("error", "error")
  /\ executionError' = TRUE /\ UNCHANGED waitTill

NodeWaits ==
  /\ pc = "node" /\ ~executionData.disabled /\ Mishap
  /\ PutBack("waiting", "waiting")
  /\ waitTill' = TRUE /\ UNCHANGED executionError

\* A stop or a timeout.
Cancel ==
  /\ pc # "ended" /\ status = "running" /\ Mishap
  /\ status' = "canceled"
  /\ UNCHANGED <<workflow, pc, queueVars, executionData, executionError, runData, lastNodeExecuted,
                 waitTill, result, delivered, consumed, instance>>

\* (mutant) An execution that was canceled stays in the loop.
LoopEndsEmpty ==
  /\ pc = "loop" /\ nodeExecutionStack = <<>>
  /\ pc' = "ended"
  /\ result' = IF status = "canceled" THEN "canceled" ELSE IF executionError THEN "error" ELSE "success"
  /\ UNCHANGED <<workflow, status, queueVars, executionData, executionError, runData, lastNodeExecuted,
                 waitTill, delivered, consumed, instance, mishaps>>

LoopEnds ==
  /\ pc = "loop" /\ (nodeExecutionStack = <<>> \/ status = "canceled")
  /\ pc' = "ended"
  /\ result' = IF status = "canceled" THEN "canceled" ELSE IF executionError THEN "error" ELSE "success"
  /\ UNCHANGED <<workflow, status, queueVars, executionData, executionError, runData, lastNodeExecuted,
                 waitTill, delivered, consumed, instance, mishaps>>

\* A new engine with what the last one has left.
Restarted ==
  /\ pc = "ended" /\ pc' = "loop" /\ status' = "running" /\ result' = "none"
  /\ executionData' = NoItem /\ executionError' = FALSE
  /\ instance' = instance + 1
  /\ UNCHANGED <<workflow, waitingExecution, waitingNodes, lastNodeExecuted, delivered, consumed, mishaps>>

\* (mutant) The last run stays.
PopRunNot(n) == UNCHANGED runData

PopRun(n) == runData' = [runData EXCEPT ![n] = Front(@)]

\* The wait is over. The node of the head of the stack is disabled, with it every item of
\* the stack that has the same node object.
Resume ==
  /\ result = "waiting" /\ Restarted
  /\ waitTill' = FALSE
  /\ PopRun(lastNodeExecuted)
  /\ LET head == Head(nodeExecutionStack)
         Same(item) == item.node = head.node /\ item.instance = head.instance
     IN nodeExecutionStack' = [k \in DOMAIN nodeExecutionStack |->
          IF Same(nodeExecutionStack[k]) THEN [nodeExecutionStack[k] EXCEPT !.disabled = TRUE]
          ELSE nodeExecutionStack[k]]

\* A user retries the failed execution, which needs an item on the stack.
Retry ==
  /\ result = "error" /\ nodeExecutionStack # <<>> /\ Restarted
  /\ PopRun(lastNodeExecuted)
  /\ UNCHANGED <<nodeExecutionStack, waitTill>>

Next == \/ Take \/ Skip \/ NodeReturnsNull \/ NodeContinuesOnFail \/ NodeFails \/ NodeWaits
        \/ \E outputs \in SUBSET UNION { Outputs(n) : n \in Nodes } : NodeReturns(outputs)
        \/ Cancel \/ LoopEnds \/ Resume \/ Retry

\* The loop is code that runs by itself, and no node runs for ever.
Spec == Init /\ [][Next]_vars /\ WF_vars(Take \/ Skip \/ LoopEnds) /\ []<>(pc # "node")

-----------------------------------------------------------------------------

\* The places where data that was sent is: entries of the waiting area, items of the stack,
\* the node that runs, and what has been processed.
Places(t) ==
  LET Has(data) == t.index \in DOMAIN data /\ data[t.index] = t.datum
      waiting == { k \in DOMAIN waitingExecution[t.to] : Has(waitingExecution[t.to][k].data) }
      stacked == { k \in DOMAIN nodeExecutionStack :
                     nodeExecutionStack[k].node = t.to /\ Has(nodeExecutionStack[k].data) }
      running == pc = "node" /\ executionData.node = t.to /\ Has(executionData.data)
  IN Cardinality(waiting) + Cardinality(stacked)
       + (IF running THEN 1 ELSE 0) + (IF t \in consumed THEN 1 ELSE 0)

\* No input of a node with two inputs is sent data three times, of one with more inputs twice.
Few(sent) ==
  \A t, u, v \in sent :
    t.to = u.to /\ u.to = v.to /\ t.index = u.index /\ u.index = v.index =>
      \/ Inputs(t.to) <= 1
      \/ t = u
      \/ Inputs(t.to) = 2 /\ (t = v \/ u = v)

\* Data that was sent to a node is in one place: addNodeToBeExecuted() neither hands it to two
\* runs nor drops it. (With more data for a merge it may drop some: the index of a new entry is
\* how many entries there are, which may be that of an entry that waits.)
DataKept == \A t \in delivered : Places(t) = 1 \/ (Places(t) = 0 /\ ~Few(delivered))

\* A node that was executed without data on an input gets none for it afterwards: the
\* search picks a node only when nothing that leads to it waits itself. (In a workflow
\* without loops.)
Acyclic ==
  \A n \in Nodes : \A c \in Range(ConnectionsOf(n)) : c.node \notin {n} \cup ParentNodes(n)
RanWithout(n, i) ==
  /\ i \in 1..Inputs(n)
  /\ \/ \E r \in DOMAIN RunsOf(n) : i \notin DOMAIN runData[n][r].data
     \/ \E k \in DOMAIN nodeExecutionStack :
          nodeExecutionStack[k].node = n /\ i \notin DOMAIN nodeExecutionStack[k].data
NoLateData ==
  [][\A t \in delivered' \ delivered : RanWithout(t.to, t.index) => ~Acyclic]_vars

\* An execution that has succeeded leaves a node waiting only if its type requires
\* data that never came, or a node that leads to it is left waiting. (If the last node
\* taken from the stack was executed and returned a result: only then is there a search.)
Lacks(n) ==
  /\ workflow.required[n] # 0
  /\ \/ workflow.required[n] = workflow.inputs[n]
     \/ Cardinality(DOMAIN waitingExecution[n][Min(DOMAIN waitingExecution[n])].data) < workflow.required[n]
Searched ==
  /\ executionData.node # workflow.destination
  /\ \E r \in DOMAIN RunsOf(executionData.node) :
       runData[executionData.node][r].data = executionData.data
Served ==
  \A n \in Range(waitingNodes) :
    Lacks(n) \/ ParentNodes(n) \cap Range(waitingNodes) # {}
ServedUnlessRequired == result = "success" /\ Searched => Served

\* A branch is executed to its end before the next one begins: nothing on the stack
\* was sent by a later run than what the node that runs was given.
SentAt(data) == { runData[data[i].node][data[i].run + 1].startTime :
                    i \in { j \in DOMAIN data : data[j].node # NoNode } }
BranchOrder ==
  pc = "node" =>
    \A k \in DOMAIN nodeExecutionStack : \A late \in SentAt(nodeExecutionStack[k].data) :
      \E t \in SentAt(executionData.data) : late <= t

\* While an engine works, data that was sent is the input of one run at most, and of none
\* if its item is still to be executed: who resumes or retries takes the old run back.
RecordedOnce ==
  pc # "ended" =>
    \A n \in DOMAIN runData : \A r \in DOMAIN runData[n] :
      LET data == runData[n][r].data IN
      /\ \A s \in DOMAIN runData[n] \ {r} : runData[n][s].data # data
      /\ \A k \in DOMAIN nodeExecutionStack :
           nodeExecutionStack[k].node = n => nodeExecutionStack[k].data # data
      /\ pc = "node" /\ executionData.node = n => executionData.data # data

\* A node that runs knows the source of each input it has data on.
SourceMatchesData ==
  pc = "node" /\ executionData.data # StartData => executionData.source = executionData.data

\* The state of an engine is consistent: of its types, what was processed is recorded once,
\* with its sources (processRunExecutionData(), addNodeToBeExecuted(), retry()).
Inv == TypeOK /\ RecordedOnce /\ SourceMatchesData

\* An engine ends.
EngineEnds == <>[](pc = "ended")

=============================================================================
