------------------------- MODULE PartialExecution -------------------------
(***************************************************************************)
(* What WorkflowExecute.runPartialWorkflow2() prepares when a user runs a  *)
(* workflow up to one node: the subgraph from the trigger to that node,    *)
(* the nodes to start from, what is kept of the run data, and the stack of *)
(* executions.  One step of the model for each of its numbered steps.      *)
(*                                                                         *)
(* Nodes are numbers, the trigger is 1 and the order of the nodes of the   *)
(* workflow is theirs.  A node has one output.  One node may be disabled,  *)
(* one pinned.  Connections of other types than Main are left out.         *)
(***************************************************************************)
EXTENDS Naturals, Sequences, FiniteSetsExt, SequencesExt

CONSTANTS
  N,                \* bound: nodes
  Destinations,     \* nodes to run up to
  Merges, Inputs,   \* nodes with so many inputs
  MaxConnections,   \* bound: connections of a workflow
  Data,             \* what run data nodes may have
  Special           \* may a node be disabled or pinned?

Nodes   == 1..N
Trigger == 1
Nobody  == 0

ASSUME PartialExecutionAssumption ==
  /\ {N, Inputs, MaxConnections} \subseteq Nat
  /\ Destinations \cup Merges \subseteq Nodes \ {Trigger}
  /\ Data \subseteq {"none", "failed", "empty", "items"} /\ Special \in BOOLEAN

VARIABLES
  connections,   \* of the workflow
  destination,
  disabled, pinned,   \* the node that is, or Nobody
  runData,       \* of each node: none, a run that failed and has no data, a run without items,
                 \* a run with items
  step,          \* how far runPartialWorkflow2() is
  subgraph,      \* connections of the subgraph
  startNodes,
  newRunData,    \* nodes that keep their run data
  stack,         \* nodeExecutionStack: a node, the connections its data comes from and source
  waiting        \* waitingExecution: a node and the connections its data comes from
inputs == <<connections, destination, disabled, pinned, runData>>
vars   == <<inputs, step, subgraph, startNodes, newRunData, stack, waiting>>

Connection(from, to, input) == [from |-> from, to |-> to, input |-> input]
AllConnections ==
  { c \in [from: Nodes, to: Nodes \ {Trigger}, input: 1..Inputs] :
      c.from # c.to /\ (c.input = 1 \/ c.to \in Merges) }

Into(C, n)  == { c \in C : c.to = n }
OutOf(C, n) == { c \in C : c.from = n }
NodesOf(C)  == { c.from : c \in C } \cup { c.to : c \in C }
Successors(C, S) == { c.to : c \in { d \in C : d.from \in S } }

RECURSIVE Closure(_, _)
Closure(C, S) == IF Successors(C, S) \subseteq S THEN S ELSE Closure(C, S \cup Successors(C, S))
\* can n be reached from m, by at least one connection?
Reaches(C, m, n) == n \in Closure(C, Successors(C, {m}))

Init ==
  /\ connections \in UNION { kSubset(k, AllConnections) : k \in 1..MaxConnections }
  /\ destination \in Destinations
  /\ Reaches(connections, Trigger, destination)    \* or the call throws
  /\ runData \in [Nodes -> Data]
  /\ LET special == IF Special THEN Nodes \ {Trigger, destination} ELSE {} IN
       \/ disabled = Nobody /\ pinned \in special \cup {Nobody}
       \/ disabled \in special /\ pinned = Nobody
  /\ step = "findSubgraph"
  /\ subgraph = {} /\ startNodes = {} /\ newRunData = {} /\ stack = {} /\ waiting = {}

-----------------------------------------------------------------------------
(* findSubgraph(), of the graph without the disabled nodes.                *)

\* removeNode() with its parents connected to its children
WithoutNode(C, n) ==
  { c \in C : n \notin {c.from, c.to} } \cup
  { Connection(in.from, out.to, out.input) : in \in Into(C, n), out \in OutOf(C, n) }

FilterDisabledNodes == IF disabled = Nobody THEN connections
                       ELSE WithoutNode(connections, disabled)

\* (mutant) A node met before ends the branch.
RECURSIVE FindWithoutLoops(_, _, _)
FindWithoutLoops(C, current, branch) ==
  IF current = Trigger THEN branch
  ELSE IF Into(branch, current) # {} THEN {}
  ELSE UNION { FindWithoutLoops(C, c.from, branch \cup {c}) : c \in Into(C, current) }
\* the connections of the branches worth keeping, from current back to the trigger
RECURSIVE FindSubgraphRecursive(_, _, _)
FindSubgraphRecursive(C, current, branch) ==
  LET visited == Into(branch, current) # {} IN
  IF current = Trigger THEN branch
  ELSE IF visited THEN IF current = destination THEN {} ELSE branch
  ELSE UNION { FindSubgraphRecursive(C, c.from, branch \cup {c}) : c \in Into(C, current) }

FindSubgraph ==
  /\ step = "findSubgraph"
  /\ subgraph' = FindSubgraphRecursive(FilterDisabledNodes, destination, {})
  /\ step' = "findStartNodes"
  /\ UNCHANGED <<inputs, startNodes, newRunData, stack, waiting>>

-----------------------------------------------------------------------------
(* findStartNodes().                                                       *)

IsDirty(n) == n # pinned /\ runData[n] = "none"

\* what the assertions of getIncomingData() make of a pinned node without run data, and of a
\* node whose run failed
NoRunData == 0

RECURSIVE FindStartNodesRecursive(_, _)
FindStartNodesRecursive(current, seen) ==
  IF IsDirty(current) \/ current = destination THEN {current}
  ELSE IF current \in seen THEN {}
  ELSE IF runData[current] \in {"none", "failed"} THEN {NoRunData}
  ELSE IF runData[current] = "empty" THEN {}
  ELSE UNION { FindStartNodesRecursive(c.to, seen \cup {current}) :
                 c \in OutOf(subgraph, current) }

FindStartNodes ==
  /\ step = "findStartNodes"
  /\ startNodes' = FindStartNodesRecursive(Trigger, {})
  /\ step' = IF NoRunData \in startNodes' THEN "thrown" ELSE "handleCycles"
  /\ UNCHANGED <<inputs, subgraph, newRunData, stack, waiting>>

-----------------------------------------------------------------------------
(* handleCycles(), of the whole graph.                                     *)

Children(C, n) == SetToSortSeq({ c.to : c \in OutOf(C, n) }, <)

\* Tarjan's algorithm: st has the ids and low-link values of the nodes visited, the stack
\* and the components found
Visit(st, n) == [st EXCEPT !.ids[n] = st.next, !.low[n] = st.next, !.next = @ + 1,
                           !.stack = Append(@, n)]

\* (mutant) Pops all that is on the stack.
PoppedAll(st, n) == 1
\* the top of the stack whose low-link value is the id of n
Popped(st, n) ==
  LET from == { i \in 1..Len(st.stack) :
                  \A k \in i..Len(st.stack) : st.low[st.stack[k]] = st.ids[n] }
  IN IF from = {} THEN Len(st.stack) + 1 ELSE Min(from)

RECURSIVE FollowNode(_, _, _)
FollowNode(C, st, n) ==
  IF st.ids[n] # Nobody THEN st
  ELSE LET Follow(acc, child) ==
             LET then == FollowNode(C, acc, child) IN
             IF Contains(then.stack, child)
             THEN [then EXCEPT !.low[n] = Min({@, then.low[child]})] ELSE then
           st2 == FoldLeft(Follow, Visit(st, n), Children(C, n))
           k   == Popped(st2, n)
       IN IF st2.ids[n] # st2.low[n] \/ k > Len(st2.stack) THEN st2
          ELSE [st2 EXCEPT !.stack = SubSeq(@, 1, k - 1),
                  !.found = @ \cup {{ st2.stack[i] : i \in k..Len(st2.stack) }}]

GetStronglyConnectedComponents(C) ==
  LET none == [n \in Nodes |-> Nobody]
      st   == [next |-> 1, ids |-> none, low |-> none, stack |-> <<>>, found |-> {}]
  IN FoldLeft(LAMBDA acc, n : FollowNode(C, acc, n), st, [i \in Nodes |-> i]).found

\* depthFirstSearch(): st has the nodes seen and the first one that is in S
RECURSIVE DepthFirst(_, _, _, _)
DepthFirst(C, st, n, S) ==
  IF st.first # Nobody \/ n \in st.seen THEN st
  ELSE IF n \in S THEN [st EXCEPT !.first = n]
  ELSE FoldLeft(LAMBDA acc, child : DepthFirst(C, acc, child, S),
                [st EXCEPT !.seen = @ \cup {n}], Children(C, n))

DepthFirstSearch(C, from, S) ==
  DepthFirst(C, [seen |-> {}, first |-> Nobody], from, S).first

StartOfCycle(n) ==
  LET cycles == { S \in GetStronglyConnectedComponents(connections) : n \in S } IN
  { n : none \in IF cycles = {} THEN {n} ELSE {} } \cup
  { DepthFirstSearch(connections, Trigger, S) : S \in cycles }

HandleCycles ==
  /\ step = "handleCycles"
  /\ startNodes' = UNION { StartOfCycle(n) : n \in startNodes }
  /\ step' = IF Nobody \in startNodes' THEN "thrown" ELSE "cleanRunData"
  /\ UNCHANGED <<inputs, subgraph, newRunData, stack, waiting>>

-----------------------------------------------------------------------------
(* cleanRunData(), of the whole graph.                                     *)

RECURSIVE GetChildrenRecursive(_, _, _)
GetChildrenRecursive(C, n, children) ==
  FoldLeft(LAMBDA acc, child : IF child \in acc THEN acc
                               ELSE GetChildrenRecursive(C, child, acc \cup {child}),
           children, Children(C, n))

CleanRunData ==
  /\ step = "cleanRunData"
  /\ newRunData' = { n \in Nodes : runData[n] # "none" } \
       (startNodes \cup UNION { GetChildrenRecursive(connections, n, {}) : n \in startNodes })
  /\ step' = "recreateNodeExecutionStack"
  /\ UNCHANGED <<inputs, subgraph, startNodes, stack, waiting>>

-----------------------------------------------------------------------------
(* recreateNodeExecutionStack(), of the subgraph and the old run data.     *)

HasData(c)  == runData[c.from] # "none" \/ c.from = pinned
HasItems(c) == runData[c.from] = "items"

First(C) == CHOOSE c \in C : \A d \in C : c.from <= d.from

\* one connection for each input from i on, with data if there is one, up to an input for
\* which there is none
RECURSIVE GroupFrom(_, _)
GroupFrom(C, i) ==
  LET at == { c \in C : c.input = i }
      with == { c \in at : HasData(c) }
  IN IF at = {} THEN <<>>
     ELSE <<First(IF with # {} THEN with ELSE at)>> \o GroupFrom(C, i + 1)

RECURSIVE GetSourceDataGroups(_)
GetSourceDataGroups(C) ==
  IF C = {} THEN {}
  ELSE LET group == GroupFrom(C, Min({ c.input : c \in C }))
       IN {group} \cup GetSourceDataGroups(C \ ToSet(group))

\* (mutant) An input that nothing is connected to counts as missing.
IsCompleteOfInputs(group) ==
  /\ \A c \in ToSet(group) : HasData(c)
  /\ Last(group).to \in Merges => Len(group) = Inputs
IsComplete(group) == \A c \in ToSet(group) : HasData(c)

\* of a group that is complete: the data of the inputs and where each is said to come from;
\* a source without items is among the second only
OnStack(n, group) ==
  [node |-> n, source |-> group,
   data |-> SelectSeq(group, LAMBDA c : c.from = pinned \/ HasItems(c))]
\* of one that is not: the items there are, each at its input; pinned items are not looked at
InWaiting(n, group) == [node |-> n, source |-> SelectSeq(group, HasItems)]

\* getIncomingData() of a source that failed; that of a pinned one is looked at only in a
\* group that is not complete
LooksAtFailed(group) ==
  \E c \in ToSet(group) : runData[c.from] = "failed" /\ (c.from = pinned => ~IsComplete(group))
RecreationThrows ==
  \/ ~(startNodes \subseteq NodesOf(subgraph))
  \/ \E n \in startNodes : \E g \in GetSourceDataGroups(Into(subgraph, n)) : LooksAtFailed(g)

Stacked(n) ==
  IF Into(subgraph, n) = {} THEN {OnStack(n, <<>>)}
  ELSE { OnStack(n, g) : g \in { h \in GetSourceDataGroups(Into(subgraph, n)) : IsComplete(h) } }

\* (mutant) Groups that are not complete are left out.
WaitsNever(n) == {}
Waits(n) ==
  { w \in { InWaiting(n, g) :
            g \in { h \in GetSourceDataGroups(Into(subgraph, n)) : ~IsComplete(h) } } :
      w.source # <<>> }

RecreateNodeExecutionStack ==
  /\ step = "recreateNodeExecutionStack"
  /\ IF RecreationThrows
     THEN step' = "thrown" /\ UNCHANGED <<stack, waiting>>
     ELSE /\ stack'   = UNION { Stacked(n) : n \in startNodes }
          /\ waiting' = UNION { Waits(n) : n \in startNodes }
          /\ step' = "execute"
  /\ UNCHANGED <<inputs, subgraph, startNodes, newRunData>>

Next == \/ FindSubgraph \/ FindStartNodes \/ HandleCycles \/ CleanRunData
        \/ RecreateNodeExecutionStack

Spec == Init /\ [][Next]_vars
-----------------------------------------------------------------------------
(* Properties.                                                             *)

\* "Find all nodes that can lead from the trigger to the destination node" (findSubgraph()):
\* every connection on a way from the trigger to the destination that meets the destination
\* at its end only is in the subgraph, and whatever is in it leads to the destination.
SubgraphIsEveryWay ==
  step = "findStartNodes" =>
    LET C == FilterDisabledNodes
        G == { c \in C : c.from # destination }
        from(m, n) == m = n \/ Reaches(G, m, n)
    IN /\ \A c \in G : from(Trigger, c.from) /\ from(c.to, destination) => c \in subgraph
       /\ \A c \in subgraph : c \in G /\ from(c.to, destination)

\* Nodes that the data of the trigger gets to by way of nodes that keep what they have.
Frontier ==
  LET fresh(c) == c.from # destination /\ ~IsDirty(c.from) /\ runData[c.from] = "items"
      G == { c \in subgraph : fresh(c) }
  IN { n \in NodesOf(subgraph) :
         (n = Trigger \/ Reaches(G, Trigger, n)) /\ (IsDirty(n) \/ n = destination) }

InOneLoop(m, n) == m = n \/ (Reaches(connections, m, n) /\ Reaches(connections, n, m))

\* Nothing is missed and nothing is run for nothing (findStartNodes(), handleCycles()): what
\* data gets to and has none of its own is started, comes after a node that is, or is in a
\* loop with one, and every node that is started is one of those or in a loop with one.
StartNodesServe ==
  step = "cleanRunData" /\ disabled = Nobody =>
    /\ \A d \in Frontier :
         \E s \in startNodes : InOneLoop(s, d) \/ Reaches(subgraph, s, d)
    /\ \A s \in startNodes : \E d \in Frontier : InOneLoop(s, d)

\* What a node that is started gets (getSourceDataGroups(), recreateNodeExecutionStack()): the
\* items of each connection into it are in one entry, the stack's or the waiting one's, and
\* only those of the pinned node may be in none; no entry has an input twice.
EverySourceOnce ==
  step = "execute" =>
    \A n \in startNodes :
      LET taken == { ToSet(e.data) : e \in { x \in stack : x.node = n } } \cup
                   { ToSet(e.source) : e \in { x \in waiting : x.node = n } }
      IN /\ \A c \in Into(subgraph, n) :
              HasItems(c) /\ c.from # pinned => Cardinality({ S \in taken : c \in S }) = 1
         /\ \A S \in taken : \A c, d \in S : c.input = d.input => c = d

\* The preparation ends with something to do.  No assertion on the way fails
\* (getIncomingData(), handleCycles(), getDirectParentConnections()) unless a node is disabled,
\* the pinned one has not run, or a node on a way to the destination has failed.  And the
\* stack, all that processRunExecutionData() looks at first, is empty only when a merge waits
\* alone: a branch to it ended at a run without items, it is in a loop, or the subgraph has a
\* branch the trigger does not lead to.
SomethingRuns ==
  /\ step = "thrown" => \/ disabled # Nobody
                        \/ pinned # Nobody /\ runData[pinned] = "none"
                        \/ \E c \in subgraph : runData[c.from] = "failed"
  /\ step = "execute" /\ stack = {} =>
       \/ \E n \in NodesOf(subgraph) : runData[n] = "empty"
       \/ \E n \in startNodes : Reaches(connections, n, n)
       \/ \E c \in subgraph : c.from # Trigger /\ ~Reaches(subgraph, Trigger, c.from)

\* "Returns all strongly connected components": the sets of nodes that can all reach each
\* other (getStronglyConnectedComponents()).
ComponentsAreAll ==
  GetStronglyConnectedComponents(connections) =
    { { m \in Nodes : InOneLoop(m, n) } : n \in Nodes }
=============================================================================
