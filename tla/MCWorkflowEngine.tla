-------------------------- MODULE MCWorkflowEngine --------------------------
(***************************************************************************)
(* Workflows for the engine. Node 1 is the start, an IF with two outputs.  *)
(* Nodes 4 and 5 are merges with two inputs, the others have one.          *)
(***************************************************************************)
EXTENDS WorkflowEngine

MCNodes  == 1..5
MCNoNode == 0

Edge(from, output, to, index) ==
  [from |-> from, output |-> output, node |-> to, index |-> index]

\* The connections of each node in the order of its outputs.
ConnectionsFrom(edges) ==
  [n \in MCNodes |->
    LET S == { [output |-> e.output, node |-> e.node, index |-> e.index] :
                 e \in { e \in edges : e.from = n } }
    IN SetToSortSeq(S, LAMBDA a, b : \/ a.output < b.output
                                     \/ a.output = b.output /\ a.node < b.node
                                     \/ a.output = b.output /\ a.node = b.node /\ a.index < b.index)]

TypeInputs(merges) == [n \in MCNodes |-> IF n \in merges THEN 2 ELSE 1]

Workflow(edges, destination, position, required) ==
  [start |-> 1, destination |-> destination, connections |-> ConnectionsFrom(edges),
   position |-> position, inputs |-> TypeInputs({4, 5}),
   required |-> [n \in MCNodes |-> IF n \in {4, 5} THEN required ELSE 0]]

\* The position of each node.
TopDown  == <<1, 2, 3, 4, 5>>
BottomUp == <<1, 5, 4, 3, 2>>

\* Two single nodes behind the IF, a merge that each input of which has one feeder or
\* two, and a merge behind it.
Merging ==
  { {Edge(1, 1, 2, 1), third} \cup { Edge(f[1], f[2], 4, 1) : f \in one }
                              \cup { Edge(f[1], f[2], 4, 2) : f \in two }
                              \cup {Edge(4, 1, 5, 1), Edge(five, 1, 5, 2)} :
      third \in {Edge(1, 1, 3, 1), Edge(1, 2, 3, 1), Edge(2, 1, 3, 1)},
      one \in {{<<1, 1>>}, {<<2, 1>>}, {<<2, 1>>, <<3, 1>>}},
      two \in {{<<1, 2>>}, {<<3, 1>>}, {<<1, 2>>, <<3, 1>>}},
      five \in {1, 3} }

\* A loop over batches: output 2 of node 2 leads through node 3 back to it, output 1 on.
Looping == {Edge(1, 1, 2, 1), Edge(2, 2, 3, 1), Edge(3, 1, 2, 1), Edge(2, 1, 4, 1), Edge(1, 2, 4, 2)}

MCWorkflows ==
  { Workflow(edges, layout[1], layout[2], required) :
      edges \in Merging \cup {Looping}, required \in 0..2,
      layout \in {<<MCNoNode, TopDown>>, <<MCNoNode, BottomUp>>, <<4, TopDown>>} }

=============================================================================
