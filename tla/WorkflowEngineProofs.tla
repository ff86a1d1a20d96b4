------------------------ MODULE WorkflowEngineProofs ------------------------
(***************************************************************************)
(* The engine of one execution, proved for every workflow and every number *)
(* of runs, failures, waits, resumes and retries.                          *)
(***************************************************************************)
EXTENDS WorkflowEngine, QueueFacts

-----------------------------------------------------------------------------
(* Objects: functions on some of the keys.                                 *)

Objects(Keys, Values) == UNION { [K -> Values] : K \in SUBSET Keys }

\* A function on some of the keys is an object.
LEMMA IsObject ==
  ASSUME NEW Keys, NEW Values, NEW K \in SUBSET Keys, NEW f \in [K -> Values]
  PROVE  f \in Objects(Keys, Values)
<1>1. \E L \in SUBSET Keys : f \in [L -> Values]
  OBVIOUS
<1> QED BY <1>1 DEF Objects

\* What an object has.
LEMMA ObjectFacts ==
  ASSUME NEW Keys, NEW Values, NEW f \in Objects(Keys, Values)
  PROVE  /\ DOMAIN f \subseteq Keys
         /\ f \in [DOMAIN f -> Values]
         /\ \A k \in DOMAIN f : f[k] \in Values
<1>1. PICK K \in SUBSET Keys : f \in [K -> Values]
  BY DEF Objects
<1> QED BY <1>1

\* A key is set.
LEMMA PutFacts ==
  ASSUME NEW Keys, NEW Values, NEW f \in Objects(Keys, Values), NEW k \in Keys, NEW v \in Values
  PROVE  /\ Put(f, k, v) \in Objects(Keys, Values)
         /\ DOMAIN Put(f, k, v) = DOMAIN f \cup {k}
         /\ Put(f, k, v)[k] = v
         /\ \A j \in DOMAIN f : j # k => Put(f, k, v)[j] = f[j]
<1>1. Put(f, k, v) \in [DOMAIN f \cup {k} -> Values]
  BY ObjectFacts DEF Put
<1>2. DOMAIN f \cup {k} \in SUBSET Keys
  BY ObjectFacts
<1>3. Put(f, k, v) \in Objects(Keys, Values)
  BY <1>1, <1>2 DEF Objects
<1> QED BY <1>3 DEF Put

\* An object of one key.
LEMMA OnlyFacts ==
  ASSUME NEW Keys, NEW Values, NEW k \in Keys, NEW v \in Values
  PROVE  /\ Only(k, v) \in Objects(Keys, Values)
         /\ DOMAIN Only(k, v) = {k}
         /\ Only(k, v)[k] = v
         /\ <<>> \in Objects(Keys, Values) /\ DOMAIN <<>> = {}
<1> DEFINE empty == <<>>
<1>1. DOMAIN empty = {} /\ empty \in [{} -> Values] /\ {} \in SUBSET Keys
  OBVIOUS
<1>2. Only(k, v) = Put(empty, k, v)
  BY DEF Only
<1> HIDE DEF empty
<1>3. empty \in Objects(Keys, Values)
  BY <1>1, IsObject
<1>4. /\ Only(k, v) \in Objects(Keys, Values)
      /\ DOMAIN Only(k, v) = {k}
      /\ Only(k, v)[k] = v
  <2>1. /\ Put(empty, k, v) \in Objects(Keys, Values)
        /\ DOMAIN Put(empty, k, v) = DOMAIN empty \cup {k}
        /\ Put(empty, k, v)[k] = v
    BY <1>3, PutFacts, SMTT(30)
  <2> QED BY <1>1, <1>2, <2>1
<1>5. <<>> \in Objects(Keys, Values) /\ DOMAIN <<>> = {}
  BY <1>1, <1>3 DEF empty
<1> QED BY <1>4, <1>5

\* A key is deleted.
LEMMA WithoutFacts ==
  ASSUME NEW Keys, NEW Values, NEW f \in Objects(Keys, Values), NEW k
  PROVE  Without(f, k) \in Objects(Keys, Values)
<1>1. Without(f, k) \in [DOMAIN f \ {k} -> Values]
  BY ObjectFacts DEF Without
<1>2. DOMAIN f \ {k} \in SUBSET Keys
  BY ObjectFacts
<1> QED BY <1>1, <1>2 DEF Objects

-----------------------------------------------------------------------------
(* Finite sets of numbers.                                                 *)

\* A finite set of numbers has a bound: of the finite sets without one, none is the least.
LEMMA FiniteBound ==
  ASSUME NEW S \in SUBSET Nat, IsFiniteSet(S)
  PROVE  \E b \in Nat : \A x \in S : x <= b
<1> DEFINE R == StrictSubsetOrdering(Nat)
           F == FiniteSubsetsOf(Nat)
           Bounded(A) == \E b \in Nat : \A x \in A : x <= b
           T == { A \in F : ~Bounded(A) }
<1>1. IsWellFoundedOn(R, F)
  BY FS_StrictSubsetOrderingWellFounded
<1>2. ASSUME NEW A \in T PROVE \E B \in T : <<B, A>> \in R
  <2>1. A \in SUBSET Nat /\ IsFiniteSet(A) /\ ~Bounded(A)
    BY DEF FiniteSubsetsOf
  <2>2. PICK x \in A : TRUE
    BY <2>1
  <2> DEFINE B == A \ {x}
  <2>3. IsFiniteSet(B) /\ B \in SUBSET Nat /\ B # A /\ B \subseteq A
    BY <2>1, <2>2, FS_RemoveElement
  <2>4. ASSUME Bounded(B) PROVE FALSE
    <3>1. PICK b \in Nat : \A y \in B : y <= b
      BY <2>4
    <3>2. CASE x <= b
      BY <2>1, <3>1, <3>2
    <3>3. CASE ~(x <= b)
      <4>1. x \in Nat /\ \A y \in A : y <= x
        BY <2>1, <3>1, <3>3
      <4> QED BY <2>1, <4>1
    <3> QED BY <3>2, <3>3
  <2>5. B \in T
    BY <2>3, <2>4 DEF FiniteSubsetsOf
  <2>6. <<B, A>> \in R
    BY <2>1, <2>3 DEF StrictSubsetOrdering
  <2> QED BY <2>5, <2>6
<1>3. T = {}
  <2>1. T \subseteq F
    OBVIOUS
  <2> HIDE DEF R, F, T
  <2> QED BY <1>1, <1>2, <2>1, WFMin
<1>4. S \in F
  BY DEF FiniteSubsetsOf
<1> QED BY <1>3, <1>4

\* So has a function on a finite set.
LEMMA FunctionBound ==
  ASSUME NEW S, IsFiniteSet(S), NEW f \in [S -> Nat]
  PROVE  \E b \in Nat : \A x \in S : f[x] <= b
<1> DEFINE T == { f[x] : x \in S }
<1>1. f \in Surjection(S, T)
  BY DEF Surjection
<1>2. IsFiniteSet(T) /\ T \in SUBSET Nat /\ \A x \in S : f[x] \in T
  BY <1>1, FS_Surjection
<1> HIDE DEF T
<1> QED BY <1>2, FiniteBound

\* The least and the greatest number of a set.
LEMMA MinFacts ==
  ASSUME NEW S \in SUBSET Nat, S # {}
  PROVE  Min(S) \in S /\ \A x \in S : Min(S) <= x
  BY LeastElement DEF Min

\* The greatest of numbers that are bounded.
LEMMA MaxFacts ==
  ASSUME NEW S \in SUBSET Nat, S # {}, NEW b \in Nat, \A x \in S : x <= b
  PROVE  Max(S) \in S /\ \A x \in S : x <= Max(S)
<1> DEFINE U == { m \in Nat : \A x \in S : x <= m }
<1>1. PICK m \in U : \A n \in U : m <= n
  <2>1. U \in SUBSET Nat /\ U # {}
    OBVIOUS
  <2> HIDE DEF U
  <2> QED BY <2>1, LeastElement
<1>2. m \in S
  <2> SUFFICES ASSUME m \notin S PROVE FALSE
    OBVIOUS
  <2>1. m # 0
    <3> SUFFICES ASSUME m = 0 PROVE FALSE
      OBVIOUS
    <3>1. PICK x \in S : TRUE
      OBVIOUS
    <3>2. x \in Nat /\ x <= 0
      BY <3>1
    <3> QED BY <3>1, <3>2
  <2>2. m - 1 \in Nat /\ \A x \in S : x <= m - 1
    BY <2>1
  <2>3. m - 1 \in U
    BY <2>2
  <2> QED BY <1>1, <2>3
<1>3. \E y \in S : \A x \in S : y >= x
  BY <1>2
<1>4. Max(S) \in S /\ \A x \in S : Max(S) >= x
  BY <1>3 DEF Max
<1> QED BY <1>4

-----------------------------------------------------------------------------
(* The workflow.                                                           *)

\* Every node has two inputs at most.
TwoInputs == \A w \in Workflows : \A n \in Nodes : \A k \in DOMAIN w.connections[n] :
               w.connections[n][k].index <= 2

Connections == [output: Nat, node: Nodes, index: Nat \ {0}]

\* What the assumption says of the workflow that is executed.
LEMMA WorkflowFacts ==
  ASSUME workflow \in Workflows
  PROVE  /\ workflow.start \in Nodes /\ workflow.destination \in Nodes \cup {NoNode}
         /\ workflow.position \in [Nodes -> Nat]
         /\ \A n \in Nodes : /\ ConnectionsOf(n) \in Seq(Connections)
                             /\ IsInjective(ConnectionsOf(n))
                             /\ workflow.inputs[n] \in Nat /\ workflow.required[n] \in Nat
  BY EngineAssumption DEF ConnectionsOf, Connections

\* Every connection to a node is to one of its inputs.
LEMMA InputsFacts ==
  ASSUME workflow \in Workflows
  PROVE  /\ \A n \in Nodes : Inputs(n) \in Nat
         /\ \A m \in Nodes : \A k \in DOMAIN ConnectionsOf(m) :
              LET c == ConnectionsOf(m)[k] IN c.node \in Nodes /\ c.index \in 1..Inputs(c.node)
         /\ TwoInputs => \A n \in Nodes : Inputs(n) <= 2
<1>1. \A m \in Nodes : /\ IsFiniteSet(DOMAIN ConnectionsOf(m))
                       /\ \A k \in DOMAIN ConnectionsOf(m) : ConnectionsOf(m)[k] \in Connections
  <2> TAKE m \in Nodes
  <2>1. ConnectionsOf(m) \in Seq(Connections)
    BY WorkflowFacts
  <2>2. Len(ConnectionsOf(m)) \in Nat /\ DOMAIN ConnectionsOf(m) = 1..Len(ConnectionsOf(m))
    BY <2>1, LenProperties
  <2> QED BY <2>1, <2>2, FS_Interval, ElementOfSeq
<1>2. \A m \in Nodes : \E b \in Nat : \A k \in DOMAIN ConnectionsOf(m) : ConnectionsOf(m)[k].index <= b
  <2> TAKE m \in Nodes
  <2> DEFINE f == [k \in DOMAIN ConnectionsOf(m) |-> ConnectionsOf(m)[k].index]
  <2>1. f \in [DOMAIN ConnectionsOf(m) -> Nat]
    BY <1>1 DEF Connections
  <2>2. PICK b \in Nat : \A k \in DOMAIN ConnectionsOf(m) : f[k] <= b
    <3> HIDE DEF f
    <3> QED BY <1>1, <2>1, FunctionBound
  <2> QED BY <2>2
<1>3. PICK b \in Nat : \A m \in Nodes : \A k \in DOMAIN ConnectionsOf(m) : ConnectionsOf(m)[k].index <= b
  <2> DEFINE Bound(m) == CHOOSE b \in Nat : \A k \in DOMAIN ConnectionsOf(m) : ConnectionsOf(m)[k].index <= b
             g == [m \in Nodes |-> Bound(m)]
  <2>1. \A m \in Nodes : Bound(m) \in Nat /\ \A k \in DOMAIN ConnectionsOf(m) : ConnectionsOf(m)[k].index <= Bound(m)
    BY <1>2
  <2> HIDE DEF Bound
  <2>2. g \in [Nodes -> Nat] /\ IsFiniteSet(Nodes)
    BY <2>1, EngineAssumption
  <2>3. PICK b \in Nat : \A m \in Nodes : g[m] <= b
    <3> HIDE DEF g
    <3> QED BY <2>2, FunctionBound
  <2>4. ASSUME NEW m \in Nodes, NEW k \in DOMAIN ConnectionsOf(m)
        PROVE  ConnectionsOf(m)[k].index <= b
    <3>1. ConnectionsOf(m)[k].index \in Nat
      BY <1>1 DEF Connections
    <3> QED BY <2>1, <2>3, <3>1
  <2> QED BY <2>4
<1> DEFINE I(n) == { c.index : c \in ConnectionsTo(n) }
<1>4. ASSUME NEW n \in Nodes
      PROVE  /\ I(n) \in SUBSET (Nat \ {0}) /\ \A i \in I(n) : i <= b
             /\ \A m \in Nodes : \A k \in DOMAIN ConnectionsOf(m) :
                  ConnectionsOf(m)[k].node = n => ConnectionsOf(m)[k].index \in I(n)
             /\ \A i \in I(n) : \E m \in Nodes : \E k \in DOMAIN ConnectionsOf(m) : i = ConnectionsOf(m)[k].index
  <2>1. \A c : c \in ConnectionsTo(n) <=>
          \E m \in Nodes : \E k \in DOMAIN ConnectionsOf(m) : c = ConnectionsOf(m)[k] /\ c.node = n
    BY DEF ConnectionsTo, Range
  <2>2. \A i : i \in I(n) <=> \E c \in ConnectionsTo(n) : i = c.index
    OBVIOUS
  <2> HIDE DEF I
  <2>3. \A i \in I(n) : \E m \in Nodes : \E k \in DOMAIN ConnectionsOf(m) : i = ConnectionsOf(m)[k].index
    BY <2>1, <2>2
  <2>4. \A i \in I(n) : i \in Nat \ {0} /\ i <= b
    BY <1>1, <1>3, <2>3 DEF Connections
  <2> QED BY <2>1, <2>2, <2>3, <2>4
<1>5. ASSUME NEW n \in Nodes
      PROVE  /\ Inputs(n) \in Nat
             /\ \A i \in I(n) : i \in 1..Inputs(n)
             /\ Inputs(n) = 0 \/ Inputs(n) \in I(n)
  <2>1. Inputs(n) = IF I(n) = {} THEN 0 ELSE Max(I(n))
    BY DEF Inputs
  <2>2. I(n) \in SUBSET Nat /\ \A i \in I(n) : i # 0 /\ i <= b
    BY <1>4
  <2> HIDE DEF I
  <2>3. CASE I(n) = {}
    BY <2>1, <2>3
  <2>4. CASE I(n) # {}
    <3>1. Max(I(n)) \in I(n) /\ \A i \in I(n) : i <= Max(I(n))
      BY <2>2, <2>4, MaxFacts
    <3> QED BY <2>1, <2>2, <2>4, <3>1
  <2> QED BY <2>3, <2>4
<1> HIDE DEF I
<1>6. ASSUME NEW m \in Nodes, NEW k \in DOMAIN ConnectionsOf(m)
      PROVE  LET c == ConnectionsOf(m)[k] IN c.node \in Nodes /\ c.index \in 1..Inputs(c.node)
  <2>1. ConnectionsOf(m)[k].node \in Nodes
    BY <1>1 DEF Connections
  <2> QED BY <1>4, <1>5, <2>1
<1>7. ASSUME TwoInputs, NEW n \in Nodes PROVE Inputs(n) <= 2
  <2>1. \A m \in Nodes : \A k \in DOMAIN ConnectionsOf(m) : ConnectionsOf(m)[k].index <= 2
    BY <1>7 DEF TwoInputs, ConnectionsOf
  <2> QED BY <1>4, <1>5, <2>1
<1> QED BY <1>5, <1>6, <1>7

\* The connections that a node sends its data along: those of the outputs with data, each
\* of them once. Their ranks are the numbers up to how many they are.
LEMMA NodesToAddFacts ==
  ASSUME workflow \in Workflows, NEW n \in Nodes, NEW outputs
  PROVE  /\ NodesToAdd(n, outputs) \in Seq(Connections)
         /\ \A k \in DOMAIN NodesToAdd(n, outputs) :
              \E j \in DOMAIN ConnectionsOf(n) : NodesToAdd(n, outputs)[k] = ConnectionsOf(n)[j]
         /\ IsInjective(NodesToAdd(n, outputs))
<1> DEFINE all == ConnectionsOf(n)
           I == { i \in DOMAIN all : all[i].output \in outputs }
           P(i) == workflow.position[all[i].node]
           UpTo(i) == { j \in I : P(j) > P(i) \/ (P(j) = P(i) /\ j <= i) }
           m == Cardinality(I)
           rank == [i \in I |-> Cardinality(UpTo(i))]
           Nth(k) == CHOOSE i \in I : Cardinality(UpTo(i)) = k
           nth == [k \in 1..m |-> Nth(k)]
<1>1. /\ all \in Seq(Connections) /\ DOMAIN all = 1..Len(all) /\ Len(all) \in Nat
      /\ \A i \in DOMAIN all : all[i] \in Connections
      /\ IsFiniteSet(I) /\ m \in Nat
  <2>1. all \in Seq(Connections) /\ DOMAIN all = 1..Len(all) /\ Len(all) \in Nat
    BY WorkflowFacts, LenProperties
  <2>2. I \in SUBSET (1..Len(all)) /\ IsFiniteSet(1..Len(all))
    BY <2>1, FS_Interval
  <2>3. IsFiniteSet(I)
    BY <2>2, FS_Subset
  <2> QED BY <2>1, <2>3, ElementOfSeq, FS_CardinalityType
<1>2. \A i \in I : i \in Nat /\ P(i) \in Nat
  <2> TAKE i \in I
  <2>1. i \in DOMAIN all /\ i \in Nat
    BY <1>1
  <2>2. all[i].node \in Nodes
    BY <1>1, <2>1 DEF Connections
  <2>3. workflow.position \in [Nodes -> Nat]
    BY WorkflowFacts
  <2> QED BY <2>1, <2>2, <2>3
<1> DEFINE Before(j, i) == P(j) > P(i) \/ (P(j) = P(i) /\ j <= i)
<1>3. \A i, j \in I : /\ i = j \/ ~Before(i, j) \/ ~Before(j, i)
                      /\ Before(i, j) \/ Before(j, i)
                      /\ Before(i, i)
                      /\ \A k \in I : Before(i, j) /\ Before(j, k) => Before(i, k)
  BY <1>2
<1>4. \A i, j \in I : j \in UpTo(i) <=> Before(j, i)
  OBVIOUS
<1>5. \A i \in I : UpTo(i) \in SUBSET I /\ IsFiniteSet(UpTo(i)) /\ i \in UpTo(i)
  <2>1. \A i \in I : UpTo(i) \in SUBSET I
    OBVIOUS
  <2> HIDE DEF I, UpTo, Before
  <2> QED BY <1>1, <1>3, <1>4, <2>1, FS_Subset
<1> HIDE DEF UpTo, Before, I, P, m
<1>6. \A i \in I : Cardinality(UpTo(i)) \in 1..m
  <2> TAKE i \in I
  <2> DEFINE U == UpTo(i)
  <2>1. U \in SUBSET I /\ IsFiniteSet(U) /\ U # {}
    BY <1>5
  <2> HIDE DEF U
  <2>2. Cardinality(U) \in Nat /\ Cardinality(U) <= m /\ Cardinality(U) # 0
    BY <1>1, <2>1, FS_Subset, FS_CardinalityType, FS_EmptySet DEF m
  <2> QED BY <1>1, <2>2 DEF U
<1>7. ASSUME NEW i \in I, NEW j \in I, i # j, Before(i, j)
      PROVE  Cardinality(UpTo(i)) # Cardinality(UpTo(j))
  <2> DEFINE U == UpTo(i)
             V == UpTo(j)
  <2>1. U \in SUBSET V /\ j \notin U /\ j \in V /\ IsFiniteSet(V)
    <3>1. \A k \in U : k \in I /\ k \in V
      BY <1>3, <1>4, <1>5, <1>7
    <3> QED BY <1>3, <1>4, <1>5, <1>7, <3>1
  <2> HIDE DEF U, V
  <2>2. Cardinality(U) # Cardinality(V)
    BY <2>1, FS_Subset
  <2> QED BY <2>2 DEF U, V
<1>8. \A i, j \in I : Cardinality(UpTo(i)) = Cardinality(UpTo(j)) => i = j
  BY <1>3, <1>7
<1>9. rank \in Injection(I, 1..m)
  <2>1. rank \in [I -> 1..m]
    BY <1>6
  <2>2. \A i, j \in I : rank[i] = rank[j] => i = j
    BY <1>8
  <2> HIDE DEF rank
  <2> QED BY <2>1, <2>2 DEF Injection, IsInjective
<1>10. rank \in Surjection(I, 1..m)
  <2>1. IsFiniteSet(1..m) /\ Cardinality(1..m) = m
    BY <1>1, FS_Interval, SMTT(30)
  <2> HIDE DEF rank
  <2> QED BY <1>9, <2>1, FS_Injection DEF m
<1>11. \A k \in 1..m : \E i \in I : Cardinality(UpTo(i)) = k
  <2>1. \A k \in 1..m : \E i \in I : rank[i] = k
    <3> HIDE DEF rank
    <3> QED BY <1>10 DEF Surjection
  <2> QED BY <2>1
<1>12. \A k \in 1..m : Nth(k) \in I /\ Cardinality(UpTo(Nth(k))) = k
  BY <1>11
<1>13. nth \in [1..m -> I] /\ \A j, k \in 1..m : nth[j] = nth[k] => j = k
  <2> HIDE DEF Nth
  <2>1. nth \in [1..m -> I] /\ \A k \in 1..m : Cardinality(UpTo(nth[k])) = k
    BY <1>12
  <2> QED BY <2>1
<1>14. NodesToAdd(n, outputs) = [k \in 1..m |-> all[nth[k]]]
  BY DEF NodesToAdd, I, UpTo, P, m
<1> DEFINE s == NodesToAdd(n, outputs)
<1>15. I \subseteq DOMAIN all
  BY DEF I
<1> HIDE DEF nth, s
<1>16. s \in Seq(Connections) /\ DOMAIN s = 1..m /\ \A k \in 1..m : s[k] = all[nth[k]] /\ nth[k] \in DOMAIN all
  <2>1. \A k \in 1..m : nth[k] \in DOMAIN all /\ all[nth[k]] \in Connections
    BY <1>1, <1>13, <1>15
  <2>2. s = [k \in 1..m |-> all[nth[k]]]
    BY <1>14 DEF s
  <2>3. s \in Seq(Connections)
    BY <1>1, <2>1, <2>2, IsASeq
  <2> QED BY <2>1, <2>2, <2>3
<1>17. IsInjective(s)
  <2>1. \A i, j \in DOMAIN all : all[i] = all[j] => i = j
    BY WorkflowFacts DEF IsInjective
  <2> QED BY <1>13, <1>16, <2>1 DEF IsInjective
<1> QED
  BY <1>16, <1>17 DEF s

-----------------------------------------------------------------------------
(* The stack and the waiting area.                                         *)

Numbers == Nat \ {0}
Data    == Objects(Numbers, Datum)
Items   == [node: Nodes, data: Data, source: Data, disabled: BOOLEAN, instance: Nat]
EntryRecords == [data: Data, source: Data]
Indices == Nat
Entries == Objects(Indices, EntryRecords)
QueueRecords == [stack: Seq(Items), waiting: [Nodes -> Entries], nodes: Seq(Nodes)]

\* What the engine relies on: no item is without data, no entry is complete or empty, and
\* the list of waiting nodes is the list of those that have entries.
Shape(q) ==
  /\ q \in QueueRecords
  /\ \A k \in DOMAIN q.stack : DOMAIN q.stack[k].data # {} /\ q.stack[k].instance <= instance
  /\ \A n \in Nodes :
       /\ IsFiniteSet(DOMAIN q.waiting[n])
       /\ \A k \in DOMAIN q.waiting[n] :
            DOMAIN q.waiting[n][k].data \in (SUBSET (1..Inputs(n))) \ {{}, 1..Inputs(n)}
  /\ Range(q.nodes) = { n \in Nodes : DOMAIN q.waiting[n] # {} }
  /\ IsInjective(q.nodes)

\* unshift() moves every other position by one.
LEMMA PushFacts ==
  ASSUME NEW S, NEW s \in Seq(S), NEW e \in S
  PROVE  /\ <<e>> \o s \in Seq(S)
         /\ Len(<<e>> \o s) = Len(s) + 1
         /\ 1 \in DOMAIN (<<e>> \o s) /\ (<<e>> \o s)[1] = e
         /\ \A k \in DOMAIN s : k + 1 \in DOMAIN (<<e>> \o s) /\ (<<e>> \o s)[k + 1] = s[k]
         /\ \A k \in DOMAIN (<<e>> \o s) : k = 1 \/ (k - 1 \in DOMAIN s /\ (<<e>> \o s)[k] = s[k - 1])
<1> DEFINE one == <<e>>
           r == one \o s
<1>1. one \in Seq(S) /\ Len(one) = 1 /\ one[1] = e
  OBVIOUS
<1>2. Len(s) \in Nat /\ DOMAIN s = 1..Len(s)
  BY LenProperties
<1> HIDE DEF one
<1>3. /\ r \in Seq(S) /\ Len(r) = 1 + Len(s)
      /\ \A i \in 1..(1 + Len(s)) : r[i] = IF i <= 1 THEN one[i] ELSE s[i - 1]
  <2>1. /\ r \in Seq(S) /\ Len(r) = Len(one) + Len(s)
        /\ \A i \in 1..(Len(one) + Len(s)) : r[i] = IF i <= Len(one) THEN one[i] ELSE s[i - Len(one)]
    BY <1>1, ConcatProperties
  <2> QED BY <1>1, <2>1
<1>4. DOMAIN r = 1..(1 + Len(s))
  BY <1>3, LenProperties
<1> HIDE DEF r
<1>5. /\ r \in Seq(S) /\ Len(r) = Len(s) + 1
      /\ 1 \in DOMAIN r /\ r[1] = e
      /\ \A k \in DOMAIN s : k + 1 \in DOMAIN r /\ r[k + 1] = s[k]
  BY <1>1, <1>2, <1>3, <1>4
<1>6. \A k \in DOMAIN r : k = 1 \/ (k - 1 \in DOMAIN s /\ r[k] = s[k - 1])
  BY <1>2, <1>3, <1>4
<1> QED BY <1>5, <1>6 DEF r, one

\* Taking the only occurrence of an element out takes the element out.
LEMMA OnlyRemoval ==
  ASSUME NEW S, NEW s \in Seq(S), IsInjective(s), NEW e
  PROVE  /\ RemoveFirst(s, e) \in Seq(S)
         /\ Range(RemoveFirst(s, e)) = Range(s) \ {e}
         /\ IsInjective(RemoveFirst(s, e))
<1>0. Len(s) \in Nat /\ DOMAIN s = 1..Len(s)
  BY LenProperties
<1>1. CASE ~\E i \in 1..Len(s) : s[i] = e
  <2>1. RemoveFirst(s, e) = s
    BY <1>1 DEF RemoveFirst
  <2>2. e \notin Range(s)
    BY <1>0, <1>1 DEF Range
  <2> QED BY <2>1, <2>2
<1>2. CASE \E i \in 1..Len(s) : s[i] = e
  <2> DEFINE n == SelectInSeq(s, LAMBDA v : v = e)
             r == RemoveAt(s, n)
  <2>1. n \in DOMAIN s /\ s[n] = e
    <3> DEFINE I == { i \in 1..Len(s) : s[i] = e }
    <3>1. I \in SUBSET Nat /\ I # {}
      BY <1>2
    <3>2. n = Min(I)
      BY <1>2 DEF SelectInSeq
    <3>3. n \in I
      <4> HIDE DEF I, n
      <4> QED BY <3>1, <3>2, MinFacts
    <3> QED BY <1>0, <3>3
  <2>2. RemoveFirst(s, e) = r
    BY <1>2 DEF RemoveFirst
  <2> HIDE DEF n
  <2>3. /\ r \in Seq(S) /\ Len(r) = Len(s) - 1
        /\ \A k \in 1..Len(r) : r[k] = IF k < n THEN s[k] ELSE s[k + 1]
    BY <2>1, RemoveAtFacts
  <2>4. DOMAIN r = 1..(Len(s) - 1)
    BY <2>3, LenProperties
  <2> HIDE DEF r
  <2> DEFINE From(k) == IF k < n THEN k ELSE k + 1
  <2>5. \A k \in DOMAIN r : From(k) \in DOMAIN s /\ From(k) # n /\ r[k] = s[From(k)]
    BY <1>0, <2>1, <2>3, <2>4
  <2>6. \A j, k \in DOMAIN r : From(j) = From(k) => j = k
    BY <1>0, <2>1, <2>3, <2>4
  <2>7. \A k \in DOMAIN s \ {n} : \E j \in DOMAIN r : k = From(j)
    <3> TAKE k \in DOMAIN s \ {n}
    <3>1. CASE k < n
      BY <1>0, <2>1, <2>4, <3>1
    <3>2. CASE k > n
      <4>1. k - 1 \in DOMAIN r /\ From(k - 1) = k
        BY <1>0, <2>1, <2>4, <3>2
      <4> QED BY <4>1
    <3> QED BY <1>0, <2>1, <3>1, <3>2
  <2> HIDE DEF From
  <2>8. IsInjective(r)
    BY <2>5, <2>6 DEF IsInjective
  <2>9. Range(r) = Range(s) \ {e}
    <3>1. \A x \in Range(r) : x \in Range(s) /\ x # e
      BY <2>1, <2>5 DEF Range, IsInjective
    <3>2. \A x \in Range(s) : x # e => x \in Range(r)
      <4> SUFFICES ASSUME NEW k \in DOMAIN s, s[k] # e PROVE s[k] \in Range(r)
        BY DEF Range
      <4>1. k # n
        BY <2>1
      <4>2. PICK j \in DOMAIN r : k = From(j)
        BY <2>7, <4>1
      <4> QED BY <2>5, <4>2 DEF Range
    <3> QED BY <3>1, <3>2
  <2> QED BY <2>2, <2>3, <2>8, <2>9
<1> QED BY <1>1, <1>2

\* addNodeToBeExecuted() puts an item on the stack.
LEMMA EnqueuedShape ==
  ASSUME NEW q, Shape(q), NEW item \in Items, DOMAIN item.data # {}, item.instance <= instance
  PROVE  /\ Shape(Enqueued(q, item))
         /\ Enqueued(q, item).stack = <<item>> \o q.stack
         /\ Enqueued(q, item).waiting = q.waiting /\ Enqueued(q, item).nodes = q.nodes
<1> DEFINE s == <<item>> \o q.stack
           q1 == Enqueued(q, item)
<1>1. q.stack \in Seq(Items) /\ q \in QueueRecords
  BY DEF Shape, QueueRecords
<1>2. /\ s \in Seq(Items)
      /\ s[1] = item
      /\ \A k \in DOMAIN s : k = 1 \/ (k - 1 \in DOMAIN q.stack /\ s[k] = q.stack[k - 1])
  BY <1>1, PushFacts
<1>3. q1 = [q EXCEPT !.stack = s]
  BY DEF Enqueued
<1> HIDE DEF s, q1
<1>4. q1 \in QueueRecords /\ q1.stack = s /\ q1.waiting = q.waiting /\ q1.nodes = q.nodes
  BY <1>1, <1>2, <1>3 DEF QueueRecords
<1>5. \A k \in DOMAIN s : DOMAIN s[k].data # {} /\ s[k].instance <= instance
  BY <1>2 DEF Shape
<1>6. Shape(q1)
  BY <1>4, <1>5 DEF Shape
<1> QED BY <1>4, <1>6 DEF q1, s

\* The waiting area with other entries of a node.
LEMMA WaitsShape ==
  ASSUME NEW q, Shape(q), NEW n \in Nodes, NEW entries \in Entries, IsFiniteSet(DOMAIN entries),
         \A k \in DOMAIN entries :
           DOMAIN entries[k].data \in (SUBSET (1..Inputs(n))) \ {{}, 1..Inputs(n)}
  PROVE  /\ Shape(Waits(q, n, entries))
         /\ Waits(q, n, entries).stack = q.stack
         /\ Waits(q, n, entries).waiting = [q.waiting EXCEPT ![n] = entries]
<1> DEFINE r == IF DOMAIN entries = {} THEN RemoveFirst(q.nodes, n)
                ELSE IF Contains(q.nodes, n) THEN q.nodes ELSE Append(q.nodes, n)
           w == [q.waiting EXCEPT ![n] = entries]
           q1 == Waits(q, n, entries)
<1>1. /\ q \in QueueRecords /\ q.stack \in Seq(Items)
      /\ q.nodes \in Seq(Nodes) /\ q.waiting \in [Nodes -> Entries] /\ IsInjective(q.nodes)
      /\ Range(q.nodes) = { m \in Nodes : DOMAIN q.waiting[m] # {} }
  BY DEF Shape, QueueRecords
<1>2. q1 = [q EXCEPT !.waiting = w, !.nodes = r]
  BY <1>1 DEF Waits, QueueRecords
<1>3. DOMAIN q.nodes = 1..Len(q.nodes)
  BY <1>1, LenProperties
<1>4. /\ r \in Seq(Nodes) /\ IsInjective(r)
      /\ Range(r) = IF DOMAIN entries = {} THEN Range(q.nodes) \ {n} ELSE Range(q.nodes) \cup {n}
  <2>1. CASE DOMAIN entries = {}
    BY <1>1, <2>1, OnlyRemoval
  <2>2. CASE DOMAIN entries # {} /\ Contains(q.nodes, n)
    BY <1>1, <1>3, <2>2 DEF Contains, Range
  <2>3. CASE DOMAIN entries # {} /\ ~Contains(q.nodes, n)
    <3> DEFINE a == Append(q.nodes, n)
    <3>1. /\ a \in Seq(Nodes)
          /\ DOMAIN a = DOMAIN q.nodes \cup {Len(q.nodes) + 1} /\ Len(q.nodes) + 1 \notin DOMAIN q.nodes
          /\ \A i \in DOMAIN q.nodes : a[i] = q.nodes[i]
          /\ a[Len(q.nodes) + 1] = n
      BY <1>1, AppendFacts
    <3>2. \A i \in DOMAIN q.nodes : q.nodes[i] # n
      BY <1>3, <2>3 DEF Contains
    <3>3. r = a
      BY <2>3
    <3> HIDE DEF a, r
    <3>4. IsInjective(a)
      BY <1>1, <3>1, <3>2 DEF IsInjective
    <3>5. Range(a) = Range(q.nodes) \cup {n}
      BY <3>1 DEF Range
    <3> QED BY <2>3, <3>1, <3>3, <3>4, <3>5
  <2> QED BY <2>1, <2>2, <2>3
<1> HIDE DEF r
<1>5. w \in [Nodes -> Entries] /\ w[n] = entries /\ \A m \in Nodes : m # n => w[m] = q.waiting[m]
  BY <1>1
<1> HIDE DEF w, q1
<1>6. q1 \in QueueRecords /\ q1.stack = q.stack /\ q1.waiting = w /\ q1.nodes = r
  BY <1>1, <1>2, <1>4, <1>5 DEF QueueRecords
<1>7. Range(r) = { m \in Nodes : DOMAIN w[m] # {} }
  BY <1>1, <1>4, <1>5
<1>8. \A m \in Nodes :
       /\ IsFiniteSet(DOMAIN w[m])
       /\ \A k \in DOMAIN w[m] : DOMAIN w[m][k].data \in (SUBSET (1..Inputs(m))) \ {{}, 1..Inputs(m)}
  <2> TAKE m \in Nodes
  <2>1. CASE m = n
    BY <1>5, <2>1
  <2>2. CASE m # n
    BY <1>5, <2>2 DEF Shape
  <2> QED BY <2>1, <2>2
<1>9. Shape(q1)
  BY <1>4, <1>6, <1>7, <1>8 DEF Shape
<1> QED BY <1>6, <1>9 DEF q1, w

-----------------------------------------------------------------------------
(* What addNodeToBeExecuted() does.                                        *)

\* An item of n with data x is put on the stack or x is left in an entry k of n, and no
\* other entry changes, unless it goes.
Change(q, q1, n, k, x) ==
  /\ \A m \in Nodes \ {n} : q1.waiting[m] = q.waiting[m]
  /\ \A j \in DOMAIN q1.waiting[n] \ {k} :
       j \in DOMAIN q.waiting[n] /\ q1.waiting[n][j] = q.waiting[n][j]
  /\ \/ /\ k \notin DOMAIN q1.waiting[n]
        /\ \E item \in Items : item.node = n /\ item.data = x /\ q1.stack = <<item>> \o q.stack
     \/ /\ k \in DOMAIN q1.waiting[n] /\ q1.waiting[n][k].data = x
        /\ q1.stack = q.stack

\* Entry k of n has b, which lacks input i, or no entry of n does and k is their number.
Chosen(q, n, i, k, b) ==
  \/ k \in DOMAIN q.waiting[n] /\ b = q.waiting[n][k].data
  \/ /\ DOMAIN b = {} /\ k = Cardinality(DOMAIN q.waiting[n])
     /\ \A j \in DOMAIN q.waiting[n] : i \in DOMAIN q.waiting[n][j].data

\* x is d for input i, with what the entry had. On the stack it has all the inputs, and no other
\* entry goes.
Adds(q, q1, n, i, d) ==
  \E k \in Nat, b \in Data, x \in Data :
    /\ i \notin DOMAIN b /\ DOMAIN x = DOMAIN b \cup {i}
    /\ x[i] = d /\ \A j \in DOMAIN b : x[j] = b[j]
    /\ Chosen(q, n, i, k, b)
    /\ Change(q, q1, n, k, x)
    /\ k \notin DOMAIN q1.waiting[n] => 1..Inputs(n) \subseteq DOMAIN x
    /\ DOMAIN q.waiting[n] \ {k} \subseteq DOMAIN q1.waiting[n]

SourceOK(item) == item.data = StartData \/ item.source = item.data
Sourced(q) ==
  /\ \A k \in DOMAIN q.stack : SourceOK(q.stack[k])
  /\ \A n \in Nodes : \A k \in DOMAIN q.waiting[n] : q.waiting[n][k].source = q.waiting[n][k].data

\* The entry that data is added to: what it had, and the data.
LEMMA AddedFacts ==
  ASSUME NEW entries \in Entries, NEW k \in Nat, NEW i \in Numbers, NEW d \in Datum
  PROVE  LET x == Added(entries, k, i, d).data
             s == Added(entries, k, i, d).source
         IN /\ x \in Data /\ s \in Data
            /\ \E b \in Data :
                 /\ x = Put(b, i, d) /\ i \notin DOMAIN b
                 /\ DOMAIN x = DOMAIN b \cup {i} /\ x[i] = d /\ \A j \in DOMAIN b : x[j] = b[j]
                 /\ \/ /\ b = <<>> /\ s = <<>> /\ DOMAIN b = {}
                       /\ k \notin DOMAIN entries \/ i \in DOMAIN entries[k].data
                    \/ k \in DOMAIN entries /\ b = entries[k].data /\ s = entries[k].source
<1> DEFINE x == Added(entries, k, i, d).data
           s == Added(entries, k, i, d).source
           none == <<>>
<1>1. none \in Data /\ DOMAIN none = {} /\ Only(i, d) = Put(none, i, d)
  BY OnlyFacts DEF Data, Only
<1> HIDE DEF none
<1>2. ASSUME NEW b \in Data, i \notin DOMAIN b
      PROVE  /\ Put(b, i, d) \in Data
             /\ DOMAIN Put(b, i, d) = DOMAIN b \cup {i} /\ Put(b, i, d)[i] = d
             /\ \A j \in DOMAIN b : Put(b, i, d)[j] = b[j]
  <2>1. /\ Put(b, i, d) \in Objects(Numbers, Datum)
        /\ DOMAIN Put(b, i, d) = DOMAIN b \cup {i} /\ Put(b, i, d)[i] = d
        /\ \A j \in DOMAIN b : j # i => Put(b, i, d)[j] = b[j]
    BY PutFacts DEF Data
  <2> QED BY <1>2, <2>1 DEF Data
<1>3. CASE k \in DOMAIN entries /\ i \notin DOMAIN entries[k].data
  <2>1. entries[k] \in EntryRecords
    BY <1>3, ObjectFacts DEF Entries
  <2>2. x = Put(entries[k].data, i, d) /\ s = entries[k].source
    BY <1>3 DEF Added
  <2> HIDE DEF x, s
  <2>3. entries[k].data \in Data /\ s \in Data
    BY <2>1, <2>2 DEF EntryRecords
  <2> DEFINE b == entries[k].data
  <2>4. b \in Data /\ i \notin DOMAIN b /\ x = Put(b, i, d)
    BY <1>3, <2>2, <2>3
  <2>5. s = entries[k].source
    BY <2>2
  <2> HIDE DEF b
  <2>6. x \in Data /\ DOMAIN x = DOMAIN b \cup {i} /\ x[i] = d /\ \A j \in DOMAIN b : x[j] = b[j]
    BY <1>2, <2>4
  <2>7. k \in DOMAIN entries /\ b = entries[k].data /\ s = entries[k].source
    BY <1>3, <2>5 DEF b
  <2> QED BY <2>3, <2>4, <2>6, <2>7 DEF x, s
<1>4. CASE ~(k \in DOMAIN entries /\ i \notin DOMAIN entries[k].data)
  <2>1. x = Put(none, i, d) /\ s = none
    BY <1>1, <1>4 DEF Added, none
  <2> HIDE DEF x, s
  <2> QED BY <1>1, <1>2, <1>4, <2>1 DEF x, s, none
<1> QED BY <1>3, <1>4

\* The entries with one of them put in place.
LEMMA EntryKept ==
  ASSUME NEW entries \in Entries, NEW k \in Nat, NEW record \in EntryRecords
  PROVE  /\ Put(entries, k, record) \in Entries
         /\ DOMAIN Put(entries, k, record) = DOMAIN entries \cup {k}
         /\ Put(entries, k, record)[k] = record
         /\ \A j \in DOMAIN entries : j # k => Put(entries, k, record)[j] = entries[j]
<1>1. ASSUME NEW i \in Indices
      PROVE  /\ Put(entries, i, record) \in Entries
             /\ DOMAIN Put(entries, i, record) = DOMAIN entries \cup {i}
             /\ Put(entries, i, record)[i] = record
             /\ \A j \in DOMAIN entries : j # i => Put(entries, i, record)[j] = entries[j]
  BY PutFacts DEF Entries
<1> QED BY <1>1 DEF Indices

\* The entries without one of them.
LEMMA EntryGone ==
  ASSUME NEW entries \in Entries, NEW k
  PROVE  /\ Without(entries, k) \in Entries
         /\ DOMAIN Without(entries, k) = DOMAIN entries \ {k}
         /\ \A j \in DOMAIN entries \ {k} : Without(entries, k)[j] = entries[j]
<1>1. Without(entries, k) \in Entries
  BY WithoutFacts DEF Entries
<1>2. /\ DOMAIN Without(entries, k) = DOMAIN entries \ {k}
      /\ \A j \in DOMAIN entries \ {k} : Without(entries, k)[j] = entries[j]
  BY DEF Without
<1> QED BY <1>1, <1>2

\* The entry that is chosen has nothing on the input.
LEMMA EntryForFacts ==
  ASSUME NEW entries \in Entries, IsFiniteSet(DOMAIN entries), NEW i
  PROVE  LET k == EntryFor(entries, i) IN
         /\ k \in Nat
         /\ \/ k \in DOMAIN entries /\ i \notin DOMAIN entries[k].data
            \/ k = Cardinality(DOMAIN entries) /\ \A j \in DOMAIN entries : i \in DOMAIN entries[j].data
<1> DEFINE lacking == { k \in DOMAIN entries : i \notin DOMAIN entries[k].data }
<1>1. lacking \in SUBSET Nat
  <2>1. DOMAIN entries \subseteq Indices
    BY ObjectFacts DEF Entries
  <2> QED BY <2>1 DEF Indices
<1>2. CASE lacking = {}
  BY <1>2, FS_CardinalityType DEF EntryFor
<1>3. CASE lacking # {}
  <2>1. EntryFor(entries, i) = Min(lacking)
    BY <1>3 DEF EntryFor
  <2>2. Min(lacking) \in lacking
    <3> HIDE DEF lacking
    <3> QED BY <1>1, <1>3, MinFacts
  <2> QED BY <1>1, <2>1, <2>2
<1> QED BY <1>2, <1>3

\* An item of a node is one of the items of the stack.
LEMMA ItemFacts ==
  ASSUME instance \in Nat, NEW n \in Nodes, NEW x \in Data, NEW s \in Data
  PROVE  /\ Item(n, x, s) \in Items
         /\ Item(n, x, s).node = n /\ Item(n, x, s).data = x /\ Item(n, x, s).source = s
         /\ Item(n, x, s).instance <= instance
  BY DEF Item, Items

\* The data of an item put on the stack has all the inputs, that of an entry has not.
LEMMA AddOne ==
  ASSUME workflow \in Workflows, instance \in Nat, NEW q, Shape(q),
         NEW c \in Connections, c.index \in 1..Inputs(c.node), NEW d \in Datum
  PROVE  LET q1 == AddNodeToBeExecuted(q, c, d)
         IN /\ Shape(q1) /\ Adds(q, q1, c.node, c.index, d)
            /\ TwoInputs /\ Sourced(q) => Sourced(q1)
<1> DEFINE n  == c.node
           i  == c.index
           q1 == AddNodeToBeExecuted(q, c, d)
           entries == q.waiting[n]
           none == <<>>
<1>1. n \in Nodes /\ i \in Numbers /\ Inputs(n) \in Nat /\ i \in 1..Inputs(n)
  BY InputsFacts DEF Connections, Numbers
<1>2. /\ q \in QueueRecords /\ q.waiting \in [Nodes -> Entries] /\ entries \in Entries
      /\ IsFiniteSet(DOMAIN entries)
      /\ \A k \in DOMAIN entries : DOMAIN entries[k].data \in (SUBSET (1..Inputs(n))) \ {{}, 1..Inputs(n)}
  BY <1>1 DEF Shape, QueueRecords
<1>3. none \in Data /\ DOMAIN none = {} /\ Only(i, d) = Put(none, i, d)
  BY <1>1, OnlyFacts DEF Data, Only
<1>4. Only(i, d) \in Data /\ DOMAIN Only(i, d) = {i} /\ Only(i, d)[i] = d
  <2> HIDE DEF i
  <2> QED BY <1>1, OnlyFacts DEF Data
<1>5. CASE Inputs(n) <= 1
  <2> DEFINE item == Item(n, Only(i, d), Only(i, d))
  <2>1. i = 1 /\ q1 = Enqueued(q, item)
    BY <1>1, <1>5 DEF AddNodeToBeExecuted
  <2>2. DOMAIN entries = {} /\ 1..Inputs(n) = {1}
    <3>1. \A D \in SUBSET (1..Inputs(n)) : D = {} \/ D = 1..Inputs(n)
      <4>1. Inputs(n) = 1 /\ 1..1 = {1}
        BY <1>1, <1>5
      <4> QED BY <4>1
    <3>2. ASSUME NEW k \in DOMAIN entries PROVE FALSE
      <4> DEFINE D == DOMAIN entries[k].data
      <4>1. D \in SUBSET (1..Inputs(n)) /\ D # {} /\ D # 1..Inputs(n)
        BY <1>2
      <4> HIDE DEF D, n, entries
      <4> QED BY <3>1, <4>1
    <3>3. Inputs(n) = 1
      BY <1>1, <1>5
    <3> QED BY <3>2, <3>3
  <2> HIDE DEF n, i
  <2>3. item \in Items /\ item.node = n /\ item.data = Only(i, d) /\ item.source = item.data
        /\ item.instance <= instance
    BY <1>1, <1>4, ItemFacts
  <2> HIDE DEF item
  <2>4. /\ Shape(q1) /\ q1.stack = <<item>> \o q.stack /\ q1.waiting = q.waiting
    <3>1. DOMAIN item.data # {}
      BY <1>4, <2>3
    <3> QED BY <2>1, <2>3, <3>1, EnqueuedShape
  <2>5. Change(q, q1, n, 0, Only(i, d))
    BY <2>2, <2>3, <2>4 DEF Change
  <2>6. Adds(q, q1, n, i, d)
    <3>1. \A j \in DOMAIN none : Only(i, d)[j] = none[j]
      BY <1>3
    <3>2. Chosen(q, n, i, 0, none)
      <4>1. Cardinality({}) = 0
        BY FS_EmptySet
      <4> HIDE DEF none
      <4> QED BY <1>3, <2>2, <4>1 DEF Chosen, entries
    <3>3. 1..Inputs(n) \subseteq DOMAIN Only(i, d) /\ DOMAIN q.waiting[n] \ {0} \subseteq DOMAIN q1.waiting[n]
      BY <1>4, <2>1, <2>2, <2>4 DEF i, n
    <3> HIDE DEF none
    <3> QED BY <1>3, <1>4, <2>5, <3>1, <3>2, <3>3 DEF Adds
  <2>7. Sourced(q) => Sourced(q1)
    <3>1. q.stack \in Seq(Items)
      BY <1>2 DEF QueueRecords
    <3>2. /\ (<<item>> \o q.stack)[1] = item
          /\ \A k \in DOMAIN (<<item>> \o q.stack) :
               k = 1 \/ (k - 1 \in DOMAIN q.stack /\ (<<item>> \o q.stack)[k] = q.stack[k - 1])
      BY <2>3, <3>1, PushFacts
    <3> QED BY <2>3, <2>4, <3>2 DEF Sourced, SourceOK
  <2> QED BY <2>4, <2>6, <2>7 DEF n, i
<1>6. CASE ~(Inputs(n) <= 1)
  <2> DEFINE k == EntryFor(entries, i)
             entry == Added(entries, k, i, d)
             x == entry.data
             s == entry.source
  <2>1. /\ k \in Nat
        /\ \/ k \in DOMAIN entries /\ i \notin DOMAIN entries[k].data
           \/ k = Cardinality(DOMAIN entries) /\ \A j \in DOMAIN entries : i \in DOMAIN entries[j].data
    BY <1>2, EntryForFacts
  <2> HIDE DEF k, n, i, entries
  <2>2. /\ x \in Data /\ s \in Data
        /\ \E b \in Data :
             /\ x = Put(b, i, d) /\ i \notin DOMAIN b
             /\ DOMAIN x = DOMAIN b \cup {i} /\ x[i] = d /\ \A j \in DOMAIN b : x[j] = b[j]
             /\ \/ /\ b = <<>> /\ s = <<>> /\ DOMAIN b = {}
                   /\ k \notin DOMAIN entries \/ i \in DOMAIN entries[k].data
                \/ k \in DOMAIN entries /\ b = entries[k].data /\ s = entries[k].source
    <3>1. entries \in Entries /\ k \in Nat /\ i \in Numbers
      BY <1>1, <1>2, <2>1
    <3> HIDE DEF entry
    <3>2. entry = Added(entries, k, i, d)
      BY DEF entry
    <3> QED BY <3>1, <3>2, AddedFacts
  <2>3. PICK b \in Data :
             /\ x = Put(b, i, d) /\ i \notin DOMAIN b
             /\ DOMAIN x = DOMAIN b \cup {i} /\ x[i] = d /\ \A j \in DOMAIN b : x[j] = b[j]
             /\ \/ /\ b = none /\ s = none /\ DOMAIN b = {}
                   /\ k \notin DOMAIN entries \/ i \in DOMAIN entries[k].data
                \/ k \in DOMAIN entries /\ b = entries[k].data /\ s = entries[k].source
    BY <2>2
  <2>4. /\ Without(entries, k) \in Entries
        /\ DOMAIN Without(entries, k) = DOMAIN entries \ {k}
        /\ \A j \in DOMAIN entries \ {k} : Without(entries, k)[j] = entries[j]
    BY <1>2, EntryGone DEF Without
  <2> DEFINE item == Item(n, x, Put(s, i, d))
             q0 == Enqueued(q, item)
             record == [data |-> x, source |-> Only(i, d)]
  <2>5. q1 = IF DOMAIN x = 1..Inputs(n)
             THEN Waits(q0, n, Without(entries, k))
             ELSE Waits(q, n, Put(entries, k, record))
    BY <1>6 DEF AddNodeToBeExecuted, n, i, entries, k
  <2> HIDE DEF entry
  <2>6. Chosen(q, n, i, k, b)
    BY <2>1, <2>3 DEF Chosen, entries
  <2>7. Sourced(q) => b = s
    <3>1. k \in DOMAIN entries /\ Sourced(q) => entries[k].data = entries[k].source
      BY <1>1 DEF Sourced, entries
    <3> QED BY <2>3, <3>1
  <2> HIDE DEF none, entry
  <2>8. CASE DOMAIN x = 1..Inputs(n)
    <3>1. /\ item \in Items /\ item.node = n /\ item.data = x /\ item.source = Put(s, i, d)
          /\ item.instance <= instance
      <4>1. Put(s, i, d) \in Data
        BY <1>1, <2>2, PutFacts DEF Data
      <4> QED BY <1>1, <2>2, <4>1, ItemFacts
    <3> HIDE DEF item
    <3>2. Shape(q0) /\ q0.stack = <<item>> \o q.stack /\ q0.waiting = q.waiting
      <4>1. DOMAIN item.data # {}
        BY <2>3, <3>1
      <4> QED BY <3>1, <4>1, EnqueuedShape
    <3> DEFINE left == Without(entries, k)
    <3>3. /\ IsFiniteSet(DOMAIN left)
          /\ \A j \in DOMAIN left : DOMAIN left[j].data \in (SUBSET (1..Inputs(n))) \ {{}, 1..Inputs(n)}
      BY <1>2, <2>4, FS_Subset DEF entries
    <3> HIDE DEF left, q0
    <3>4. /\ Shape(q1) /\ q1.stack = <<item>> \o q.stack
          /\ q1.waiting = [q.waiting EXCEPT ![n] = left]
      <4>1. /\ Shape(Waits(q0, n, left)) /\ Waits(q0, n, left).stack = q0.stack
            /\ Waits(q0, n, left).waiting = [q0.waiting EXCEPT ![n] = left]
        BY <1>1, <2>4, <3>2, <3>3, WaitsShape, SMTT(30) DEF left
      <4> QED BY <2>5, <2>8, <3>2, <4>1 DEF left
    <3>5. q1.waiting[n] = left /\ \A m \in Nodes \ {n} : q1.waiting[m] = q.waiting[m]
      BY <1>1, <1>2, <3>4
    <3>6. Change(q, q1, n, k, x)
      BY <2>4, <3>1, <3>4, <3>5 DEF Change, left, entries
    <3>7. Adds(q, q1, n, i, d)
      <4>1. DOMAIN q.waiting[n] \ {k} \subseteq DOMAIN q1.waiting[n]
        BY <2>4, <3>5 DEF left, entries
      <4> QED BY <2>1, <2>2, <2>3, <2>8, <2>6, <3>6, <4>1 DEF Adds
    <3>8. Sourced(q) => Sourced(q1)
      <4>1. q.stack \in Seq(Items)
        BY <1>2 DEF QueueRecords
      <4>2. /\ (<<item>> \o q.stack)[1] = item
            /\ \A j \in DOMAIN (<<item>> \o q.stack) :
                 j = 1 \/ (j - 1 \in DOMAIN q.stack /\ (<<item>> \o q.stack)[j] = q.stack[j - 1])
        BY <3>1, <4>1, PushFacts
      <4>3. Sourced(q) => item.source = item.data
        BY <2>3, <2>7, <3>1
      <4>4. Sourced(q) => \A j \in DOMAIN q1.stack : SourceOK(q1.stack[j])
        BY <3>4, <4>2, <4>3 DEF Sourced, SourceOK
      <4>5. ASSUME Sourced(q), NEW m \in Nodes, NEW j \in DOMAIN q1.waiting[m]
            PROVE  q1.waiting[m][j].source = q1.waiting[m][j].data
        <5>1. CASE m = n
          BY <1>1, <2>4, <3>5, <4>5, <5>1 DEF Sourced, left, entries
        <5>2. CASE m # n
          BY <3>5, <4>5, <5>2 DEF Sourced
        <5> QED BY <5>1, <5>2
      <4> QED BY <4>4, <4>5 DEF Sourced
    <3> QED BY <3>4, <3>7, <3>8 DEF n, i
  <2>9. CASE DOMAIN x # 1..Inputs(n)
    <3> DEFINE kept == Put(entries, k, record)
    <3>1. record \in EntryRecords /\ record.data = x /\ record.source = Only(i, d)
      BY <1>4, <2>2 DEF EntryRecords, i
    <3> HIDE DEF record
    <3>2. /\ kept \in Entries /\ DOMAIN kept = DOMAIN entries \cup {k} /\ kept[k] = record
          /\ \A j \in DOMAIN entries : j # k => kept[j] = entries[j]
      <4> HIDE DEF record
      <4>1. entries \in Entries
        BY <1>2
      <4> HIDE DEF kept
      <4>2. kept = Put(entries, k, record)
        BY DEF kept
      <4>3. kept \in Entries
        BY <4>1, <4>2, <2>1, <3>1, EntryKept
      <4>4. DOMAIN kept = DOMAIN entries \cup {k}
        BY <4>1, <4>2, <2>1, <3>1, EntryKept
      <4>5. kept[k] = record
        BY <4>1, <4>2, <2>1, <3>1, EntryKept
      <4>6. \A j \in DOMAIN entries : j # k => kept[j] = entries[j]
        BY <4>1, <4>2, <2>1, <3>1, EntryKept
      <4> QED BY <4>3, <4>4, <4>5, <4>6
    <3> HIDE DEF kept
    <3>3. DOMAIN b \subseteq 1..Inputs(n)
      BY <1>2, <2>3 DEF entries
    <3>4. DOMAIN x \in (SUBSET (1..Inputs(n))) \ {{}, 1..Inputs(n)}
      BY <1>1, <2>3, <2>9, <3>3 DEF i, n
    <3>5. /\ IsFiniteSet(DOMAIN kept)
          /\ \A j \in DOMAIN kept : DOMAIN kept[j].data \in (SUBSET (1..Inputs(n))) \ {{}, 1..Inputs(n)}
      <4>1. IsFiniteSet(DOMAIN kept)
        BY <1>2, <3>2, FS_AddElement
      <4> QED BY <1>2, <3>1, <3>2, <3>4, <4>1 DEF entries
    <3>6. /\ Shape(q1) /\ q1.stack = q.stack
          /\ q1.waiting = [q.waiting EXCEPT ![n] = kept]
      <4>1. /\ Shape(Waits(q, n, kept)) /\ Waits(q, n, kept).stack = q.stack
            /\ Waits(q, n, kept).waiting = [q.waiting EXCEPT ![n] = kept]
        BY <1>1, <3>2, <3>5, WaitsShape
      <4> QED BY <2>5, <2>9, <4>1 DEF kept
    <3>7. q1.waiting[n] = kept /\ \A m \in Nodes \ {n} : q1.waiting[m] = q.waiting[m]
      BY <1>1, <1>2, <3>6
    <3>8. Change(q, q1, n, k, x)
      BY <3>1, <3>2, <3>6, <3>7 DEF Change, entries
    <3>9. Adds(q, q1, n, i, d)
      <4>1. DOMAIN q.waiting[n] \ {k} \subseteq DOMAIN q1.waiting[n] /\ k \in DOMAIN q1.waiting[n]
        BY <3>2, <3>7 DEF entries
      <4> QED BY <2>1, <2>2, <2>3, <2>6, <3>8, <4>1 DEF Adds
    <3>10. TwoInputs => x = Only(i, d)
      <4> SUFFICES ASSUME TwoInputs PROVE x = Only(i, d)
        OBVIOUS
      <4>1. Inputs(n) = 2 /\ i \in 1..2
        BY <1>1, <1>6, InputsFacts DEF n, i
      <4>2. CASE DOMAIN b = {}
        BY <1>3, <2>3, <4>2, <1>2 DEF i
      <4>3. CASE DOMAIN b # {}
        <5>1. PICK j \in DOMAIN b : j # i /\ j \in 1..2
          BY <2>3, <3>3, <4>1, <4>3
        <5>2. \A l \in 1..2 : l = i \/ l = j
          BY <4>1, <5>1
        <5>3. DOMAIN x = 1..2
          BY <2>3, <3>3, <4>1, <5>1, <5>2
        <5> QED BY <2>9, <4>1, <5>3
      <4> QED BY <4>2, <4>3
    <3>11. TwoInputs /\ Sourced(q) => Sourced(q1)
      <4> SUFFICES ASSUME TwoInputs, Sourced(q) PROVE Sourced(q1)
        OBVIOUS
      <4>1. ASSUME NEW m \in Nodes, NEW j \in DOMAIN q1.waiting[m]
            PROVE  q1.waiting[m][j].source = q1.waiting[m][j].data
        <5>1. CASE m = n
          BY <1>1, <3>1, <3>2, <3>7, <3>10, <5>1 DEF Sourced, entries
        <5>2. CASE m # n
          BY <3>7, <5>2 DEF Sourced
        <5> QED BY <5>1, <5>2
      <4> QED BY <3>6, <4>1 DEF Sourced
    <3> QED BY <3>6, <3>9, <3>11 DEF n, i
  <2> QED BY <2>8, <2>9
<1> QED BY <1>5, <1>6

-----------------------------------------------------------------------------
(* No data is in two places.                                               *)

\* Two of the items, entries and runs of a node have data in common.
Common(d, e) == \E i \in DOMAIN d \cap DOMAIN e : d[i] = e[i]

Alone(q) ==
  /\ \A j, k \in DOMAIN q.stack :
       j # k /\ q.stack[j].node = q.stack[k].node => ~Common(q.stack[j].data, q.stack[k].data)
  /\ \A n \in Nodes : \A k \in DOMAIN q.waiting[n] :
       /\ \A j \in DOMAIN q.waiting[n] \ {k} : ~Common(q.waiting[n][j].data, q.waiting[n][k].data)
       /\ \A j \in DOMAIN q.stack :
            q.stack[j].node = n => ~Common(q.stack[j].data, q.waiting[n][k].data)

\* Data that no item and no entry of n has a part of.
OutOf(q, n, data) ==
  /\ \A j \in DOMAIN q.stack : q.stack[j].node = n => ~Common(q.stack[j].data, data)
  /\ \A k \in DOMAIN q.waiting[n] : ~Common(q.waiting[n][k].data, data)

\* The entry whose place x takes is the only one that may have something in common with x.
Apart(q, n, k, x) ==
  /\ \A j \in DOMAIN q.stack : q.stack[j].node = n => ~Common(q.stack[j].data, x)
  /\ \A j \in DOMAIN q.waiting[n] \ {k} : ~Common(q.waiting[n][j].data, x)

\* Having data in common goes both ways.
LEMMA CommonBoth ==
  ASSUME NEW d, NEW e, Common(d, e)
  PROVE  Common(e, d)
  BY DEF Common

\* An entry that grows or goes on the stack stays apart from the others.
LEMMA ChangeApart ==
  ASSUME NEW q \in QueueRecords, NEW q1, NEW n \in Nodes, NEW k, NEW x, Change(q, q1, n, k, x),
         Apart(q, n, k, x)
  PROVE  /\ Alone(q) => Alone(q1)
         /\ \A m \in Nodes : \A y :
              OutOf(q, m, y) /\ (m = n => ~Common(x, y)) => OutOf(q1, m, y)
<1>1. q.stack \in Seq(Items)
  BY DEF QueueRecords
\* What the items of n have: the same as before, or x.
<1>2. ASSUME NEW j \in DOMAIN q1.stack
      PROVE  \/ /\ k \notin DOMAIN q1.waiting[n] /\ j = 1
                /\ q1.stack[j].node = n /\ q1.stack[j].data = x
             \/ /\ k \notin DOMAIN q1.waiting[n] /\ j # 1
                /\ j - 1 \in DOMAIN q.stack /\ q1.stack[j] = q.stack[j - 1]
             \/ /\ k \in DOMAIN q1.waiting[n] /\ j \in DOMAIN q.stack /\ q1.stack[j] = q.stack[j]
  <2>1. CASE k \in DOMAIN q1.waiting[n]
    BY <2>1 DEF Change
  <2>2. CASE k \notin DOMAIN q1.waiting[n]
    <3>1. PICK item \in Items : item.node = n /\ item.data = x /\ q1.stack = <<item>> \o q.stack
      BY <2>2 DEF Change
    <3> DEFINE s == <<item>> \o q.stack
    <3>2. s[1] = item /\ \A l \in DOMAIN s : l = 1 \/ (l - 1 \in DOMAIN q.stack /\ s[l] = q.stack[l - 1])
      BY <1>1, PushFacts
    <3>3. q1.stack = s
      BY <3>1
    <3> HIDE DEF s
    <3> QED BY <2>2, <3>1, <3>2, <3>3
  <2> QED BY <2>1, <2>2
<1>3. ASSUME NEW j \in DOMAIN q1.stack, q1.stack[j].node = n
      PROVE  \/ /\ k \notin DOMAIN q1.waiting[n] /\ q1.stack[j].data = x
             \/ ~Common(q1.stack[j].data, x)
  BY <1>2, <1>3 DEF Apart
<1>4. ASSUME NEW m \in Nodes, NEW j \in DOMAIN q1.waiting[m]
      PROVE  \/ m = n /\ j = k /\ q1.waiting[m][j].data = x
             \/ /\ m # n \/ j # k
                /\ j \in DOMAIN q.waiting[m] /\ q1.waiting[m][j] = q.waiting[m][j]
                /\ m = n => ~Common(q1.waiting[m][j].data, x)
  BY DEF Change, Apart
<1>5. DOMAIN q.stack \subseteq Nat /\ DOMAIN q1.stack \subseteq Nat
  <2>1. DOMAIN q.stack \subseteq Nat
    BY <1>1, LenProperties
  <2>2. \A j \in DOMAIN q1.stack : j = 1 \/ j - 1 \in Nat \/ j \in Nat
    BY <1>2, <2>1
  <2>3. CASE k \in DOMAIN q1.waiting[n]
    BY <2>1, <2>3 DEF Change
  <2>4. CASE k \notin DOMAIN q1.waiting[n]
    <3>1. PICK item \in Items : q1.stack = <<item>> \o q.stack
      BY <2>4 DEF Change
    <3>2. <<item>> \o q.stack \in Seq(Items)
      BY <1>1, PushFacts
    <3> QED BY <3>1, <3>2, LenProperties
  <2> QED BY <2>1, <2>3, <2>4
<1>6. ASSUME Alone(q) PROVE Alone(q1)
  <2>1. ASSUME NEW i \in DOMAIN q1.stack, NEW j \in DOMAIN q1.stack, i # j,
               q1.stack[i].node = q1.stack[j].node
        PROVE  ~Common(q1.stack[i].data, q1.stack[j].data)
    <3>1. CASE i = 1 /\ k \notin DOMAIN q1.waiting[n]
      <4>1. q1.stack[i].data = x /\ q1.stack[j].node = n
        BY <1>2, <2>1, <3>1
      <4>2. j # 1 /\ j - 1 \in DOMAIN q.stack /\ q1.stack[j] = q.stack[j - 1]
        BY <1>2, <2>1, <3>1
      <4> QED BY <4>1, <4>2, CommonBoth DEF Apart
    <3>2. CASE j = 1 /\ k \notin DOMAIN q1.waiting[n]
      <4>1. q1.stack[j].data = x /\ q1.stack[i].node = n
        BY <1>2, <2>1, <3>2
      <4>2. i # 1 /\ i - 1 \in DOMAIN q.stack /\ q1.stack[i] = q.stack[i - 1]
        BY <1>2, <2>1, <3>2
      <4> QED BY <4>1, <4>2 DEF Apart
    <3>3. CASE i # 1 /\ j # 1 /\ k \notin DOMAIN q1.waiting[n]
      <4>1. /\ i - 1 \in DOMAIN q.stack /\ q1.stack[i] = q.stack[i - 1]
            /\ j - 1 \in DOMAIN q.stack /\ q1.stack[j] = q.stack[j - 1]
        BY <1>2, <3>3
      <4>2. i - 1 # j - 1
        BY <1>5, <2>1
      <4> QED BY <1>6, <2>1, <4>1, <4>2 DEF Alone
    <3>4. CASE k \in DOMAIN q1.waiting[n]
      BY <1>2, <1>6, <2>1, <3>4 DEF Alone
    <3> QED BY <3>1, <3>2, <3>3, <3>4
  <2>2. ASSUME NEW m \in Nodes, NEW i \in DOMAIN q1.waiting[m], NEW j \in DOMAIN q1.waiting[m] \ {i}
        PROVE  ~Common(q1.waiting[m][j].data, q1.waiting[m][i].data)
    BY <1>4, <1>6, CommonBoth DEF Alone
  <2>3. ASSUME NEW m \in Nodes, NEW i \in DOMAIN q1.waiting[m], NEW j \in DOMAIN q1.stack,
               q1.stack[j].node = m
        PROVE  ~Common(q1.stack[j].data, q1.waiting[m][i].data)
    <3>1. CASE m = n /\ i = k
      <4>1. q1.waiting[m][i].data = x /\ k \in DOMAIN q1.waiting[n]
        BY <1>4, <3>1
      <4> QED BY <1>3, <2>3, <3>1, <4>1
    <3>2. CASE m # n \/ i # k
      <4>1. /\ i \in DOMAIN q.waiting[m] /\ q1.waiting[m][i] = q.waiting[m][i]
            /\ m = n => ~Common(q1.waiting[m][i].data, x)
        BY <1>4, <3>2
      <4>2. CASE q1.stack[j].node = n /\ q1.stack[j].data = x
        BY <2>3, <4>1, <4>2, CommonBoth
      <4>3. CASE \E l \in DOMAIN q.stack : q1.stack[j] = q.stack[l]
        BY <1>6, <2>3, <4>1, <4>3 DEF Alone
      <4> QED BY <1>2, <4>2, <4>3
    <3> QED BY <3>1, <3>2
  <2> QED BY <2>1, <2>2, <2>3 DEF Alone
<1>7. ASSUME NEW m \in Nodes, NEW y, OutOf(q, m, y), m = n => ~Common(x, y)
      PROVE  OutOf(q1, m, y)
  <2>1. ASSUME NEW j \in DOMAIN q1.stack, q1.stack[j].node = m
        PROVE  ~Common(q1.stack[j].data, y)
    <3>1. CASE q1.stack[j].node = n /\ q1.stack[j].data = x
      BY <1>7, <2>1, <3>1
    <3>2. CASE \E l \in DOMAIN q.stack : q1.stack[j] = q.stack[l]
      BY <1>7, <2>1, <3>2 DEF OutOf
    <3> QED BY <1>2, <3>1, <3>2
  <2>2. \A j \in DOMAIN q1.waiting[m] : ~Common(q1.waiting[m][j].data, y)
    BY <1>4, <1>7 DEF OutOf
  <2> QED BY <2>1, <2>2 DEF OutOf
<1> QED BY <1>6, <1>7

\* Data d that is new for input i of n: nobody has it there, and whoever does not have it
\* keeps apart.
LEMMA AddApart ==
  ASSUME NEW q \in QueueRecords, NEW q1, NEW n \in Nodes, NEW i \in Numbers, NEW d \in Datum,
         Adds(q, q1, n, i, d), Alone(q), OutOf(q, n, Only(i, d))
  PROVE  /\ Alone(q1)
         /\ \A m \in Nodes : \A y :
              OutOf(q, m, y) /\ ~(m = n /\ i \in DOMAIN y /\ y[i] = d) => OutOf(q1, m, y)
<1>1. PICK k \in Nat, b \in Data, x \in Data :
        /\ i \notin DOMAIN b /\ DOMAIN x = DOMAIN b \cup {i}
        /\ x[i] = d /\ \A j \in DOMAIN b : x[j] = b[j]
        /\ DOMAIN b = {} \/ (k \in DOMAIN q.waiting[n] /\ b = q.waiting[n][k].data)
        /\ Change(q, q1, n, k, x)
  BY DEF Adds, Chosen
<1>2. \A y : Common(y, x) => Common(y, b) \/ (i \in DOMAIN y /\ y[i] = d)
  BY <1>1 DEF Common
<1>3. DOMAIN Only(i, d) = {i} /\ Only(i, d)[i] = d
  BY DEF Only, Put
<1>4. \A y : i \in DOMAIN y /\ y[i] = d => Common(y, Only(i, d))
  BY <1>3 DEF Common
<1>5. Apart(q, n, k, x)
  <2>1. ASSUME NEW j \in DOMAIN q.stack, q.stack[j].node = n
        PROVE  ~Common(q.stack[j].data, x)
    <3>1. ~Common(q.stack[j].data, b)
      <4>1. CASE DOMAIN b = {}
        BY <4>1 DEF Common
      <4>2. CASE k \in DOMAIN q.waiting[n] /\ b = q.waiting[n][k].data
        BY <2>1, <4>2 DEF Alone
      <4> QED BY <1>1, <4>1, <4>2
    <3> QED BY <1>2, <1>4, <2>1, <3>1 DEF OutOf
  <2>2. ASSUME NEW j \in DOMAIN q.waiting[n] \ {k}
        PROVE  ~Common(q.waiting[n][j].data, x)
    <3>1. ~Common(q.waiting[n][j].data, b)
      <4>1. CASE DOMAIN b = {}
        BY <4>1 DEF Common
      <4>2. CASE k \in DOMAIN q.waiting[n] /\ b = q.waiting[n][k].data
        BY <2>2, <4>2 DEF Alone
      <4> QED BY <1>1, <4>1, <4>2
    <3> QED BY <1>2, <1>4, <2>2, <3>1 DEF OutOf
  <2> QED BY <2>1, <2>2 DEF Apart
<1>6. ASSUME NEW y, OutOf(q, n, y), ~(i \in DOMAIN y /\ y[i] = d)
      PROVE  ~Common(x, y)
  <2>1. ~Common(b, y)
    BY <1>1, <1>6 DEF OutOf, Common
  <2> QED BY <1>2, <1>6, <2>1, CommonBoth
<1> QED BY <1>1, <1>5, <1>6, ChangeApart

-----------------------------------------------------------------------------
(* Where the data comes from, and its order on the stack.                  *)

AllIn(q, D) ==
  /\ \A k \in DOMAIN q.stack : Range(q.stack[k].data) \subseteq D
  /\ \A n \in Nodes : \A k \in DOMAIN q.waiting[n] : Range(q.waiting[n][k].data) \subseteq D

\* What is below on the stack is related to what is above it.
Ordered(s, R) ==
  \A j, k \in DOMAIN s : j < k => <<s[k].data, s[j].data>> \in R

\* Data with a part in F is related to all that is below it.
Newest(R, F, D) ==
  \A x, y \in Data : Range(x) \cap F # {} /\ Range(y) \subseteq D => <<y, x>> \in R

\* Data that is newer than all there is goes on top of the stack, and the stack stays in order.
LEMMA AddOrdered ==
  ASSUME NEW q \in QueueRecords, NEW q1, NEW n \in Nodes, NEW i, NEW d,
         Adds(q, q1, n, i, d), NEW D, AllIn(q, D), NEW F, d \in D \cap F,
         NEW R, Ordered(q.stack, R), Newest(R, F, D)
  PROVE  AllIn(q1, D) /\ Ordered(q1.stack, R)
<1>1. PICK k \in Nat, b \in Data, x \in Data :
        /\ i \notin DOMAIN b /\ DOMAIN x = DOMAIN b \cup {i}
        /\ x[i] = d /\ \A j \in DOMAIN b : x[j] = b[j]
        /\ DOMAIN b = {} \/ (k \in DOMAIN q.waiting[n] /\ b = q.waiting[n][k].data)
        /\ Change(q, q1, n, k, x)
  BY DEF Adds, Chosen
<1>2. Range(x) \subseteq D /\ d \in Range(x)
  <2>1. Range(b) \subseteq D
    BY <1>1 DEF AllIn, Range
  <2>2. \A j \in DOMAIN x : x[j] = d \/ x[j] \in Range(b)
    BY <1>1 DEF Range
  <2> QED BY <1>1, <2>1, <2>2 DEF Range
<1>3. \A m \in Nodes : \A j \in DOMAIN q1.waiting[m] : Range(q1.waiting[m][j].data) \subseteq D
  <2> TAKE m \in Nodes
  <2> TAKE j \in DOMAIN q1.waiting[m]
  <2>1. CASE m = n /\ j = k
    BY <1>1, <1>2, <2>1 DEF Change
  <2>2. CASE m # n \/ j # k
    <3>1. j \in DOMAIN q.waiting[m] /\ q1.waiting[m][j] = q.waiting[m][j]
      BY <1>1, <2>2 DEF Change
    <3> QED BY <3>1 DEF AllIn
  <2> QED BY <2>1, <2>2
<1>4. q.stack \in Seq(Items) /\ \A j \in DOMAIN q.stack : j \in Nat /\ q.stack[j].data \in Data
  <2>1. q.stack \in Seq(Items)
    BY DEF QueueRecords
  <2>2. \A j \in DOMAIN q.stack : j \in 1..Len(q.stack) /\ Len(q.stack) \in Nat
    BY <2>1, LenProperties
  <2>3. \A j \in DOMAIN q.stack : q.stack[j] \in Items
    BY <2>1, <2>2, ElementOfSeq
  <2> QED BY <2>1, <2>2, <2>3 DEF Items
<1>5. CASE q1.stack = q.stack
  BY <1>3, <1>5 DEF AllIn
<1>6. CASE \E item \in Items : item.node = n /\ item.data = x /\ q1.stack = <<item>> \o q.stack
  <2>1. PICK item \in Items : item.node = n /\ item.data = x /\ q1.stack = <<item>> \o q.stack
    BY <1>6
  <2> DEFINE s == <<item>> \o q.stack
  <2>2. /\ s[1] = item
        /\ \A l \in DOMAIN s : l = 1 \/ (l - 1 \in DOMAIN q.stack /\ s[l] = q.stack[l - 1])
        /\ s \in Seq(Items)
    BY <1>4, PushFacts
  <2>3. DOMAIN s \subseteq Nat
    BY <2>2, LenProperties
  <2>4. q1.stack = s
    BY <2>1
  <2> HIDE DEF s
  <2>5. \A l \in DOMAIN s : Range(s[l].data) \subseteq D
    BY <1>2, <2>1, <2>2 DEF AllIn
  <2>6. ASSUME NEW j \in DOMAIN s, NEW l \in DOMAIN s, j < l
        PROVE  <<s[l].data, s[j].data>> \in R
    <3>1. 0 \notin DOMAIN s /\ l # 1 /\ l - 1 \in DOMAIN q.stack /\ s[l] = q.stack[l - 1]
      <4>1. DOMAIN s = 1..Len(s) /\ Len(s) \in Nat
        BY <2>2, LenProperties
      <4> QED BY <2>2, <2>6, <4>1
    <3>2. CASE j = 1
      <4>1. s[j].data = x /\ s[l].data \in Data /\ Range(s[l].data) \subseteq D
        BY <1>4, <2>1, <2>2, <2>5, <3>1, <3>2
      <4> QED BY <1>1, <1>2, <4>1 DEF Newest
    <3>3. CASE j # 1
      <4>1. j - 1 \in DOMAIN q.stack /\ s[j] = q.stack[j - 1] /\ j - 1 < l - 1
        BY <2>2, <2>3, <2>6, <3>3
      <4> QED BY <3>1, <4>1 DEF Ordered
    <3> QED BY <3>2, <3>3
  <2> QED BY <1>3, <2>4, <2>5, <2>6 DEF AllIn, Ordered
<1> QED BY <1>1, <1>5, <1>6 DEF Change

-----------------------------------------------------------------------------
(* The loop over the connections, by induction.                            *)

\* The data that a run sends.
SentBy(n, run) == { d \in Datum : d.node = n /\ d.run = run }

\* The loop makes one step for each connection that the data is sent along.
Loops(f, q, n, run, cs) ==
  /\ f[0] = q
  /\ \A i \in 1..Len(cs) :
       f[i] = AddNodeToBeExecuted(f[i - 1], cs[i], [node |-> n, run |-> run, output |-> cs[i].output])

\* The connections are those of the node, each once, and addNodeToBeExecuted() is called for each.
LEMMA LoopFacts ==
  ASSUME workflow \in Workflows, NEW q, NEW n \in Nodes, NEW run, NEW outputs
  PROVE  LET cs == NodesToAdd(n, outputs)
         IN /\ cs \in Seq(Connections) /\ Len(cs) \in Nat /\ DOMAIN cs = 1..Len(cs)
            /\ IsInjective(cs)
            /\ \A l \in 1..Len(cs) : /\ cs[l] \in Connections /\ cs[l].index \in 1..Inputs(cs[l].node)
                                    /\ cs[l].index \in Numbers /\ cs[l].node \in Nodes
                                    /\ cs[l] \in Range(ConnectionsOf(n))
            /\ \E f : Loops(f, q, n, run, cs) /\ AddNodes(q, n, run, outputs) = f[Len(cs)]
<1> DEFINE cs == NodesToAdd(n, outputs)
           Sent(c) == [node |-> n, run |-> run, output |-> c.output]
<1>1. /\ cs \in Seq(Connections) /\ Len(cs) \in Nat /\ DOMAIN cs = 1..Len(cs)
      /\ IsInjective(cs)
      /\ \A l \in 1..Len(cs) : cs[l] \in Connections /\ cs[l].index \in 1..Inputs(cs[l].node)
                              /\ cs[l].index \in Numbers /\ cs[l].node \in Nodes
                              /\ cs[l] \in Range(ConnectionsOf(n))
  <2>1. /\ cs \in Seq(Connections) /\ IsInjective(cs)
        /\ \A l \in DOMAIN cs : \E j \in DOMAIN ConnectionsOf(n) : cs[l] = ConnectionsOf(n)[j]
    BY NodesToAddFacts
  <2> HIDE DEF cs
  <2>2. Len(cs) \in Nat /\ DOMAIN cs = 1..Len(cs) /\ \A l \in 1..Len(cs) : cs[l] \in Connections
    BY <2>1, LenProperties, ElementOfSeq
  <2>3. \A l \in DOMAIN cs : cs[l].index \in 1..Inputs(cs[l].node)
    BY <2>1, InputsFacts
  <2>4. \A l \in DOMAIN cs : cs[l] \in Range(ConnectionsOf(n))
    BY <2>1 DEF Range
  <2> QED BY <2>1, <2>2, <2>3, <2>4 DEF Connections, Numbers
<1> DEFINE Step(p, i) == AddNodeToBeExecuted(p, cs[i], Sent(cs[i]))
           IsLoop(f, m) == f = [i \in 0..m |-> IF i = 0 THEN q ELSE Step(f[i - 1], i)]
<1>2. \A m \in Nat : \E f : IsLoop(f, m)
  <2> DEFINE S == { m \in Nat : ~\E f : IsLoop(f, m) }
  <2> SUFFICES ASSUME S # {} PROVE FALSE
    OBVIOUS
  <2>1. PICK m \in S : \A i \in S : m <= i
    <3>1. S \in SUBSET Nat
      OBVIOUS
    <3> HIDE DEF S
    <3> QED BY <3>1, LeastElement
  <2> HIDE DEF Step
  <2>2. m # 0
    <3> SUFFICES ASSUME m = 0 PROVE FALSE
      OBVIOUS
    <3> DEFINE g == [i \in 0..0 |-> q]
    <3>1. IsLoop(g, 0)
      OBVIOUS
    <3> QED BY <2>1, <3>1
  <2>3. m \in Nat \ {0} /\ m - 1 \in Nat /\ m - 1 \notin S
    <3>1. m \in Nat
      BY <2>1
    <3> HIDE DEF S
    <3> QED BY <2>1, <2>2, <3>1
  <2>4. PICK f : IsLoop(f, m - 1)
    BY <2>3
  <2> DEFINE g == [i \in 0..m |-> IF i = m THEN Step(f[m - 1], m) ELSE f[i]]
  <2>5. IsLoop(g, m)
    <3>1. f = [i \in 0..(m - 1) |-> IF i = 0 THEN q ELSE Step(f[i - 1], i)]
      BY <2>4
    <3>2. ASSUME NEW i \in 0..m PROVE g[i] = IF i = 0 THEN q ELSE Step(g[i - 1], i)
      <4>1. CASE i = m
        <5>1. g[i] = Step(f[m - 1], m) /\ g[i - 1] = f[m - 1] /\ i # 0
          BY <2>3, <4>1
        <5> QED BY <4>1, <5>1
      <4>2. CASE i # m
        <5>1. i \in 0..(m - 1) /\ g[i] = f[i]
          BY <2>3, <4>2
        <5>2. i # 0 => g[i - 1] = f[i - 1]
          BY <2>3, <4>2
        <5>3. f[i] = IF i = 0 THEN q ELSE Step(f[i - 1], i)
          BY <3>1, <5>1
        <5> QED BY <5>1, <5>2, <5>3
      <4> QED BY <4>1, <4>2
    <3> QED BY <3>2
  <2> QED BY <2>1, <2>5
<1>3. PICK f : IsLoop(f, Len(cs)) /\ AddNodes(q, n, run, outputs) = f[Len(cs)]
  <2>1. \E f : f = [i \in 0..Len(cs) |-> IF i = 0 THEN q ELSE AddNodeToBeExecuted(f[i - 1], cs[i], Sent(cs[i]))]
    BY <1>1, <1>2
  <2> QED BY <2>1 DEF AddNodes
<1>4. f[0] = q /\ \A i \in 1..Len(cs) : f[i] = AddNodeToBeExecuted(f[i - 1], cs[i], Sent(cs[i]))
  <2>1. f = [i \in 0..Len(cs) |-> IF i = 0 THEN q ELSE Step(f[i - 1], i)]
    BY <1>3
  <2> HIDE DEF Step, cs, Sent
  <2>2. \A i \in 1..Len(cs) : f[i] = Step(f[i - 1], i)
    BY <1>1, <2>1
  <2>3. f[0] = q
    BY <1>1, <2>1
  <2> QED BY <2>2, <2>3 DEF Step
<1>5. Loops(f, q, n, run, cs)
  <2> HIDE DEF Step, IsLoop, cs
  <2> QED BY <1>4 DEF Loops
<1>6. \E g : Loops(g, q, n, run, cs) /\ AddNodes(q, n, run, outputs) = g[Len(cs)]
  <2> HIDE DEF Step, IsLoop, cs, Sent
  <2> QED BY <1>3, <1>5
<1> QED BY <1>1, <1>6

\* After the nodes behind all outputs with data were added: no data is in two places, it is known,
\* the stack is in order, and the sources are those of the data.
LEMMA AddNodesFacts ==
  ASSUME workflow \in Workflows, instance \in Nat, NEW q, Shape(q), Alone(q),
         NEW n \in Nodes, NEW run \in Nat, NEW outputs,
         NEW D, AllIn(q, D), D \cap SentBy(n, run) = {},
         NEW R, Ordered(q.stack, R), Newest(R, SentBy(n, run), D \cup SentBy(n, run))
  PROVE  LET p == AddNodes(q, n, run, outputs) IN
         /\ Shape(p) /\ Alone(p)
         /\ AllIn(p, D \cup SentBy(n, run)) /\ Ordered(p.stack, R)
         /\ \A m \in Nodes : \A y :
              OutOf(q, m, y) /\ Range(y) \cap SentBy(n, run) = {} => OutOf(p, m, y)
         /\ TwoInputs /\ Sourced(q) => Sourced(p)
<1> DEFINE cs == NodesToAdd(n, outputs)
           Sent(c) == [node |-> n, run |-> run, output |-> c.output]
           F == SentBy(n, run)
           E == D \cup F
<1>1. /\ cs \in Seq(Connections) /\ Len(cs) \in Nat /\ DOMAIN cs = 1..Len(cs)
      /\ IsInjective(cs)
      /\ \A l \in 1..Len(cs) : cs[l] \in Connections /\ cs[l].index \in 1..Inputs(cs[l].node)
                              /\ cs[l].index \in Numbers /\ cs[l].node \in Nodes
  BY LoopFacts
<1>3. PICK f : Loops(f, q, n, run, cs) /\ AddNodes(q, n, run, outputs) = f[Len(cs)]
  BY LoopFacts
<1>4. f[0] = q /\ \A i \in 1..Len(cs) : f[i] = AddNodeToBeExecuted(f[i - 1], cs[i], Sent(cs[i]))
  <2> HIDE DEF cs
  <2> QED BY <1>3 DEF Loops
<1>5. \A l \in 1..Len(cs) : Sent(cs[l]) \in F /\ Sent(cs[l]) \in Datum
  BY <1>1 DEF Connections, Datum, SentBy
<1> DEFINE New(l) == Only(cs[l].index, Sent(cs[l]))
<1>6. \A l \in 1..Len(cs) : DOMAIN New(l) = {cs[l].index} /\ New(l)[cs[l].index] = Sent(cs[l])
  BY DEF Only, Put
<1>7. \A l \in 1..Len(cs) : OutOf(q, cs[l].node, New(l))
  <2> TAKE l \in 1..Len(cs)
  <2>1. ASSUME NEW y, Common(y, New(l)) PROVE Sent(cs[l]) \in Range(y)
    <3>1. DOMAIN New(l) = {cs[l].index} /\ New(l)[cs[l].index] = Sent(cs[l])
      BY <1>6
    <3> HIDE DEF New, Sent, cs
    <3>2. cs[l].index \in DOMAIN y /\ y[cs[l].index] = Sent(cs[l])
      BY <2>1, <3>1 DEF Common
    <3> QED BY <3>2 DEF Range
  <2>2. Sent(cs[l]) \notin D
    BY <1>5
  <2> HIDE DEF New, Sent, cs
  <2> QED BY <1>1, <2>1, <2>2 DEF OutOf, AllIn
<1>8. \A l, j \in 1..Len(cs) :
        l # j => ~(cs[l].node = cs[j].node /\ cs[j].index \in DOMAIN New(l) /\ New(l)[cs[j].index] = Sent(cs[j]))
  <2> SUFFICES ASSUME NEW l \in 1..Len(cs), NEW j \in 1..Len(cs), l # j, cs[l].node = cs[j].node,
                      cs[j].index \in DOMAIN New(l), New(l)[cs[j].index] = Sent(cs[j])
               PROVE  FALSE
    OBVIOUS
  <2>1. cs[l].index = cs[j].index
    BY <1>6
  <2>2. Sent(cs[l]) = Sent(cs[j])
    BY <1>6, <2>1
  <2>3. cs[l].output = cs[j].output
    BY <2>2
  <2>4. cs[l] = cs[j]
    <3>1. \A b, c \in Connections : b.node = c.node /\ b.index = c.index /\ b.output = c.output => b = c
      BY DEF Connections
    <3>2. cs[l] \in Connections /\ cs[j] \in Connections
      BY <1>1
    <3> HIDE DEF cs
    <3> QED BY <2>1, <2>3, <3>1, <3>2
  <2> QED BY <1>1, <2>4 DEF IsInjective
<1> DEFINE J(i) ==
      /\ Shape(f[i]) /\ Alone(f[i])
      /\ AllIn(f[i], E) /\ Ordered(f[i].stack, R)
      /\ \A l \in (i + 1)..Len(cs) : OutOf(f[i], cs[l].node, New(l))
      /\ \A m \in Nodes : \A y : OutOf(q, m, y) /\ Range(y) \cap F = {} => OutOf(f[i], m, y)
      /\ TwoInputs /\ Sourced(q) => Sourced(f[i])
<1>9. J(0)
  <2>1. AllIn(q, E)
    BY DEF AllIn
  <2>2. 0 + 1 = 1
    OBVIOUS
  <2> HIDE DEF New
  <2> QED BY <1>4, <1>7, <2>1, <2>2
<1>10. ASSUME NEW i \in 1..Len(cs), J(i - 1) PROVE J(i)
  <2> DEFINE p  == f[i - 1]
             p1 == f[i]
             c  == cs[i]
             d  == Sent(cs[i])
  <2>1. p1 = AddNodeToBeExecuted(p, c, d)
    BY <1>4
  <2>2. /\ Shape(p) /\ Alone(p) /\ AllIn(p, E) /\ Ordered(p.stack, R)
        /\ \A l \in i..Len(cs) : OutOf(p, cs[l].node, New(l))
        /\ \A m \in Nodes : \A y : OutOf(q, m, y) /\ Range(y) \cap F = {} => OutOf(p, m, y)
        /\ TwoInputs /\ Sourced(q) => Sourced(p)
    BY <1>10
  <2>3. c \in Connections /\ c.index \in 1..Inputs(c.node) /\ c.index \in Numbers /\ c.node \in Nodes
    BY <1>1
  <2>4. d \in F /\ d \in Datum /\ d \in E
    BY <1>5
  <2>5. OutOf(p, c.node, Only(c.index, d))
    BY <1>1, <2>2
  <2>6. \A l \in (i + 1)..Len(cs) :
          /\ OutOf(p, cs[l].node, New(l)) /\ cs[l].node \in Nodes
          /\ ~(cs[l].node = c.node /\ c.index \in DOMAIN New(l) /\ New(l)[c.index] = d)
    <3> TAKE l \in (i + 1)..Len(cs)
    <3>1. l \in i..Len(cs) /\ l \in 1..Len(cs) /\ l # i
      BY <1>1
    <3> HIDE DEF New, Sent
    <3> QED BY <1>1, <1>8, <2>2, <3>1
  <2> HIDE DEF p, p1, c, d, New, F, Sent, cs, J
  <2>7. /\ Shape(p1) /\ Adds(p, p1, c.node, c.index, d)
        /\ TwoInputs /\ Sourced(p) => Sourced(p1)
    BY <2>1, <2>2, <2>3, <2>4, AddOne
  <2>8. p \in QueueRecords
    BY <2>2 DEF Shape
  <2>9. /\ Alone(p1)
        /\ \A m \in Nodes : \A y :
              OutOf(p, m, y) /\ ~(m = c.node /\ c.index \in DOMAIN y /\ y[c.index] = d) => OutOf(p1, m, y)
    BY <2>2, <2>3, <2>4, <2>5, <2>7, <2>8, AddApart
  <2>10. AllIn(p1, E) /\ Ordered(p1.stack, R)
    <3>1. Newest(R, F, E)
      BY DEF F
    <3> HIDE DEF E
    <3> QED BY <2>2, <2>3, <2>4, <2>7, <2>8, <3>1, AddOrdered
  <2>11. \A l \in (i + 1)..Len(cs) : OutOf(p1, cs[l].node, New(l))
    BY <2>6, <2>9
  <2>12. \A m \in Nodes : \A y : OutOf(q, m, y) /\ Range(y) \cap F = {} => OutOf(p1, m, y)
    <3> SUFFICES ASSUME NEW m \in Nodes, NEW y, OutOf(q, m, y), Range(y) \cap F = {}
                 PROVE  OutOf(p1, m, y)
      OBVIOUS
    <3>1. ~(c.index \in DOMAIN y /\ y[c.index] = d)
      BY <2>4 DEF Range
    <3> QED BY <2>2, <2>9, <3>1
  <2> QED BY <2>2, <2>7, <2>9, <2>10, <2>11, <2>12 DEF J, p1
<1>11. J(Len(cs))
  <2> HIDE DEF J
  <2> DEFINE S == { i \in 0..Len(cs) : ~J(i) }
  <2> SUFFICES ASSUME S # {} PROVE FALSE
    BY <1>1
  <2>1. S \in SUBSET Nat
    OBVIOUS
  <2>2. PICK i \in S : \A j \in S : i <= j
    <3> HIDE DEF S
    <3> QED BY <2>1, LeastElement
  <2>3. i \in 1..Len(cs) /\ i - 1 \in 0..Len(cs)
    BY <1>1, <1>9, <2>2
  <2>4. J(i - 1)
    <3>1. i - 1 \notin S
      <4> HIDE DEF S
      <4> QED BY <2>1, <2>2, <2>3
    <3> QED BY <2>3, <3>1
  <2> QED BY <1>10, <2>2, <2>3, <2>4
<1> QED BY <1>3, <1>11

-----------------------------------------------------------------------------
(* The search takes one entry to the empty stack, or there is none to take. *)

\* The search finds nothing to do, or a waiting node that may run, of which it takes an entry.
LEMMA SearchCases ==
  ASSUME instance \in Nat, NEW q, Shape(q)
  PROVE  LET p == Search(q) IN
         \/ p = q /\ (q.stack = <<>> => \A i \in DOMAIN q.nodes : ~MayRun(q, q.nodes[i]))
         \/ /\ q.stack = <<>> /\ Shape(p)
            /\ \E n \in Range(q.nodes), item \in Items : \E k \in DOMAIN q.waiting[n] :
                 /\ MayRun(q, n)
                 /\ item.node = n /\ item.data = q.waiting[n][k].data
                 /\ item.source = q.waiting[n][k].source
                 /\ p.stack = <<item>>
                 /\ p.waiting = [q.waiting EXCEPT ![n] = Without(q.waiting[n], k)]
<1> DEFINE p == Search(q)
           ready == { i \in DOMAIN q.nodes : MayRun(q, q.nodes[i]) }
           empty == <<>>
<1>1. CASE q.stack # empty \/ ready = {}
  <2>1. p = q
    BY <1>1 DEF Search
  <2>2. q.stack = empty => \A i \in DOMAIN q.nodes : ~MayRun(q, q.nodes[i])
    BY <1>1
  <2> QED BY <2>1, <2>2
<1>2. CASE q.stack = empty /\ ready # {}
  <2> DEFINE i == Min(ready)
             n == q.nodes[i]
             entries == q.waiting[n]
             k == Min(DOMAIN entries)
             entry == entries[k]
             item == Item(n, entry.data, entry.source)
             q0 == [q EXCEPT !.stack = <<item>>]
             left == Without(entries, k)
  <2>1. p = Waits(q0, n, left)
    BY <1>2 DEF Search
  <2>2. /\ q \in QueueRecords /\ q.nodes \in Seq(Nodes) /\ q.waiting \in [Nodes -> Entries]
        /\ Range(q.nodes) = { m \in Nodes : DOMAIN q.waiting[m] # {} }
    BY DEF Shape, QueueRecords
  <2>3. i \in DOMAIN q.nodes /\ MayRun(q, n)
    <3>1. ready \in SUBSET Nat
      BY <2>2, LenProperties
    <3>2. i \in ready
      <4> HIDE DEF ready
      <4> QED BY <1>2, <3>1, MinFacts
    <3> HIDE DEF i
    <3> QED BY <3>2
  <2> HIDE DEF p, ready, i
  <2>4. n \in Nodes /\ DOMAIN entries # {} /\ entries \in Entries /\ n \in Range(q.nodes)
    BY <2>2, <2>3 DEF Range
  <2>5. /\ IsFiniteSet(DOMAIN entries)
        /\ \A j \in DOMAIN entries : DOMAIN entries[j].data \in (SUBSET (1..Inputs(n))) \ {{}, 1..Inputs(n)}
    BY <2>4 DEF Shape
  <2> HIDE DEF n, entries
  <2>6. DOMAIN entries \in SUBSET Nat
    <3>1. DOMAIN entries \subseteq Indices
      BY <2>4, ObjectFacts DEF Entries
    <3> QED BY <3>1 DEF Indices
  <2>7. k \in DOMAIN entries
    BY <2>4, <2>6, MinFacts
  <2> HIDE DEF k
  <2>8. entry.data \in Data /\ entry.source \in Data
    <3>1. entry \in EntryRecords
      BY <2>4, <2>7, ObjectFacts DEF Entries
    <3> QED BY <3>1 DEF EntryRecords
  <2>9. /\ item \in Items /\ item.node = n /\ item.data = entry.data /\ item.source = entry.source
        /\ item.instance <= instance
    BY <2>4, <2>8, ItemFacts
  <2> HIDE DEF item
  <2>10. <<item>> \o q.stack = <<item>>
    <3>1. <<item>> \in Seq(Items)
      BY <2>9
    <3> QED BY <1>2, <3>1, ConcatEmptySeq
  <2>11. Shape(q0) /\ q0.stack = <<item>> \o q.stack /\ q0.waiting = q.waiting
    <3>1. q0 = Enqueued(q, item)
      BY <2>10 DEF Enqueued
    <3>2. DOMAIN item.data # {}
      BY <2>5, <2>7, <2>9
    <3> HIDE DEF q0
    <3> QED BY <2>9, <3>1, <3>2, EnqueuedShape
  <2> HIDE DEF q0
  <2>12. /\ left \in Entries /\ DOMAIN left = DOMAIN entries \ {k}
         /\ \A j \in DOMAIN left : left[j] = entries[j]
    BY <2>4, EntryGone DEF Without
  <2> HIDE DEF left
  <2>13. /\ IsFiniteSet(DOMAIN left)
         /\ \A j \in DOMAIN left : DOMAIN left[j].data \in (SUBSET (1..Inputs(n))) \ {{}, 1..Inputs(n)}
    BY <2>5, <2>12, FS_Subset
  <2>14. /\ Shape(p) /\ p.stack = <<item>> \o q.stack
         /\ p.waiting = [q.waiting EXCEPT ![n] = left]
    <3>1. /\ Shape(Waits(q0, n, left)) /\ Waits(q0, n, left).stack = q0.stack
          /\ Waits(q0, n, left).waiting = [q0.waiting EXCEPT ![n] = left]
      BY <2>4, <2>11, <2>12, <2>13, WaitsShape
    <3> QED BY <2>1, <2>11, <3>1
  <2>15. p.stack = <<item>> /\ p.waiting = [q.waiting EXCEPT ![n] = Without(entries, k)]
    BY <2>10, <2>14 DEF left
  <2>16. k \in DOMAIN q.waiting[n] /\ n \in Range(q.nodes) /\ MayRun(q, n) /\ entries = q.waiting[n]
         /\ item.data = q.waiting[n][k].data /\ item.source = q.waiting[n][k].source
    BY <2>3, <2>4, <2>7, <2>9 DEF entries, n
  <2> HIDE DEF entries
  <2> QED BY <1>2, <2>9, <2>14, <2>15, <2>16 DEF p
<1> QED BY <1>1, <1>2

\* After the search the same holds, and with an empty stack no waiting node may run.
LEMMA SearchFacts ==
  ASSUME instance \in Nat, NEW q, Shape(q), Alone(q),
         NEW D, AllIn(q, D), NEW R, Ordered(q.stack, R)
  PROVE  LET p == Search(q) IN
         /\ Shape(p) /\ Alone(p) /\ AllIn(p, D) /\ Ordered(p.stack, R)
         /\ \A m \in Nodes : \A y : OutOf(q, m, y) => OutOf(p, m, y)
         /\ Sourced(q) => Sourced(p)
         /\ p.stack = <<>> => \A i \in DOMAIN p.nodes : ~MayRun(p, p.nodes[i])
<1> DEFINE p == Search(q)
<1>1. CASE p = q /\ (q.stack = <<>> => \A i \in DOMAIN q.nodes : ~MayRun(q, q.nodes[i]))
  <2> HIDE DEF p
  <2> QED BY <1>1 DEF p
<1>2. CASE ~(p = q /\ (q.stack = <<>> => \A i \in DOMAIN q.nodes : ~MayRun(q, q.nodes[i])))
  <2>1. /\ q.stack = <<>> /\ Shape(p)
        /\ \E n \in Range(q.nodes), item \in Items : \E k \in DOMAIN q.waiting[n] :
                 /\ MayRun(q, n)
                 /\ item.node = n /\ item.data = q.waiting[n][k].data
                 /\ item.source = q.waiting[n][k].source
                 /\ p.stack = <<item>>
                 /\ p.waiting = [q.waiting EXCEPT ![n] = Without(q.waiting[n], k)]
    BY <1>2, SearchCases
  <2> HIDE DEF p
  <2>2. PICK n \in Range(q.nodes), item \in Items : \E k \in DOMAIN q.waiting[n] :
                 /\ item.node = n /\ item.data = q.waiting[n][k].data
                 /\ item.source = q.waiting[n][k].source
                 /\ p.stack = <<item>>
                 /\ p.waiting = [q.waiting EXCEPT ![n] = Without(q.waiting[n], k)]
    BY <2>1
  <2> DEFINE entries == q.waiting[n]
  <2>3. PICK k \in DOMAIN entries :
                 /\ item.node = n /\ item.data = entries[k].data
                 /\ item.source = entries[k].source
                 /\ p.stack = <<item>>
                 /\ p.waiting = [q.waiting EXCEPT ![n] = Without(entries, k)]
    BY <2>2
  <2> DEFINE left == Without(entries, k)
             entry == entries[k]
  <2>4. /\ q \in QueueRecords /\ q.waiting \in [Nodes -> Entries]
        /\ n \in Nodes /\ entries \in Entries
    BY DEF Shape, QueueRecords
  <2>5. /\ left \in Entries /\ DOMAIN left = DOMAIN entries \ {k}
         /\ \A j \in DOMAIN left : left[j] = entries[j]
    BY <2>4, EntryGone DEF Without
  <2> HIDE DEF left, entries
  <2>6. p.waiting[n] = left /\ \A m \in Nodes \ {n} : p.waiting[m] = q.waiting[m]
    BY <2>3, <2>4 DEF left
  <2>7. DOMAIN q.stack = {}
    BY <2>1
  <2>8. p.stack = <<item>> \o q.stack
    <3>1. <<item>> \in Seq(Items)
      OBVIOUS
    <3> QED BY <2>1, <2>3, <3>1, ConcatEmptySeq
  <2>9. Change(q, p, n, k, entry.data)
    BY <2>3, <2>8, <2>5, <2>6 DEF Change, entries
  <2>10. Apart(q, n, k, entry.data)
    BY <2>3, <2>4, <2>7 DEF Apart, Alone, entries
  <2>11. /\ Alone(p)
         /\ \A m \in Nodes : \A y : OutOf(q, m, y) /\ (m = n => ~Common(entry.data, y)) => OutOf(p, m, y)
    <3> HIDE DEF entry
    <3> QED BY <2>4, <2>9, <2>10, ChangeApart
  <2>12. \A m \in Nodes : \A y : OutOf(q, m, y) => OutOf(p, m, y)
    BY <2>3, <2>11 DEF OutOf, entries
  <2>13. DOMAIN p.stack = {1} /\ p.stack[1] = item
    BY <2>3
  <2>14. \A m \in Nodes : \A j \in DOMAIN p.waiting[m] :
           j \in DOMAIN q.waiting[m] /\ p.waiting[m][j] = q.waiting[m][j]
    BY <2>5, <2>6 DEF entries
  <2>15. AllIn(p, D)
    BY <2>3, <2>4, <2>13, <2>14 DEF AllIn, entries
  <2>16. Ordered(p.stack, R)
    BY <2>13 DEF Ordered
  <2>17. Sourced(q) => Sourced(p)
    BY <2>3, <2>4, <2>13, <2>14 DEF Sourced, SourceOK, entries
  <2>18. p.stack # <<>>
    BY <2>13
  <2> QED BY <2>1, <2>11, <2>12, <2>15, <2>16, <2>17, <2>18 DEF p
<1> QED BY <1>1, <1>2

-----------------------------------------------------------------------------
(* What was done, what is to do and what is being done.                    *)

\* The runs of each node.
Runs == [data: Data, source: Data, status: {"success", "error", "waiting"}, startTime: Nat]
RunObjects == Objects(Nodes, Seq(Runs))
DoneOf(runs) == [n \in Nodes |-> IF n \in DOMAIN runs THEN runs[n] ELSE <<>>]
Cells(done) == UNION { {n} \X DOMAIN done[n] : n \in Nodes }
Count(done) == Cardinality(Cells(done))

\* Data sent by a run that is done.
Known(done) == { d \in Datum : d.node # NoNode => d.run + 1 \in DOMAIN done[d.node] }

\* For what x has of a run there is something that y has of a run that did not start before it.
NotLater(done, x, y) ==
  \A i \in DOMAIN x : x[i].node # NoNode =>
    \E j \in DOMAIN y :
      /\ y[j].node # NoNode
      /\ done[x[i].node][x[i].run + 1].startTime <= done[y[j].node][y[j].run + 1].startTime
Earlier(done) == { p \in Data \X Data : NotLater(done, p[1], p[2]) }

\* No data is in two places, all of it is known, and the stack is in the order of its data.
Consistent(done, q, running) ==
  /\ Alone(q) /\ AllIn(q, Known(done)) /\ Ordered(q.stack, Earlier(done))
  /\ \A item \in running :
       /\ OutOf(q, item.node, item.data)
       /\ Range(item.data) \subseteq Known(done)
       /\ \A k \in DOMAIN q.stack : <<q.stack[k].data, item.data>> \in Earlier(done)
       /\ \A r \in DOMAIN done[item.node] : ~Common(done[item.node][r].data, item.data)
  /\ \A n \in Nodes : \A r \in DOMAIN done[n] :
       /\ OutOf(q, n, done[n][r].data)
       /\ Range(done[n][r].data) \subseteq Known(done)
       /\ \A s \in DOMAIN done[n] \ {r} : ~Common(done[n][s].data, done[n][r].data)
       /\ done[n][r].startTime < Count(done)

\* A run more of n.
More(done, n, rec) == [done EXCEPT ![n] = Append(done[n], rec)]

\* The runs that are done can be counted.
LEMMA DoneFacts ==
  ASSUME NEW done \in [Nodes -> Seq(Runs)]
  PROVE  /\ \A n \in Nodes : /\ Len(done[n]) \in Nat /\ DOMAIN done[n] = 1..Len(done[n])
                             /\ \A r \in DOMAIN done[n] : done[n][r] \in Runs
         /\ IsFiniteSet(Cells(done)) /\ Count(done) \in Nat
<1>1. \A n \in Nodes : /\ Len(done[n]) \in Nat /\ DOMAIN done[n] = 1..Len(done[n])
                       /\ \A r \in DOMAIN done[n] : done[n][r] \in Runs
  BY LenProperties, ElementOfSeq
<1>2. IsFiniteSet(Cells(done))
  <2> DEFINE f == [n \in Nodes |-> {n} \X DOMAIN done[n]]
             T == { f[n] : n \in Nodes }
  <2>1. \A n \in Nodes : IsFiniteSet({n} \X DOMAIN done[n])
    <3> TAKE n \in Nodes
    <3> DEFINE A == {n}
               B == DOMAIN done[n]
    <3>1. IsFiniteSet(A)
      BY FS_Singleton
    <3>2. IsFiniteSet(B)
      <4>1. Len(done[n]) \in Nat /\ B = 1..Len(done[n])
        BY <1>1
      <4> QED BY <4>1, FS_Interval
    <3> HIDE DEF A, B
    <3>3. IsFiniteSet(A \X B)
      BY <3>1, <3>2, FS_Product
    <3> QED BY <3>3 DEF A, B
  <2>2. IsFiniteSet(T)
    <3>1. f \in Surjection(Nodes, T)
      BY DEF Surjection
    <3> HIDE DEF f, T
    <3> QED BY <3>1, EngineAssumption, FS_Surjection
  <2>3. \A t \in T : IsFiniteSet(t)
    BY <2>1
  <2>4. Cells(done) = UNION T
    BY DEF Cells
  <2> HIDE DEF T
  <2> QED BY <2>2, <2>3, <2>4, FS_UNION
<1> QED BY <1>1, <1>2, FS_CardinalityType DEF Count

\* A run more is one more in the count, and leaves the others as they are.
LEMMA DoneMore ==
  ASSUME NEW done \in [Nodes -> Seq(Runs)], NEW n \in Nodes, NEW rec \in Runs,
         NEW done1, done1 = More(done, n, rec)
  PROVE  /\ done1 \in [Nodes -> Seq(Runs)]
         /\ \A m \in Nodes : \A r \in DOMAIN done[m] : r \in DOMAIN done1[m] /\ done1[m][r] = done[m][r]
         /\ \A m \in Nodes : \A r \in DOMAIN done1[m] :
              r \in DOMAIN done[m] \/ (m = n /\ r = Len(done[n]) + 1)
         /\ Len(done[n]) + 1 \in DOMAIN done1[n] /\ Len(done[n]) + 1 \notin DOMAIN done[n]
         /\ done1[n][Len(done[n]) + 1] = rec
         /\ Count(done1) = Count(done) + 1
<1> DEFINE l == Len(done[n]) + 1
           s == Append(done[n], rec)
<1>1. /\ s \in Seq(Runs) /\ DOMAIN s = DOMAIN done[n] \cup {l} /\ l \notin DOMAIN done[n]
      /\ \A r \in DOMAIN done[n] : s[r] = done[n][r]
      /\ s[l] = rec
  BY AppendFacts
<1> HIDE DEF l
<1>2. done1[n] = s /\ \A m \in Nodes : m # n => done1[m] = done[m]
  BY DEF More
<1>3. done1 \in [Nodes -> Seq(Runs)]
  BY <1>1 DEF More
<1> HIDE DEF s
<1>4. Cells(done1) = Cells(done) \cup {<<n, l>>} /\ <<n, l>> \notin Cells(done)
  <2>1. \A e, r : \A d : <<e, r>> \in Cells(d) <=> e \in Nodes /\ r \in DOMAIN d[e]
    BY DEF Cells
  <2>2. \A d : \A e \in Cells(d) : \E m, r : e = <<m, r>>
    BY DEF Cells
  <2>3. \A m, r : <<m, r>> \in Cells(done1) <=> <<m, r>> \in Cells(done) \/ (m = n /\ r = l)
    BY <1>1, <1>2, <2>1
  <2>4. \A e \in Cells(done1) : e \in Cells(done) \cup {<<n, l>>}
    BY <2>2, <2>3
  <2>5. \A e \in Cells(done) \cup {<<n, l>>} : e \in Cells(done1)
    <3>1. <<n, l>> \in Cells(done1)
      BY <2>3
    <3>2. ASSUME NEW e \in Cells(done) PROVE e \in Cells(done1)
      <4>1. PICK m, r : e = <<m, r>>
        BY <2>2
      <4> QED BY <2>3, <4>1
    <3> QED BY <3>1, <3>2
  <2> QED BY <1>1, <2>1, <2>4, <2>5
<1>5. Count(done1) = Count(done) + 1
  BY <1>4, DoneFacts, FS_AddElement DEF Count
<1> QED BY <1>1, <1>2, <1>3, <1>5 DEF l

-----------------------------------------------------------------------------
(* The steps of the engine, on what is done, to do and being done.         *)

\* A queue with the same items, as far as their nodes and their data go.
LEMMA SameItems ==
  ASSUME NEW done, NEW q, NEW q1, Consistent(done, q, {}), q1.waiting = q.waiting,
         DOMAIN q1.stack = DOMAIN q.stack,
         \A k \in DOMAIN q.stack : q1.stack[k].node = q.stack[k].node /\ q1.stack[k].data = q.stack[k].data
  PROVE  Consistent(done, q1, {})
<1>1. Alone(q1) /\ AllIn(q1, Known(done)) /\ Ordered(q1.stack, Earlier(done))
  BY DEF Consistent, Alone, AllIn, Ordered
<1>2. \A n, y : OutOf(q, n, y) => OutOf(q1, n, y)
  BY DEF OutOf
<1> QED BY <1>1, <1>2 DEF Consistent

\* shift() of the stack.
LEMMA TakeConsistent ==
  ASSUME NEW done, NEW q \in QueueRecords, NEW q1, Consistent(done, q, {}), q.stack # <<>>,
         q1.waiting = q.waiting, q1.stack = Tail(q.stack)
  PROVE  Consistent(done, q1, {Head(q.stack)}) /\ Consistent(done, q1, {})
<1> DEFINE item == Head(q.stack)
           s == q.stack
           t == Tail(s)
<1>1. s \in Seq(Items)
  BY DEF QueueRecords
<1> HIDE DEF s
<1>2. /\ t \in Seq(Items) /\ Head(s) = s[1] /\ 1 \in DOMAIN s /\ Head(s) \in Items
      /\ \A i \in DOMAIN t : i + 1 \in DOMAIN s /\ i + 1 # 1 /\ t[i] = s[i + 1]
      /\ \A i, j \in DOMAIN t : i + 1 = j + 1 => i = j
  <2>1. s # <<>>
    BY DEF s
  <2> QED BY <1>1, <2>1, TailFacts
<1>3. /\ \A i \in DOMAIN t : i \in Nat
      /\ \A i \in DOMAIN s : i \in Nat
  BY <1>1, <1>2, LenProperties
<1>4. item = s[1] /\ item.node \in Nodes /\ q1.stack = t /\ q.stack = s
  BY <1>2 DEF s, Items
<1> HIDE DEF t, item
<1>5. Alone(q1)
  <2>1. Alone(q)
    BY DEF Consistent
  <2>2. ASSUME NEW i \in DOMAIN t, NEW j \in DOMAIN t, i # j, t[i].node = t[j].node
        PROVE  ~Common(t[i].data, t[j].data)
    <3>1. i + 1 # j + 1 /\ t[i] = s[i + 1] /\ t[j] = s[j + 1] /\ i + 1 \in DOMAIN s /\ j + 1 \in DOMAIN s
      BY <1>2, <2>2
    <3> QED BY <1>4, <2>1, <2>2, <3>1 DEF Alone
  <2>3. ASSUME NEW n \in Nodes, NEW k \in DOMAIN q.waiting[n], NEW j \in DOMAIN t, t[j].node = n
        PROVE  ~Common(t[j].data, q.waiting[n][k].data)
    BY <1>2, <1>4, <2>1, <2>3 DEF Alone
  <2> QED BY <1>4, <2>1, <2>2, <2>3 DEF Alone
<1>6. AllIn(q1, Known(done))
  BY <1>2, <1>4 DEF Consistent, AllIn
<1>7. Ordered(q1.stack, Earlier(done))
  <2> SUFFICES ASSUME NEW j \in DOMAIN t, NEW k \in DOMAIN t, j < k
               PROVE  <<t[k].data, t[j].data>> \in Earlier(done)
    BY <1>4 DEF Ordered
  <2>1. j + 1 < k + 1
    BY <1>3
  <2> QED BY <1>2, <1>4, <2>1 DEF Consistent, Ordered
<1>8. \A n, y : OutOf(q, n, y) => OutOf(q1, n, y)
  BY <1>2, <1>4 DEF OutOf
<1>9. OutOf(q1, item.node, item.data)
  <2>1. \A j \in DOMAIN t : t[j].node = item.node => ~Common(t[j].data, item.data)
    BY <1>2, <1>4 DEF Consistent, Alone
  <2>2. \A k \in DOMAIN q.waiting[item.node] : ~Common(q.waiting[item.node][k].data, item.data)
    BY <1>2, <1>4, CommonBoth DEF Consistent, Alone
  <2> QED BY <1>4, <2>1, <2>2 DEF OutOf
<1>10. Range(item.data) \subseteq Known(done)
  BY <1>2, <1>4 DEF Consistent, AllIn
<1>11. \A k \in DOMAIN t : <<t[k].data, item.data>> \in Earlier(done)
  <2> TAKE k \in DOMAIN t
  <2>1. 1 < k + 1
    <3>1. k \in 1..Len(t)
      BY <1>2, LenProperties
    <3> QED BY <1>3, <3>1
  <2> QED BY <1>2, <1>4, <2>1 DEF Consistent, Ordered
<1>12. \A r \in DOMAIN done[item.node] : ~Common(done[item.node][r].data, item.data)
  BY <1>2, <1>4, CommonBoth DEF Consistent, OutOf
<1>13. /\ \A n \in Nodes : \A r \in DOMAIN done[n] :
            /\ OutOf(q1, n, done[n][r].data)
            /\ Range(done[n][r].data) \subseteq Known(done)
            /\ \A s1 \in DOMAIN done[n] \ {r} : ~Common(done[n][s1].data, done[n][r].data)
            /\ done[n][r].startTime < Count(done)
  BY <1>8 DEF Consistent
<1>14. Consistent(done, q1, {item})
  BY <1>4, <1>5, <1>6, <1>7, <1>9, <1>10, <1>11, <1>12, <1>13 DEF Consistent
<1>15. Consistent(done, q1, {})
  BY <1>4, <1>5, <1>6, <1>7, <1>13 DEF Consistent
<1> QED BY <1>14, <1>15 DEF item

\* A node that returns null.
LEMMA NullConsistent ==
  ASSUME NEW done, NEW q, NEW running, Consistent(done, q, running)
  PROVE  Consistent(done, q, {})
  BY DEF Consistent

\* An item is put back on the stack.
LEMMA PutBackConsistent ==
  ASSUME NEW done, NEW q \in QueueRecords, NEW q1, NEW item \in Items, Consistent(done, q, {item}),
         q1.waiting = q.waiting, q1.stack = <<item>> \o q.stack
  PROVE  Consistent(done, q1, {})
<1> DEFINE s == <<item>> \o q.stack
           n == item.node
           x == item.data
<1>1. q.stack \in Seq(Items) /\ n \in Nodes /\ q.waiting[n] \in Entries
  BY DEF QueueRecords, Items
<1>2. /\ s \in Seq(Items) /\ 1 \in DOMAIN s /\ s[1] = item
      /\ \A k \in DOMAIN s : k = 1 \/ (k - 1 \in DOMAIN q.stack /\ s[k] = q.stack[k - 1])
  BY <1>1, PushFacts
<1>3. DOMAIN s = 1..Len(s) /\ Len(s) \in Nat /\ \A k \in DOMAIN q.stack : k \in Nat \ {0}
  BY <1>1, <1>2, LenProperties
<1>4. q1.stack = s
  OBVIOUS
<1>5. Change(q, q1, n, -1, x)
  <2>1. DOMAIN q.waiting[n] \subseteq Indices
    BY <1>1, ObjectFacts DEF Entries
  <2>2. -1 \notin DOMAIN q.waiting[n]
    BY <2>1 DEF Indices
  <2> HIDE DEF n, x
  <2> QED BY <2>2 DEF Change, n, x
<1> HIDE DEF s
<1>6. /\ OutOf(q, n, x) /\ Range(x) \subseteq Known(done)
      /\ \A k \in DOMAIN q.stack : <<q.stack[k].data, x>> \in Earlier(done)
      /\ \A r \in DOMAIN done[n] : ~Common(done[n][r].data, x)
  BY DEF Consistent
<1>7. Apart(q, n, -1, x)
  BY <1>6 DEF OutOf, Apart
<1> HIDE DEF n, x
<1>8. /\ Alone(q) => Alone(q1)
      /\ \A m \in Nodes : \A y :
           OutOf(q, m, y) /\ (m = n => ~Common(x, y)) => OutOf(q1, m, y)
  BY <1>1, <1>5, <1>7, ChangeApart
<1>9. AllIn(q1, Known(done))
  BY <1>2, <1>4, <1>6 DEF Consistent, AllIn, x
<1>10. Ordered(q1.stack, Earlier(done))
  <2> SUFFICES ASSUME NEW j \in DOMAIN s, NEW k \in DOMAIN s, j < k
               PROVE  <<s[k].data, s[j].data>> \in Earlier(done)
    BY <1>4 DEF Ordered
  <2>1. k # 1 /\ k - 1 \in DOMAIN q.stack /\ s[k] = q.stack[k - 1]
    BY <1>2, <1>3
  <2>2. CASE j = 1
    BY <1>2, <1>6, <2>1, <2>2 DEF x
  <2>3. CASE j # 1
    <3>1. j - 1 \in DOMAIN q.stack /\ s[j] = q.stack[j - 1] /\ j - 1 < k - 1
      BY <1>2, <1>3, <2>3
    <3> QED BY <2>1, <3>1 DEF Consistent, Ordered
  <2> QED BY <2>2, <2>3
<1>11. ASSUME NEW m \in Nodes, NEW r \in DOMAIN done[m]
       PROVE  OutOf(q1, m, done[m][r].data)
  <2>1. OutOf(q, m, done[m][r].data)
    BY DEF Consistent
  <2>2. m = n => ~Common(x, done[m][r].data)
    BY <1>6, CommonBoth
  <2> QED BY <1>8, <2>1, <2>2
<1> QED BY <1>8, <1>9, <1>10, <1>11 DEF Consistent

\* Of a run more, what was known and what was in order stays so, and the data that the run
\* sends is the newest.
LEMMA MoreKnown ==
  ASSUME NEW done \in [Nodes -> Seq(Runs)], NEW n \in Nodes, NEW rec \in Runs,
         NEW done1, done1 = More(done, n, rec),
         rec.startTime = Count(done),
         \A m \in Nodes : \A r \in DOMAIN done[m] : done[m][r].startTime < Count(done)
  PROVE  LET F == SentBy(n, Len(done[n])) IN
         /\ Known(done) \subseteq Known(done1) /\ F \subseteq Known(done1)
         /\ Known(done) \cap F = {}
         /\ \A x, y \in Data : <<x, y>> \in Earlier(done) /\ Range(x) \subseteq Known(done)
                                 /\ Range(y) \subseteq Known(done) => <<x, y>> \in Earlier(done1)
         /\ Newest(Earlier(done1), F, Known(done) \cup F)
<1> DEFINE F == SentBy(n, Len(done[n]))
           l == Len(done[n]) + 1
           Start(e) == done[e.node][e.run + 1].startTime
           Start1(e) == done1[e.node][e.run + 1].startTime
<1>1. /\ done1 \in [Nodes -> Seq(Runs)]
      /\ \A m \in Nodes : \A r \in DOMAIN done[m] : r \in DOMAIN done1[m] /\ done1[m][r] = done[m][r]
      /\ l \in DOMAIN done1[n] /\ l \notin DOMAIN done[n] /\ done1[n][l] = rec
  BY DoneMore
<1>2. Count(done) \in Nat /\ Len(done[n]) \in Nat
      /\ \A m \in Nodes : \A r \in DOMAIN done[m] : done[m][r].startTime \in Nat
  BY DoneFacts DEF Runs
<1>3. \A e \in Known(done) : e \in Datum /\ (e.node # NoNode => e.node \in Nodes /\ e.run + 1 \in DOMAIN done[e.node])
  BY DEF Known, Datum
<1>4. \A e \in F : e \in Datum /\ e.node = n /\ e.run = Len(done[n]) /\ e.run + 1 = l
  BY DEF SentBy
<1>5. n # NoNode
  BY EngineAssumption
<1> HIDE DEF F, l
<1>6. \A e \in Known(done) : e.node # NoNode => Start1(e) = Start(e) /\ Start(e) < Count(done) /\ Start(e) \in Nat
  BY <1>1, <1>2, <1>3
<1>7. \A e \in F : Start1(e) = Count(done) /\ e.node # NoNode
  BY <1>1, <1>4, <1>5
<1>8. Known(done) \subseteq Known(done1)
  BY <1>1, <1>3 DEF Known
<1>9. F \subseteq Known(done1)
  BY <1>1, <1>4, <1>5 DEF Known
<1>10. Known(done) \cap F = {}
  <2> SUFFICES ASSUME NEW e \in Known(done), e \in F PROVE FALSE
    OBVIOUS
  <2>1. e.node = n /\ e.run + 1 = l
    BY <1>4
  <2>2. l \in DOMAIN done[n]
    BY <1>3, <1>5, <2>1
  <2> QED BY <1>1, <2>2
<1> HIDE DEF Start, Start1
<1>11. ASSUME NEW x \in Data, NEW y \in Data
       PROVE  /\ <<x, y>> \in Earlier(done) <=>
                   \A i \in DOMAIN x : x[i].node # NoNode =>
                     \E j \in DOMAIN y : y[j].node # NoNode /\ Start(x[i]) <= Start(y[j])
              /\ <<x, y>> \in Earlier(done1) <=>
                   \A i \in DOMAIN x : x[i].node # NoNode =>
                     \E j \in DOMAIN y : y[j].node # NoNode /\ Start1(x[i]) <= Start1(y[j])
  BY DEF Earlier, NotLater, Start, Start1
<1>12. ASSUME NEW x \in Data, NEW y \in Data, <<x, y>> \in Earlier(done),
              Range(x) \subseteq Known(done), Range(y) \subseteq Known(done)
       PROVE  <<x, y>> \in Earlier(done1)
  <2> SUFFICES ASSUME NEW i \in DOMAIN x, x[i].node # NoNode
               PROVE  \E j \in DOMAIN y : y[j].node # NoNode /\ Start1(x[i]) <= Start1(y[j])
    BY <1>11
  <2>1. PICK j \in DOMAIN y : y[j].node # NoNode /\ Start(x[i]) <= Start(y[j])
    BY <1>11, <1>12
  <2>2. x[i] \in Known(done) /\ y[j] \in Known(done)
    BY <1>12 DEF Range
  <2> QED BY <1>6, <2>1, <2>2
<1>13. Newest(Earlier(done1), F, Known(done) \cup F)
  <2> SUFFICES ASSUME NEW x \in Data, NEW y \in Data, Range(x) \cap F # {},
                      Range(y) \subseteq Known(done) \cup F
               PROVE  <<y, x>> \in Earlier(done1)
    BY DEF Newest
  <2>1. PICK j \in DOMAIN x : x[j] \in F
    BY DEF Range
  <2> SUFFICES ASSUME NEW i \in DOMAIN y, y[i].node # NoNode
               PROVE  x[j].node # NoNode /\ Start1(y[i]) <= Start1(x[j])
    BY <1>11
  <2>2. y[i] \in Known(done) \cup F
    BY DEF Range
  <2>3. Start1(y[i]) <= Count(done)
    BY <1>2, <1>6, <1>7, <2>2
  <2> QED BY <1>7, <2>1, <2>3
<1> QED BY <1>8, <1>9, <1>10, <1>12, <1>13 DEF F

\* The node has a result.
LEMMA ProceedConsistent ==
  ASSUME workflow \in Workflows, instance \in Nat,
         NEW done \in [Nodes -> Seq(Runs)], NEW q, Shape(q), NEW item \in Items,
         Consistent(done, q, {item}), NEW rec \in Runs, rec.data = item.data,
         rec.startTime = Count(done), NEW outputs, NEW q1,
         q1 = q \/ q1 = Search(AddNodes(q, item.node, Len(done[item.node]), outputs)),
         NEW done1, done1 = More(done, item.node, rec)
  PROVE  /\ Shape(q1) /\ Consistent(done1, q1, {})
         /\ TwoInputs /\ Sourced(q) => Sourced(q1)
         /\ q1 = Search(AddNodes(q, item.node, Len(done[item.node]), outputs)) /\ q1.stack = <<>> =>
              \A k \in DOMAIN q1.nodes : ~MayRun(q1, q1.nodes[k])
<1> DEFINE n == item.node
           x == item.data
           l == Len(done[n]) + 1
           D == Known(done)
           F == SentBy(n, Len(done[n]))
           R == Earlier(done1)
<1>1. n \in Nodes /\ x \in Data /\ Len(done[n]) \in Nat
  <2>1. item.node \in Nodes /\ item.data \in Data
    BY DEF Items
  <2> QED BY <2>1, DoneFacts
<1>2. \A m \in Nodes : \A r \in DOMAIN done[m] : done[m][r].startTime < Count(done) /\ done[m][r].startTime \in Nat
  BY DoneFacts DEF Consistent, Runs
<1>3. /\ done1 \in [Nodes -> Seq(Runs)]
      /\ \A m \in Nodes : \A r \in DOMAIN done[m] : r \in DOMAIN done1[m] /\ done1[m][r] = done[m][r]
      /\ \A m \in Nodes : \A r \in DOMAIN done1[m] : r \in DOMAIN done[m] \/ (m = n /\ r = l)
      /\ l \in DOMAIN done1[n] /\ l \notin DOMAIN done[n] /\ done1[n][l] = rec
      /\ Count(done1) = Count(done) + 1
  <2> HIDE DEF n
  <2>1. done1 = More(done, n, rec)
    BY DEF n
  <2>2. done1 \in [Nodes -> Seq(Runs)]
    BY <1>1, <2>1, DoneMore
  <2>3. \A m \in Nodes : \A r \in DOMAIN done[m] : r \in DOMAIN done1[m] /\ done1[m][r] = done[m][r]
    BY <1>1, <2>1, DoneMore, SMTT(30)
  <2>4. \A m \in Nodes : \A r \in DOMAIN done1[m] : r \in DOMAIN done[m] \/ (m = n /\ r = l)
    BY <1>1, <2>1, DoneMore
  <2>5. l \in DOMAIN done1[n] /\ l \notin DOMAIN done[n] /\ done1[n][l] = rec
    BY <1>1, <2>1, DoneMore
  <2>6. Count(done1) = Count(done) + 1
    BY <1>1, <2>1, DoneMore
  <2> QED BY <2>2, <2>3, <2>4, <2>5, <2>6
<1>4. /\ D \subseteq Known(done1) /\ F \subseteq Known(done1) /\ D \cap F = {}
      /\ \A y, z \in Data : <<y, z>> \in Earlier(done) /\ Range(y) \subseteq D /\ Range(z) \subseteq D => <<y, z>> \in R
      /\ Newest(R, F, D \cup F)
  <2> HIDE DEF n
  <2>1. done1 = More(done, n, rec)
    BY DEF n
  <2> QED BY <1>1, <1>2, <2>1, MoreKnown
<1>5. /\ Alone(q) /\ AllIn(q, D) /\ Ordered(q.stack, R)
  <2>1. \A k \in DOMAIN q.stack : q.stack[k].data \in Data
    <3>1. q.stack \in Seq(Items)
      BY DEF Shape, QueueRecords
    <3>2. \A k \in DOMAIN q.stack : q.stack[k] \in Items
      BY <3>1, LenProperties, ElementOfSeq
    <3> QED BY <3>2 DEF Items
  <2>2. Alone(q) /\ AllIn(q, D) /\ Ordered(q.stack, Earlier(done))
    BY DEF Consistent
  <2> HIDE DEF D, R
  <2> QED BY <1>4, <2>1, <2>2 DEF Ordered, AllIn
<1>6. /\ OutOf(q, n, x) /\ Range(x) \subseteq D
      /\ \A r \in DOMAIN done[n] : ~Common(done[n][r].data, x)
  BY DEF Consistent
<1>7. \A m \in Nodes : \A r \in DOMAIN done1[m] :
        /\ OutOf(q, m, done1[m][r].data) /\ Range(done1[m][r].data) \subseteq D
        /\ \A s \in DOMAIN done1[m] \ {r} : ~Common(done1[m][s].data, done1[m][r].data)
        /\ done1[m][r].startTime < Count(done1)
  <2> TAKE m \in Nodes
  <2> TAKE r \in DOMAIN done1[m]
  <2>1. /\ Count(done) \in Nat
        /\ rec.data = x /\ rec.startTime = Count(done)
    BY DoneFacts
  <2>2. CASE m = n /\ r = l
    <3>1. \A s \in DOMAIN done1[m] \ {r} : ~Common(done1[m][s].data, done1[m][r].data)
      <4> TAKE s \in DOMAIN done1[m] \ {r}
      <4>1. s \in DOMAIN done[n] /\ done1[m][s] = done[n][s]
        BY <1>1, <1>3, <2>2
      <4> QED BY <1>3, <1>6, <2>1, <2>2, <4>1
    <3> HIDE DEF n, l, x
    <3> QED BY <1>3, <1>6, <2>1, <2>2, <3>1
  <2>3. CASE r \in DOMAIN done[m]
    <3>1. done1[m][r] = done[m][r]
      BY <1>3, <2>3
    <3>2. OutOf(q, m, done1[m][r].data) /\ Range(done1[m][r].data) \subseteq D
      BY <2>3, <3>1 DEF Consistent
    <3>3. done1[m][r].startTime < Count(done1)
      BY <1>2, <1>3, <2>1, <2>3, <3>1
    <3>4. ASSUME NEW s \in DOMAIN done1[m] \ {r} PROVE ~Common(done1[m][s].data, done1[m][r].data)
      <4>1. CASE s \in DOMAIN done[m]
        <5>1. done1[m][s] = done[m][s]
          BY <1>3, <4>1
        <5> QED BY <2>3, <3>1, <4>1, <5>1 DEF Consistent
      <4>2. CASE m = n /\ s = l
        <5>1. done1[m][s].data = x
          BY <1>3, <2>1, <4>2
        <5>2. ~Common(done[m][r].data, x)
          BY <1>6, <2>3, <4>2
        <5> QED BY <3>1, <5>1, <5>2, CommonBoth
      <4> QED BY <1>3, <4>1, <4>2
    <3> QED BY <3>2, <3>3, <3>4
  <2> QED BY <1>3, <2>2, <2>3
<1>8. CASE q1 = q /\ q1 # Search(AddNodes(q, n, Len(done[n]), outputs))
  <2>1. AllIn(q, Known(done1))
    <3> HIDE DEF D
    <3> QED BY <1>4, <1>5 DEF AllIn
  <2>2. \A m \in Nodes : \A r \in DOMAIN done1[m] : Range(done1[m][r].data) \subseteq Known(done1)
    <3> HIDE DEF D
    <3> QED BY <1>4, <1>7
  <2> QED BY <1>5, <1>7, <1>8, <2>1, <2>2 DEF Consistent
<1>9. CASE q1 = Search(AddNodes(q, n, Len(done[n]), outputs))
  <2> DEFINE p == AddNodes(q, n, Len(done[n]), outputs)
             E == D \cup F
  <2> HIDE DEF n, l, x, D, R
  <2>1. /\ Shape(p) /\ Alone(p)
        /\ AllIn(p, E) /\ Ordered(p.stack, R)
        /\ \A m \in Nodes : \A y : OutOf(q, m, y) /\ Range(y) \cap F = {} => OutOf(p, m, y)
        /\ TwoInputs /\ Sourced(q) => Sourced(p)
    <3>1. D \cap SentBy(n, Len(done[n])) = {}
      BY <1>4
    <3>2. Newest(R, SentBy(n, Len(done[n])), D \cup SentBy(n, Len(done[n])))
      BY <1>4
    <3> QED BY <1>1, <1>5, <3>1, <3>2, AddNodesFacts
  <2>2. q1 = Search(p)
    BY <1>9
  <2> HIDE DEF p, E, F
  <2>3. /\ Shape(q1) /\ Alone(q1) /\ AllIn(q1, E) /\ Ordered(q1.stack, R)
        /\ \A m \in Nodes : \A y : OutOf(p, m, y) => OutOf(q1, m, y)
        /\ Sourced(p) => Sourced(q1)
        /\ q1.stack = <<>> => \A k \in DOMAIN q1.nodes : ~MayRun(q1, q1.nodes[k])
    BY <2>1, <2>2, SearchFacts
  <2>4. AllIn(q1, Known(done1))
    BY <1>4, <2>3 DEF AllIn, E
  <2>5. ASSUME NEW m \in Nodes, NEW r \in DOMAIN done1[m]
        PROVE  OutOf(q1, m, done1[m][r].data) /\ Range(done1[m][r].data) \subseteq Known(done1)
    <3>1. OutOf(q, m, done1[m][r].data) /\ Range(done1[m][r].data) \subseteq D
      BY <1>7
    <3>2. Range(done1[m][r].data) \cap F = {}
      BY <1>4, <3>1
    <3>3. OutOf(q1, m, done1[m][r].data)
      BY <2>1, <2>3, <3>1, <3>2
    <3> QED BY <1>4, <3>1, <3>3
  <2>6. Ordered(q1.stack, Earlier(done1))
    BY <2>3 DEF R
  <2> QED BY <1>7, <2>1, <2>3, <2>4, <2>5, <2>6 DEF Consistent
<1> QED BY <1>8, <1>9

-----------------------------------------------------------------------------
(* The record of the runs.                                                 *)

\* The runs without the last one of a node.
Popped(runs, n) == [runs EXCEPT ![n] = Front(@)]

\* The runs on record, and their number.
LEMMA DoneOfFacts ==
  ASSUME NEW runs \in RunObjects
  PROVE  /\ DoneOf(runs) \in [Nodes -> Seq(Runs)]
         /\ \A n \in Nodes : DoneOf(runs)[n] = IF n \in DOMAIN runs THEN runs[n] ELSE <<>>
         /\ Count(DoneOf(runs)) = Cardinality(UNION { {n} \X DOMAIN runs[n] : n \in DOMAIN runs })
<1> DEFINE S == Seq(Runs)
           none == <<>>
           done == DoneOf(runs)
<1>1. none \in S /\ DOMAIN none = {}
  OBVIOUS
<1> HIDE DEF S, none
<1>2. DOMAIN runs \subseteq Nodes /\ \A n \in DOMAIN runs : runs[n] \in S
  <2>1. runs \in Objects(Nodes, S)
    BY DEF S, RunObjects
  <2> QED BY <2>1, ObjectFacts
<1>3. done = [n \in Nodes |-> IF n \in DOMAIN runs THEN runs[n] ELSE none]
  BY DEF DoneOf, none
<1> HIDE DEF done
<1>4. done \in [Nodes -> S] /\ \A n \in Nodes : done[n] = IF n \in DOMAIN runs THEN runs[n] ELSE none
  BY <1>1, <1>2, <1>3
<1>5. Cells(done) = UNION { {n} \X DOMAIN runs[n] : n \in DOMAIN runs }
  <2>1. ASSUME NEW e \in Cells(done) PROVE e \in UNION { {n} \X DOMAIN runs[n] : n \in DOMAIN runs }
    <3>1. PICK n \in Nodes : e \in {n} \X DOMAIN done[n]
      BY DEF Cells
    <3>2. n \in DOMAIN runs /\ done[n] = runs[n]
      BY <1>1, <1>4, <3>1
    <3> QED BY <3>1, <3>2
  <2>2. ASSUME NEW n \in DOMAIN runs, NEW e \in {n} \X DOMAIN runs[n] PROVE e \in Cells(done)
    <3>1. n \in Nodes /\ done[n] = runs[n]
      BY <1>2, <1>4
    <3> QED BY <3>1 DEF Cells
  <2> QED BY <2>1, <2>2
<1> QED BY <1>4, <1>5 DEF Count, done, S, none

\* Front() takes back what was appended.
LEMMA AppendFront ==
  ASSUME NEW S, NEW s \in Seq(S), NEW e \in S
  PROVE  Append(s, e) \in Seq(S) /\ Append(s, e) # <<>> /\ Front(Append(s, e)) = s
<1> DEFINE t == Append(s, e)
           r == SubSeq(t, 1, Len(s))
<1>1. t \in Seq(S) /\ Len(t) = Len(s) + 1 /\ Len(s) \in Nat /\ \A i \in 1..Len(s) : t[i] = s[i]
  BY AppendProperties, LenProperties
<1> HIDE DEF t
<1>2. r \in Seq(S) /\ Len(r) = Len(s) /\ \A i \in 1..Len(s) : r[i] = t[i]
  <2>1. \A i \in 1..Len(s) : t[i] \in S
    BY <1>1, ElementOfSeq
  <2>2. /\ r \in Seq(S)
        /\ Len(r) = IF 1 <= Len(s) THEN Len(s) - 1 + 1 ELSE 0
        /\ \A i \in 1..(Len(s) - 1 + 1) : r[i] = t[1 + i - 1]
    BY <1>1, <2>1, SubSeqProperties
  <2> QED BY <1>1, <2>2
<1> HIDE DEF r
<1>3. r = s
  BY <1>1, <1>2, SeqEqual
<1>4. Len(t) - 1 = Len(s)
  BY <1>1
<1>5. Front(t) = r
  BY <1>4 DEF Front, r
<1>6. t # <<>>
  BY <1>1, EmptySeq
<1> QED BY <1>1, <1>3, <1>5, <1>6 DEF t

\* A run more of n on record, as an engine makes it.
Recorded(runs, n, rec) ==
  Put(runs, n, Append(IF n \in DOMAIN runs THEN runs[n] ELSE <<>>, rec))

\* A run put on record is one run more; taken back, it is as if it had not been.
LEMMA PushRunFacts ==
  ASSUME NEW runs \in RunObjects, NEW n \in Nodes, NEW rec \in Runs
  PROVE  /\ Recorded(runs, n, rec) \in RunObjects
         /\ DOMAIN Recorded(runs, n, rec) = DOMAIN runs \cup {n}
         /\ Recorded(runs, n, rec)[n] # <<>>
         /\ DoneOf(Recorded(runs, n, rec)) = More(DoneOf(runs), n, rec)
         /\ DoneOf(Popped(Recorded(runs, n, rec), n)) = DoneOf(runs)
<1> DEFINE S == Seq(Runs)
           s == IF n \in DOMAIN runs THEN runs[n] ELSE <<>>
           t == Append(s, rec)
           runs1 == Put(runs, n, t)
<1>0. Recorded(runs, n, rec) = runs1
  BY DEF Recorded
<1>1. DOMAIN runs \subseteq Nodes /\ s \in S
  <2>1. DOMAIN runs \subseteq Nodes /\ \A m \in DOMAIN runs : runs[m] \in S
    <3> HIDE DEF S
    <3>1. runs \in Objects(Nodes, S)
      BY DEF S, RunObjects
    <3> QED BY <3>1, ObjectFacts
  <2> QED BY <2>1
<1>2. /\ t \in S /\ t # <<>> /\ Front(t) = s
  BY <1>1, AppendFront DEF t
<1> HIDE DEF S, s, t, runs1
<1>3. /\ runs1 \in Objects(Nodes, S) /\ DOMAIN runs1 = DOMAIN runs \cup {n} /\ runs1[n] = t
      /\ \A m \in DOMAIN runs : m # n => runs1[m] = runs[m]
  <2>1. runs \in Objects(Nodes, S)
    BY DEF S, RunObjects
  <2>2. runs1 = Put(runs, n, t)
    BY DEF runs1
  <2>3. runs1 \in Objects(Nodes, S)
    <3>1. Put(runs, n, t) \in Objects(Nodes, S)
      BY <1>2, <2>1, PutFacts
    <3> QED BY <2>2, <3>1
  <2>4. DOMAIN runs1 = DOMAIN runs \cup {n}
    BY <2>2 DEF Put
  <2>5. runs1[n] = t /\ \A m \in DOMAIN runs : m # n => runs1[m] = runs[m]
    BY <2>2 DEF Put
  <2> QED BY <2>3, <2>4, <2>5
<1>4. DoneOf(runs1) = More(DoneOf(runs), n, rec)
  <2>1. DoneOf(runs)[n] = s /\ t = Append(DoneOf(runs)[n], rec)
    BY DEF DoneOf, s, t
  <2>2. \A m \in Nodes : DoneOf(runs1)[m] = IF m = n THEN t ELSE DoneOf(runs)[m]
    BY <1>3 DEF DoneOf
  <2>3. DoneOf(runs1) = [m \in Nodes |-> DoneOf(runs1)[m]] /\ DoneOf(runs) = [m \in Nodes |-> DoneOf(runs)[m]]
    BY DEF DoneOf
  <2>4. More(DoneOf(runs), n, rec) = [DoneOf(runs) EXCEPT ![n] = t]
    BY <2>1 DEF More
  <2> QED BY <2>2, <2>3, <2>4
<1>5. DoneOf(Popped(runs1, n)) = DoneOf(runs)
  <2> DEFINE runs2 == Popped(runs1, n)
  <2>1. /\ DOMAIN runs2 = DOMAIN runs1 /\ runs2[n] = s
        /\ \A m \in DOMAIN runs1 : m # n => runs2[m] = runs1[m]
    BY <1>2, <1>3 DEF Popped
  <2> HIDE DEF runs2
  <2>2. \A m \in Nodes : DoneOf(runs2)[m] = DoneOf(runs)[m]
    BY <1>3, <2>1 DEF DoneOf, s
  <2>3. DoneOf(runs2) = [m \in Nodes |-> DoneOf(runs2)[m]] /\ DoneOf(runs) = [m \in Nodes |-> DoneOf(runs)[m]]
    BY DEF DoneOf
  <2>4. DoneOf(runs2) = DoneOf(runs)
    BY <2>2, <2>3
  <2> QED BY <2>4 DEF runs2
<1> QED BY <1>0, <1>2, <1>3, <1>4, <1>5 DEF S, RunObjects, RunObjects

-----------------------------------------------------------------------------
(* The inductive invariant.                                                *)

\* A run that failed or waits is taken back by who goes on, with its item on the stack:
\* until then it is not done.
Undone == pc = "ended" /\ result \in {"error", "waiting"} /\ nodeExecutionStack # <<>>
Done   == DoneOf(IF Undone THEN Popped(runData, lastNodeExecuted) ELSE runData)

Queue   == [stack |-> nodeExecutionStack, waiting |-> waitingExecution, nodes |-> waitingNodes]
Running == IF pc = "node" THEN {executionData} ELSE {}

Types ==
  /\ workflow \in Workflows
  /\ instance \in Nat /\ mishaps \in 0..MaxMishaps /\ instance <= mishaps
  /\ pc \in {"loop", "node", "ended"} /\ status \in {"running", "canceled"}
  /\ Shape(Queue)
  /\ executionData = NoItem \/ (executionData \in Items /\ executionData.instance <= instance)
  /\ pc = "node" => executionData # NoItem /\ DOMAIN executionData.data # {}
  /\ runData \in RunObjects
  /\ \A n \in DOMAIN runData : \A r \in DOMAIN runData[n] : DOMAIN runData[n][r].data # {}
  /\ lastNodeExecuted \in Nodes \cup {NoNode}
  /\ executionError \in BOOLEAN /\ waitTill \in BOOLEAN
  /\ result \in {"none", "success", "error", "canceled", "waiting"}
  /\ pc = "ended" <=> result # "none"
  /\ result = "waiting" => nodeExecutionStack # <<>>
  /\ Undone => /\ instance < mishaps
               /\ lastNodeExecuted \in DOMAIN runData /\ runData[lastNodeExecuted] # <<>>

\* Only what the filter lets through runs.
Filtered ==
  /\ DOMAIN runData \subseteq RunNodeFilter
  /\ pc = "node" => executionData.node \in RunNodeFilter

\* In a workflow whose nodes have two inputs at most, the sources are those of the data.
Sources ==
  TwoInputs => Sourced(Queue) /\ (pc = "node" => SourceOK(executionData))

\* With an empty stack, the node that was searched for last has left none that may run.
Rested ==
  (pc = "loop" /\ nodeExecutionStack = <<>>) \/ result = "success" => (Searched => Served)

IInv ==
  /\ Types /\ Filtered /\ Sources /\ Rested
  /\ result # "canceled" => Consistent(Done, Queue, Running)

-----------------------------------------------------------------------------
(* Every step preserves the invariant.                                     *)

NextQueue   == [stack |-> nodeExecutionStack', waiting |-> waitingExecution', nodes |-> waitingNodes']
NextRunning == IF pc' = "node" THEN {executionData'} ELSE {}
NextUndone  == pc' = "ended" /\ result' \in {"error", "waiting"} /\ nodeExecutionStack' # <<>>
NextDone    == DoneOf(IF NextUndone THEN Popped(runData', lastNodeExecuted') ELSE runData')

\* The stack and the waiting area stay well formed in the state after a step of an engine, or
\* of the next engine.
LEMMA NextShape ==
  ASSUME workflow' = workflow, instance \in Nat, instance' \in Nat, instance <= instance',
         Shape(NextQueue)
  PROVE  Shape(Queue)'
<1>1. \A n : Inputs(n)' = Inputs(n)
  BY DEF Inputs, ConnectionsTo, ConnectionsOf
<1>2. /\ Queue' \in QueueRecords
      /\ \A k \in DOMAIN Queue'.stack : Queue'.stack[k] \in Items
  <2>1. Queue' = NextQueue
    BY DEF Queue, NextQueue
  <2>2. Queue'.stack \in Seq(Items)
    BY <2>1 DEF Shape, QueueRecords
  <2>3. \A k \in DOMAIN Queue'.stack : Queue'.stack[k] \in Items
    BY <2>2, LenProperties, ElementOfSeq
  <2> QED BY <2>1, <2>3 DEF Shape
<1>3. \A k \in DOMAIN Queue'.stack : DOMAIN Queue'.stack[k].data # {} /\ Queue'.stack[k].instance <= instance'
  <2> TAKE k \in DOMAIN Queue'.stack
  <2>1. Queue'.stack[k].instance \in Nat
    BY <1>2 DEF Items
  <2>2. DOMAIN Queue'.stack[k].data # {} /\ Queue'.stack[k].instance <= instance
    BY DEF Shape, Queue, NextQueue
  <2> QED BY <2>1, <2>2
<1>4. /\ \A n \in Nodes :
           /\ IsFiniteSet(DOMAIN Queue'.waiting[n])
           /\ \A k \in DOMAIN Queue'.waiting[n] :
                DOMAIN Queue'.waiting[n][k].data \in (SUBSET (1..Inputs(n)')) \ {{}, 1..Inputs(n)'}
      /\ Range(Queue'.nodes) = { n \in Nodes : DOMAIN Queue'.waiting[n] # {} }
      /\ IsInjective(Queue'.nodes)
  BY <1>1 DEF Shape, Queue, NextQueue
<1> QED BY <1>2, <1>3, <1>4 DEF Shape

\* So do the other parts.
LEMMA NextConsistent ==
  ASSUME result' # "canceled" => Consistent(NextDone, NextQueue, NextRunning)
  PROVE  (result # "canceled" => Consistent(Done, Queue, Running))'
<1>1. Done' = NextDone
  BY DEF Done, NextDone, Undone, NextUndone
<1>2. Queue' = NextQueue /\ Running' = NextRunning
  BY DEF Queue, NextQueue, Running, NextRunning
<1>3. result' # "canceled" => Consistent(Done', Queue', Running')
  BY <1>1, <1>2
<1> QED BY <1>3

\* The sources after a step.
LEMMA NextSources ==
  ASSUME TwoInputs => Sourced(NextQueue) /\ (pc' = "node" => SourceOK(executionData'))
  PROVE  Sources'
  BY DEF Sources, Sourced, SourceOK, Queue, NextQueue

\* The stack without its head.
LEMMA TailShape ==
  ASSUME NEW q, Shape(q), q.stack # <<>>, NEW q1,
         q1 = [stack |-> Tail(q.stack), waiting |-> q.waiting, nodes |-> q.nodes]
  PROVE  /\ Shape(q1)
         /\ Head(q.stack) \in Items /\ Head(q.stack).instance <= instance
         /\ DOMAIN Head(q.stack).data # {}
         /\ Sourced(q) => Sourced(q1) /\ SourceOK(Head(q.stack))
<1> DEFINE s == q.stack
           t == Tail(s)
<1>1. s \in Seq(Items) /\ s # <<>> /\ q \in QueueRecords
  BY DEF Shape, QueueRecords
<1> HIDE DEF s
<1>2. /\ t \in Seq(Items) /\ Head(s) = s[1] /\ 1 \in DOMAIN s /\ Head(s) \in Items
      /\ \A i \in DOMAIN t : i + 1 \in DOMAIN s /\ t[i] = s[i + 1]
  BY <1>1, TailFacts
<1> HIDE DEF t
<1>3. q1 \in QueueRecords /\ q1.stack = t /\ q1.waiting = q.waiting /\ q1.nodes = q.nodes
  BY <1>1, <1>2 DEF QueueRecords, t, s
<1>4. \A i \in DOMAIN s : DOMAIN s[i].data # {} /\ s[i].instance <= instance
  BY DEF Shape, s
<1>5. \A i \in DOMAIN t : DOMAIN t[i].data # {} /\ t[i].instance <= instance
  BY <1>2, <1>4
<1>6. Shape(q1)
  BY <1>3, <1>5 DEF Shape
<1>7. Sourced(q) => Sourced(q1) /\ SourceOK(Head(s))
  <2> HAVE Sourced(q)
  <2>1. \A i \in DOMAIN s : SourceOK(s[i])
    BY DEF Sourced, s
  <2>2. \A i \in DOMAIN t : SourceOK(t[i])
    BY <1>2, <2>1
  <2> QED BY <1>2, <1>3, <2>1, <2>2 DEF Sourced
<1> QED BY <1>2, <1>4, <1>6, <1>7 DEF s

\* The workflow does not change, and with it what leads to a node and what the filter lets
\* through.
NodesBefore(connections, n) ==
  LET feeding(m) == { k \in Nodes : \E c \in Range(connections[k]) : c.node = m }
      up[depth \in Nat] == IF depth = 0 THEN {n} ELSE UNION { {m} \cup feeding(m) : m \in up[depth - 1] }
  IN up[Cardinality(Nodes)] \ {n}

\* Neither changes while the workflow is executed.
LEMMA FilterKept ==
  ASSUME workflow' = workflow
  PROVE  (\A n : ParentNodes(n)' = ParentNodes(n)) /\ RunNodeFilter' = RunNodeFilter
<1>1. ASSUME NEW n PROVE ParentNodes(n)' = ParentNodes(n)
  <2>1. ParentNodes(n) = NodesBefore(workflow.connections, n)
    BY DEF ParentNodes, ConnectionsOf, NodesBefore
  <2>2. ParentNodes(n)' = NodesBefore(workflow'.connections, n)
    BY DEF ParentNodes, ConnectionsOf, NodesBefore
  <2> QED BY <2>1, <2>2
<1>2. RunNodeFilter' = RunNodeFilter
  BY <1>1 DEF RunNodeFilter
<1> QED BY <1>1, <1>2

-----------------------------------------------------------------------------
(* Take and Skip.                                                          *)

\* What both do with the head of the stack.
LEMMA ShiftStep ==
  ASSUME IInv, Shift, pc' \in {"loop", "node"}
  PROVE  LET item == Head(nodeExecutionStack) IN
         /\ Types' /\ DOMAIN runData' \subseteq RunNodeFilter'
         /\ TwoInputs => Sourced(NextQueue) /\ SourceOK(item)
         /\ Consistent(NextDone, NextQueue, {item}) /\ Consistent(NextDone, NextQueue, {})
         /\ result' = "none"
<1> DEFINE item == Head(nodeExecutionStack)
<1>1. /\ Types /\ Shape(Queue) /\ result = "none" /\ instance \in Nat
      /\ Consistent(DoneOf(runData), Queue, {})
  BY DEF IInv, Types, Shift, Undone, Done, Running
<1>2. /\ Queue.stack # <<>> /\ Queue.stack = nodeExecutionStack
      /\ NextQueue = [stack |-> Tail(Queue.stack), waiting |-> Queue.waiting, nodes |-> Queue.nodes]
      /\ executionData' = item /\ instance' = instance
      /\ workflow' = workflow /\ mishaps' = mishaps /\ status' = status /\ runData' = runData
      /\ lastNodeExecuted' = lastNodeExecuted /\ executionError' = FALSE /\ waitTill' = waitTill
      /\ result' = result /\ NextDone = DoneOf(runData)
  BY DEF Shift, Queue, NextQueue, NextDone, NextUndone
<1>3. Queue \in QueueRecords
  BY <1>1 DEF Shape
<1>4. /\ Shape(NextQueue) /\ item \in Items /\ item.instance <= instance /\ DOMAIN item.data # {}
      /\ Sourced(Queue) => Sourced(NextQueue) /\ SourceOK(item)
  BY <1>1, <1>2, TailShape
<1>5. Consistent(DoneOf(runData), NextQueue, {item}) /\ Consistent(DoneOf(runData), NextQueue, {})
  <2>1. NextQueue.waiting = Queue.waiting /\ NextQueue.stack = Tail(Queue.stack)
    BY <1>2
  <2> QED BY <1>1, <1>2, <1>3, <2>1, TakeConsistent
<1>6. TwoInputs => Sourced(Queue)
  BY DEF IInv, Sources
<1>7. DOMAIN runData' \subseteq RunNodeFilter'
  BY <1>2, FilterKept DEF IInv, Filtered
<1>8. Types'
  <2>1. Shape(Queue)'
    BY <1>1, <1>2, <1>4, NextShape
  <2>2. ~Undone' /\ item # NoItem
    BY <1>4, EngineAssumption DEF Undone, Items, NoItem
  <2> HIDE DEF item
  <2>3. /\ workflow' \in Workflows /\ instance' \in Nat /\ mishaps' \in 0..MaxMishaps /\ instance' <= mishaps'
        /\ status' \in {"running", "canceled"} /\ runData' \in RunObjects
        /\ \A n \in DOMAIN runData' : \A r \in DOMAIN runData'[n] : DOMAIN runData'[n][r].data # {}
        /\ lastNodeExecuted' \in Nodes \cup {NoNode}
        /\ executionError' \in BOOLEAN /\ waitTill' \in BOOLEAN
    BY <1>1, <1>2 DEF Types
  <2> QED BY <1>1, <1>2, <1>4, <2>1, <2>2, <2>3 DEF Types
<1> QED BY <1>1, <1>2, <1>4, <1>5, <1>6, <1>7, <1>8

\* A node is taken from the stack and runs.
LEMMA TakeStep ==
  ASSUME IInv, Take
  PROVE  IInv'
<1> DEFINE item == Head(nodeExecutionStack)
<1>1. executionData' = item /\ pc' = "node" /\ item.node \in RunNodeFilter /\ workflow' = workflow
  BY DEF Take, Shift
<1>2. /\ Types' /\ DOMAIN runData' \subseteq RunNodeFilter'
      /\ TwoInputs => Sourced(NextQueue) /\ SourceOK(item)
      /\ Consistent(NextDone, NextQueue, {item})
      /\ result' = "none"
  BY <1>1, ShiftStep DEF Take
<1> HIDE DEF item
<1>3. Filtered'
  BY <1>1, <1>2, FilterKept DEF Filtered
<1>4. Sources'
  BY <1>1, <1>2, NextSources
<1>5. Rested'
  BY <1>1, <1>2 DEF Rested
<1>6. (result # "canceled" => Consistent(Done, Queue, Running))'
  <2>1. NextRunning = {item}
    BY <1>1 DEF NextRunning
  <2> QED BY <1>2, <2>1, NextConsistent
<1> QED BY <1>2, <1>3, <1>4, <1>5, <1>6 DEF IInv

\* A node that is not to be executed is dropped.
LEMMA SkipStep ==
  ASSUME IInv, Skip
  PROVE  IInv'
<1> DEFINE item == Head(nodeExecutionStack)
<1>1. executionData' = item /\ pc' = "loop" /\ item.node \notin RunNodeFilter /\ workflow' = workflow
  BY DEF Skip, Shift
<1>2. /\ Types' /\ DOMAIN runData' \subseteq RunNodeFilter'
      /\ TwoInputs => Sourced(NextQueue)
      /\ Consistent(NextDone, NextQueue, {})
  BY <1>1, ShiftStep DEF Skip
<1> HIDE DEF item
<1>3. Filtered'
  BY <1>1, <1>2 DEF Filtered
<1>4. Sources'
  BY <1>1, <1>2, NextSources
<1>5. Rested'
  <2>1. item.node \notin DOMAIN runData'
    BY <1>1, <1>2, FilterKept
  <2>2. ~Searched'
    BY <1>1, <2>1 DEF Searched, RunsOf
  <2> QED BY <2>2 DEF Rested
<1>6. (result # "canceled" => Consistent(Done, Queue, Running))'
  <2>1. NextRunning = {}
    BY <1>1 DEF NextRunning
  <2> QED BY <1>2, <2>1, NextConsistent
<1> QED BY <1>2, <1>3, <1>4, <1>5, <1>6 DEF IInv

-----------------------------------------------------------------------------
(* What a node that runs does.                                             *)

\* Data of which a part is in no other data is not the other data.
LEMMA NotCommon ==
  ASSUME NEW d, NEW e, ~Common(d, e), DOMAIN e # {}
  PROVE  d # e
  BY DEF Common

\* While a node runs.
LEMMA NodeFacts ==
  ASSUME IInv, pc = "node"
  PROVE  LET n == executionData.node
             done == DoneOf(runData) IN
         /\ Types /\ Shape(Queue) /\ instance \in Nat /\ workflow \in Workflows
         /\ result = "none" /\ runData \in RunObjects
         /\ executionData \in Items /\ executionData.instance <= instance /\ DOMAIN executionData.data # {}
         /\ n \in Nodes /\ n \in RunNodeFilter /\ DOMAIN runData \subseteq RunNodeFilter
         /\ done \in [Nodes -> Seq(Runs)] /\ RunsOf(n) = done[n]
         /\ Count(done) = StartTime
         /\ Consistent(done, Queue, {executionData})
         /\ \A r \in DOMAIN done[n] : done[n][r].data # executionData.data
<1> DEFINE n == executionData.node
           done == DoneOf(runData)
<1>1. /\ Types /\ Shape(Queue) /\ instance \in Nat /\ workflow \in Workflows
      /\ result = "none" /\ runData \in RunObjects
      /\ executionData \in Items /\ executionData.instance <= instance /\ DOMAIN executionData.data # {}
      /\ Done = done /\ Running = {executionData}
  BY DEF IInv, Types, Undone, Done, Running
<1>2. n \in Nodes
  BY <1>1 DEF Items
<1>3. n \in RunNodeFilter /\ DOMAIN runData \subseteq RunNodeFilter
  BY DEF IInv, Filtered
<1>4. /\ done \in [Nodes -> Seq(Runs)] /\ Count(done) = StartTime
      /\ \A m \in Nodes : done[m] = IF m \in DOMAIN runData THEN runData[m] ELSE <<>>
  BY <1>1, DoneOfFacts DEF StartTime
<1>5. RunsOf(n) = done[n]
  BY <1>2, <1>4 DEF RunsOf
<1>6. Consistent(done, Queue, {executionData})
  BY <1>1 DEF IInv
<1> HIDE DEF done
<1>7. ASSUME NEW r \in DOMAIN done[n] PROVE done[n][r].data # executionData.data
  <2>1. ~Common(done[n][r].data, executionData.data)
    BY <1>6 DEF Consistent
  <2> QED BY <1>1, <2>1, NotCommon
<1> QED BY <1>1, <1>2, <1>3, <1>4, <1>5, <1>6, <1>7 DEF done

\* The result is null.
LEMMA NullStep ==
  ASSUME IInv, NodeReturnsNull
  PROVE  IInv'
<1> DEFINE n == executionData.node
           done == DoneOf(runData)
<1>1. /\ Types /\ Shape(Queue) /\ instance \in Nat /\ workflow \in Workflows
      /\ result = "none" /\ DOMAIN runData \subseteq RunNodeFilter
      /\ n \in Nodes /\ RunsOf(n) = done[n]
      /\ Consistent(done, Queue, {executionData})
      /\ \A r \in DOMAIN done[n] : done[n][r].data # executionData.data
  BY NodeFacts DEF NodeReturnsNull
<1>2. /\ pc' = "loop" /\ lastNodeExecuted' = n /\ workflow' = workflow /\ status' = status
      /\ NextQueue = Queue /\ executionData' = executionData /\ executionError' = executionError
      /\ runData' = runData /\ waitTill' = waitTill /\ result' = result /\ instance' = instance
      /\ mishaps' \in Int /\ mishaps < MaxMishaps /\ mishaps' = mishaps + 1
      /\ nodeExecutionStack' = nodeExecutionStack
  <2>1. mishaps \in 0..MaxMishaps
    BY <1>1 DEF Types
  <2> QED BY <2>1 DEF NodeReturnsNull, Mishap, queueVars, Queue, NextQueue
<1> HIDE DEF done
<1>3. Types'
  <2>1. Shape(Queue)'
    BY <1>1, <1>2, NextShape
  <2>2. ~Undone'
    BY <1>2 DEF Undone
  <2>3. MaxMishaps \in Nat
    BY EngineAssumption
  <2>4. instance' \in Nat /\ mishaps' \in 0..MaxMishaps /\ instance' <= mishaps'
    BY <1>1, <1>2, <2>3 DEF Types
  <2>5. executionData' = NoItem \/ (executionData' \in Items /\ executionData'.instance <= instance')
    BY <1>1, <1>2 DEF Types
  <2>6. /\ workflow' \in Workflows
        /\ status' \in {"running", "canceled"} /\ runData' \in RunObjects
        /\ \A m \in DOMAIN runData' : \A r \in DOMAIN runData'[m] : DOMAIN runData'[m][r].data # {}
        /\ lastNodeExecuted' \in Nodes \cup {NoNode}
        /\ executionError' \in BOOLEAN /\ waitTill' \in BOOLEAN
    BY <1>1, <1>2 DEF Types
  <2> QED BY <1>1, <1>2, <2>1, <2>2, <2>4, <2>5, <2>6 DEF Types
<1>4. Filtered'
  BY <1>1, <1>2, FilterKept DEF Filtered
<1>5. Sources'
  <2>1. TwoInputs => Sourced(Queue)
    BY DEF IInv, Sources
  <2> QED BY <1>2, <2>1, NextSources
<1>6. Rested'
  <2>1. RunsOf(n)' = RunsOf(n)
    BY <1>2 DEF RunsOf
  <2>2. RunsOf(executionData.node)' = done[n]
    BY <1>1, <1>2, <2>1 DEF RunsOf
  <2>3. ~Searched'
    BY <1>1, <1>2, <2>2 DEF Searched, RunsOf
  <2> QED BY <2>3 DEF Rested
<1>7. (result # "canceled" => Consistent(Done, Queue, Running))'
  <2>1. Consistent(done, Queue, {})
    BY <1>1, NullConsistent
  <2>2. NextRunning = {} /\ NextDone = done
    BY <1>2 DEF NextRunning, NextDone, NextUndone, done
  <2> QED BY <1>2, <2>1, <2>2, NextConsistent
<1> QED BY <1>3, <1>4, <1>5, <1>6, <1>7 DEF IInv

\* When no waiting node may run, each lacks data that its type requires, or a node that leads
\* to it waits.
LEMMA NoneMayRun ==
  ASSUME workflow \in Workflows, NEW q, Shape(q),
         \A k \in DOMAIN q.nodes : ~MayRun(q, q.nodes[k]),
         NEW m \in Range(q.nodes)
  PROVE  \/ /\ workflow.required[m] # 0
            /\ \/ workflow.required[m] = workflow.inputs[m]
               \/ Cardinality(DOMAIN q.waiting[m][Min(DOMAIN q.waiting[m])].data) < workflow.required[m]
         \/ ParentNodes(m) \cap Range(q.nodes) # {}
<1> DEFINE entries == q.waiting[m]
           K == DOMAIN entries
           x == DOMAIN entries[Min(K)].data
<1>1. m \in Nodes /\ K # {}
  BY DEF Shape
<1>2. K \in SUBSET Nat
  <2>1. q.waiting \in [Nodes -> Entries]
    BY DEF Shape, QueueRecords
  <2>2. entries \in Objects(Indices, EntryRecords)
    BY <1>1, <2>1 DEF Entries
  <2>3. K \subseteq Indices
    BY <2>2, ObjectFacts
  <2> QED BY <2>3 DEF Indices
<1>3. Min(K) \in K
  BY <1>1, <1>2, MinFacts
<1>4. x \subseteq 1..Inputs(m) /\ Inputs(m) \in Nat
  BY <1>1, <1>3, InputsFacts DEF Shape
<1>5. Cardinality(x) \in Nat
  <2> HIDE DEF x
  <2>1. IsFiniteSet(1..Inputs(m))
    BY <1>4, FS_Interval
  <2>2. IsFiniteSet(x)
    BY <1>4, <2>1, FS_Subset
  <2> QED BY <2>2, FS_CardinalityType
<1>6. PICK k \in DOMAIN q.nodes : q.nodes[k] = m
  BY DEF Range
<1>7. ~MayRun(q, m)
  BY <1>6
<1>8. workflow.required[m] \in Nat
  BY <1>1, WorkflowFacts
<1>9. \/ /\ workflow.required[m] # 0
         /\ \/ workflow.required[m] = workflow.inputs[m]
            \/ ~(Cardinality(x) >= workflow.required[m])
      \/ ParentNodes(m) \cap Range(q.nodes) # {}
  BY <1>7 DEF MayRun
<1> HIDE DEF x
<1>10. ~(Cardinality(x) >= workflow.required[m]) => Cardinality(x) < workflow.required[m]
  BY <1>5, <1>8
<1> QED BY <1>9, <1>10 DEF x

\* No run on record is without data.
LEMMA MoreData ==
  ASSUME NEW done \in [Nodes -> Seq(Runs)], NEW n \in Nodes, NEW rec \in Runs, DOMAIN rec.data # {},
         \A m \in Nodes : \A r \in DOMAIN done[m] : DOMAIN done[m][r].data # {}
  PROVE  \A m \in Nodes : \A r \in DOMAIN More(done, n, rec)[m] : DOMAIN More(done, n, rec)[m][r].data # {}
<1> DEFINE s == Append(done[n], rec)
           l == Len(done[n]) + 1
<1>1. DOMAIN s = DOMAIN done[n] \cup {l} /\ (\A r \in DOMAIN done[n] : s[r] = done[n][r]) /\ s[l] = rec
  BY AppendFacts
<1>2. More(done, n, rec) = [done EXCEPT ![n] = s]
  BY DEF More
<1> HIDE DEF s, l
<1>3. \A r \in DOMAIN s : DOMAIN s[r].data # {}
  BY <1>1
<1> QED BY <1>2, <1>3

\* Nor is it after a run more.
LEMMA RecordedData ==
  ASSUME Types, runData' \in RunObjects, NEW n \in Nodes, NEW rec \in Runs,
         DoneOf(runData') = More(DoneOf(runData), n, rec), DOMAIN rec.data # {},
         DoneOf(runData) \in [Nodes -> Seq(Runs)]
  PROVE  \A m \in DOMAIN runData' : \A r \in DOMAIN runData'[m] : DOMAIN runData'[m][r].data # {}
<1> DEFINE done == DoneOf(runData)
<1>1. \A m \in Nodes : \A r \in DOMAIN done[m] : DOMAIN done[m][r].data # {}
  BY DEF Types, DoneOf
<1>2. \A m \in DOMAIN runData' : m \in Nodes /\ DoneOf(runData')[m] = runData'[m]
  BY ObjectFacts DEF RunObjects, DoneOf
<1> HIDE DEF done
<1>3. \A m \in Nodes : \A r \in DOMAIN More(done, n, rec)[m] : DOMAIN More(done, n, rec)[m][r].data # {}
  <2>1. done \in [Nodes -> Seq(Runs)]
    BY DEF done
  <2> QED BY <1>1, <2>1, MoreData
<1> QED BY <1>2, <1>3 DEF done

\* The node has a result.
LEMMA ProceedStep ==
  ASSUME IInv, pc = "node", NEW status_ \in {"success", "error"}, NEW outputs, Proceed(status_, outputs),
         workflow' = workflow, status' = status, executionData' = executionData, waitTill' = waitTill,
         result' = result, instance' = instance, executionError' \in BOOLEAN,
         mishaps' \in 0..MaxMishaps, mishaps <= mishaps'
  PROVE  IInv'
<1> DEFINE n == executionData.node
           done == DoneOf(runData)
           rec == Run(status_)
           done1 == More(done, n, rec)
           q1 == IF n = workflow.destination THEN Queue
                 ELSE Search(AddNodes(Queue, n, Len(RunsOf(n)), outputs))
<1>1. /\ Types /\ Shape(Queue) /\ instance \in Nat /\ workflow \in Workflows
      /\ result = "none" /\ runData \in RunObjects
      /\ executionData \in Items /\ executionData.instance <= instance /\ DOMAIN executionData.data # {}
      /\ n \in Nodes /\ n \in RunNodeFilter /\ DOMAIN runData \subseteq RunNodeFilter
      /\ done \in [Nodes -> Seq(Runs)] /\ RunsOf(n) = done[n]
      /\ Count(done) = StartTime
      /\ Consistent(done, Queue, {executionData})
  BY NodeFacts
<1>2. /\ pc' = "loop" /\ lastNodeExecuted' = n
      /\ runData' = Put(runData, n, Append(RunsOf(n), rec))
  BY DEF Proceed, PushRun
<1>3. NextQueue = [stack |-> q1.stack, waiting |-> q1.waiting, nodes |-> q1.nodes]
  BY DEF Proceed, NextQueue, Queue
<1>4. /\ rec \in Runs /\ rec.data = executionData.data /\ rec.startTime = Count(done)
  <2>1. StartTime \in Nat
    BY <1>1, DoneFacts
  <2> QED BY <1>1, <2>1 DEF Run, Runs, Items
<1> HIDE DEF rec
<1>5. /\ runData' \in RunObjects /\ DOMAIN runData' = DOMAIN runData \cup {n}
      /\ DoneOf(runData') = done1
  <2>1. runData' = Recorded(runData, n, rec)
    BY <1>2 DEF RunsOf, Recorded
  <2>2. runData \in RunObjects /\ n \in Nodes
    BY <1>1
  <2> HIDE DEF n
  <2> QED BY <1>4, <2>1, <2>2, PushRunFacts
<1> HIDE DEF done, done1
<1>6. q1 = Queue \/ q1 = Search(AddNodes(Queue, n, Len(done[n]), outputs))
  BY <1>1
<1> HIDE DEF q1
<1>7. /\ Shape(q1) /\ Consistent(done1, q1, {})
      /\ TwoInputs /\ Sourced(Queue) => Sourced(q1)
      /\ q1 = Search(AddNodes(Queue, n, Len(done[n]), outputs)) /\ q1.stack = <<>> =>
           \A k \in DOMAIN q1.nodes : ~MayRun(q1, q1.nodes[k])
  <2> DEFINE q0 == Queue
             item == executionData
  <2>1. done1 = More(done, item.node, rec) /\ rec \in Runs /\ rec.data = item.data /\ rec.startTime = Count(done)
    BY <1>4 DEF done1
  <2>2. /\ workflow \in Workflows /\ instance \in Nat /\ done \in [Nodes -> Seq(Runs)]
        /\ Shape(q0) /\ item \in Items /\ Consistent(done, q0, {item})
    BY <1>1
  <2>3. q1 = q0 \/ q1 = Search(AddNodes(q0, item.node, Len(done[item.node]), outputs))
    BY <1>6
  <2> HIDE DEF q0, item
  <2>4. Shape(q1) /\ Consistent(done1, q1, {})
    BY <2>1, <2>2, <2>3, ProceedConsistent
  <2>5. TwoInputs /\ Sourced(q0) => Sourced(q1)
    BY <2>1, <2>2, <2>3, ProceedConsistent, ZenonT(40)
  <2>6. ASSUME q1 = Search(AddNodes(q0, item.node, Len(done[item.node]), outputs)), q1.stack = <<>>
        PROVE  \A k \in DOMAIN q1.nodes : ~MayRun(q1, q1.nodes[k])
    BY <2>1, <2>2, <2>3, <2>6, ProceedConsistent, ZenonT(40)
  <2> QED BY <2>4, <2>5, <2>6 DEF q0, item
<1>8. NextQueue = q1
  <2>1. q1 \in QueueRecords
    BY <1>7 DEF Shape
  <2> QED BY <1>3, <2>1 DEF QueueRecords
<1>9. Types'
  <2>1. Shape(Queue)'
    BY <1>1, <1>7, <1>8, NextShape
  <2>2. ~Undone'
    BY <1>2 DEF Undone
  <2>3. instance' \in Nat /\ instance' <= mishaps'
    <3>1. mishaps \in 0..MaxMishaps /\ MaxMishaps \in Nat /\ instance <= mishaps
      BY <1>1, EngineAssumption DEF Types
    <3> QED BY <1>1, <3>1
  <2>4. executionData' = NoItem \/ (executionData' \in Items /\ executionData'.instance <= instance')
    BY <1>1
  <2>5. \A m \in DOMAIN runData' : \A r \in DOMAIN runData'[m] : DOMAIN runData'[m][r].data # {}
    BY <1>1, <1>4, <1>5, RecordedData DEF done, done1
  <2>6. /\ workflow' \in Workflows /\ status' \in {"running", "canceled"}
        /\ lastNodeExecuted' \in Nodes \cup {NoNode}
        /\ waitTill' \in BOOLEAN /\ result' = "none"
    BY <1>1, <1>2 DEF Types
  <2> QED BY <1>2, <1>5, <2>1, <2>2, <2>3, <2>4, <2>5, <2>6 DEF Types
<1>10. Filtered'
  BY <1>1, <1>2, <1>5, FilterKept DEF Filtered
<1>11. Sources'
  <2>1. TwoInputs => Sourced(Queue)
    BY DEF IInv, Sources
  <2> QED BY <1>2, <1>7, <1>8, <2>1, NextSources
<1>12. Rested'
  <2> SUFFICES ASSUME nodeExecutionStack' = <<>>, Searched' PROVE Served'
    BY <1>1, <1>2 DEF Rested
  <2>1. n # workflow.destination
    BY DEF Searched
  <2>2. q1 = Search(AddNodes(Queue, n, Len(RunsOf(n)), outputs))
    BY <2>1 DEF q1
  <2>3. \A k \in DOMAIN q1.nodes : ~MayRun(q1, q1.nodes[k])
    <3>1. q1.stack = <<>>
      BY <1>8 DEF NextQueue
    <3> QED BY <1>1, <1>7, <2>2, <3>1
  <2>4. q1.nodes = waitingNodes' /\ q1.waiting = waitingExecution'
    BY <1>8 DEF NextQueue
  <2>5. ASSUME NEW m \in Range(waitingNodes')
        PROVE  Lacks(m)' \/ ParentNodes(m)' \cap Range(waitingNodes') # {}
    BY <1>1, <1>7, <2>3, <2>4, NoneMayRun, FilterKept DEF Lacks
  <2> QED BY <2>5 DEF Served
<1>13. (result # "canceled" => Consistent(Done, Queue, Running))'
  <2>1. NextRunning = {} /\ NextDone = done1
    BY <1>2, <1>5 DEF NextRunning, NextDone, NextUndone
  <2> QED BY <1>7, <1>8, <2>1, NextConsistent
<1> QED BY <1>9, <1>10, <1>11, <1>12, <1>13 DEF IInv

\* The node returns data, or an empty result.
LEMMA ReturnsStep ==
  ASSUME IInv, NEW outputs, NodeReturns(outputs)
  PROVE  IInv'
<1>1. mishaps \in 0..MaxMishaps /\ MaxMishaps \in Nat /\ executionError \in BOOLEAN
  BY EngineAssumption DEF IInv, Types
<1>2. /\ pc = "node" /\ Proceed("success", outputs)
      /\ workflow' = workflow /\ status' = status /\ executionData' = executionData /\ waitTill' = waitTill
      /\ result' = result /\ instance' = instance
      /\ executionError' \in BOOLEAN /\ mishaps' \in 0..MaxMishaps /\ mishaps <= mishaps'
  BY <1>1 DEF NodeReturns
<1> QED BY <1>2, ProceedStep

\* The node fails and is set to continue.
LEMMA ContinuesStep ==
  ASSUME IInv, NodeContinuesOnFail
  PROVE  IInv'
<1>1. mishaps \in 0..MaxMishaps /\ MaxMishaps \in Nat
  BY EngineAssumption DEF IInv, Types
<1>2. /\ pc = "node" /\ Proceed("error", FirstInput)
      /\ workflow' = workflow /\ status' = status /\ executionData' = executionData /\ waitTill' = waitTill
      /\ result' = result /\ instance' = instance
      /\ executionError' \in BOOLEAN /\ mishaps' \in 0..MaxMishaps /\ mishaps <= mishaps'
  BY <1>1 DEF NodeContinuesOnFail, Mishap
<1> QED BY <1>2, ProceedStep

\* The node fails or waits, and its item goes back on the stack.
LEMMA PutBackStep ==
  ASSUME IInv, pc = "node", NEW status_ \in {"error", "waiting"}, PutBack(status_, status_), Mishap,
         executionError' \in BOOLEAN, waitTill' \in BOOLEAN
  PROVE  IInv'
<1> DEFINE n == executionData.node
           done == DoneOf(runData)
           rec == Run(status_)
<1>1. /\ Types /\ Shape(Queue) /\ instance \in Nat /\ workflow \in Workflows
      /\ result = "none" /\ runData \in RunObjects
      /\ executionData \in Items /\ executionData.instance <= instance /\ DOMAIN executionData.data # {}
      /\ n \in Nodes /\ n \in RunNodeFilter /\ DOMAIN runData \subseteq RunNodeFilter
      /\ done \in [Nodes -> Seq(Runs)] /\ RunsOf(n) = done[n]
      /\ Count(done) = StartTime
      /\ Consistent(done, Queue, {executionData})
  BY NodeFacts
<1>2. /\ pc' = "ended" /\ lastNodeExecuted' = n
      /\ result' = IF status = "canceled" THEN "canceled" ELSE status_
      /\ workflow' = workflow /\ status' = status /\ executionData' = executionData
      /\ instance' = instance
      /\ runData' = Recorded(runData, n, rec)
  BY DEF PutBack, PushRun, RunsOf, Recorded
<1>3. NextQueue = [stack |-> <<executionData>> \o Queue.stack, waiting |-> Queue.waiting, nodes |-> Queue.nodes]
  BY DEF PutBack, NextQueue, Queue
<1>4. mishaps < mishaps' /\ mishaps' \in 0..MaxMishaps /\ instance < mishaps' /\ instance <= mishaps
  BY <1>1, EngineAssumption DEF Types, Mishap
<1>5. /\ rec \in Runs /\ rec.data = executionData.data
  <2>1. StartTime \in Nat
    BY <1>1, DoneFacts
  <2> QED BY <1>1, <2>1 DEF Run, Runs, Items
<1> HIDE DEF rec
<1>6. /\ runData' \in RunObjects /\ DOMAIN runData' = DOMAIN runData \cup {n}
      /\ runData'[n] # <<>> /\ DoneOf(Popped(runData', n)) = done
      /\ DoneOf(runData') = More(done, n, rec)
  <2> HIDE DEF n
  <2> QED BY <1>1, <1>2, <1>5, PushRunFacts
<1> HIDE DEF done
<1>7. /\ Shape(NextQueue) /\ NextQueue.stack = <<executionData>> \o Queue.stack
      /\ NextQueue.waiting = Queue.waiting /\ NextQueue.stack = nodeExecutionStack'
  <2>1. /\ Shape(Enqueued(Queue, executionData))
        /\ Enqueued(Queue, executionData).stack = <<executionData>> \o Queue.stack
        /\ Enqueued(Queue, executionData).waiting = Queue.waiting
        /\ Enqueued(Queue, executionData).nodes = Queue.nodes
    BY <1>1, EnqueuedShape
  <2>2. NextQueue = Enqueued(Queue, executionData)
    <3>1. Enqueued(Queue, executionData) \in QueueRecords
      BY <2>1 DEF Shape
    <3> QED BY <1>3, <2>1, <3>1 DEF QueueRecords
  <2> QED BY <2>1, <2>2 DEF NextQueue
<1>8. nodeExecutionStack' # <<>>
  <2>1. Queue.stack \in Seq(Items)
    BY <1>1 DEF Shape, QueueRecords
  <2>2. 1 \in DOMAIN (<<executionData>> \o Queue.stack)
    BY <1>1, <2>1, PushFacts
  <2> QED BY <1>7, <2>2
<1>9. Types'
  <2>1. Shape(Queue)'
    BY <1>1, <1>2, <1>7, NextShape
  <2>2. /\ workflow' \in Workflows /\ instance' \in Nat /\ instance' < mishaps' /\ instance' <= mishaps'
        /\ status' \in {"running", "canceled"}
        /\ lastNodeExecuted' \in Nodes \cup {NoNode}
        /\ result' \in {"error", "canceled", "waiting"}
    BY <1>1, <1>2, <1>4 DEF Types
  <2>3. \A m \in DOMAIN runData' : \A r \in DOMAIN runData'[m] : DOMAIN runData'[m][r].data # {}
    BY <1>1, <1>5, <1>6, RecordedData DEF done
  <2> QED BY <1>1, <1>2, <1>4, <1>6, <1>8, <2>1, <2>2, <2>3 DEF Types
<1>10. Filtered'
  BY <1>1, <1>2, <1>6, FilterKept DEF Filtered
<1>11. Sources'
  <2>1. TwoInputs => Sourced(Queue) /\ SourceOK(executionData)
    BY DEF IInv, Sources
  <2>2. TwoInputs => Sourced(NextQueue)
    <3> HAVE TwoInputs
    <3>1. Queue.stack \in Seq(Items)
      BY <1>1 DEF Shape, QueueRecords
    <3> DEFINE s == <<executionData>> \o Queue.stack
    <3>2. \A k \in DOMAIN s : s[k] = executionData \/ (k - 1 \in DOMAIN Queue.stack /\ s[k] = Queue.stack[k - 1])
      BY <1>1, <3>1, PushFacts
    <3> HIDE DEF s
    <3>3. \A k \in DOMAIN s : SourceOK(s[k])
      BY <2>1, <3>2 DEF Sourced
    <3>4. NextQueue.stack = s
      BY <1>7 DEF s
    <3> QED BY <1>7, <2>1, <3>3, <3>4 DEF Sourced
  <2> QED BY <1>2, <2>2, NextSources
<1>12. Rested'
  BY <1>2 DEF Rested
<1>13. (result # "canceled" => Consistent(Done, Queue, Running))'
  <2>1. Consistent(done, NextQueue, {})
    <3>1. Queue \in QueueRecords
      BY <1>1 DEF Shape
    <3> QED BY <1>1, <1>7, <3>1, PutBackConsistent
  <2>2. NextRunning = {}
    BY <1>2 DEF NextRunning
  <2>3. result' # "canceled" => NextDone = done
    BY <1>2, <1>6, <1>8 DEF NextDone, NextUndone
  <2> QED BY <2>1, <2>2, <2>3, NextConsistent
<1> QED BY <1>9, <1>10, <1>11, <1>12, <1>13 DEF IInv

\* The node fails.
LEMMA FailsStep ==
  ASSUME IInv, NodeFails
  PROVE  IInv'
<1>1. waitTill \in BOOLEAN
  BY DEF IInv, Types
<1>2. pc = "node" /\ PutBack("error", "error") /\ Mishap /\ executionError' \in BOOLEAN /\ waitTill' \in BOOLEAN
  BY <1>1 DEF NodeFails
<1> QED BY <1>2, PutBackStep

\* The node waits.
LEMMA WaitsStep ==
  ASSUME IInv, NodeWaits
  PROVE  IInv'
<1>1. executionError \in BOOLEAN
  BY DEF IInv, Types
<1>2. pc = "node" /\ PutBack("waiting", "waiting") /\ Mishap /\ executionError' \in BOOLEAN /\ waitTill' \in BOOLEAN
  BY <1>1 DEF NodeWaits
<1> QED BY <1>2, PutBackStep

-----------------------------------------------------------------------------
(* The end of a loop, a stop, and the next engine.                         *)

\* What the search has left is not touched.
LEMMA RestKept ==
  ASSUME workflow' = workflow, waitingExecution' = waitingExecution, waitingNodes' = waitingNodes,
         executionData' = executionData, runData' = runData, Searched => Served
  PROVE  Searched' => Served'
<1>1. Searched' = Searched
  BY DEF Searched, RunsOf
<1>2. \A n : Lacks(n)' = Lacks(n)
  BY DEF Lacks
<1>3. Served' = Served
  BY <1>2, FilterKept DEF Served
<1> QED BY <1>1, <1>3

\* A stop or a timeout, and a step of something else.
LEMMA FrameStep ==
  ASSUME IInv, workflow' = workflow, pc' = pc, nodeExecutionStack' = nodeExecutionStack,
         waitingExecution' = waitingExecution, waitingNodes' = waitingNodes,
         executionData' = executionData, executionError' = executionError, runData' = runData,
         lastNodeExecuted' = lastNodeExecuted, waitTill' = waitTill, result' = result,
         instance' = instance, status' \in {"running", "canceled"},
         mishaps' \in 0..MaxMishaps, mishaps <= mishaps'
  PROVE  IInv'
<1>1. /\ Types /\ Shape(Queue) /\ workflow \in Workflows /\ instance \in Nat
      /\ mishaps \in 0..MaxMishaps /\ MaxMishaps \in Nat
  BY EngineAssumption DEF IInv, Types
<1>2. /\ NextQueue = Queue /\ NextRunning = Running /\ NextDone = Done /\ Undone' = Undone
  BY DEF NextQueue, Queue, NextRunning, Running, NextDone, NextUndone, Done, Undone
<1>3. Types'
  <2>1. Shape(Queue)'
    BY <1>1, <1>2, NextShape
  <2>2. /\ workflow' \in Workflows /\ instance' \in Nat /\ instance' <= mishaps'
        /\ instance < mishaps => instance' < mishaps'
    BY <1>1 DEF Types
  <2>3. executionData' = NoItem \/ (executionData' \in Items /\ executionData'.instance <= instance')
    BY <1>1 DEF Types
  <2>4. /\ runData' \in RunObjects
        /\ \A m \in DOMAIN runData' : \A r \in DOMAIN runData'[m] : DOMAIN runData'[m][r].data # {}
        /\ lastNodeExecuted' \in Nodes \cup {NoNode}
        /\ executionError' \in BOOLEAN /\ waitTill' \in BOOLEAN
    BY <1>1 DEF Types
  <2>5. /\ pc' \in {"loop", "node", "ended"}
        /\ pc' = "node" => executionData' # NoItem /\ DOMAIN executionData'.data # {}
        /\ result' \in {"none", "success", "error", "canceled", "waiting"}
        /\ pc' = "ended" <=> result' # "none"
        /\ result' = "waiting" => nodeExecutionStack' # <<>>
        /\ Undone' => /\ instance < mishaps
                      /\ lastNodeExecuted' \in DOMAIN runData' /\ runData'[lastNodeExecuted'] # <<>>
    BY <1>1, <1>2 DEF Types
  <2> QED BY <2>1, <2>2, <2>3, <2>4, <2>5 DEF Types
<1>4. Filtered'
  BY FilterKept DEF IInv, Filtered
<1>5. Sources'
  BY <1>2, NextSources DEF IInv, Sources
<1>6. Rested'
  BY RestKept DEF IInv, Rested
<1>7. (result # "canceled" => Consistent(Done, Queue, Running))'
  BY <1>2, NextConsistent DEF IInv
<1> QED BY <1>3, <1>4, <1>5, <1>6, <1>7 DEF IInv

\* The execution is stopped or times out.
LEMMA CancelStep ==
  ASSUME IInv, Cancel
  PROVE  IInv'
<1>1. mishaps \in 0..MaxMishaps /\ MaxMishaps \in Nat
  BY EngineAssumption DEF IInv, Types
<1>2. mishaps' \in 0..MaxMishaps /\ mishaps <= mishaps'
  BY <1>1 DEF Cancel, Mishap
<1> QED BY <1>2, FrameStep DEF Cancel, queueVars

\* The loop over the stack ends.
LEMMA LoopEndsStep ==
  ASSUME IInv, LoopEnds
  PROVE  IInv'
<1>1. /\ Types /\ Shape(Queue) /\ workflow \in Workflows /\ instance \in Nat /\ result = "none" /\ ~Undone
      /\ Consistent(DoneOf(runData), Queue, {})
  BY DEF IInv, Types, LoopEnds, Undone, Done, Running
<1>2. /\ pc = "loop" /\ pc' = "ended" /\ nodeExecutionStack' = nodeExecutionStack /\ workflow' = workflow
      /\ status' = status /\ waitingExecution' = waitingExecution /\ waitingNodes' = waitingNodes
      /\ executionData' = executionData /\ executionError' = executionError /\ runData' = runData
      /\ lastNodeExecuted' = lastNodeExecuted /\ waitTill' = waitTill /\ instance' = instance
      /\ mishaps' = mishaps
      /\ result' \in {"success", "error", "canceled"}
      /\ result' # "canceled" => nodeExecutionStack = <<>>
  BY DEF LoopEnds, queueVars
<1>3. NextQueue = Queue /\ NextRunning = {}
  BY <1>2 DEF NextQueue, Queue, NextRunning
<1>4. ~Undone' /\ NextDone = DoneOf(runData)
  BY <1>2 DEF Undone, NextDone, NextUndone
<1>5. Types'
  <2>1. Shape(Queue)'
    BY <1>1, <1>2, <1>3, NextShape
  <2>2. /\ workflow' \in Workflows /\ instance' \in Nat /\ instance' <= mishaps' /\ mishaps' \in 0..MaxMishaps
        /\ status' \in {"running", "canceled"}
        /\ executionData' = NoItem \/ (executionData' \in Items /\ executionData'.instance <= instance')
        /\ runData' \in RunObjects
        /\ \A m \in DOMAIN runData' : \A r \in DOMAIN runData'[m] : DOMAIN runData'[m][r].data # {}
        /\ lastNodeExecuted' \in Nodes \cup {NoNode}
        /\ executionError' \in BOOLEAN /\ waitTill' \in BOOLEAN
    BY <1>1, <1>2 DEF Types
  <2> QED BY <1>2, <1>4, <2>1, <2>2 DEF Types
<1>6. Filtered'
  BY <1>2, FilterKept DEF IInv, Filtered
<1>7. Sources'
  <2>1. TwoInputs => Sourced(Queue)
    BY DEF IInv, Sources
  <2> QED BY <1>2, <1>3, <2>1, NextSources
<1>8. Rested'
  BY <1>2, RestKept DEF IInv, Rested
<1>9. (result # "canceled" => Consistent(Done, Queue, Running))'
  BY <1>1, <1>3, <1>4, NextConsistent
<1> QED BY <1>5, <1>6, <1>7, <1>8, <1>9 DEF IInv

\* Front() keeps the others.
LEMMA FrontFacts ==
  ASSUME NEW S, NEW s \in Seq(S), s # <<>>
  PROVE  Front(s) \in Seq(S) /\ \A i \in DOMAIN Front(s) : i \in DOMAIN s /\ Front(s)[i] = s[i]
<1> DEFINE l == Len(s) - 1
           r == SubSeq(s, 1, l)
<1>1. l \in Nat /\ Len(s) = l + 1 /\ DOMAIN s = 1..(l + 1) /\ \A i \in 1..l : s[i] \in S
  <2>1. Len(s) \in Nat /\ Len(s) # 0 /\ DOMAIN s = 1..Len(s)
    BY EmptySeq, LenProperties
  <2> QED BY <2>1, ElementOfSeq
<1>2. Front(s) = r
  BY DEF Front
<1> HIDE DEF l
<1>3. r \in Seq(S) /\ Len(r) = l /\ \A i \in 1..l : r[i] = s[i]
  <2>1. /\ r \in Seq(S)
        /\ Len(r) = IF 1 <= l THEN l - 1 + 1 ELSE 0
        /\ \A i \in 1..(l - 1 + 1) : r[i] = s[1 + i - 1]
    BY <1>1, SubSeqProperties
  <2> QED BY <1>1, <2>1
<1> HIDE DEF r
<1>4. DOMAIN r = 1..l
  BY <1>3, LenProperties
<1> QED BY <1>1, <1>2, <1>3, <1>4

\* The last run of a node is taken back.
LEMMA PoppedData ==
  ASSUME NEW runs \in RunObjects, NEW n \in DOMAIN runs, runs[n] # <<>>,
         \A m \in DOMAIN runs : \A r \in DOMAIN runs[m] : DOMAIN runs[m][r].data # {}
  PROVE  /\ Popped(runs, n) \in RunObjects /\ DOMAIN Popped(runs, n) = DOMAIN runs
         /\ \A m \in DOMAIN runs : \A r \in DOMAIN Popped(runs, n)[m] :
              DOMAIN Popped(runs, n)[m][r].data # {}
<1> DEFINE S == Seq(Runs)
           s == runs[n]
           t == Front(s)
<1>1. DOMAIN runs \subseteq Nodes /\ runs \in [DOMAIN runs -> S]
  <2> HIDE DEF S
  <2>1. runs \in Objects(Nodes, S)
    BY DEF S, RunObjects
  <2> QED BY <2>1, ObjectFacts
<1>2. s \in Seq(Runs) /\ s # <<>>
  BY <1>1
<1> HIDE DEF s
<1>3. t \in S /\ \A i \in DOMAIN t : i \in DOMAIN s /\ t[i] = s[i]
  BY <1>2, FrontFacts
<1> HIDE DEF S, t
<1>4. Popped(runs, n) = [runs EXCEPT ![n] = t]
  BY DEF Popped, s, t
<1>5. Popped(runs, n) \in [DOMAIN runs -> S]
  BY <1>1, <1>3, <1>4
<1>6. Popped(runs, n) \in RunObjects
  BY <1>1, <1>5, IsObject DEF RunObjects, S
<1>7. \A r \in DOMAIN t : DOMAIN t[r].data # {}
  BY <1>3 DEF s
<1> QED BY <1>4, <1>5, <1>6, <1>7

\* What a resume and a retry have in common: the run of the node that failed or waits is taken
\* back, and the items of the stack keep their nodes and their data.
LEMMA RestartedStep ==
  ASSUME IInv, Restarted, result \in {"error", "waiting"}, nodeExecutionStack # <<>>,
         PopRun(lastNodeExecuted), waitTill' \in BOOLEAN, nodeExecutionStack' \in Seq(Items),
         DOMAIN nodeExecutionStack' = DOMAIN nodeExecutionStack,
         \A k \in DOMAIN nodeExecutionStack :
           LET item == nodeExecutionStack[k]
               item1 == nodeExecutionStack'[k]
           IN item1.node = item.node /\ item1.data = item.data /\ item1.source = item.source
                /\ item1.instance = item.instance
  PROVE  IInv'
<1>1. /\ Types /\ Shape(Queue) /\ workflow \in Workflows /\ instance \in Nat
      /\ mishaps \in 0..MaxMishaps /\ MaxMishaps \in Nat
      /\ pc = "ended" /\ Undone /\ runData \in RunObjects
  BY EngineAssumption DEF IInv, Types, Restarted, Undone
<1>2. /\ instance < mishaps /\ lastNodeExecuted \in DOMAIN runData /\ runData[lastNodeExecuted] # <<>>
  BY <1>1 DEF Types
<1>3. /\ pc' = "loop" /\ status' = "running" /\ result' = "none" /\ executionData' = NoItem
      /\ executionError' = FALSE /\ instance' = instance + 1 /\ workflow' = workflow
      /\ waitingExecution' = waitingExecution /\ waitingNodes' = waitingNodes
      /\ lastNodeExecuted' = lastNodeExecuted /\ mishaps' = mishaps
      /\ runData' = Popped(runData, lastNodeExecuted)
  BY DEF Restarted, PopRun, Popped
<1>4. /\ NextQueue.waiting = Queue.waiting /\ NextQueue.nodes = Queue.nodes
      /\ NextQueue.stack = nodeExecutionStack' /\ Queue.stack = nodeExecutionStack
  BY <1>3 DEF NextQueue, Queue
<1>5. Shape(NextQueue)
  <2>1. Queue \in QueueRecords
    BY <1>1 DEF Shape
  <2>2. NextQueue \in QueueRecords
    BY <1>3, <2>1 DEF QueueRecords, NextQueue, Queue
  <2>3. \A k \in DOMAIN NextQueue.stack :
          DOMAIN NextQueue.stack[k].data # {} /\ NextQueue.stack[k].instance <= instance
    BY <1>1, <1>4 DEF Shape
  <2> QED BY <1>1, <1>4, <2>2, <2>3 DEF Shape
<1>6. ~Undone' /\ ~NextUndone
  BY <1>3 DEF Undone, NextUndone
<1>7. /\ runData' \in RunObjects /\ DOMAIN runData' = DOMAIN runData
      /\ \A m \in DOMAIN runData' : \A r \in DOMAIN runData'[m] : DOMAIN runData'[m][r].data # {}
  <2> DEFINE runs1 == Popped(runData, lastNodeExecuted)
  <2>1. \A m \in DOMAIN runData : \A r \in DOMAIN runData[m] : DOMAIN runData[m][r].data # {}
    BY <1>1 DEF Types
  <2>2. /\ runs1 \in RunObjects /\ DOMAIN runs1 = DOMAIN runData
        /\ \A m \in DOMAIN runData : \A r \in DOMAIN runs1[m] : DOMAIN runs1[m][r].data # {}
    BY <1>1, <1>2, <2>1, PoppedData
  <2>3. runData' = runs1
    BY <1>3
  <2> HIDE DEF runs1
  <2> QED BY <2>2, <2>3
<1>8. Types'
  <2>1. Shape(Queue)'
    BY <1>1, <1>3, <1>5, NextShape
  <2>2. instance' \in Nat /\ instance' <= mishaps' /\ mishaps' \in 0..MaxMishaps
    BY <1>1, <1>2, <1>3
  <2>3. lastNodeExecuted' \in Nodes \cup {NoNode} /\ workflow' \in Workflows
    BY <1>1, <1>3 DEF Types
  <2> QED BY <1>3, <1>6, <1>7, <2>1, <2>2, <2>3 DEF Types
<1>9. Filtered'
  BY <1>3, <1>7, FilterKept DEF IInv, Filtered
<1>10. Sources'
  <2>1. TwoInputs => Sourced(NextQueue)
    <3> HAVE TwoInputs
    <3>1. Sourced(Queue)
      BY DEF IInv, Sources
    <3> QED BY <1>4, <3>1 DEF Sourced, SourceOK
  <2> QED BY <1>3, <2>1, NextSources
<1>11. Rested'
  <2>1. NoNode \notin DOMAIN runData'
    <3>1. DOMAIN runData' \subseteq Nodes
      BY <1>7, ObjectFacts DEF RunObjects
    <3> QED BY <3>1, EngineAssumption
  <2>2. ~Searched'
    BY <1>3, <2>1 DEF Searched, RunsOf, NoItem
  <2> QED BY <2>2 DEF Rested
<1>12. (result # "canceled" => Consistent(Done, Queue, Running))'
  <2>1. Consistent(Done, Queue, {})
    BY <1>1 DEF IInv, Running
  <2>2. Consistent(Done, NextQueue, {})
    BY <1>4, <2>1, SameItems
  <2>3. NextRunning = {} /\ NextDone = Done
    BY <1>1, <1>3, <1>6 DEF NextRunning, NextDone, Done
  <2> QED BY <2>2, <2>3, NextConsistent
<1> QED BY <1>8, <1>9, <1>10, <1>11, <1>12 DEF IInv

\* The wait is over; the nodes of the stack that are the same object are disabled.
LEMMA ResumeStep ==
  ASSUME IInv, Resume
  PROVE  IInv'
<1> DEFINE s == nodeExecutionStack
           s1 == nodeExecutionStack'
<1>1. /\ Types /\ Queue \in QueueRecords /\ s = Queue.stack
  BY DEF IInv, Types, Shape, Queue
<1>2. s \in Seq(Items) /\ s # <<>>
  BY <1>1 DEF Types, QueueRecords, Resume
<1>3. /\ DOMAIN s1 = DOMAIN s
      /\ \A k \in DOMAIN s : s1[k] = s[k] \/ s1[k] = [s[k] EXCEPT !.disabled = TRUE]
  BY DEF Resume
<1>4. \A k \in DOMAIN s : s[k] \in Items
  BY <1>2, LenProperties, ElementOfSeq
<1>5. \A k \in DOMAIN s :
        /\ s1[k] \in Items
        /\ s1[k].node = s[k].node /\ s1[k].data = s[k].data /\ s1[k].source = s[k].source
        /\ s1[k].instance = s[k].instance
  <2> SUFFICES ASSUME NEW k \in DOMAIN s
               PROVE  /\ s1[k] \in Items
                      /\ s1[k].node = s[k].node /\ s1[k].data = s[k].data
                      /\ s1[k].source = s[k].source /\ s1[k].instance = s[k].instance
    OBVIOUS
  <2> DEFINE old == s[k]
             new == s1[k]
  <2>1. old \in Items /\ (new = old \/ new = [old EXCEPT !.disabled = TRUE])
    BY <1>3, <1>4
  <2> HIDE DEF old, new
  <2>2. /\ new \in Items
        /\ new.node = old.node /\ new.data = old.data
        /\ new.source = old.source /\ new.instance = old.instance
    BY <2>1 DEF Items
  <2> QED BY <2>2 DEF old, new
<1>6. s1 \in Seq(Items)
  <2>1. Len(s) \in Nat /\ DOMAIN s = 1..Len(s)
    BY <1>2, LenProperties
  <2>2. s1 = [k \in 1..Len(s) |-> s1[k]]
    BY <2>1 DEF Resume
  <2> QED BY <1>5, <2>1, <2>2, IsASeq
<1>7. Restarted /\ result \in {"error", "waiting"} /\ PopRun(lastNodeExecuted) /\ waitTill' \in BOOLEAN
  BY DEF Resume
<1> QED BY <1>2, <1>3, <1>5, <1>6, <1>7, RestartedStep

\* A failed execution is retried.
LEMMA RetryStep ==
  ASSUME IInv, Retry
  PROVE  IInv'
<1>1. Types /\ Queue \in QueueRecords /\ nodeExecutionStack = Queue.stack
  BY DEF IInv, Types, Shape, Queue
<1>2. nodeExecutionStack' = nodeExecutionStack /\ nodeExecutionStack \in Seq(Items) /\ waitTill' \in BOOLEAN
  BY <1>1 DEF Types, QueueRecords, Retry
<1>3. Restarted /\ result \in {"error", "waiting"} /\ PopRun(lastNodeExecuted) /\ nodeExecutionStack # <<>>
  BY DEF Retry
<1> QED BY <1>2, <1>3, RestartedStep

-----------------------------------------------------------------------------
(* The beginning, and every step.                                          *)

\* The invariant holds when the engine starts.
LEMMA InitInvariant ==
  ASSUME Init
  PROVE  IInv
<1> DEFINE item == nodeExecutionStack[1]
           none == <<>>
           start == [node |-> NoNode, run |-> 0, output |-> 1]
<1>1. /\ workflow \in Workflows /\ instance = 0 /\ pc = "loop" /\ status = "running"
      /\ executionData = NoItem /\ runData = none /\ lastNodeExecuted = NoNode
      /\ executionError = FALSE /\ waitTill = FALSE /\ result = "none" /\ mishaps = 0
      /\ waitingExecution = [n \in Nodes |-> none] /\ waitingNodes = none
      /\ nodeExecutionStack = <<Item(workflow.start, StartData, none)>>
  BY DEF Init
<1>2. DOMAIN none = {} /\ MaxMishaps \in Nat /\ NoNode \notin Nodes
  BY EngineAssumption
<1>3. start \in Datum /\ 1 \in Numbers
  BY DEF Datum, Numbers
<1>4. StartData \in Data /\ DOMAIN StartData = {1} /\ StartData[1] = start
  <2> HIDE DEF start
  <2>1. /\ Only(1, start) \in Objects(Numbers, Datum)
        /\ DOMAIN Only(1, start) = {1} /\ Only(1, start)[1] = start
    BY <1>3, OnlyFacts
  <2>2. StartData = Only(1, start)
    BY DEF StartData, start
  <2> QED BY <2>1, <2>2 DEF Data
<1>5. \A Keys, Values : none \in Objects(Keys, Values)
  <2> TAKE Keys, Values
  <2>1. {} \in SUBSET Keys /\ none \in [{} -> Values]
    OBVIOUS
  <2> QED BY <2>1 DEF Objects
<1>6. /\ item = [node |-> workflow.start, data |-> StartData, source |-> none, disabled |-> FALSE, instance |-> 0]
      /\ nodeExecutionStack = <<item>> /\ DOMAIN nodeExecutionStack = {1}
  BY <1>1 DEF Item
<1>7. item \in Items
  <2>1. none \in Data
    BY <1>5 DEF Data
  <2>2. workflow.start \in Nodes
    BY <1>1, WorkflowFacts
  <2> HIDE DEF item, none
  <2> QED BY <1>4, <1>6, <2>1, <2>2 DEF Items
<1> HIDE DEF item
<1>8. /\ Queue.stack = <<item>> /\ Queue.waiting = [n \in Nodes |-> none] /\ Queue.nodes = none
      /\ DOMAIN Queue.stack = {1} /\ Queue.stack[1] = item
  <2>1. Queue.stack = nodeExecutionStack /\ Queue.waiting = waitingExecution /\ Queue.nodes = waitingNodes
    BY DEF Queue
  <2>2. <<item>>[1] = item
    OBVIOUS
  <2> HIDE DEF none
  <2>3. Queue.waiting = [n \in Nodes |-> none] /\ Queue.nodes = none
    BY <1>1, <2>1
  <2>4. Queue.stack = <<item>> /\ DOMAIN Queue.stack = {1}
    BY <1>6, <2>1
  <2> QED BY <2>2, <2>3, <2>4
<1>9. Shape(Queue)
  <2>1. Queue \in QueueRecords
    <3>1. none \in Entries
      BY <1>5 DEF Entries
    <3>2. [n \in Nodes |-> none] \in [Nodes -> Entries]
      BY <3>1
    <3>3. nodeExecutionStack \in Seq(Items)
      BY <1>6, <1>7
    <3>4. waitingNodes \in Seq(Nodes)
      BY <1>1
    <3> HIDE DEF none
    <3> QED BY <1>1, <3>2, <3>3, <3>4 DEF QueueRecords, Queue
  <2>2. \A k \in DOMAIN Queue.stack : DOMAIN Queue.stack[k].data # {} /\ Queue.stack[k].instance <= instance
    BY <1>1, <1>4, <1>6, <1>8
  <2>3. \A n \in Nodes : DOMAIN Queue.waiting[n] = {}
    BY <1>8
  <2>4. IsFiniteSet({})
    BY FS_EmptySet
  <2>5. Range(Queue.nodes) = {} /\ IsInjective(Queue.nodes)
    BY <1>2, <1>8 DEF Range, IsInjective
  <2> QED BY <2>1, <2>2, <2>3, <2>4, <2>5 DEF Shape
<1>10. Types
  <2>1. runData \in RunObjects
    BY <1>1, <1>5 DEF RunObjects
  <2>2. pc = "loop" /\ result = "none" /\ ~Undone /\ workflow \in Workflows /\ executionData = NoItem
    BY <1>1 DEF Undone
  <2>3. instance \in Nat /\ mishaps \in 0..MaxMishaps /\ instance <= mishaps
    BY <1>1, <1>2
  <2>4. \A n \in DOMAIN runData : \A r \in DOMAIN runData[n] : DOMAIN runData[n][r].data # {}
    BY <1>1, <1>2
  <2>5. /\ status = "running" /\ lastNodeExecuted \in Nodes \cup {NoNode}
        /\ executionError \in BOOLEAN /\ waitTill \in BOOLEAN
    BY <1>1
  <2> QED BY <1>9, <2>1, <2>2, <2>3, <2>4, <2>5 DEF Types
<1>11. Filtered
  BY <1>1, <1>2 DEF Filtered
<1>12. Sources
  <2>1. SourceOK(item)
    BY <1>6 DEF SourceOK
  <2>2. \A n \in Nodes : DOMAIN Queue.waiting[n] = {}
    BY <1>8
  <2> QED BY <1>1, <1>8, <2>1, <2>2 DEF Sources, Sourced
<1>13. Rested
  BY <1>1, <1>2 DEF Rested, Searched, RunsOf, NoItem
<1>14. Consistent(Done, Queue, Running)
  <2>1. Running = {} /\ Done = DoneOf(none)
    BY <1>1 DEF Running, Done, Undone
  <2>2. \A n \in Nodes : DOMAIN Done[n] = {}
    BY <2>1 DEF DoneOf
  <2>3. \A n \in Nodes : DOMAIN Queue.waiting[n] = {}
    BY <1>8
  <2>4. start \in Known(Done)
    BY <1>3 DEF Known
  <2> HIDE DEF start
  <2>5. Range(item.data) \subseteq Known(Done)
    BY <1>4, <1>6, <2>4 DEF Range
  <2>6. AllIn(Queue, Known(Done))
    BY <1>8, <2>3, <2>5 DEF AllIn
  <2>7. Alone(Queue)
    BY <1>8, <2>3 DEF Alone
  <2>8. Ordered(Queue.stack, Earlier(Done))
    BY <1>8 DEF Ordered
  <2> QED BY <2>1, <2>2, <2>6, <2>7, <2>8 DEF Consistent
<1> QED BY <1>10, <1>11, <1>12, <1>13, <1>14 DEF IInv

\* Every step preserves it.
LEMMA NextInvariant ==
  ASSUME IInv, [Next]_vars
  PROVE  IInv'
<1>1. CASE Take
  BY <1>1, TakeStep
<1>2. CASE Skip
  BY <1>2, SkipStep
<1>3. CASE NodeReturnsNull
  BY <1>3, NullStep
<1>4. CASE NodeContinuesOnFail
  BY <1>4, ContinuesStep
<1>5. CASE NodeFails
  BY <1>5, FailsStep
<1>6. CASE NodeWaits
  BY <1>6, WaitsStep
<1>7. ASSUME NEW outputs \in SUBSET UNION { Outputs(n) : n \in Nodes }, NodeReturns(outputs) PROVE IInv'
  BY <1>7, ReturnsStep
<1>8. CASE Cancel
  BY <1>8, CancelStep
<1>9. CASE LoopEnds
  BY <1>9, LoopEndsStep
<1>10. CASE Resume
  BY <1>10, ResumeStep
<1>11. CASE Retry
  BY <1>11, RetryStep
<1>12. CASE UNCHANGED vars
  <2>1. mishaps \in 0..MaxMishaps /\ MaxMishaps \in Nat /\ status \in {"running", "canceled"}
    BY EngineAssumption DEF IInv, Types
  <2>2. mishaps' \in 0..MaxMishaps /\ mishaps <= mishaps' /\ status' \in {"running", "canceled"}
    <3>1. mishaps' = mishaps /\ status' = status
      BY <1>12 DEF vars, engineVars
    <3> QED BY <2>1, <3>1
  <2> QED BY <1>12, <2>2, FrameStep DEF vars, queueVars, engineVars
<1> QED BY <1>1, <1>2, <1>3, <1>4, <1>5, <1>6, <1>7, <1>8, <1>9, <1>10, <1>11, <1>12 DEF Next

-----------------------------------------------------------------------------
(* What the invariant says.                                                *)

\* The types of the invariant are those of the specification.
LEMMA TypesType ==
  ASSUME Types
  PROVE  TypeOK
<1>1. \A x \in Data : IsData(x)
  BY ObjectFacts DEF Data, Numbers, IsData
<1>2. \A item \in Items : item.instance <= instance => IsItem(item)
  <2> TAKE item \in Items
  <2> HAVE item.instance <= instance
  <2>1. /\ item.node \in Nodes /\ item.disabled \in BOOLEAN /\ item.instance \in Nat
        /\ item.data \in Data /\ item.source \in Data
    BY DEF Items
  <2>2. instance \in Nat
    BY DEF Types
  <2> QED BY <1>1, <2>1, <2>2 DEF IsItem
<1>3. Shape(Queue) /\ Queue \in QueueRecords
  BY DEF Types, Shape
<1>4. \A k \in DOMAIN nodeExecutionStack : IsItem(nodeExecutionStack[k])
  <2> TAKE k \in DOMAIN nodeExecutionStack
  <2>1. nodeExecutionStack \in Seq(Items) /\ nodeExecutionStack[k].instance <= instance
    BY <1>3 DEF QueueRecords, Queue, Shape
  <2>2. nodeExecutionStack[k] \in Items
    BY <2>1, LenProperties, ElementOfSeq
  <2> QED BY <1>2, <2>1, <2>2
<1>5. executionData = NoItem \/ IsItem(executionData)
  BY <1>2 DEF Types
<1>6. waitingExecution \in [Nodes -> Entries]
  BY <1>3 DEF QueueRecords, Queue
<1>7. ASSUME NEW n \in Nodes, NEW k \in DOMAIN waitingExecution[n]
      PROVE  /\ k \in Nat
             /\ IsData(waitingExecution[n][k].data) /\ IsData(waitingExecution[n][k].source)
             /\ DOMAIN waitingExecution[n][k].data \in (SUBSET (1..Inputs(n))) \ {{}, 1..Inputs(n)}
  <2>1. waitingExecution[n] \in Objects(Indices, EntryRecords)
    BY <1>6 DEF Entries
  <2>2. k \in Indices /\ waitingExecution[n][k] \in EntryRecords
    BY <2>1, ObjectFacts
  <2>3. k \in Nat /\ waitingExecution[n][k].data \in Data /\ waitingExecution[n][k].source \in Data
    BY <2>2 DEF Indices, EntryRecords
  <2>4. DOMAIN waitingExecution[n][k].data \in (SUBSET (1..Inputs(n))) \ {{}, 1..Inputs(n)}
    BY <1>3 DEF Shape, Queue
  <2> QED BY <1>1, <2>3, <2>4
<1>8. /\ Range(waitingNodes) = { n \in Nodes : DOMAIN waitingExecution[n] # {} }
      /\ IsInjective(waitingNodes)
  BY <1>3 DEF Shape, Queue
<1>9. /\ DOMAIN runData \subseteq Nodes
      /\ \A n \in DOMAIN runData : \A r \in DOMAIN runData[n] :
           runData[n][r].status \in {"success", "error", "waiting"}
  <2>1. DOMAIN runData \subseteq Nodes /\ \A n \in DOMAIN runData : runData[n] \in Seq(Runs)
    <3> DEFINE S == Seq(Runs)
    <3>1. runData \in Objects(Nodes, S)
      BY DEF Types, RunObjects
    <3> HIDE DEF S
    <3>2. DOMAIN runData \subseteq Nodes /\ \A n \in DOMAIN runData : runData[n] \in S
      BY <3>1, ObjectFacts
    <3> QED BY <3>2 DEF S
  <2>2. ASSUME NEW n \in DOMAIN runData, NEW r \in DOMAIN runData[n]
        PROVE  runData[n][r].status \in {"success", "error", "waiting"}
    <3>1. runData[n][r] \in Runs
      BY <2>1, LenProperties, ElementOfSeq
    <3> QED BY <3>1 DEF Runs
  <2> QED BY <2>1, <2>2
<1>10. instance \in 0..mishaps
  BY DEF Types
<1>11. DOMAIN waitingExecution = Nodes
  BY <1>6
<1> QED BY <1>4, <1>5, <1>7, <1>8, <1>9, <1>10, <1>11 DEF Types, TypeOK

\* While an engine works, what is done is what is on record.
LEMMA WorkingFacts ==
  ASSUME IInv, pc # "ended"
  PROVE  /\ Consistent(DoneOf(runData), Queue, Running)
         /\ \A n \in DOMAIN runData : n \in Nodes /\ DoneOf(runData)[n] = runData[n]
         /\ \A n \in Nodes : \A r \in DOMAIN DoneOf(runData)[n] : n \in DOMAIN runData
<1>1. result = "none" /\ Done = DoneOf(runData) /\ runData \in RunObjects
  BY DEF IInv, Types, Done, Undone
<1>2. Consistent(DoneOf(runData), Queue, Running)
  BY <1>1 DEF IInv
<1>3. DOMAIN runData \subseteq Nodes
  BY <1>1, ObjectFacts DEF RunObjects
<1>4. \A n \in Nodes : DoneOf(runData)[n] = IF n \in DOMAIN runData THEN runData[n] ELSE <<>>
  BY DEF DoneOf
<1> QED BY <1>2, <1>3, <1>4

\* Runs without data in common, and with some, do not have the same data.
LEMMA RecordedFact ==
  ASSUME IInv
  PROVE  RecordedOnce
<1> SUFFICES ASSUME pc # "ended", NEW n \in DOMAIN runData, NEW r \in DOMAIN runData[n]
             PROVE  LET data == runData[n][r].data IN
                    /\ \A s \in DOMAIN runData[n] \ {r} : runData[n][s].data # data
                    /\ \A k \in DOMAIN nodeExecutionStack :
                         nodeExecutionStack[k].node = n => nodeExecutionStack[k].data # data
                    /\ pc = "node" /\ executionData.node = n => executionData.data # data
  BY DEF RecordedOnce
<1> DEFINE done == DoneOf(runData)
           data == runData[n][r].data
<1>1. Consistent(done, Queue, Running) /\ n \in Nodes /\ done[n] = runData[n]
  BY WorkingFacts
<1>2. DOMAIN data # {} /\ (pc = "node" => DOMAIN executionData.data # {})
  BY DEF IInv, Types
<1> HIDE DEF done
<1>3. ASSUME NEW s \in DOMAIN runData[n] \ {r} PROVE runData[n][s].data # data
  <2>1. ~Common(runData[n][s].data, data)
    BY <1>1 DEF Consistent
  <2> QED BY <1>2, <2>1, NotCommon
<1>4. ASSUME NEW k \in DOMAIN nodeExecutionStack, nodeExecutionStack[k].node = n
      PROVE  nodeExecutionStack[k].data # data
  <2>1. OutOf(Queue, n, data)
    BY <1>1 DEF Consistent
  <2>2. ~Common(nodeExecutionStack[k].data, data)
    BY <1>4, <2>1 DEF OutOf, Queue
  <2> QED BY <1>2, <2>2, NotCommon
<1>5. ASSUME pc = "node", executionData.node = n PROVE executionData.data # data
  <2>1. ~Common(data, executionData.data)
    BY <1>1, <1>5 DEF Consistent, Running
  <2> QED BY <1>2, <1>5, <2>1, NotCommon
<1> QED BY <1>3, <1>4, <1>5

\* What is below on the stack was not sent later.
LEMMA OrderFact ==
  ASSUME IInv
  PROVE  BranchOrder
<1> SUFFICES ASSUME pc = "node", NEW k \in DOMAIN nodeExecutionStack,
                    NEW late \in SentAt(nodeExecutionStack[k].data)
             PROVE  \E t \in SentAt(executionData.data) : late <= t
  BY DEF BranchOrder
<1> DEFINE done == DoneOf(runData)
           x == nodeExecutionStack[k].data
           y == executionData.data
<1>1. /\ Consistent(done, Queue, {executionData})
      /\ \A n \in Nodes : \A r \in DOMAIN done[n] : n \in DOMAIN runData
      /\ \A n \in DOMAIN runData : done[n] = runData[n]
  BY WorkingFacts DEF Running
<1> HIDE DEF done
<1>2. NotLater(done, x, y)
  <2>1. <<x, y>> \in Earlier(done)
    BY <1>1 DEF Consistent, Queue
  <2> QED BY <2>1 DEF Earlier
<1>3. Range(x) \subseteq Known(done) /\ Range(y) \subseteq Known(done)
  BY <1>1 DEF Consistent, AllIn, Queue
<1>4. PICK i \in DOMAIN x : x[i].node # NoNode /\ late = runData[x[i].node][x[i].run + 1].startTime
  BY DEF SentAt
<1>5. PICK j \in DOMAIN y :
        /\ y[j].node # NoNode
        /\ done[x[i].node][x[i].run + 1].startTime <= done[y[j].node][y[j].run + 1].startTime
  BY <1>2, <1>4 DEF NotLater
<1>6. ASSUME NEW d \in Known(done), d.node # NoNode
      PROVE  done[d.node][d.run + 1] = runData[d.node][d.run + 1]
  <2>1. d.node \in Nodes /\ d.run + 1 \in DOMAIN done[d.node]
    BY <1>6 DEF Known, Datum
  <2> QED BY <1>1, <2>1
<1>7. x[i] \in Known(done) /\ y[j] \in Known(done)
  BY <1>3 DEF Range
<1>8. late <= runData[y[j].node][y[j].run + 1].startTime
  BY <1>4, <1>5, <1>6, <1>7
<1>9. runData[y[j].node][y[j].run + 1].startTime \in SentAt(y)
  BY <1>5 DEF SentAt
<1> QED BY <1>8, <1>9

-----------------------------------------------------------------------------
(* The nodes that lead to a node.                                          *)

\* The nodes of a set and those with a connection to one of them.
OneUp(A) == UNION { {m} \cup { k \in Nodes : \E c \in Range(ConnectionsOf(k)) : c.node = m } : m \in A }

\* The walk of getParentNodes() to a depth.
IsUp(f, n, depth) == f = [i \in 0..depth |-> IF i = 0 THEN {n} ELSE OneUp(f[i - 1])]

\* There is such a walk to every depth.
LEMMA UpExists ==
  ASSUME NEW n
  PROVE  \A depth \in Nat : \E f : IsUp(f, n, depth)
<1> DEFINE S == { d \in Nat : ~\E f : IsUp(f, n, d) }
<1> SUFFICES ASSUME S # {} PROVE FALSE
  OBVIOUS
<1>1. PICK d \in S : \A i \in S : d <= i
  <2>1. S \in SUBSET Nat
    OBVIOUS
  <2> HIDE DEF S
  <2> QED BY <2>1, LeastElement
<1>2. d \in Nat /\ ~\E f : IsUp(f, n, d)
  BY <1>1
<1>3. d # 0
  <2> SUFFICES ASSUME d = 0 PROVE FALSE
    OBVIOUS
  <2> DEFINE g == [i \in 0..0 |-> {n}]
  <2>1. IsUp(g, n, 0)
    BY DEF IsUp
  <2> QED BY <1>2, <2>1
<1>4. d - 1 \in Nat /\ d - 1 \notin S
  <2> HIDE DEF S
  <2> QED BY <1>1, <1>2, <1>3
<1>5. PICK f : IsUp(f, n, d - 1)
  BY <1>4
<1> DEFINE g == [i \in 0..d |-> IF i = d THEN OneUp(f[d - 1]) ELSE f[i]]
<1>6. IsUp(g, n, d)
  <2>1. f = [i \in 0..(d - 1) |-> IF i = 0 THEN {n} ELSE OneUp(f[i - 1])]
    BY <1>5 DEF IsUp
  <2>2. ASSUME NEW i \in 0..d PROVE g[i] = IF i = 0 THEN {n} ELSE OneUp(g[i - 1])
    <3>1. CASE i = d
      <4>1. g[i] = OneUp(f[d - 1]) /\ g[i - 1] = f[d - 1] /\ i # 0
        BY <1>2, <1>3, <3>1
      <4> QED BY <4>1
    <3>2. CASE i # d
      <4>1. i \in 0..(d - 1) /\ g[i] = f[i] /\ (i # 0 => g[i - 1] = f[i - 1])
        BY <1>2, <3>2
      <4>2. f[i] = IF i = 0 THEN {n} ELSE OneUp(f[i - 1])
        BY <2>1, <4>1
      <4> QED BY <4>1, <4>2
    <3> QED BY <3>1, <3>2
  <2> QED BY <2>2 DEF IsUp
<1> QED BY <1>2, <1>6

\* The steps of a walk.
LEMMA UpSteps ==
  ASSUME NEW n, NEW d \in Nat, NEW f, IsUp(f, n, d)
  PROVE  f[0] = {n} /\ \A i \in 1..d : f[i] = OneUp(f[i - 1])
<1>1. f = [i \in 0..d |-> IF i = 0 THEN {n} ELSE OneUp(f[i - 1])]
  BY DEF IsUp
<1>2. ASSUME NEW i \in 0..d PROVE f[i] = IF i = 0 THEN {n} ELSE OneUp(f[i - 1])
  BY <1>1
<1> QED BY <1>2

\* Two walks agree as far as both go.
LEMMA UpUnique ==
  ASSUME NEW n, NEW d \in Nat, NEW e \in Nat, NEW f, NEW g, IsUp(f, n, d), IsUp(g, n, e), d <= e
  PROVE  \A i \in 0..d : f[i] = g[i]
<1> DEFINE S == { i \in 0..d : f[i] # g[i] }
<1> SUFFICES ASSUME S # {} PROVE FALSE
  OBVIOUS
<1>1. PICK i \in S : \A j \in S : i <= j
  <2>1. S \in SUBSET Nat
    OBVIOUS
  <2> HIDE DEF S
  <2> QED BY <2>1, LeastElement
<1>2. i \in 0..d /\ i \in 0..e /\ f[i] # g[i]
  BY <1>1
<1>3. /\ f[i] = IF i = 0 THEN {n} ELSE OneUp(f[i - 1])
      /\ g[i] = IF i = 0 THEN {n} ELSE OneUp(g[i - 1])
  <2>1. /\ f = [j \in 0..d |-> IF j = 0 THEN {n} ELSE OneUp(f[j - 1])]
        /\ g = [j \in 0..e |-> IF j = 0 THEN {n} ELSE OneUp(g[j - 1])]
    BY DEF IsUp
  <2> QED BY <1>2, <2>1
<1>4. i - 1 \in 0..d /\ f[i - 1] # g[i - 1]
  BY <1>2, <1>3
<1>5. i - 1 \in S
  BY <1>4
<1> QED BY <1>1, <1>2, <1>5

\* What the recursion of getParentNodes() computes.
LEMMA ParentNodesFacts ==
  ASSUME NEW n
  PROVE  \E up : /\ up[0] = {n}
                 /\ \A d \in Nat : up[d + 1] = OneUp(up[d])
                 /\ ParentNodes(n) = up[Cardinality(Nodes)] \ {n}
<1> DEFINE walk(d) == CHOOSE f : IsUp(f, n, d)
           g == [d \in Nat |-> walk(d)[d]]
<1>1. \A d \in Nat : IsUp(walk(d), n, d)
  BY UpExists
<1>2. \A d \in Nat : walk(d)[0] = {n} /\ \A i \in 1..d : walk(d)[i] = OneUp(walk(d)[i - 1])
  <2> HIDE DEF walk
  <2> QED BY <1>1, UpSteps
<1>3. ASSUME NEW d \in Nat, d # 0 PROVE g[d] = OneUp(g[d - 1])
  <2> DEFINE w == walk(d)
             v == walk(d - 1)
  <2>1. IsUp(w, n, d) /\ IsUp(v, n, d - 1) /\ d - 1 \in Nat
    BY <1>1, <1>3
  <2>2. g[d] = w[d] /\ g[d - 1] = v[d - 1]
    BY <2>1
  <2> HIDE DEF w, v, g
  <2>3. w[d] = OneUp(w[d - 1])
    BY <1>3, <2>1, UpSteps
  <2>4. \A i \in 0..(d - 1) : v[i] = w[i]
    BY <2>1, UpUnique
  <2>5. v[d - 1] = w[d - 1]
    BY <2>1, <2>4
  <2> QED BY <2>2, <2>3, <2>5
<1>4. g = [d \in Nat |-> IF d = 0 THEN {n} ELSE OneUp(g[d - 1])]
  <2>1. DOMAIN g = Nat /\ g = [d \in Nat |-> g[d]] /\ g[0] = {n}
    BY <1>2
  <2> HIDE DEF g
  <2> QED BY <1>3, <2>1
<1> HIDE DEF g, walk
<1>5. \E up : up = [d \in Nat |-> IF d = 0 THEN {n} ELSE OneUp(up[d - 1])]
  BY <1>4
<1> DEFINE up == CHOOSE up : up = [d \in Nat |-> IF d = 0 THEN {n} ELSE OneUp(up[d - 1])]
<1>6. up = [d \in Nat |-> IF d = 0 THEN {n} ELSE OneUp(up[d - 1])]
  BY <1>5
<1>7. ParentNodes(n) = up[Cardinality(Nodes)] \ {n}
  BY DEF ParentNodes, OneUp
<1> HIDE DEF up
<1>8. up[0] = {n}
  BY <1>6
<1>9. \A d \in Nat : up[d + 1] = OneUp(up[d])
  <2> TAKE d \in Nat
  <2>1. d + 1 \in Nat /\ d + 1 # 0 /\ (d + 1) - 1 = d
    OBVIOUS
  <2> QED BY <1>6, <2>1
<1> QED BY <1>7, <1>8, <1>9

\* getParentNodes() finds every node that leads to n: with n they are a set that no connection
\* enters from outside. Each step up finds another node or none at all, and of the nodes there
\* are as many as steps.
LEMMA ParentsClosed ==
  ASSUME workflow \in Workflows, NEW n \in Nodes
  PROVE  \E S \in SUBSET Nodes :
           /\ n \in S /\ ParentNodes(n) = S \ {n}
           /\ \A k \in Nodes : \A c \in Range(ConnectionsOf(k)) : c.node \in S => k \in S
<1>1. PICK up : /\ up[0] = {n}
                /\ \A d \in Nat : up[d + 1] = OneUp(up[d])
                /\ ParentNodes(n) = up[Cardinality(Nodes)] \ {n}
  BY ParentNodesFacts
<1>2. IsFiniteSet(Nodes) /\ Cardinality(Nodes) \in Nat
  BY EngineAssumption, FS_CardinalityType
<1>3. ASSUME NEW A \in SUBSET Nodes PROVE OneUp(A) \in SUBSET Nodes /\ A \subseteq OneUp(A)
  BY DEF OneUp
<1> DEFINE P(d) == /\ up[d] \in SUBSET Nodes /\ n \in up[d]
                   /\ OneUp(up[d]) = up[d] \/ Cardinality(up[d]) >= d + 1
<1>4. P(0)
  <2>1. up[0] = {n} /\ Cardinality({n}) = 1
    BY <1>1, FS_Singleton
  <2> QED BY <2>1
<1>5. ASSUME NEW d \in Nat, P(d) PROVE P(d + 1)
  <2>1. up[d + 1] = OneUp(up[d]) /\ up[d + 1] \in SUBSET Nodes /\ up[d] \subseteq up[d + 1] /\ n \in up[d + 1]
    BY <1>1, <1>3, <1>5
  <2>2. CASE OneUp(up[d]) = up[d]
    BY <2>1, <2>2
  <2>3. CASE OneUp(up[d]) # up[d]
    <3> DEFINE A == up[d]
               B == up[d + 1]
    <3>1. A \in SUBSET B /\ A # B /\ B \in SUBSET Nodes /\ Cardinality(A) >= d + 1
      BY <1>5, <2>1, <2>3
    <3> HIDE DEF A, B
    <3>2. IsFiniteSet(B) /\ Cardinality(B) \in Nat
      BY <1>2, <3>1, FS_Subset, FS_CardinalityType
    <3>3. IsFiniteSet(A) /\ Cardinality(A) \in Nat /\ Cardinality(A) <= Cardinality(B)
          /\ Cardinality(A) # Cardinality(B)
      BY <3>1, <3>2, FS_Subset, FS_CardinalityType
    <3>4. Cardinality(B) >= (d + 1) + 1
      BY <3>1, <3>2, <3>3
    <3> QED BY <2>1, <3>4 DEF B
  <2> QED BY <2>2, <2>3
<1>6. \A d \in Nat : P(d)
  <2> HIDE DEF P
  <2> DEFINE T == { d \in Nat : ~P(d) }
  <2> SUFFICES ASSUME T # {} PROVE FALSE
    OBVIOUS
  <2>1. PICK d \in T : \A e \in T : d <= e
    <3>1. T \in SUBSET Nat
      OBVIOUS
    <3> HIDE DEF T
    <3> QED BY <3>1, LeastElement
  <2>2. d \in Nat /\ d # 0
    BY <1>4, <2>1
  <2>3. d - 1 \in Nat /\ P(d - 1) /\ (d - 1) + 1 = d
    <3>1. d - 1 \in Nat /\ (d - 1) + 1 = d /\ ~(d <= d - 1)
      BY <2>2
    <3> QED BY <2>1, <3>1
  <2>4. P((d - 1) + 1)
    BY <1>5, <2>3
  <2> QED BY <2>1, <2>3, <2>4
<1> DEFINE S == up[Cardinality(Nodes)]
<1>7. S \in SUBSET Nodes /\ n \in S /\ OneUp(S) = S
  <2>1. P(Cardinality(Nodes))
    BY <1>2, <1>6
  <2>2. S \in SUBSET Nodes /\ n \in S /\ (OneUp(S) = S \/ Cardinality(S) >= Cardinality(Nodes) + 1)
    BY <2>1
  <2> HIDE DEF S
  <2>3. Cardinality(S) \in Nat /\ Cardinality(S) <= Cardinality(Nodes)
    BY <1>2, <2>2, FS_Subset, FS_CardinalityType
  <2> QED BY <1>2, <2>2, <2>3
<1>8. \A k \in Nodes : \A c \in Range(ConnectionsOf(k)) : c.node \in S => k \in S
  <2> HIDE DEF S
  <2> QED BY <1>7 DEF OneUp
<1> QED BY <1>1, <1>7, <1>8

-----------------------------------------------------------------------------
(* A node that runs without data on an input gets none there.              *)

\* What is true of 0 and goes on from each number to the next is true up to m.
LEMMA UpTo ==
  ASSUME NEW m \in Nat, NEW S, 0 \in S, \A i \in 1..m : i - 1 \in S => i \in S
  PROVE  m \in S
<1> DEFINE T == (0..m) \ S
<1> SUFFICES ASSUME T # {} PROVE FALSE
  OBVIOUS
<1>1. PICK i \in T : \A j \in T : i <= j
  <2>1. T \in SUBSET Nat
    OBVIOUS
  <2> HIDE DEF T
  <2> QED BY <2>1, LeastElement
<1>2. i \in 1..m /\ i - 1 \in 0..m /\ ~(i <= i - 1)
  BY <1>1
<1>3. i - 1 \in S
  BY <1>1, <1>2
<1> QED BY <1>1, <1>2, <1>3

Behind(n) == { c.node : c \in Range(ConnectionsOf(n)) }

\* What was added to the stack are items of nodes of M with data on every input, and what waits
\* now waited before or is of M.
Grown(q, p, M) ==
  /\ \A k \in DOMAIN p.stack :
       \/ \E j \in DOMAIN q.stack : p.stack[k] = q.stack[j]
       \/ p.stack[k].node \in M /\ 1..Inputs(p.stack[k].node) \subseteq DOMAIN p.stack[k].data
  /\ Range(p.nodes) \subseteq Range(q.nodes) \cup M

\* addNodeToBeExecuted() adds to the stack only with data on every input.
LEMMA AddGrown ==
  ASSUME NEW q, Shape(q), NEW q1, Shape(q1), NEW n \in Nodes, NEW i, NEW d, Adds(q, q1, n, i, d)
  PROVE  Grown(q, q1, {n})
<1>1. PICK k \in Nat, x \in Data :
        /\ Change(q, q1, n, k, x)
        /\ k \notin DOMAIN q1.waiting[n] => 1..Inputs(n) \subseteq DOMAIN x
  BY DEF Adds
<1>2. q.stack \in Seq(Items)
  BY DEF Shape, QueueRecords
<1>3. ASSUME NEW j \in DOMAIN q1.stack
      PROVE  \/ \E l \in DOMAIN q.stack : q1.stack[j] = q.stack[l]
             \/ q1.stack[j].node = n /\ 1..Inputs(n) \subseteq DOMAIN q1.stack[j].data
  <2>1. CASE k \in DOMAIN q1.waiting[n]
    BY <1>1, <2>1 DEF Change
  <2>2. CASE k \notin DOMAIN q1.waiting[n]
    <3>1. PICK item \in Items : item.node = n /\ item.data = x /\ q1.stack = <<item>> \o q.stack
      BY <1>1, <2>2 DEF Change
    <3> DEFINE s == <<item>> \o q.stack
    <3>2. \A l \in DOMAIN s : (l = 1 /\ s[l] = item) \/ (l - 1 \in DOMAIN q.stack /\ s[l] = q.stack[l - 1])
      BY <1>2, PushFacts
    <3>3. q1.stack = s
      BY <3>1
    <3> HIDE DEF s
    <3> QED BY <1>1, <2>2, <3>1, <3>2, <3>3
  <2> QED BY <2>1, <2>2
<1>4. \A m \in Nodes \ {n} : q1.waiting[m] = q.waiting[m]
  BY <1>1 DEF Change
<1>5. Range(q1.nodes) \subseteq Range(q.nodes) \cup {n}
  BY <1>4 DEF Shape
<1> QED BY <1>3, <1>5 DEF Grown

\* So does the loop over the connections.
LEMMA AddNodesGrown ==
  ASSUME workflow \in Workflows, instance \in Nat, NEW q, Shape(q),
         NEW n \in Nodes, NEW run \in Nat, NEW outputs
  PROVE  LET p == AddNodes(q, n, run, outputs) IN Shape(p) /\ Grown(q, p, Behind(n))
<1> DEFINE cs == NodesToAdd(n, outputs)
<1>1. /\ Len(cs) \in Nat
      /\ \A l \in 1..Len(cs) : /\ cs[l] \in Connections /\ cs[l].index \in 1..Inputs(cs[l].node)
                              /\ cs[l].node \in Nodes /\ cs[l] \in Range(ConnectionsOf(n))
  BY LoopFacts
<1>2. PICK f : Loops(f, q, n, run, cs) /\ AddNodes(q, n, run, outputs) = f[Len(cs)]
  BY LoopFacts
<1> HIDE DEF cs
<1> DEFINE S == { i \in 0..Len(cs) : Shape(f[i]) /\ Grown(q, f[i], Behind(n)) }
<1>3. 0 \in S
  BY <1>1, <1>2 DEF Loops, Grown
<1>4. ASSUME NEW i \in 1..Len(cs), i - 1 \in S PROVE i \in S
  <2> DEFINE p == f[i - 1]
             c == cs[i]
             d == [node |-> n, run |-> run, output |-> c.output]
  <2>1. Shape(p) /\ Grown(q, p, Behind(n))
    BY <1>4
  <2>2. f[i] = AddNodeToBeExecuted(p, c, d)
    BY <1>2 DEF Loops
  <2>3. /\ c \in Connections /\ c.index \in 1..Inputs(c.node) /\ c.node \in Nodes
        /\ c.node \in Behind(n)
    BY <1>1 DEF Behind
  <2>4. d \in Datum
    BY <2>3 DEF Connections, Datum
  <2> HIDE DEF p, c, d
  <2>5. Shape(f[i]) /\ Adds(p, f[i], c.node, c.index, d)
    BY <2>1, <2>2, <2>3, <2>4, AddOne
  <2>6. Grown(p, f[i], {c.node})
    BY <2>1, <2>3, <2>5, AddGrown
  <2>7. Grown(q, f[i], Behind(n))
    BY <2>1, <2>3, <2>6 DEF Grown
  <2> QED BY <2>5, <2>7
<1>5. Len(cs) \in S
  <2> HIDE DEF S
  <2> QED BY <1>1, <1>3, <1>4, UpTo
<1> QED BY <1>2, <1>5

-----------------------------------------------------------------------------
(* What a step does to the items: the other parts of the state aside.      *)

\* The same items, with the same entries waiting.
SameQueue(q, p) ==
  /\ DOMAIN p.stack = DOMAIN q.stack
  /\ \A k \in DOMAIN q.stack : p.stack[k].node = q.stack[k].node /\ p.stack[k].data = q.stack[k].data
  /\ p.waiting = q.waiting /\ p.nodes = q.nodes

NoMoreRuns(done, done1) ==
  \A n \in Nodes : \A r \in DOMAIN done1[n] : r \in DOMAIN done[n] /\ done1[n][r] = done[n][r]

\* The items stay where they are, and the last run of a node may be taken back.
Stays ==
  /\ SameQueue(Queue, NextQueue) /\ NextRunning = Running
  /\ delivered' = delivered /\ consumed' = consumed
  /\ NoMoreRuns(DoneOf(runData), DoneOf(runData'))

\* The head of the stack is taken: it runs, or is dropped.
Leaves ==
  /\ Queue.stack # <<>> /\ Running = {} /\ runData' = runData /\ delivered' = delivered
  /\ NextQueue = [stack |-> Tail(Queue.stack), waiting |-> Queue.waiting, nodes |-> Queue.nodes]
  /\ \/ NextRunning = {Head(Queue.stack)} /\ consumed' = consumed
     \/ NextRunning = {} /\ consumed' = consumed \cup Tokens(Head(Queue.stack))

\* The node that runs is done and sends nothing.
Stops ==
  /\ Running = {executionData} /\ NextRunning = {} /\ NextQueue = Queue
  /\ runData' = runData /\ delivered' = delivered
  /\ consumed' = consumed \cup Tokens(executionData)

\* The run is put on record.
OnRecord ==
  \E rec \in Runs : /\ rec.data = executionData.data
                    /\ DoneOf(runData') = More(DoneOf(runData), executionData.node, rec)

\* The node that runs has failed or waits, and its item is put back.
GoesBack ==
  /\ Running = {executionData} /\ NextRunning = {} /\ OnRecord
  /\ NextQueue = Enqueued(Queue, executionData)
  /\ delivered' = delivered /\ consumed' = consumed

\* The node that runs is done and may send data on.
SentAlong(n, run, cs) ==
  { [to |-> c.node, index |-> c.index, datum |-> [node |-> n, run |-> run, output |-> c.output]] : c \in cs }
GoesOn ==
  /\ Running = {executionData} /\ NextRunning = {} /\ OnRecord /\ result = "none" /\ result' = "none"
  /\ consumed' = consumed \cup Tokens(executionData)
  /\ \/ NextQueue = Queue /\ delivered' = delivered
     \/ LET n == executionData.node
            run == Len(DoneOf(runData)[n])
        IN \E outputs :
             /\ NextQueue = Search(AddNodes(Queue, n, run, outputs))
             /\ delivered' = delivered \cup SentAlong(n, run, Range(NodesToAdd(n, outputs)))

\* What a run that goes back is no longer done.
DoneKept == result' # "canceled" => result # "canceled" /\ NextDone = Done

\* A node has a result.
LEMMA ProceedKind ==
  ASSUME IInv, pc = "node", result' = result, NEW status_ \in {"success", "error"}, NEW outputs,
         Proceed(status_, outputs)
  PROVE  GoesOn
<1> DEFINE n == executionData.node
           rec == Run(status_)
           run == Len(RunsOf(n))
           q1 == IF n = workflow.destination THEN Queue
                 ELSE Search(AddNodes(Queue, n, run, outputs))
<1>1. /\ Shape(Queue) /\ instance \in Nat /\ workflow \in Workflows
      /\ result = "none" /\ runData \in RunObjects /\ executionData \in Items
      /\ n \in Nodes /\ RunsOf(n) = DoneOf(runData)[n]
      /\ DoneOf(runData) \in [Nodes -> Seq(Runs)] /\ Count(DoneOf(runData)) = StartTime
  BY NodeFacts
<1>2. /\ pc' = "loop" /\ consumed' = consumed \cup Tokens(executionData)
      /\ runData' = Recorded(runData, n, rec)
  BY DEF Proceed, PushRun, RunsOf, Recorded
<1>3. OnRecord
  <2>1. rec \in Runs /\ rec.data = executionData.data
    <3>1. StartTime \in Nat
      BY <1>1, DoneFacts
    <3> QED BY <1>1, <3>1 DEF Run, Runs, Items
  <2> HIDE DEF rec
  <2>2. DoneOf(runData') = More(DoneOf(runData), n, rec)
    <3> HIDE DEF n
    <3> QED BY <1>1, <1>2, <2>1, PushRunFacts
  <2> QED BY <2>1, <2>2 DEF OnRecord
<1>4. NextQueue = [stack |-> q1.stack, waiting |-> q1.waiting, nodes |-> q1.nodes]
  BY DEF Proceed, NextQueue, Queue
<1>5. CASE n = workflow.destination
  <2>1. NextQueue = Queue
    BY <1>4, <1>5 DEF Queue
  <2>2. delivered' = delivered
    BY <1>5 DEF Proceed
  <2> QED BY <1>1, <1>2, <1>3, <2>1, <2>2 DEF GoesOn, Running, NextRunning
<1>6. CASE n # workflow.destination
  <2>1. q1 = Search(AddNodes(Queue, n, run, outputs))
    BY <1>6
  <2>2. Shape(q1)
    <3> DEFINE p == AddNodes(Queue, n, run, outputs)
    <3>1. Shape(p)
      <4>1. run \in Nat
        BY <1>1, DoneFacts
      <4> HIDE DEF n, run
      <4> QED BY <1>1, <4>1, AddNodesGrown
    <3> HIDE DEF p
    <3>2. Search(p) = p \/ Shape(Search(p))
      BY <1>1, <3>1, SearchCases
    <3> QED BY <2>1, <3>1, <3>2 DEF p
  <2> HIDE DEF q1
  <2>3. NextQueue = q1
    <3>1. q1 \in QueueRecords
      BY <2>2 DEF Shape
    <3> QED BY <1>4, <3>1 DEF QueueRecords
  <2>4. delivered' = delivered \cup SentAlong(n, run, Range(NodesToAdd(n, outputs)))
    BY <1>6 DEF Proceed, SentAlong
  <2> HIDE DEF n
  <2>5. \E outs : /\ NextQueue = Search(AddNodes(Queue, n, run, outs))
                  /\ delivered' = delivered \cup SentAlong(n, run, Range(NodesToAdd(n, outs)))
    BY <2>1, <2>3, <2>4
  <2> QED BY <1>1, <1>2, <1>3, <2>5 DEF GoesOn, Running, NextRunning, n
<1> QED BY <1>5, <1>6

\* A node fails or waits.
LEMMA PutBackKind ==
  ASSUME IInv, pc = "node", NEW status_ \in {"error", "waiting"}, PutBack(status_, status_)
  PROVE  GoesBack /\ DoneKept
<1> DEFINE n == executionData.node
           rec == Run(status_)
<1>1. /\ Shape(Queue) /\ instance \in Nat /\ result = "none"
      /\ runData \in RunObjects /\ executionData \in Items
      /\ executionData.instance <= instance /\ DOMAIN executionData.data # {}
      /\ n \in Nodes /\ RunsOf(n) = DoneOf(runData)[n]
      /\ DoneOf(runData) \in [Nodes -> Seq(Runs)] /\ Count(DoneOf(runData)) = StartTime
  BY NodeFacts
<1>2. /\ pc' = "ended" /\ lastNodeExecuted' = n /\ consumed' = consumed /\ delivered' = delivered
      /\ result' = IF status = "canceled" THEN "canceled" ELSE status_
      /\ runData' = Recorded(runData, n, rec)
  BY DEF PutBack, PushRun, RunsOf, Recorded
<1>3. rec \in Runs /\ rec.data = executionData.data
  <2>1. StartTime \in Nat
    BY <1>1, DoneFacts
  <2> QED BY <1>1, <2>1 DEF Run, Runs, Items
<1> HIDE DEF rec
<1>4. /\ DoneOf(runData') = More(DoneOf(runData), n, rec)
      /\ DoneOf(Popped(runData', n)) = DoneOf(runData)
  <2> HIDE DEF n
  <2> QED BY <1>1, <1>2, <1>3, PushRunFacts
<1>5. OnRecord
  BY <1>3, <1>4 DEF OnRecord
<1>6. /\ Shape(Enqueued(Queue, executionData))
      /\ Enqueued(Queue, executionData).stack = <<executionData>> \o Queue.stack
      /\ Enqueued(Queue, executionData).waiting = Queue.waiting
      /\ Enqueued(Queue, executionData).nodes = Queue.nodes
  BY <1>1, EnqueuedShape
<1>7. NextQueue = Enqueued(Queue, executionData)
  <2>1. Enqueued(Queue, executionData) \in QueueRecords
    BY <1>6 DEF Shape
  <2>2. NextQueue = [stack |-> <<executionData>> \o Queue.stack, waiting |-> Queue.waiting, nodes |-> Queue.nodes]
    BY DEF PutBack, NextQueue, Queue
  <2> QED BY <1>6, <2>1, <2>2 DEF QueueRecords
<1>8. nodeExecutionStack' # <<>>
  <2>1. Queue.stack \in Seq(Items)
    BY <1>1 DEF Shape, QueueRecords
  <2>2. 1 \in DOMAIN (<<executionData>> \o Queue.stack)
    BY <1>1, <2>1, PushFacts
  <2> QED BY <1>6, <1>7, <2>2 DEF NextQueue
<1>9. DoneKept
  <2>1. Done = DoneOf(runData)
    BY DEF Done, Undone
  <2>2. result' # "canceled" => NextDone = DoneOf(Popped(runData', n))
    BY <1>2, <1>8 DEF NextDone, NextUndone
  <2> QED BY <1>1, <1>4, <2>1, <2>2 DEF DoneKept
<1> QED BY <1>2, <1>5, <1>7, <1>9 DEF GoesBack, Running, NextRunning

\* Nothing is moved, and no run is taken back.
LEMMA StayKind ==
  ASSUME nodeExecutionStack' = nodeExecutionStack, waitingExecution' = waitingExecution,
         waitingNodes' = waitingNodes, executionData' = executionData, runData' = runData,
         delivered' = delivered, consumed' = consumed, (pc' = "node") = (pc = "node")
  PROVE  Stays
<1>1. NextQueue = Queue /\ NextRunning = Running
  BY DEF NextQueue, Queue, NextRunning, Running
<1>2. NoMoreRuns(DoneOf(runData), DoneOf(runData'))
  BY DEF NoMoreRuns
<1> QED BY <1>1, <1>2 DEF Stays, SameQueue

\* The next engine begins with the items there are, without the run that failed or waits.
LEMMA RestartedKind ==
  ASSUME IInv, Restarted, result \in {"error", "waiting"}, nodeExecutionStack # <<>>,
         PopRun(lastNodeExecuted),
         DOMAIN nodeExecutionStack' = DOMAIN nodeExecutionStack,
         \A k \in DOMAIN nodeExecutionStack :
           /\ nodeExecutionStack'[k].node = nodeExecutionStack[k].node
           /\ nodeExecutionStack'[k].data = nodeExecutionStack[k].data
  PROVE  Stays /\ DoneKept
<1> DEFINE runs1 == Popped(runData, lastNodeExecuted)
<1>1. pc = "ended" /\ Undone /\ runData \in RunObjects
  BY DEF IInv, Types, Restarted, Undone
<1>2. lastNodeExecuted \in DOMAIN runData /\ runData[lastNodeExecuted] # <<>>
  BY <1>1 DEF IInv, Types
<1>3. /\ pc' = "loop" /\ result' = "none" /\ runData' = runs1
      /\ waitingExecution' = waitingExecution /\ waitingNodes' = waitingNodes
      /\ delivered' = delivered /\ consumed' = consumed
  BY DEF Restarted, PopRun, Popped
<1>4. SameQueue(Queue, NextQueue)
  BY <1>3 DEF SameQueue, NextQueue, Queue
<1>5. NextRunning = {} /\ Running = {} /\ NextDone = Done
  BY <1>1, <1>3 DEF NextRunning, Running, NextDone, NextUndone, Done
<1>6. NoMoreRuns(DoneOf(runData), DoneOf(runs1))
  <2> DEFINE n == lastNodeExecuted
             s == runData[n]
             t == Front(s)
  <2>1. n \in Nodes /\ s \in Seq(Runs) /\ s # <<>>
    <3> DEFINE S == Seq(Runs)
    <3>1. runData \in Objects(Nodes, S)
      BY <1>1 DEF RunObjects
    <3> HIDE DEF S
    <3>2. DOMAIN runData \subseteq Nodes /\ \A m \in DOMAIN runData : runData[m] \in S
      BY <3>1, ObjectFacts
    <3> QED BY <1>2, <3>2 DEF S
  <2> HIDE DEF s
  <2>2. \A i \in DOMAIN t : i \in DOMAIN s /\ t[i] = s[i]
    BY <2>1, FrontFacts
  <2> HIDE DEF t
  <2>3. runs1 = [runData EXCEPT ![n] = t]
    BY DEF Popped, t, s
  <2> HIDE DEF runs1
  <2>4. ASSUME NEW m \in Nodes, NEW r \in DOMAIN DoneOf(runs1)[m]
        PROVE  r \in DOMAIN DoneOf(runData)[m] /\ DoneOf(runs1)[m][r] = DoneOf(runData)[m][r]
    <3>1. /\ DoneOf(runs1)[m] = IF m \in DOMAIN runs1 THEN runs1[m] ELSE <<>>
          /\ DoneOf(runData)[m] = IF m \in DOMAIN runData THEN runData[m] ELSE <<>>
      BY DEF DoneOf
    <3>2. CASE m = n
      BY <1>2, <2>2, <2>3, <2>4, <3>1, <3>2 DEF s
    <3>3. CASE m # n
      BY <2>3, <2>4, <3>1, <3>3
    <3> QED BY <3>2, <3>3
  <2> QED BY <2>4 DEF NoMoreRuns
<1> QED BY <1>3, <1>4, <1>5, <1>6 DEF Stays, DoneKept

\* Every step is one of these.
LEMMA StepKinds ==
  ASSUME IInv, [Next]_vars
  PROVE  /\ workflow' = workflow
         /\ \/ Stays /\ DoneKept
            \/ Leaves /\ DoneKept
            \/ Stops /\ DoneKept
            \/ GoesBack /\ DoneKept
            \/ GoesOn
<1>1. CASE Take \/ Skip
  <2>1. /\ pc = "loop" /\ nodeExecutionStack # <<>> /\ result = "none" /\ workflow' = workflow
        /\ executionData' = Head(nodeExecutionStack) /\ nodeExecutionStack' = Tail(nodeExecutionStack)
        /\ waitingExecution' = waitingExecution /\ waitingNodes' = waitingNodes
        /\ runData' = runData /\ result' = result /\ delivered' = delivered
    BY <1>1 DEF Take, Skip, Shift, IInv, Types
  <2>2. \/ pc' = "node" /\ consumed' = consumed
        \/ pc' = "loop" /\ consumed' = consumed \cup Tokens(Head(nodeExecutionStack))
    BY <1>1 DEF Take, Skip, Shift
  <2>3. NextDone = Done
    BY <2>1, <2>2 DEF NextDone, NextUndone, Done, Undone
  <2>4. /\ Queue.stack = nodeExecutionStack /\ Running = {}
        /\ NextQueue = [stack |-> Tail(Queue.stack), waiting |-> Queue.waiting, nodes |-> Queue.nodes]
    BY <2>1 DEF Queue, NextQueue, Running
  <2>5. \/ NextRunning = {Head(nodeExecutionStack)} /\ consumed' = consumed
        \/ NextRunning = {} /\ consumed' = consumed \cup Tokens(Head(nodeExecutionStack))
    BY <2>1, <2>2 DEF NextRunning
  <2> QED BY <2>1, <2>3, <2>4, <2>5 DEF Leaves, DoneKept
<1>2. CASE NodeReturnsNull
  <2>1. /\ pc = "node" /\ pc' = "loop" /\ result = "none" /\ workflow' = workflow
        /\ nodeExecutionStack' = nodeExecutionStack
        /\ waitingExecution' = waitingExecution /\ waitingNodes' = waitingNodes
        /\ runData' = runData /\ result' = result /\ delivered' = delivered
        /\ consumed' = consumed \cup Tokens(executionData)
    BY <1>2 DEF NodeReturnsNull, queueVars, IInv, Types
  <2>2. /\ NextDone = Done /\ NextQueue = Queue /\ Running = {executionData} /\ NextRunning = {}
    BY <2>1 DEF NextDone, NextUndone, Done, Undone, NextQueue, Queue, Running, NextRunning
  <2> QED BY <2>1, <2>2 DEF Stops, DoneKept
<1>3. CASE NodeContinuesOnFail
  <2>1. pc = "node" /\ result' = result /\ workflow' = workflow /\ Proceed("error", FirstInput)
    BY <1>3 DEF NodeContinuesOnFail
  <2> QED BY <2>1, ProceedKind
<1>4. CASE NodeFails \/ NodeWaits
  <2>1. pc = "node" /\ workflow' = workflow /\ \E status_ \in {"error", "waiting"} : PutBack(status_, status_)
    BY <1>4 DEF NodeFails, NodeWaits, PutBack
  <2> QED BY <2>1, PutBackKind
<1>5. ASSUME NEW outputs, NodeReturns(outputs) PROVE GoesOn /\ workflow' = workflow
  <2>1. pc = "node" /\ result' = result /\ workflow' = workflow /\ Proceed("success", outputs)
    BY <1>5 DEF NodeReturns
  <2> QED BY <2>1, ProceedKind
<1>6. CASE Cancel \/ LoopEnds \/ UNCHANGED vars
  <2>1. /\ nodeExecutionStack' = nodeExecutionStack /\ waitingExecution' = waitingExecution
        /\ waitingNodes' = waitingNodes /\ executionData' = executionData /\ runData' = runData
        /\ delivered' = delivered /\ consumed' = consumed /\ (pc' = "node") = (pc = "node")
        /\ workflow' = workflow /\ lastNodeExecuted' = lastNodeExecuted
    BY <1>6 DEF Cancel, LoopEnds, vars, queueVars, engineVars
  <2>2. DoneKept
    <3>1. CASE Cancel \/ UNCHANGED vars
      <4>1. pc' = pc /\ result' = result
        BY <3>1 DEF Cancel, vars, engineVars
      <4> QED BY <2>1, <4>1 DEF DoneKept, NextDone, NextUndone, Done, Undone
    <3>2. CASE LoopEnds
      <4>1. /\ result = "none" /\ pc = "loop"
            /\ result' \in {"success", "error", "canceled"}
            /\ result' # "canceled" => nodeExecutionStack = <<>>
        BY <3>2 DEF LoopEnds, IInv, Types
      <4> QED BY <2>1, <4>1 DEF DoneKept, NextDone, NextUndone, Done, Undone
    <3> QED BY <1>6, <3>1, <3>2
  <2>3. Stays
    BY <2>1, StayKind
  <2> QED BY <2>1, <2>2, <2>3
<1>7. CASE Resume
  <2>1. /\ Restarted /\ result = "waiting" /\ PopRun(lastNodeExecuted) /\ nodeExecutionStack # <<>>
    BY <1>7 DEF Resume, IInv, Types
  <2>2. /\ DOMAIN nodeExecutionStack' = DOMAIN nodeExecutionStack
        /\ \A k \in DOMAIN nodeExecutionStack :
             \/ nodeExecutionStack'[k] = nodeExecutionStack[k]
             \/ nodeExecutionStack'[k] = [nodeExecutionStack[k] EXCEPT !.disabled = TRUE]
    BY <1>7 DEF Resume
  <2>3. \A k \in DOMAIN nodeExecutionStack : nodeExecutionStack[k] \in Items
    <3>1. nodeExecutionStack \in Seq(Items)
      BY DEF IInv, Types, Shape, QueueRecords, Queue
    <3> QED BY <3>1, LenProperties, ElementOfSeq
  <2>4. \A k \in DOMAIN nodeExecutionStack :
           /\ nodeExecutionStack'[k].node = nodeExecutionStack[k].node
           /\ nodeExecutionStack'[k].data = nodeExecutionStack[k].data
    BY <2>2, <2>3 DEF Items
  <2>5. workflow' = workflow
    BY <2>1 DEF Restarted
  <2> QED BY <2>1, <2>2, <2>4, <2>5, RestartedKind
<1>8. CASE Retry
  <2>1. /\ Restarted /\ result = "error" /\ PopRun(lastNodeExecuted) /\ nodeExecutionStack # <<>>
        /\ nodeExecutionStack' = nodeExecutionStack /\ workflow' = workflow
    BY <1>8 DEF Retry, Restarted
  <2> QED BY <2>1, RestartedKind
<1> QED BY <1>1, <1>2, <1>3, <1>4, <1>5, <1>6, <1>7, <1>8 DEF Next

-----------------------------------------------------------------------------
(* Who has been given data without some input, and who is in line.         *)

Whole(n, x) == 1..Inputs(n) \subseteq DOMAIN x

\* An item of n, or a run of n, is without data on an input.
Starved(q, running, done, n) ==
  \/ \E k \in DOMAIN q.stack : q.stack[k].node = n /\ ~Whole(n, q.stack[k].data)
  \/ \E item \in running : item.node = n /\ ~Whole(n, item.data)
  \/ \E r \in DOMAIN done[n] : ~Whole(n, done[n][r].data)

\* The nodes that are still to run.
InLine(q, running) ==
  { q.stack[k].node : k \in DOMAIN q.stack } \cup { item.node : item \in running } \cup Range(q.nodes)

\* No node in line leads to a node that has gone without data.
Settled(q, running, done) ==
  \A n \in Nodes : Starved(q, running, done, n) => ParentNodes(n) \cap InLine(q, running) = {}
LateInv == Acyclic => Settled(Queue, Running, DoneOf(runData))

\* It is so still when nobody is new in line and nobody has newly gone without.
LEMMA SettledLess ==
  ASSUME NEW q, NEW r, NEW done, NEW q1, NEW r1, NEW done1, Settled(q, r, done),
         InLine(q1, r1) \subseteq InLine(q, r),
         \A n \in Nodes : Starved(q1, r1, done1, n) => Starved(q, r, done, n)
  PROVE  Settled(q1, r1, done1)
  BY DEF Settled

\* When a node has a result, it adds items and entries of the nodes behind it only: of those
\* it does not lead to a node that has gone without.
LEMMA SettledGrown ==
  ASSUME workflow \in Workflows, Acyclic, NEW q, NEW p, NEW e \in Nodes, NEW item, item.node = e,
         NEW done, NEW done1, Settled(q, {item}, done), Grown(q, p, Behind(e)),
         \A n \in Nodes : Starved(p, {}, done1, n) => Starved(q, {item}, done, n)
  PROVE  Settled(p, {}, done1)
<1> SUFFICES ASSUME NEW n \in Nodes, Starved(p, {}, done1, n), NEW m \in ParentNodes(n),
                    m \in InLine(p, {})
             PROVE  FALSE
  BY DEF Settled
<1>1. /\ e \in InLine(q, {item})
      /\ m \in InLine(q, {item}) \cup Behind(e)
  BY DEF InLine, Grown
<1>2. ParentNodes(n) \cap InLine(q, {item}) = {}
  BY DEF Settled
<1>3. PICK c \in Range(ConnectionsOf(e)) : c.node = m
  BY <1>1, <1>2 DEF Behind
<1>4. e \in ParentNodes(n) \/ e = n
  BY <1>3, ParentsClosed
<1>5. e = n
  BY <1>1, <1>2, <1>4
<1> QED BY <1>3, <1>5 DEF Acyclic

\* The search takes a node that no waiting node leads to.
LEMMA SettledSearch ==
  ASSUME instance \in Nat, NEW q, Shape(q), NEW done, Settled(q, {}, done)
  PROVE  Settled(Search(q), {}, done)
<1> DEFINE p == Search(q)
<1>1. CASE p = q
  BY <1>1
<1>2. CASE p # q
  <2>1. /\ q.stack = <<>> /\ Shape(p)
        /\ \E n \in Range(q.nodes), item \in Items : \E k \in DOMAIN q.waiting[n] :
             /\ MayRun(q, n)
             /\ item.node = n /\ item.data = q.waiting[n][k].data
             /\ item.source = q.waiting[n][k].source
             /\ p.stack = <<item>>
             /\ p.waiting = [q.waiting EXCEPT ![n] = Without(q.waiting[n], k)]
    <3> HIDE DEF p
    <3>1. \/ p = q /\ (q.stack = <<>> => \A i \in DOMAIN q.nodes : ~MayRun(q, q.nodes[i]))
          \/ /\ q.stack = <<>> /\ Shape(p)
             /\ \E n \in Range(q.nodes), item \in Items : \E k \in DOMAIN q.waiting[n] :
                  /\ MayRun(q, n)
                  /\ item.node = n /\ item.data = q.waiting[n][k].data
                  /\ item.source = q.waiting[n][k].source
                  /\ p.stack = <<item>>
                  /\ p.waiting = [q.waiting EXCEPT ![n] = Without(q.waiting[n], k)]
      BY SearchCases DEF p
    <3> QED BY <1>2, <3>1
  <2> HIDE DEF p
  <2>2. PICK n \in Range(q.nodes), item \in Items : \E k \in DOMAIN q.waiting[n] :
             /\ MayRun(q, n)
             /\ item.node = n /\ item.data = q.waiting[n][k].data
             /\ item.source = q.waiting[n][k].source
             /\ p.stack = <<item>>
             /\ p.waiting = [q.waiting EXCEPT ![n] = Without(q.waiting[n], k)]
    BY <2>1
  <2>3. PICK k \in DOMAIN q.waiting[n] : p.waiting = [q.waiting EXCEPT ![n] = Without(q.waiting[n], k)]
    BY <2>2
  <2>4. n \in Nodes /\ q.waiting \in [Nodes -> Entries]
    BY DEF Shape, QueueRecords
  <2>5. \A m \in Nodes : DOMAIN p.waiting[m] # {} => DOMAIN q.waiting[m] # {}
    BY <2>3, <2>4
  <2>6. Range(p.nodes) \subseteq Range(q.nodes)
    BY <2>1, <2>5 DEF Shape
  <2>7. DOMAIN p.stack = {1} /\ p.stack[1].node = n
    BY <2>2
  <2>8. InLine(p, {}) \subseteq InLine(q, {})
    BY <2>6, <2>7 DEF InLine
  <2>9. InLine(q, {}) = Range(q.nodes)
    <3>1. DOMAIN q.stack = {}
      BY <2>1
    <3> QED BY <3>1 DEF InLine
  <2>10. ASSUME NEW m \in Nodes, Starved(p, {}, done, m)
         PROVE  ParentNodes(m) \cap InLine(p, {}) = {}
    <3>1. CASE m = n
      BY <2>2, <2>8, <2>9, <3>1 DEF MayRun
    <3>2. CASE m # n
      <4>1. Starved(q, {}, done, m)
        BY <2>7, <2>10, <3>2 DEF Starved
      <4> QED BY <2>8, <4>1 DEF Settled
    <3> QED BY <3>1, <3>2
  <2> QED BY <2>10 DEF Settled, p
<1> QED BY <1>1, <1>2

\* With a run more, of the item that ran.
LEMMA StarvedMore ==
  ASSUME NEW done \in [Nodes -> Seq(Runs)], NEW e \in Nodes, NEW rec \in Runs, NEW n \in Nodes,
         NEW r \in DOMAIN More(done, e, rec)[n], ~Whole(n, More(done, e, rec)[n][r].data)
  PROVE  \/ r \in DOMAIN done[n] /\ ~Whole(n, done[n][r].data)
         \/ n = e /\ ~Whole(e, rec.data)
<1> DEFINE s == Append(done[e], rec)
           l == Len(done[e]) + 1
<1>1. DOMAIN s = DOMAIN done[e] \cup {l} /\ (\A i \in DOMAIN done[e] : s[i] = done[e][i]) /\ s[l] = rec
  BY AppendFacts
<1>2. More(done, e, rec) = [done EXCEPT ![e] = s]
  BY DEF More
<1> HIDE DEF s, l
<1> QED BY <1>1, <1>2

\* Primes.
LEMMA NextSettled ==
  ASSUME workflow' = workflow, Acyclic => Settled(NextQueue, NextRunning, DoneOf(runData'))
  PROVE  LateInv'
<1>1. (\A n : Inputs(n)' = Inputs(n)) /\ (\A n : ConnectionsOf(n)' = ConnectionsOf(n))
  BY DEF Inputs, ConnectionsTo, ConnectionsOf
<1>2. \A n : ParentNodes(n)' = ParentNodes(n)
  BY FilterKept
<1>3. Acyclic' = Acyclic
  BY <1>1, <1>2 DEF Acyclic
<1>4. Queue' = NextQueue /\ Running' = NextRunning /\ DoneOf(runData)' = DoneOf(runData')
  BY DEF Queue, NextQueue, Running, NextRunning, DoneOf
<1>5. ASSUME NEW n
      PROVE  Starved(Queue, Running, DoneOf(runData), n)' <=> Starved(NextQueue, NextRunning, DoneOf(runData'), n)
  BY <1>1, <1>4 DEF Starved, Whole
<1>6. InLine(Queue, Running)' = InLine(NextQueue, NextRunning)
  BY <1>4 DEF InLine
<1>7. Settled(NextQueue, NextRunning, DoneOf(runData')) => Settled(Queue, Running, DoneOf(runData))'
  BY <1>2, <1>5, <1>6 DEF Settled
<1> QED BY <1>3, <1>7 DEF LateInv

\* Every step keeps it so that no node in line leads to a node that has gone without data.
LEMMA LateStep ==
  ASSUME IInv, LateInv, [Next]_vars
  PROVE  LateInv'
<1> DEFINE done == DoneOf(runData)
           done1 == DoneOf(runData')
           e == executionData.node
<1>1. workflow' = workflow /\ (Stays \/ Leaves \/ Stops \/ GoesBack \/ GoesOn)
  BY StepKinds
<1> SUFFICES ASSUME Acyclic PROVE Settled(NextQueue, NextRunning, done1)
  BY <1>1, NextSettled
<1>2. /\ Settled(Queue, Running, done) /\ Shape(Queue) /\ Queue.stack \in Seq(Items)
      /\ workflow \in Workflows /\ instance \in Nat /\ runData \in RunObjects
  BY DEF LateInv, IInv, Types, Shape, QueueRecords
<1>3. done \in [Nodes -> Seq(Runs)]
  BY <1>2, DoneOfFacts
<1>4. Running = {executionData} => executionData \in Items /\ e \in Nodes
  <2> HAVE Running = {executionData}
  <2>1. pc = "node"
    BY DEF Running
  <2> QED BY <2>1, NodeFacts
<1> HIDE DEF done, done1
<1>5. ASSUME Running = {executionData}, OnRecord, NEW n \in Nodes, NEW r \in DOMAIN done1[n],
             ~Whole(n, done1[n][r].data)
      PROVE  Starved(Queue, Running, done, n)
  <2>1. PICK rec \in Runs : rec.data = executionData.data /\ done1 = More(done, e, rec)
    BY <1>5 DEF OnRecord, done, done1
  <2>2. \/ r \in DOMAIN done[n] /\ ~Whole(n, done[n][r].data)
        \/ n = e /\ ~Whole(e, rec.data)
    <3> HIDE DEF e
    <3> QED BY <1>3, <1>4, <1>5, <2>1, StarvedMore
  <2> QED BY <1>5, <2>1, <2>2 DEF Starved
<1>6. CASE Stays
  <2>1. InLine(NextQueue, NextRunning) \subseteq InLine(Queue, Running)
    BY <1>6 DEF Stays, SameQueue, InLine
  <2>2. \A n \in Nodes : Starved(NextQueue, NextRunning, done1, n) => Starved(Queue, Running, done, n)
    BY <1>6 DEF Stays, SameQueue, NoMoreRuns, Starved, done, done1
  <2> QED BY <1>2, <2>1, <2>2, SettledLess
<1>7. CASE Leaves
  <2> DEFINE s == Queue.stack
             t == Tail(s)
  <2>1. s \in Seq(Items) /\ s # <<>>
    BY <1>2, <1>7 DEF Leaves
  <2>2. /\ 1 \in DOMAIN s /\ Head(s) = s[1]
        /\ \A k \in DOMAIN t : k + 1 \in DOMAIN s /\ t[k] = s[k + 1]
    <3> HIDE DEF s
    <3>1. Len(s) \in Nat /\ Len(s) # 0 /\ DOMAIN s = 1..Len(s)
      BY <2>1, EmptySeq, LenProperties
    <3>2. /\ t \in Seq(Items) /\ Len(t) = Len(s) - 1 /\ Head(s) = s[1]
          /\ \A k \in 1..Len(t) : t[k] = s[k + 1]
      BY <2>1, HeadTailProperties
    <3>3. DOMAIN t = 1..Len(t)
      BY <3>2, LenProperties
    <3> QED BY <3>1, <3>2, <3>3
  <2>3. /\ NextQueue.stack = t /\ NextQueue.nodes = Queue.nodes /\ done1 = done
        /\ NextRunning = {Head(s)} \/ NextRunning = {}
    BY <1>7 DEF Leaves, done, done1
  <2> HIDE DEF t
  <2>4. InLine(NextQueue, NextRunning) \subseteq InLine(Queue, Running)
    BY <2>2, <2>3 DEF InLine
  <2>5. \A n \in Nodes : Starved(NextQueue, NextRunning, done1, n) => Starved(Queue, Running, done, n)
    BY <2>2, <2>3 DEF Starved
  <2> QED BY <1>2, <2>4, <2>5, SettledLess
<1>8. CASE Stops
  <2>1. InLine(NextQueue, NextRunning) \subseteq InLine(Queue, Running)
    BY <1>8 DEF Stops, InLine
  <2>2. \A n \in Nodes : Starved(NextQueue, NextRunning, done1, n) => Starved(Queue, Running, done, n)
    BY <1>8 DEF Stops, Starved, done, done1
  <2> QED BY <1>2, <2>1, <2>2, SettledLess
<1>9. CASE GoesBack
  <2> DEFINE s == <<executionData>> \o Queue.stack
  <2>1. /\ Running = {executionData} /\ NextRunning = {} /\ OnRecord
        /\ NextQueue.nodes = Queue.nodes /\ NextQueue.stack = s
    BY <1>2, <1>9 DEF GoesBack, Enqueued, Shape, QueueRecords
  <2>2. \A k \in DOMAIN s : s[k] = executionData \/ (k - 1 \in DOMAIN Queue.stack /\ s[k] = Queue.stack[k - 1])
    BY <1>2, <1>4, <2>1, PushFacts
  <2> HIDE DEF s
  <2>3. InLine(NextQueue, NextRunning) \subseteq InLine(Queue, Running)
    BY <2>1, <2>2 DEF InLine
  <2>4. \A n \in Nodes : Starved(NextQueue, NextRunning, done1, n) => Starved(Queue, Running, done, n)
    BY <1>5, <2>1, <2>2 DEF Starved
  <2> QED BY <1>2, <2>3, <2>4, SettledLess
<1>10. CASE GoesOn
  <2>1. Running = {executionData} /\ NextRunning = {} /\ OnRecord
    BY <1>10 DEF GoesOn
  <2>2. CASE NextQueue = Queue
    <3>1. InLine(NextQueue, NextRunning) \subseteq InLine(Queue, Running)
      BY <2>1, <2>2 DEF InLine
    <3>2. \A n \in Nodes : Starved(NextQueue, NextRunning, done1, n) => Starved(Queue, Running, done, n)
      BY <1>5, <2>1, <2>2 DEF Starved
    <3> QED BY <1>2, <3>1, <3>2, SettledLess
  <2>3. CASE NextQueue # Queue
    <3> DEFINE run == Len(done[e])
    <3>1. PICK outputs : NextQueue = Search(AddNodes(Queue, e, run, outputs))
      BY <1>10, <2>3 DEF GoesOn, done
    <3> DEFINE p == AddNodes(Queue, e, run, outputs)
    <3>2. Shape(p) /\ Grown(Queue, p, Behind(e))
      <4>1. run \in Nat /\ e \in Nodes
        BY <1>3, <1>4, <2>1, DoneFacts
      <4> HIDE DEF e, run
      <4> QED BY <1>2, <4>1, AddNodesGrown
    <3> HIDE DEF p
    <3>3. \A n \in Nodes : Starved(p, {}, done1, n) => Starved(Queue, {executionData}, done, n)
      BY <1>5, <2>1, <3>2 DEF Starved, Grown, Whole
    <3>4. Settled(p, {}, done1)
      BY <1>2, <1>4, <2>1, <3>2, <3>3, SettledGrown
    <3>5. Settled(Search(p), {}, done1)
      BY <1>2, <3>2, <3>4, SettledSearch
    <3> QED BY <2>1, <3>1, <3>5 DEF p
  <2> QED BY <2>2, <2>3
<1> QED BY <1>1, <1>6, <1>7, <1>8, <1>9, <1>10

\* It is so when the engine starts: every node but the first is given its data, and the first
\* is the only one in line.
LEMMA InitLate ==
  ASSUME Init
  PROVE  LateInv
<1>1. IInv /\ pc = "loop" /\ runData = <<>> /\ waitingNodes = <<>>
  BY InitInvariant DEF Init
<1>2. /\ nodeExecutionStack = <<Item(workflow.start, StartData, <<>>)>>
      /\ Item(workflow.start, StartData, <<>>).node = workflow.start
  BY DEF Init, Item
<1>3. InLine(Queue, Running) \subseteq {workflow.start}
  BY <1>1, <1>2 DEF InLine, Queue, Running, Range
<1>4. \A n \in Nodes : Starved(Queue, Running, DoneOf(runData), n) => n = workflow.start
  BY <1>1, <1>2 DEF Starved, Queue, Running, DoneOf
<1>5. \A n : n \notin ParentNodes(n)
  BY DEF ParentNodes
<1> QED BY <1>3, <1>4, <1>5 DEF LateInv, Settled

\* What a step sends comes from a node that is in line, over one of its connections.
LEMMA NoLateStep ==
  ASSUME IInv, LateInv, [Next]_vars
  PROVE  \A t \in delivered' \ delivered : RanWithout(t.to, t.index) => ~Acyclic
<1> SUFFICES ASSUME NEW t \in delivered' \ delivered, RanWithout(t.to, t.index), Acyclic PROVE FALSE
  OBVIOUS
<1> DEFINE e == executionData.node
           n == t.to
           done == DoneOf(runData)
<1>1. GoesOn
  BY StepKinds DEF Stays, Leaves, Stops, GoesBack
<1>2. Running = {executionData}
  BY <1>1 DEF GoesOn
<1>3. pc = "node"
  BY <1>2 DEF Running
<1>4. e \in Nodes /\ workflow \in Workflows /\ Shape(Queue) /\ runData \in RunObjects
  BY <1>3, NodeFacts
<1>5. PICK outputs : t \in SentAlong(e, Len(done[e]), Range(NodesToAdd(e, outputs)))
  BY <1>1 DEF GoesOn
<1>6. PICK c \in Range(NodesToAdd(e, outputs)) : n = c.node
  BY <1>5 DEF SentAlong
<1>7. c \in Range(ConnectionsOf(e)) /\ c.node \in Nodes
  <2> DEFINE cs == NodesToAdd(e, outputs)
  <2>1. \A k \in DOMAIN cs : \E j \in DOMAIN ConnectionsOf(e) : cs[k] = ConnectionsOf(e)[j]
    BY <1>4, NodesToAddFacts
  <2>2. PICK k \in DOMAIN cs : c = cs[k]
    BY <1>6 DEF Range
  <2> HIDE DEF cs, e
  <2>3. PICK j \in DOMAIN ConnectionsOf(e) : c = ConnectionsOf(e)[j]
    BY <2>1, <2>2
  <2>4. c.node \in Nodes
    BY <1>4, <2>3, InputsFacts
  <2> QED BY <2>3, <2>4 DEF Range
<1>8. e \in ParentNodes(n)
  <2>1. e # n
    BY <1>4, <1>6, <1>7 DEF Acyclic
  <2> QED BY <1>4, <1>6, <1>7, <2>1, ParentsClosed
<1>9. Starved(Queue, Running, done, n)
  <2>1. t.index \in 1..Inputs(n)
    BY DEF RanWithout
  <2>2. CASE \E r \in DOMAIN RunsOf(n) : t.index \notin DOMAIN runData[n][r].data
    <3>1. n \in Nodes /\ n \in DOMAIN runData /\ DoneOf(runData)[n] = runData[n]
      BY <1>6, <1>7, <2>2 DEF RunsOf, DoneOf
    <3> QED BY <2>1, <2>2, <3>1 DEF RunsOf, Starved, Whole
  <2>3. CASE \E k \in DOMAIN nodeExecutionStack :
               nodeExecutionStack[k].node = n /\ t.index \notin DOMAIN nodeExecutionStack[k].data
    BY <2>1, <2>3 DEF Starved, Whole, Queue
  <2> QED BY <2>2, <2>3 DEF RanWithout
<1>10. e \in InLine(Queue, Running)
  BY <1>2 DEF InLine
<1> QED BY <1>6, <1>7, <1>8, <1>9, <1>10 DEF LateInv, Settled

-----------------------------------------------------------------------------
(* Where the data is that was sent.                                        *)

TokenSet == [to: Nodes, index: Numbers, datum: Datum]

Holds(n, data, t) == t.to = n /\ t.index \in DOMAIN data /\ data[t.index] = t.datum

HeldIn(q, t) ==
  \/ \E k \in DOMAIN q.stack : Holds(q.stack[k].node, q.stack[k].data, t)
  \/ \E k \in DOMAIN q.waiting[t.to] : Holds(t.to, q.waiting[t.to][k].data, t)

HeldBy(running, t) == \E item \in running : Holds(item.node, item.data, t)

\* No data is in two places, and what was processed is in none.
Once(q, running, gone) ==
  /\ Alone(q)
  /\ \A item \in running : OutOf(q, item.node, item.data)
  /\ \A t \in gone : ~HeldIn(q, t) /\ ~HeldBy(running, t)

\* What was sent and what was processed is data of runs that are done.
Tokened ==
  /\ delivered \cup consumed \subseteq TokenSet
  /\ result # "canceled" => \A t \in delivered \cup consumed : t.datum \in Known(Done)

OnceInv == Tokened /\ Once(Queue, Running, consumed)

\* The data of an item.
LEMMA TokensFacts ==
  ASSUME NEW item \in Items
  PROVE  /\ Tokens(item) \subseteq TokenSet
         /\ \A t \in Tokens(item) : Holds(item.node, item.data, t) /\ t.datum \in Range(item.data)
         /\ \A t \in TokenSet : Holds(item.node, item.data, t) => t \in Tokens(item)
<1> DEFINE x == item.data
<1>1. item.node \in Nodes /\ x \in Data
  BY DEF Items
<1>2. DOMAIN x \subseteq Numbers /\ \A i \in DOMAIN x : x[i] \in Datum
  BY <1>1, ObjectFacts DEF Data
<1> HIDE DEF x
<1>3. Tokens(item) = { [to |-> item.node, index |-> i, datum |-> x[i]] : i \in DOMAIN x }
  BY DEF Tokens, x
<1>4. ASSUME NEW t \in Tokens(item)
      PROVE  t \in TokenSet /\ Holds(item.node, x, t) /\ t.datum \in Range(x)
  <2>1. PICK i \in DOMAIN x : t = [to |-> item.node, index |-> i, datum |-> x[i]]
    BY <1>3
  <2> QED BY <1>1, <1>2, <2>1 DEF TokenSet, Holds, Range
<1>5. ASSUME NEW t \in TokenSet, Holds(item.node, x, t)
      PROVE  t \in Tokens(item)
  <2>1. t = [to |-> item.node, index |-> t.index, datum |-> x[t.index]] /\ t.index \in DOMAIN x
    BY <1>5 DEF TokenSet, Holds
  <2> QED BY <1>3, <2>1
<1> QED BY <1>4, <1>5 DEF x

\* Data is held if something has it in common with the queue.
LEMMA HeldOut ==
  ASSUME NEW q, NEW t
  PROVE  /\ HeldIn(q, t) <=> ~OutOf(q, t.to, Only(t.index, t.datum))
         /\ \A n, x : OutOf(q, n, x) /\ Holds(n, x, t) => ~HeldIn(q, t)
<1>1. DOMAIN Only(t.index, t.datum) = {t.index} /\ Only(t.index, t.datum)[t.index] = t.datum
  BY DEF Only, Put
<1>2. \A y : Common(y, Only(t.index, t.datum)) <=> t.index \in DOMAIN y /\ y[t.index] = t.datum
  BY <1>1 DEF Common
<1>3. HeldIn(q, t) <=> ~OutOf(q, t.to, Only(t.index, t.datum))
  BY <1>2 DEF HeldIn, OutOf, Holds
<1>4. \A n, x : OutOf(q, n, x) /\ Holds(n, x, t) => ~HeldIn(q, t)
  BY DEF HeldIn, OutOf, Holds, Common
<1> QED BY <1>3, <1>4

\* The head of a stack, and where the others are in the rest.
LEMMA HeadAndRest ==
  ASSUME NEW s \in Seq(Items), s # <<>>
  PROVE  /\ 1 \in DOMAIN s /\ Head(s) = s[1] /\ Head(s) \in Items
         /\ \A k \in DOMAIN Tail(s) : k + 1 \in DOMAIN s /\ Tail(s)[k] = s[k + 1] /\ k \in Nat \ {0}
         /\ \A k \in DOMAIN s : k = 1 \/ (k - 1 \in DOMAIN Tail(s) /\ s[k] = Tail(s)[k - 1])
<1> DEFINE t == Tail(s)
<1>1. Len(s) \in Nat /\ Len(s) # 0 /\ DOMAIN s = 1..Len(s)
  BY EmptySeq, LenProperties
<1>2. /\ t \in Seq(Items) /\ Len(t) = Len(s) - 1 /\ Head(s) = s[1]
      /\ \A k \in 1..Len(t) : t[k] = s[k + 1]
  BY HeadTailProperties
<1>3. DOMAIN t = 1..Len(t)
  BY <1>2, LenProperties
<1>4. Head(s) \in Items
  BY <1>1, <1>2, ElementOfSeq
<1> HIDE DEF t
<1>5. \A k \in DOMAIN t : k + 1 \in DOMAIN s /\ t[k] = s[k + 1] /\ k \in Nat \ {0}
  BY <1>1, <1>2, <1>3
<1>6. \A k \in DOMAIN s : k = 1 \/ (k - 1 \in DOMAIN t /\ s[k] = t[k - 1])
  <2> TAKE k \in DOMAIN s
  <2>1. k # 1 => k - 1 \in 1..Len(t) /\ (k - 1) + 1 = k
    BY <1>1, <1>2
  <2> QED BY <1>2, <1>3, <2>1
<1> QED BY <1>1, <1>2, <1>4, <1>5, <1>6 DEF t

\* What a node sends is new, and after it was added and the search was made no data is in two
\* places, and what was out of the queue is still.
LEMMA SendFacts ==
  ASSUME IInv, Running = {executionData}, NEW outputs
  PROVE  LET n == executionData.node
             run == Len(DoneOf(runData)[n])
             p == AddNodes(Queue, n, run, outputs)
         IN /\ run \in Nat /\ Shape(p) /\ Alone(Search(p))
            /\ Known(DoneOf(runData)) \cap SentBy(n, run) = {}
            /\ \A m \in Nodes : \A y :
                 OutOf(Queue, m, y) /\ Range(y) \cap SentBy(n, run) = {} => OutOf(Search(p), m, y)
<1> DEFINE done == DoneOf(runData)
           n == executionData.node
           run == Len(done[n])
           p == AddNodes(Queue, n, run, outputs)
           D == Known(done)
           F == SentBy(n, run)
           R == Data \X Data
<1>1. pc = "node"
  BY DEF Running
<1>2. /\ Shape(Queue) /\ instance \in Nat /\ workflow \in Workflows
      /\ n \in Nodes /\ done \in [Nodes -> Seq(Runs)]
      /\ Consistent(done, Queue, {executionData})
  BY <1>1, NodeFacts
<1> HIDE DEF done, n
<1>3. run \in Nat /\ DOMAIN done[n] = 1..run
  BY <1>2, DoneFacts
<1>4. D \cap F = {}
  <2> SUFFICES ASSUME NEW e \in D, e \in F PROVE FALSE
    OBVIOUS
  <2>1. n # NoNode /\ e.node = n /\ e.run = run
    BY <1>2, EngineAssumption DEF SentBy
  <2>2. run + 1 \in 1..run
    BY <1>3, <2>1 DEF Known
  <2> QED BY <1>3, <2>2
<1>5. Alone(Queue) /\ AllIn(Queue, D)
  BY <1>2 DEF Consistent
<1>6. Ordered(Queue.stack, R)
  <2>1. Queue.stack \in Seq(Items)
    BY <1>2 DEF Shape, QueueRecords
  <2>2. \A k \in DOMAIN Queue.stack : Queue.stack[k] \in Items
    BY <2>1, LenProperties, ElementOfSeq
  <2> QED BY <2>2 DEF Ordered, Items
<1>7. Newest(R, F, D \cup F)
  BY DEF Newest
<1> HIDE DEF run, D, R
<1>8. /\ Shape(p) /\ Alone(p) /\ AllIn(p, D \cup F) /\ Ordered(p.stack, R)
      /\ \A m \in Nodes : \A y : OutOf(Queue, m, y) /\ Range(y) \cap F = {} => OutOf(p, m, y)
  BY <1>2, <1>3, <1>4, <1>5, <1>6, <1>7, AddNodesFacts
<1> HIDE DEF p, F
<1>9. /\ Alone(Search(p))
      /\ \A m \in Nodes : \A y : OutOf(p, m, y) => OutOf(Search(p), m, y)
  BY <1>2, <1>8, SearchFacts
<1> QED BY <1>3, <1>4, <1>8, <1>9 DEF p, n, done, run, D, F

\* Every step leaves what was sent and what was processed data of runs that are done.
LEMMA TokenedStep ==
  ASSUME IInv, OnceInv, [Next]_vars
  PROVE  Tokened'
<1> DEFINE done == DoneOf(runData)
           done1 == DoneOf(runData')
           e == executionData.node
<1>1. /\ Tokened /\ Shape(Queue) /\ Queue.stack \in Seq(Items) /\ workflow \in Workflows
      /\ runData \in RunObjects /\ done \in [Nodes -> Seq(Runs)]
  BY DoneOfFacts DEF OnceInv, IInv, Types, Shape, QueueRecords
<1>2. Running = {executionData} =>
        /\ pc = "node" /\ executionData \in Items /\ e \in Nodes /\ result = "none" /\ Done = done
        /\ Range(executionData.data) \subseteq Known(done)
  <2> HAVE Running = {executionData}
  <2>1. pc = "node"
    BY DEF Running
  <2>2. Consistent(done, Queue, {executionData}) /\ executionData \in Items /\ e \in Nodes /\ result = "none"
    BY <2>1, NodeFacts
  <2>3. Done = done
    BY <2>1 DEF Done, Undone
  <2> HIDE DEF done, e
  <2> QED BY <2>1, <2>2, <2>3 DEF Consistent
<1>3. Done' = NextDone
  BY DEF Done, NextDone, Undone, NextUndone
<1>4. ASSUME DoneKept, NEW item \in Items, consumed' \subseteq consumed \cup Tokens(item),
             delivered' = delivered, result # "canceled" => Range(item.data) \subseteq Known(Done)
      PROVE  Tokened'
  <2>1. \A t \in Tokens(item) : t \in TokenSet /\ t.datum \in Range(item.data)
    BY <1>4, TokensFacts
  <2>2. delivered' \cup consumed' \subseteq TokenSet
    BY <1>1, <1>4, <2>1 DEF Tokened
  <2>3. ASSUME result' # "canceled", NEW t \in delivered' \cup consumed'
        PROVE  t.datum \in Known(NextDone)
    <3>1. result # "canceled" /\ NextDone = Done
      BY <1>4, <2>3 DEF DoneKept
    <3> QED BY <1>1, <1>4, <2>1, <2>3, <3>1 DEF Tokened
  <2> QED BY <1>3, <2>2, <2>3 DEF Tokened
<1>5. ASSUME DoneKept, consumed' = consumed, delivered' = delivered
      PROVE  Tokened'
  <2>1. result' # "canceled" => result # "canceled" /\ NextDone = Done
    BY <1>5 DEF DoneKept
  <2> QED BY <1>1, <1>3, <1>5, <2>1 DEF Tokened
<1>6. CASE Stays /\ DoneKept
  BY <1>5, <1>6 DEF Stays
<1>7. CASE Leaves /\ DoneKept
  <2>1. Queue.stack # <<>> /\ delivered' = delivered
        /\ consumed' \subseteq consumed \cup Tokens(Head(Queue.stack))
    BY <1>7 DEF Leaves
  <2>2. /\ Head(Queue.stack) \in Items /\ 1 \in DOMAIN Queue.stack
        /\ Head(Queue.stack) = Queue.stack[1]
    BY <1>1, <2>1, HeadAndRest
  <2>3. result # "canceled" => Range(Head(Queue.stack).data) \subseteq Known(Done)
    BY <2>2 DEF IInv, Consistent, AllIn
  <2> QED BY <1>4, <1>7, <2>1, <2>2, <2>3
<1>8. CASE Stops /\ DoneKept
  <2>1. Running = {executionData} /\ delivered' = delivered
        /\ consumed' \subseteq consumed \cup Tokens(executionData)
    BY <1>8 DEF Stops
  <2> QED BY <1>2, <1>4, <1>8, <2>1
<1>9. CASE GoesBack /\ DoneKept
  BY <1>5, <1>9 DEF GoesBack
<1>10. CASE GoesOn
  <2> DEFINE run == Len(done[e])
  <2>1. /\ Running = {executionData} /\ OnRecord /\ result' = "none"
        /\ consumed' = consumed \cup Tokens(executionData)
    BY <1>10 DEF GoesOn
  <2>2. PICK rec \in Runs : done1 = More(done, e, rec)
    BY <2>1 DEF OnRecord
  <2>3. NextDone = done1 /\ Done = done
    BY <1>2, <2>1 DEF NextDone, NextUndone
  <2> HIDE DEF done, done1, e
  <2>4. /\ \A m \in Nodes : DOMAIN done[m] \subseteq DOMAIN done1[m]
        /\ run + 1 \in DOMAIN done1[e] /\ run \in Nat
    BY <1>1, <1>2, <2>1, <2>2, DoneMore, DoneFacts
  <2>5. Known(done) \subseteq Known(done1)
    <3>1. \A d \in Datum : d.node # NoNode => d.node \in Nodes
      BY DEF Datum
    <3> QED BY <2>4, <3>1 DEF Known
  <2>6. SentBy(e, run) \subseteq Known(done1)
    BY <2>4 DEF SentBy, Known
  <2>7. \A t \in Tokens(executionData) : t \in TokenSet /\ t.datum \in Known(done)
    BY <1>2, <2>1, TokensFacts
  <2>8. \A t \in delivered' \ delivered : t \in TokenSet /\ t.datum \in SentBy(e, run)
    <3> TAKE t \in delivered' \ delivered
    <3>1. PICK outputs : t \in SentAlong(e, run, Range(NodesToAdd(e, outputs)))
      BY <1>10 DEF GoesOn, done, e
    <3> DEFINE cs == NodesToAdd(e, outputs)
    <3>2. DOMAIN cs = 1..Len(cs) /\ \A l \in 1..Len(cs) : cs[l] \in Connections /\ cs[l].index \in Numbers /\ cs[l].node \in Nodes
      BY <1>1, <1>2, <2>1, LoopFacts
    <3> HIDE DEF cs
    <3>3. PICK c \in Range(cs) : t = [to |-> c.node, index |-> c.index, datum |-> [node |-> e, run |-> run, output |-> c.output]]
      BY <3>1 DEF SentAlong, cs
    <3>4. c \in Connections /\ c.index \in Numbers /\ c.node \in Nodes
      BY <3>2, <3>3 DEF Range
    <3>5. [node |-> e, run |-> run, output |-> c.output] \in SentBy(e, run)
      BY <1>2, <2>1, <2>4, <3>4 DEF SentBy, Datum, Connections
    <3> QED BY <3>3, <3>4, <3>5 DEF TokenSet, SentBy
  <2>9. /\ delivered' \cup consumed' \subseteq TokenSet
        /\ \A t \in delivered' \cup consumed' : t.datum \in Known(done1)
    BY <1>1, <1>2, <2>1, <2>3, <2>5, <2>6, <2>7, <2>8 DEF Tokened
  <2> QED BY <1>3, <2>3, <2>9 DEF Tokened
<1> QED BY <1>6, <1>7, <1>8, <1>9, <1>10, StepKinds

\* No step puts data in a second place.
LEMMA OnceStep ==
  ASSUME IInv, OnceInv, [Next]_vars
  PROVE  Once(NextQueue, NextRunning, consumed')
<1> DEFINE done == DoneOf(runData)
           e == executionData.node
           x == executionData.data
<1>1. /\ Tokened /\ Shape(Queue) /\ Queue \in QueueRecords
      /\ Queue.stack \in Seq(Items) /\ Queue.waiting \in [Nodes -> Entries]
      /\ Once(Queue, Running, consumed)
  BY DEF OnceInv, IInv, Types, Shape, QueueRecords
<1>2. Running = {executionData} =>
        /\ executionData \in Items /\ e \in Nodes /\ result = "none" /\ Done = done
        /\ Range(x) \subseteq Known(done)
  <2> HAVE Running = {executionData}
  <2>1. pc = "node"
    BY DEF Running
  <2>2. Consistent(done, Queue, {executionData}) /\ executionData \in Items /\ e \in Nodes /\ result = "none"
    BY <2>1, NodeFacts
  <2>3. Done = done
    BY <2>1 DEF Done, Undone
  <2> HIDE DEF done, e
  <2> QED BY <2>1, <2>2, <2>3 DEF Consistent
<1> HIDE DEF done
<1>3. CASE Stays
  <2>1. /\ DOMAIN NextQueue.stack = DOMAIN Queue.stack
        /\ \A k \in DOMAIN Queue.stack : NextQueue.stack[k].node = Queue.stack[k].node
                                         /\ NextQueue.stack[k].data = Queue.stack[k].data
        /\ NextQueue.waiting = Queue.waiting /\ NextRunning = Running /\ consumed' = consumed
    BY <1>3 DEF Stays, SameQueue
  <2>2. Alone(NextQueue)
    BY <1>1, <2>1 DEF Once, Alone
  <2>3. \A item \in NextRunning : OutOf(NextQueue, item.node, item.data)
    BY <1>1, <2>1 DEF Once, OutOf
  <2>4. \A t \in consumed' : ~HeldIn(NextQueue, t) /\ ~HeldBy(NextRunning, t)
    BY <1>1, <2>1 DEF Once, HeldIn
  <2> QED BY <2>2, <2>3, <2>4 DEF Once
<1>4. CASE Leaves
  <2> DEFINE s == Queue.stack
             h == Head(s)
  <2>1. /\ s \in Seq(Items) /\ s # <<>> /\ Running = {}
        /\ NextQueue = [stack |-> Tail(s), waiting |-> Queue.waiting, nodes |-> Queue.nodes]
        /\ \/ NextRunning = {h} /\ consumed' = consumed
           \/ NextRunning = {} /\ consumed' = consumed \cup Tokens(h)
    BY <1>1, <1>4 DEF Leaves
  <2> DEFINE t == Tail(s)
  <2>2. /\ 1 \in DOMAIN s /\ h = s[1] /\ h \in Items
        /\ \A k \in DOMAIN t : k + 1 \in DOMAIN s /\ t[k] = s[k + 1] /\ k \in Nat \ {0}
    BY <2>1, HeadAndRest
  <2>3. NextQueue.stack = t /\ NextQueue.waiting = Queue.waiting
    BY <2>1
  <2>4. h.node \in Nodes
    BY <2>2 DEF Items
  <2> HIDE DEF t, h, s
  <2>5. Alone(NextQueue)
    <3>1. ASSUME NEW j \in DOMAIN t, NEW k \in DOMAIN t, j # k, t[j].node = t[k].node
          PROVE  ~Common(t[j].data, t[k].data)
      <4>1. j + 1 # k + 1
        BY <2>2, <3>1
      <4> QED BY <1>1, <2>2, <3>1, <4>1 DEF Once, Alone, s
    <3>2. \A n \in Nodes : \A k \in DOMAIN Queue.waiting[n] : \A j \in DOMAIN t :
            t[j].node = n => ~Common(t[j].data, Queue.waiting[n][k].data)
      BY <1>1, <2>2 DEF Once, Alone, s
    <3> QED BY <1>1, <2>3, <3>1, <3>2 DEF Once, Alone
  <2>6. OutOf(NextQueue, h.node, h.data)
    <3>1. \A j \in DOMAIN t : t[j].node = h.node => ~Common(t[j].data, h.data)
      <4> TAKE j \in DOMAIN t
      <4>1. j + 1 # 1
        BY <2>2
      <4> QED BY <1>1, <2>2, <4>1 DEF Once, Alone, s
    <3>2. \A k \in DOMAIN Queue.waiting[h.node] : ~Common(Queue.waiting[h.node][k].data, h.data)
      BY <1>1, <2>2, <2>4, CommonBoth DEF Once, Alone, s
    <3> QED BY <2>3, <3>1, <3>2 DEF OutOf
  <2>7. \A u \in consumed : ~HeldIn(NextQueue, u) /\ ~Holds(h.node, h.data, u)
    BY <1>1, <2>2, <2>3 DEF Once, HeldIn, s
  <2>8. \A u \in Tokens(h) : ~HeldIn(NextQueue, u)
    BY <2>2, <2>6, TokensFacts, HeldOut
  <2> QED BY <2>1, <2>5, <2>6, <2>7, <2>8 DEF Once, HeldBy, h
<1>5. CASE Stops
  <2>1. /\ Running = {executionData} /\ NextRunning = {} /\ NextQueue = Queue
        /\ consumed' = consumed \cup Tokens(executionData)
    BY <1>5 DEF Stops
  <2>2. \A u \in Tokens(executionData) : ~HeldIn(Queue, u)
    BY <1>1, <1>2, <2>1, TokensFacts, HeldOut DEF Once
  <2> QED BY <1>1, <2>1, <2>2 DEF Once, HeldBy
<1>6. CASE GoesBack
  <2> DEFINE s == <<executionData>> \o Queue.stack
  <2>1. /\ Running = {executionData} /\ NextRunning = {} /\ consumed' = consumed
        /\ NextQueue.waiting = Queue.waiting /\ NextQueue.stack = s
    BY <1>1, <1>6 DEF GoesBack, Enqueued, QueueRecords
  <2>2. Change(Queue, NextQueue, e, -1, x)
    <3>1. Queue.waiting[e] \in Entries
      BY <1>1, <1>2, <2>1
    <3>2. DOMAIN Queue.waiting[e] \subseteq Indices
      BY <3>1, ObjectFacts DEF Entries
    <3>3. -1 \notin DOMAIN Queue.waiting[e]
      BY <3>2 DEF Indices
    <3> HIDE DEF s
    <3>4. \E item \in Items : item.node = e /\ item.data = x /\ NextQueue.stack = <<item>> \o Queue.stack
      BY <1>2, <2>1 DEF s
    <3> HIDE DEF e, x
    <3> QED BY <2>1, <3>3, <3>4 DEF Change
  <2>3. \A k \in DOMAIN s : s[k] = executionData \/ (k - 1 \in DOMAIN Queue.stack /\ s[k] = Queue.stack[k - 1])
    BY <1>1, <1>2, <2>1, PushFacts
  <2> HIDE DEF s
  <2>4. Apart(Queue, e, -1, x)
    BY <1>1, <2>1 DEF Once, OutOf, Apart
  <2>5. Alone(NextQueue)
    BY <1>1, <1>2, <2>1, <2>2, <2>4, ChangeApart DEF Once
  <2>6. \A u \in consumed : ~HeldIn(NextQueue, u)
    BY <1>1, <2>1, <2>3 DEF Once, HeldIn, HeldBy
  <2> QED BY <2>1, <2>5, <2>6 DEF Once, HeldBy
<1>7. CASE GoesOn
  <2>1. /\ Running = {executionData} /\ NextRunning = {}
        /\ consumed' = consumed \cup Tokens(executionData)
    BY <1>7 DEF GoesOn
  <2>2. \A u \in consumed' : u \in TokenSet /\ u.datum \in Known(done) /\ ~HeldIn(Queue, u)
    <3>1. \A u \in Tokens(executionData) : u \in TokenSet /\ u.datum \in Known(done) /\ ~HeldIn(Queue, u)
      BY <1>1, <1>2, <2>1, TokensFacts, HeldOut DEF Once
    <3>2. \A u \in consumed : u \in TokenSet /\ u.datum \in Known(done) /\ ~HeldIn(Queue, u)
      BY <1>1, <1>2, <2>1 DEF Once, Tokened
    <3> QED BY <2>1, <3>1, <3>2
  <2>3. CASE NextQueue = Queue
    BY <1>1, <2>1, <2>2, <2>3 DEF Once, HeldBy
  <2>4. CASE NextQueue # Queue
    <3> DEFINE run == Len(done[e])
    <3>1. PICK outputs : NextQueue = Search(AddNodes(Queue, e, run, outputs))
      BY <1>7, <2>4 DEF GoesOn, done
    <3>2. /\ Alone(NextQueue)
          /\ Known(done) \cap SentBy(e, run) = {}
          /\ \A m \in Nodes : \A y :
               OutOf(Queue, m, y) /\ Range(y) \cap SentBy(e, run) = {} => OutOf(NextQueue, m, y)
      BY <2>1, <3>1, SendFacts DEF done
    <3> HIDE DEF run
    <3>3. ASSUME NEW u \in consumed' PROVE ~HeldIn(NextQueue, u)
      <4> DEFINE y == Only(u.index, u.datum)
      <4>1. Range(y) = {u.datum}
        BY DEF Only, Put, Range
      <4>2. OutOf(Queue, u.to, y) /\ u.to \in Nodes /\ u.datum \in Known(done)
        BY <2>2, HeldOut DEF TokenSet
      <4> HIDE DEF y
      <4>3. OutOf(NextQueue, u.to, y)
        BY <3>2, <4>1, <4>2
      <4> QED BY <4>3, HeldOut DEF y
    <3> QED BY <2>1, <3>2, <3>3 DEF Once, HeldBy
  <2> QED BY <2>3, <2>4
<1> QED BY <1>3, <1>4, <1>5, <1>6, <1>7, StepKinds

\* It is so when the engine starts.
LEMMA InitOnce ==
  ASSUME Init
  PROVE  OnceInv
<1>1. IInv /\ pc = "loop" /\ result = "none" /\ consumed = {} /\ delivered = {}
  BY InitInvariant DEF Init
<1>2. Running = {}
  BY <1>1 DEF Running
<1>3. Alone(Queue)
  BY <1>1 DEF IInv, Consistent
<1> QED BY <1>1, <1>2, <1>3 DEF OnceInv, Tokened, Once

\* Every step preserves it.
LEMMA NextOnce ==
  ASSUME IInv, OnceInv, [Next]_vars
  PROVE  OnceInv'
<1>1. Queue' = NextQueue /\ Running' = NextRunning
  BY DEF Queue, NextQueue, Running, NextRunning
<1>2. Once(NextQueue, NextRunning, consumed')
  BY OnceStep
<1>3. Once(Queue', Running', consumed')
  BY <1>1, <1>2
<1>4. Tokened'
  BY TokenedStep
<1> QED BY <1>3, <1>4 DEF OnceInv

\* A set without two elements.
LEMMA OneAtMost ==
  ASSUME NEW S, \A x, y \in S : x = y
  PROVE  Cardinality(S) = IF S = {} THEN 0 ELSE 1
<1>1. CASE S = {}
  BY <1>1, FS_EmptySet
<1>2. CASE S # {}
  <2>1. PICK x \in S : TRUE
    BY <1>2
  <2>2. S = {x}
    BY <2>1
  <2>3. Cardinality({x}) = 1
    BY FS_Singleton
  <2> QED BY <1>2, <2>2, <2>3
<1> QED BY <1>1, <1>2

\* In how many places data is.
LEMMA PlacesFacts ==
  ASSUME NEW t, t \in TokenSet, Once(Queue, Running, consumed)
  PROVE  Places(t) = IF HeldIn(Queue, t) \/ HeldBy(Running, t) \/ t \in consumed THEN 1 ELSE 0
<1> DEFINE Has(data) == t.index \in DOMAIN data /\ data[t.index] = t.datum
           waiting == { k \in DOMAIN waitingExecution[t.to] : Has(waitingExecution[t.to][k].data) }
           stacked == { k \in DOMAIN nodeExecutionStack :
                          nodeExecutionStack[k].node = t.to /\ Has(nodeExecutionStack[k].data) }
           running == pc = "node" /\ executionData.node = t.to /\ Has(executionData.data)
<1>1. Places(t) = Cardinality(waiting) + Cardinality(stacked)
                    + (IF running THEN 1 ELSE 0) + (IF t \in consumed THEN 1 ELSE 0)
  BY DEF Places
<1>2. Queue.stack = nodeExecutionStack /\ Queue.waiting = waitingExecution /\ t.to \in Nodes
  BY DEF Queue, TokenSet
<1>3. /\ \A j, k \in waiting : j = k
      /\ \A j, k \in stacked : j = k
      /\ waiting = {} \/ stacked = {}
  BY <1>2 DEF Once, Alone, Common
<1>4. HeldIn(Queue, t) <=> waiting # {} \/ stacked # {}
  BY <1>2 DEF HeldIn, Holds
<1>5. HeldBy(Running, t) <=> running
  BY DEF HeldBy, Running, Holds
<1>6. running => ~HeldIn(Queue, t)
  BY <1>2 DEF Once, OutOf, Common, Running, HeldIn, Holds
<1>7. t \in consumed => ~HeldIn(Queue, t) /\ ~running
  BY <1>5 DEF Once
<1> HIDE DEF waiting, stacked, running
<1>8. /\ Cardinality(waiting) = IF waiting = {} THEN 0 ELSE 1
      /\ Cardinality(stacked) = IF stacked = {} THEN 0 ELSE 1
  BY <1>3, OneAtMost
<1>9. Cardinality(waiting) + Cardinality(stacked) = IF HeldIn(Queue, t) THEN 1 ELSE 0
  BY <1>3, <1>4, <1>8
<1> QED BY <1>1, <1>5, <1>6, <1>7, <1>9

-----------------------------------------------------------------------------
(* No data is lost.                                                        *)

\* Every entry has index 0, or is the second of a node of two inputs, and what it has was the
\* second data for its input.
Second(q, D) ==
  \A n \in Nodes : \A k \in DOMAIN q.waiting[n] :
    \/ k = 0
    \/ /\ k = 1 /\ Inputs(n) = 2
       /\ \A i \in DOMAIN q.waiting[n][k].data :
            \E u \in D : u.to = n /\ u.index = i /\ u.datum # q.waiting[n][k].data[i]

\* What waits was sent.
Traced(q, D) ==
  \A n \in Nodes : \A k \in DOMAIN q.waiting[n] : \A i \in DOMAIN q.waiting[n][k].data :
    [to |-> n, index |-> i, datum |-> q.waiting[n][k].data[i]] \in D

Kept(q, running, gone, D) ==
  /\ Second(q, D) /\ Traced(q, D)
  /\ \A t \in D : HeldIn(q, t) \/ HeldBy(running, t) \/ t \in gone

KeptInv == Few(delivered) => Kept(Queue, Running, consumed, delivered)

\* Few is true of a part.
LEMMA FewLess ==
  ASSUME NEW D, Few(D), NEW C, C \subseteq D
  PROVE  Few(C)
  BY DEF Few

\* How many the indices 0 and 1 are.
LEMMA IndexFacts ==
  ASSUME NEW S, S \subseteq {0, 1}
  PROVE  /\ 1 \notin S => Cardinality(S) \in {0, 1} /\ Cardinality(S) \notin S
         /\ 1 \notin S /\ Cardinality(S) = 1 => 0 \in S
<1>1. Cardinality({}) = 0 /\ Cardinality({0}) = 1
  BY FS_EmptySet, FS_Singleton
<1>2. ASSUME 1 \notin S PROVE S = {} \/ S = {0}
  <2>1. \A x \in S : x = 0
    BY <1>2
  <2>2. CASE 0 \in S
    BY <2>1, <2>2
  <2>3. CASE 0 \notin S
    BY <2>1, <2>3
  <2> QED BY <2>2, <2>3
<1>3. CASE S = {}
  BY <1>1, <1>3
<1>4. CASE S = {0}
  BY <1>1, <1>4
<1> QED BY <1>2, <1>3, <1>4

\* addNodeToBeExecuted() loses no data of a node that is sent few: a new entry has an index that
\* no other entry has.
LEMMA AddKept ==
  ASSUME workflow \in Workflows, NEW q, Shape(q), NEW q1, Shape(q1),
         NEW n \in Nodes, NEW i \in 1..Inputs(n), NEW d \in Datum, Adds(q, q1, n, i, d),
         NEW D, Second(q, D), Traced(q, D),
         NEW t, t = [to |-> n, index |-> i, datum |-> d], t \notin D, Few(D \cup {t})
  PROVE  /\ Second(q1, D \cup {t}) /\ Traced(q1, D \cup {t})
         /\ HeldIn(q1, t)
         /\ \A u \in TokenSet : HeldIn(q, u) => HeldIn(q1, u)
<1> DEFINE W == q.waiting[n]
           V == q1.waiting[n]
           E == D \cup {t}
<1>1. PICK k \in Nat, b \in Data, x \in Data :
        /\ i \notin DOMAIN b /\ DOMAIN x = DOMAIN b \cup {i}
        /\ x[i] = d /\ \A j \in DOMAIN b : x[j] = b[j]
        /\ Chosen(q, n, i, k, b)
        /\ Change(q, q1, n, k, x)
        /\ DOMAIN W \ {k} \subseteq DOMAIN V
  BY DEF Adds
<1>2. /\ q.stack \in Seq(Items) /\ Inputs(n) \in Nat
      /\ \A j \in DOMAIN W : DOMAIN W[j].data \in (SUBSET (1..Inputs(n))) \ {{}, 1..Inputs(n)}
      /\ \A j \in DOMAIN V : DOMAIN V[j].data \in (SUBSET (1..Inputs(n))) \ {{}, 1..Inputs(n)}
  BY InputsFacts DEF Shape, QueueRecords
<1>3. /\ \A m \in Nodes \ {n} : q1.waiting[m] = q.waiting[m]
      /\ \A j \in DOMAIN V \ {k} : j \in DOMAIN W /\ V[j] = W[j]
      /\ \/ /\ k \notin DOMAIN V
            /\ \E item \in Items : item.node = n /\ item.data = x /\ q1.stack = <<item>> \o q.stack
         \/ /\ k \in DOMAIN V /\ V[k].data = x
            /\ q1.stack = q.stack
  BY <1>1 DEF Change
<1>4. /\ \A j \in DOMAIN W : \A l \in DOMAIN W[j].data :
           [to |-> n, index |-> l, datum |-> W[j].data[l]] \in D
      /\ \A j \in DOMAIN W : j = 0 \/
           /\ j = 1 /\ Inputs(n) = 2
           /\ \A l \in DOMAIN W[j].data :
                \E u \in D : u.to = n /\ u.index = l /\ u.datum # W[j].data[l]
  BY DEF Second, Traced
<1> HIDE DEF W, V
\* Data without an entry: the first entry may have its input, the second may not.
<1>5. ASSUME DOMAIN b = {}, k = Cardinality(DOMAIN W), \A j \in DOMAIN W : i \in DOMAIN W[j].data
      PROVE  /\ k \notin DOMAIN W
             /\ k = 0 \/ (k = 1 /\ Inputs(n) = 2 /\ 0 \in DOMAIN W)
  <2>1. DOMAIN W \subseteq {0, 1}
    BY <1>4
  <2>2. 1 \notin DOMAIN W
    <3> SUFFICES ASSUME 1 \in DOMAIN W PROVE FALSE
      OBVIOUS
    <3> DEFINE w == [to |-> n, index |-> i, datum |-> W[1].data[i]]
    <3>1. w \in D /\ w.to = n /\ w.index = i /\ w.datum = W[1].data[i] /\ Inputs(n) = 2
      BY <1>4, <1>5
    <3>2. PICK u \in D : u.to = n /\ u.index = i /\ u.datum # W[1].data[i]
      BY <1>4, <1>5
    <3> HIDE DEF w
    <3>3. w # u /\ w # t /\ u # t /\ t.to = n /\ t.index = i
      BY <3>1, <3>2
    <3>4. w \in D \cup {t} /\ u \in D \cup {t} /\ t \in D \cup {t}
      BY <3>1
    <3> QED BY <3>1, <3>2, <3>3, <3>4 DEF Few
  <2>3. k \in {0, 1} /\ k \notin DOMAIN W /\ (k = 1 => 0 \in DOMAIN W)
    BY <1>5, <2>1, <2>2, IndexFacts
  <2>4. ASSUME 0 \in DOMAIN W PROVE Inputs(n) = 2
    <3> DEFINE w == [to |-> n, index |-> i, datum |-> W[0].data[i]]
    <3>1. w \in D /\ w.to = n /\ w.index = i
      BY <1>4, <1>5, <2>4
    <3>2. ~(Inputs(n) <= 1)
      <4>1. i \in DOMAIN W[0].data /\ DOMAIN W[0].data \subseteq 1..Inputs(n) /\ DOMAIN W[0].data # 1..Inputs(n)
        BY <1>2, <1>5, <2>4
      <4> HIDE DEF w
      <4> SUFFICES ASSUME Inputs(n) <= 1 PROVE FALSE
        OBVIOUS
      <4>2. \A l \in 1..Inputs(n) : l = i
        BY <1>2
      <4> QED BY <4>1, <4>2
    <3> HIDE DEF w
    <3>3. w # t /\ t.to = n /\ t.index = i /\ w \in D \cup {t} /\ t \in D \cup {t}
      BY <3>1
    <3> QED BY <3>1, <3>2, <3>3 DEF Few
  <2> QED BY <2>3, <2>4
<1>6. \/ k \in DOMAIN W /\ b = W[k].data
      \/ DOMAIN b = {} /\ k \notin DOMAIN W /\ \A j \in DOMAIN W : i \in DOMAIN W[j].data
  BY <1>1, <1>5 DEF Chosen, W
<1>7. Traced(q1, E)
  <2> SUFFICES ASSUME NEW m \in Nodes, NEW j \in DOMAIN q1.waiting[m], NEW l \in DOMAIN q1.waiting[m][j].data
               PROVE  [to |-> m, index |-> l, datum |-> q1.waiting[m][j].data[l]] \in E
    BY DEF Traced
  <2>1. CASE m # n
    <3>1. q1.waiting[m] = q.waiting[m]
      BY <1>3, <2>1
    <3> QED BY <3>1 DEF Traced
  <2>2. CASE m = n /\ j # k
    <3>1. j \in DOMAIN W /\ V[j] = W[j]
      BY <1>3, <2>2 DEF V
    <3> QED BY <1>4, <2>2, <3>1 DEF V
  <2>3. CASE m = n /\ j = k
    <3>1. q1.waiting[m][j].data = x
      BY <1>3, <2>3 DEF V
    <3>2. CASE l = i
      BY <1>1, <2>3, <3>1, <3>2
    <3>3. CASE l # i
      <4>1. l \in DOMAIN b /\ x[l] = b[l]
        BY <1>1, <3>1, <3>3
      <4>2. k \in DOMAIN W /\ b = W[k].data
        BY <1>6, <4>1
      <4> QED BY <1>4, <2>3, <3>1, <4>1, <4>2
    <3> QED BY <3>2, <3>3
  <2> QED BY <2>1, <2>2, <2>3
<1>8. Second(q1, E)
  <2> SUFFICES ASSUME NEW m \in Nodes, NEW j \in DOMAIN q1.waiting[m], j # 0
               PROVE  /\ j = 1 /\ Inputs(m) = 2
                      /\ \A l \in DOMAIN q1.waiting[m][j].data :
                           \E u \in E : u.to = m /\ u.index = l /\ u.datum # q1.waiting[m][j].data[l]
    BY DEF Second
  <2>1. CASE m # n \/ j # k
    <3>1. j \in DOMAIN q.waiting[m] /\ q1.waiting[m][j] = q.waiting[m][j]
      BY <1>3, <2>1 DEF V, W
    <3> QED BY <3>1 DEF Second
  <2>2. CASE m = n /\ j = k
    <3>1. k \in DOMAIN V /\ V[k].data = x /\ q1.waiting[m][j] = V[k]
      BY <1>3, <2>2 DEF V
    <3>2. CASE k \in DOMAIN W /\ b = W[k].data
      <4>1. k = 1 /\ Inputs(n) = 2 /\ DOMAIN b # {} /\ DOMAIN b \subseteq 1..2
        BY <1>2, <1>4, <2>2, <3>2
      <4>2. PICK l \in DOMAIN b : l # i /\ l \in 1..2
        BY <1>1, <4>1
      <4>3. l = 1 \/ l = 2
        BY <4>2
      <4>4. i = 1 \/ i = 2
        BY <4>1
      <4>5. 1 \in DOMAIN x /\ 2 \in DOMAIN x
        BY <1>1, <4>2, <4>3, <4>4
      <4>6. DOMAIN x \subseteq 1..2 /\ DOMAIN x # 1..2
        BY <1>2, <3>1, <4>1
      <4>7. \A y \in 1..2 : y = 1 \/ y = 2
        OBVIOUS
      <4> QED BY <4>5, <4>6, <4>7
    <3>3. CASE ~(k \in DOMAIN W /\ b = W[k].data)
      <4>1. DOMAIN b = {} /\ k = 1 /\ Inputs(n) = 2 /\ 0 \in DOMAIN W /\ i \in DOMAIN W[0].data
        BY <1>1, <1>5, <2>2, <3>3 DEF Chosen, W
      <4> DEFINE w == [to |-> n, index |-> i, datum |-> W[0].data[i]]
      <4>2. w \in D /\ w.to = n /\ w.index = i
        BY <1>4, <4>1
      <4>3. w = [to |-> n, index |-> i, datum |-> w.datum]
        OBVIOUS
      <4> HIDE DEF w
      <4>4. w.datum # d
        BY <4>2, <4>3
      <4>5. \A l \in DOMAIN x : l = i /\ x[l] = d
        BY <1>1, <4>1
      <4> QED BY <2>2, <3>1, <4>1, <4>2, <4>4, <4>5
    <3> QED BY <3>2, <3>3
  <2> QED BY <2>1, <2>2
<1>9. ASSUME NEW item \in Items, NEW s, s = <<item>> \o q.stack
      PROVE  /\ 1 \in DOMAIN s /\ s[1] = item
             /\ \A j \in DOMAIN q.stack : j + 1 \in DOMAIN s /\ s[j + 1] = q.stack[j]
  BY <1>2, <1>9, PushFacts
<1>10. ASSUME NEW u, u.to = n, Holds(n, x, u) PROVE HeldIn(q1, u)
  <2>1. CASE k \in DOMAIN V
    BY <1>3, <1>10, <2>1 DEF HeldIn, V
  <2>2. CASE k \notin DOMAIN V
    <3>1. PICK item \in Items : item.node = n /\ item.data = x /\ q1.stack = <<item>> \o q.stack
      BY <1>3, <2>2
    <3>2. 1 \in DOMAIN q1.stack /\ q1.stack[1] = item
      BY <1>9, <3>1
    <3> QED BY <1>10, <3>1, <3>2 DEF HeldIn
  <2> QED BY <2>1, <2>2
<1>11. HeldIn(q1, t)
  <2>1. t.to = n /\ Holds(n, x, t)
    BY <1>1 DEF Holds
  <2> QED BY <1>10, <2>1
<1>12. ASSUME NEW u \in TokenSet, HeldIn(q, u) PROVE HeldIn(q1, u)
  <2>1. CASE \E j \in DOMAIN q.stack : Holds(q.stack[j].node, q.stack[j].data, u)
    <3>1. CASE q1.stack = q.stack
      BY <2>1, <3>1 DEF HeldIn
    <3>2. CASE q1.stack # q.stack
      <4>1. PICK item \in Items : q1.stack = <<item>> \o q.stack
        BY <1>3, <3>2
      <4>2. PICK j \in DOMAIN q.stack : Holds(q.stack[j].node, q.stack[j].data, u)
        BY <2>1
      <4>3. j + 1 \in DOMAIN q1.stack /\ q1.stack[j + 1] = q.stack[j]
        BY <1>9, <4>1, SMTT(30)
      <4> QED BY <4>2, <4>3 DEF HeldIn
    <3> QED BY <3>1, <3>2
  <2>2. CASE \E j \in DOMAIN q.waiting[u.to] : Holds(u.to, q.waiting[u.to][j].data, u)
    <3>1. PICK j \in DOMAIN q.waiting[u.to] : Holds(u.to, q.waiting[u.to][j].data, u)
      BY <2>2
    <3>2. u.to \in Nodes
      BY DEF TokenSet
    <3>3. CASE u.to # n
      <4>1. q1.waiting[u.to] = q.waiting[u.to]
        BY <1>3, <3>2, <3>3
      <4> QED BY <3>1, <4>1 DEF HeldIn
    <3>4. CASE u.to = n /\ j # k
      <4>1. j \in DOMAIN V /\ V[j] = W[j]
        BY <1>1, <1>3, <3>1, <3>4 DEF W
      <4> QED BY <3>1, <3>4, <4>1 DEF HeldIn, V, W
    <3>5. CASE u.to = n /\ j = k
      <4>1. b = W[k].data
        BY <1>6, <3>1, <3>5 DEF W
      <4>2. Holds(n, x, u)
        BY <1>1, <3>1, <3>5, <4>1 DEF Holds, W
      <4> QED BY <1>10, <3>5, <4>2
    <3> QED BY <3>3, <3>4, <3>5
  <2> QED BY <1>12, <2>1, <2>2 DEF HeldIn
<1> QED BY <1>7, <1>8, <1>11, <1>12

\* The search loses none: the entry it deletes goes on the empty stack.
LEMMA SearchKept ==
  ASSUME instance \in Nat, NEW q, Shape(q), NEW D, Second(q, D), Traced(q, D)
  PROVE  LET p == Search(q) IN
         /\ Second(p, D) /\ Traced(p, D)
         /\ \A u \in TokenSet : HeldIn(q, u) => HeldIn(p, u)
<1> DEFINE p == Search(q)
<1> SUFFICES ASSUME p # q
             PROVE  /\ Second(p, D) /\ Traced(p, D)
                    /\ \A u \in TokenSet : HeldIn(q, u) => HeldIn(p, u)
  OBVIOUS
<1>1. /\ q.stack = <<>> /\ Shape(p)
      /\ \E n \in Range(q.nodes), item \in Items : \E k \in DOMAIN q.waiting[n] :
           /\ item.node = n /\ item.data = q.waiting[n][k].data
           /\ p.stack = <<item>>
           /\ p.waiting = [q.waiting EXCEPT ![n] = Without(q.waiting[n], k)]
  <2>1. /\ q.stack = <<>> /\ Shape(p)
        /\ \E n \in Range(q.nodes), item \in Items : \E k \in DOMAIN q.waiting[n] :
             /\ MayRun(q, n)
             /\ item.node = n /\ item.data = q.waiting[n][k].data
             /\ item.source = q.waiting[n][k].source
             /\ p.stack = <<item>>
             /\ p.waiting = [q.waiting EXCEPT ![n] = Without(q.waiting[n], k)]
    BY SearchCases
  <2> HIDE DEF p
  <2> QED BY <2>1
<1> HIDE DEF p
<1>2. PICK n \in Range(q.nodes), item \in Items : \E k \in DOMAIN q.waiting[n] :
           /\ item.node = n /\ item.data = q.waiting[n][k].data
           /\ p.stack = <<item>>
           /\ p.waiting = [q.waiting EXCEPT ![n] = Without(q.waiting[n], k)]
  BY <1>1
<1>3. PICK k \in DOMAIN q.waiting[n] :
           /\ item.node = n /\ item.data = q.waiting[n][k].data
           /\ p.stack = <<item>>
           /\ p.waiting = [q.waiting EXCEPT ![n] = Without(q.waiting[n], k)]
  BY <1>2
<1> DEFINE left == Without(q.waiting[n], k)
<1>4. /\ q.waiting \in [Nodes -> Entries] /\ n \in Nodes
  BY DEF Shape, QueueRecords
<1>5. /\ DOMAIN left = DOMAIN q.waiting[n] \ {k}
      /\ \A j \in DOMAIN left : left[j] = q.waiting[n][j]
  BY DEF Without
<1> HIDE DEF left
<1>6. p.waiting[n] = left /\ \A m \in Nodes \ {n} : p.waiting[m] = q.waiting[m]
  BY <1>3, <1>4 DEF left
<1>7. \A m \in Nodes : \A j \in DOMAIN p.waiting[m] :
        j \in DOMAIN q.waiting[m] /\ p.waiting[m][j] = q.waiting[m][j]
  BY <1>5, <1>6
<1>8. Second(p, D) /\ Traced(p, D)
  BY <1>7 DEF Second, Traced
<1>9. 1 \in DOMAIN p.stack /\ p.stack[1] = item /\ DOMAIN q.stack = {}
  BY <1>1, <1>3
<1>10. ASSUME NEW u \in TokenSet, HeldIn(q, u) PROVE HeldIn(p, u)
  <2>1. PICK j \in DOMAIN q.waiting[u.to] : Holds(u.to, q.waiting[u.to][j].data, u)
    BY <1>9, <1>10 DEF HeldIn
  <2>2. u.to \in Nodes
    BY DEF TokenSet
  <2>3. CASE u.to = n /\ j = k
    <3>1. Holds(item.node, item.data, u)
      BY <1>3, <2>1, <2>3
    <3>2. 1 \in DOMAIN p.stack /\ Holds(p.stack[1].node, p.stack[1].data, u)
      BY <1>9, <3>1
    <3> QED BY <3>2 DEF HeldIn
  <2>4. CASE ~(u.to = n /\ j = k)
    <3>1. j \in DOMAIN p.waiting[u.to] /\ p.waiting[u.to][j] = q.waiting[u.to][j]
      BY <1>5, <1>6, <2>1, <2>2, <2>4
    <3> QED BY <2>1, <3>1 DEF HeldIn
  <2> QED BY <2>3, <2>4
<1> QED BY <1>8, <1>10

\* What a node sends is held by the queue after it was added, and what was held is still.
LEMMA SentKept ==
  ASSUME workflow \in Workflows, instance \in Nat, NEW q, Shape(q),
         NEW n \in Nodes, NEW run \in Nat, NEW outputs,
         NEW D, \A t \in D : t.datum \notin SentBy(n, run), Second(q, D), Traced(q, D),
         Few(D \cup SentAlong(n, run, Range(NodesToAdd(n, outputs))))
  PROVE  LET p == Search(AddNodes(q, n, run, outputs))
             E == D \cup SentAlong(n, run, Range(NodesToAdd(n, outputs)))
         IN /\ Second(p, E) /\ Traced(p, E)
            /\ \A u \in TokenSet : HeldIn(q, u) => HeldIn(p, u)
            /\ \A t \in E \ D : HeldIn(p, t)
<1> DEFINE cs == NodesToAdd(n, outputs)
           sent(c) == [node |-> n, run |-> run, output |-> c.output]
           token(i) == [to |-> cs[i].node, index |-> cs[i].index, datum |-> sent(cs[i])]
           F(i) == { token(j) : j \in 1..i }
           E == D \cup SentAlong(n, run, Range(cs))
<1>1. /\ Len(cs) \in Nat /\ DOMAIN cs = 1..Len(cs) /\ IsInjective(cs)
      /\ \A l \in 1..Len(cs) : /\ cs[l] \in Connections /\ cs[l].index \in 1..Inputs(cs[l].node)
                              /\ cs[l].node \in Nodes /\ cs[l].index \in Numbers
  BY LoopFacts
<1>2. PICK f : Loops(f, q, n, run, cs) /\ AddNodes(q, n, run, outputs) = f[Len(cs)]
  <2>1. \E f : Loops(f, q, n, run, cs) /\ AddNodes(q, n, run, outputs) = f[Len(cs)]
    BY LoopFacts
  <2> QED BY <2>1
<1> HIDE DEF cs
<1>3. \A l \in 1..Len(cs) : sent(cs[l]) \in Datum /\ sent(cs[l]) \in SentBy(n, run)
  BY <1>1 DEF Connections, Datum, SentBy
<1>4. \A l \in 1..Len(cs) : token(l) \in TokenSet /\ token(l) \notin D
  BY <1>1, <1>3 DEF TokenSet
<1>5. \A j, l \in 1..Len(cs) : token(j) = token(l) => j = l
  <2> SUFFICES ASSUME NEW j \in 1..Len(cs), NEW l \in 1..Len(cs), token(j) = token(l)
               PROVE  j = l
    OBVIOUS
  <2>1. cs[j].node = cs[l].node /\ cs[j].index = cs[l].index /\ sent(cs[j]) = sent(cs[l])
    OBVIOUS
  <2>2. cs[j].output = cs[l].output
    BY <2>1
  <2>3. cs[j] = cs[l]
    BY <1>1, <2>1, <2>2 DEF Connections
  <2> QED BY <1>1, <2>3 DEF IsInjective
<1>6. D \cup F(Len(cs)) = E
  <2>1. \A t : t \in F(Len(cs)) <=> \E l \in DOMAIN cs : t = token(l)
    BY <1>1
  <2>2. \A t : t \in SentAlong(n, run, Range(cs)) <=> \E l \in DOMAIN cs : t = token(l)
    BY DEF SentAlong, Range
  <2> HIDE DEF F, token
  <2> QED BY <2>1, <2>2
<1> DEFINE Loop(i) == /\ Shape(f[i]) /\ Second(f[i], D \cup F(i)) /\ Traced(f[i], D \cup F(i))
                      /\ \A u \in TokenSet : HeldIn(q, u) => HeldIn(f[i], u)
                      /\ \A t \in F(i) : HeldIn(f[i], t)
           S == { i \in 0..Len(cs) : Loop(i) }
<1>7. 0 \in S
  <2>1. F(0) = {}
    OBVIOUS
  <2>2. f[0] = q /\ D \cup F(0) = D
    BY <1>2, <2>1 DEF Loops
  <2>3. Loop(0)
    <3> HIDE DEF F
    <3> QED BY <2>1, <2>2
  <2> HIDE DEF Loop
  <2> QED BY <1>1, <2>3
<1>8. ASSUME NEW i \in 1..Len(cs), i - 1 \in S PROVE i \in S
  <2> DEFINE p == f[i - 1]
             c == cs[i]
             C == D \cup F(i - 1)
             t == token(i)
  <2>1. Loop(i - 1)
    BY <1>8
  <2>2. f[i] = AddNodeToBeExecuted(p, c, sent(c))
    BY <1>2 DEF Loops
  <2>3. c \in Connections /\ c.index \in 1..Inputs(c.node) /\ c.node \in Nodes
    BY <1>1
  <2>4. F(i) = F(i - 1) \cup {t} /\ t \notin C
    <3>1. \A u : u \in F(i) <=> \E l \in 1..i : u = token(l)
      OBVIOUS
    <3>2. \A u : u \in F(i - 1) <=> \E l \in 1..(i - 1) : u = token(l)
      OBVIOUS
    <3>3. \A l : l \in 1..i <=> l \in 1..(i - 1) \/ l = i
      BY <1>1
    <3>4. i \in 1..Len(cs) /\ \A l \in 1..(i - 1) : l \in 1..Len(cs) /\ l # i
      BY <1>1
    <3>5. t \notin F(i - 1)
      <4> HIDE DEF F, token
      <4> QED BY <1>5, <3>2, <3>4 DEF t
    <3> HIDE DEF F, token
    <3>6. F(i) = F(i - 1) \cup {t}
      BY <3>1, <3>2, <3>3
    <3> QED BY <1>4, <3>4, <3>5, <3>6
  <2>5. C \cup {t} = D \cup F(i)
    BY <2>4
  <2>6. Few(C \cup {t})
    <3>1. D \cup F(i) \subseteq D \cup F(Len(cs))
      <4>1. \A l \in 1..i : l \in 1..Len(cs)
        BY <1>1
      <4> QED BY <4>1
    <3> HIDE DEF F, E, C, t
    <3>2. Few(E)
      BY DEF E, cs
    <3> QED BY <1>6, <2>5, <3>1, <3>2, FewLess
  <2>7. t = [to |-> c.node, index |-> c.index, datum |-> sent(c)] /\ sent(c) \in Datum
    BY <1>3
  <2>8. t \in TokenSet
    BY <1>4
  <2> DEFINE d == sent(c)
  <2> HIDE DEF p, c, C, t, d, F
  <2>9. Shape(p) /\ Second(p, C) /\ Traced(p, C)
    BY <2>1 DEF p, C
  <2>10. Shape(f[i]) /\ Adds(p, f[i], c.node, c.index, d)
    BY <2>2, <2>3, <2>7, <2>9, AddOne DEF d
  <2>11. /\ Second(f[i], C \cup {t}) /\ Traced(f[i], C \cup {t})
         /\ HeldIn(f[i], t)
         /\ \A u \in TokenSet : HeldIn(p, u) => HeldIn(f[i], u)
    BY <2>3, <2>4, <2>6, <2>7, <2>9, <2>10, AddKept DEF d
  <2>12. \A u \in F(i) : HeldIn(f[i], u)
    <3>1. \A u \in F(i - 1) : u \in TokenSet /\ HeldIn(p, u)
      <4>1. \A l \in 1..(i - 1) : l \in 1..Len(cs)
        BY <1>1
      <4>2. \A u \in F(i - 1) : \E l \in 1..(i - 1) : u = token(l)
        BY DEF F
      <4> HIDE DEF token
      <4>3. \A u \in F(i - 1) : u \in TokenSet
        BY <1>4, <4>1, <4>2
      <4> QED BY <2>1, <4>3 DEF p
    <3> QED BY <2>4, <2>11, <3>1
  <2>13. \A u \in TokenSet : HeldIn(q, u) => HeldIn(f[i], u)
    BY <2>1, <2>11 DEF p
  <2>14. Loop(i)
    BY <2>5, <2>10, <2>11, <2>12, <2>13
  <2> HIDE DEF Loop
  <2> QED BY <2>14
<1>9. Loop(Len(cs))
  <2>1. Len(cs) \in S
    <3> HIDE DEF S
    <3> QED BY <1>1, <1>7, <1>8, UpTo
  <2> QED BY <2>1
<1> DEFINE a == f[Len(cs)]
<1> HIDE DEF E, F
<1>10. /\ Shape(a) /\ Second(a, E) /\ Traced(a, E)
       /\ \A u \in TokenSet : HeldIn(q, u) => HeldIn(a, u)
       /\ \A t \in E \ D : HeldIn(a, t)
  BY <1>6, <1>9
<1>11. \A t \in E \ D : t \in TokenSet
  BY <1>1, <1>4, <1>6 DEF F
<1> HIDE DEF a
<1>12. /\ Second(Search(a), E) /\ Traced(Search(a), E)
       /\ \A u \in TokenSet : HeldIn(a, u) => HeldIn(Search(a), u)
  BY <1>10, SearchKept
<1>13. a = AddNodes(q, n, run, outputs)
  BY <1>2 DEF a
<1> QED BY <1>10, <1>11, <1>12, <1>13 DEF E, cs

\* What is true of the state after a step.
LEMMA NextKept ==
  ASSUME workflow' = workflow,
         Few(delivered') => Kept(NextQueue, NextRunning, consumed', delivered')
  PROVE  KeptInv'
<1>1. \A n : Inputs(n)' = Inputs(n)
  BY DEF Inputs, ConnectionsTo, ConnectionsOf
<1>2. Queue' = NextQueue /\ Running' = NextRunning
  BY DEF Queue, NextQueue, Running, NextRunning
<1>3. (Few(delivered))' => Few(delivered')
  BY <1>1 DEF Few
<1>4. Kept(Queue', Running', consumed', delivered') => (Kept(Queue, Running, consumed, delivered))'
  <2>1. Second(Queue', delivered') => (Second(Queue, delivered))'
    BY <1>1 DEF Second
  <2>2. Traced(Queue', delivered') => (Traced(Queue, delivered))'
    BY DEF Traced
  <2> QED BY <2>1, <2>2 DEF Kept
<1> QED BY <1>2, <1>3, <1>4 DEF KeptInv

\* It is so when the engine starts.
LEMMA InitKept ==
  ASSUME Init
  PROVE  KeptInv
<1>1. delivered = {} /\ \A n \in Nodes : DOMAIN waitingExecution[n] = {}
  BY DEF Init
<1>2. Second(Queue, delivered) /\ Traced(Queue, delivered)
  BY <1>1 DEF Second, Traced, Queue
<1> QED BY <1>1, <1>2 DEF KeptInv, Kept

\* No step loses data.
LEMMA KeptStep ==
  ASSUME IInv, OnceInv, KeptInv, [Next]_vars
  PROVE  KeptInv'
<1> DEFINE done == DoneOf(runData)
           e == executionData.node
<1>1. workflow' = workflow /\ (Stays \/ Leaves \/ Stops \/ GoesBack \/ GoesOn)
  BY StepKinds
<1> SUFFICES ASSUME Few(delivered') PROVE Kept(NextQueue, NextRunning, consumed', delivered')
  BY <1>1, NextKept
<1>2. delivered \subseteq delivered'
  BY <1>1 DEF Stays, Leaves, Stops, GoesBack, GoesOn
<1>3. Kept(Queue, Running, consumed, delivered)
  BY <1>2, FewLess DEF KeptInv
<1>4. /\ Tokened /\ Shape(Queue) /\ Queue \in QueueRecords /\ Queue.stack \in Seq(Items)
      /\ workflow \in Workflows /\ instance \in Nat /\ delivered \subseteq TokenSet
  BY DEF OnceInv, Tokened, IInv, Types, Shape, QueueRecords
<1>5. Running = {executionData} =>
        /\ executionData \in Items /\ e \in Nodes /\ result = "none" /\ Done = done
  <2> HAVE Running = {executionData}
  <2>1. pc = "node"
    BY DEF Running
  <2>2. executionData \in Items /\ e \in Nodes /\ result = "none"
    BY <2>1, NodeFacts
  <2>3. Done = done
    BY <2>1 DEF Done, Undone
  <2> QED BY <2>2, <2>3
<1> HIDE DEF done, e
\* The waiting area stays as it is.
<1>6. ASSUME NextQueue.waiting = Queue.waiting, delivered' = delivered,
             \A t \in delivered : HeldIn(Queue, t) \/ HeldBy(Running, t) \/ t \in consumed =>
                                  HeldIn(NextQueue, t) \/ HeldBy(NextRunning, t) \/ t \in consumed'
      PROVE  Kept(NextQueue, NextRunning, consumed', delivered')
  <2>1. Second(NextQueue, delivered') /\ Traced(NextQueue, delivered')
    BY <1>3, <1>6 DEF Kept, Second, Traced
  <2> QED BY <1>3, <1>6, <2>1 DEF Kept
<1>7. CASE Stays
  <2>1. /\ \A k \in DOMAIN Queue.stack : k \in DOMAIN NextQueue.stack
             /\ NextQueue.stack[k].node = Queue.stack[k].node
             /\ NextQueue.stack[k].data = Queue.stack[k].data
        /\ NextQueue.waiting = Queue.waiting /\ NextRunning = Running
        /\ consumed' = consumed /\ delivered' = delivered
    BY <1>7 DEF Stays, SameQueue
  <2>2. \A t \in delivered : HeldIn(Queue, t) => HeldIn(NextQueue, t)
    BY <2>1 DEF HeldIn
  <2> QED BY <1>6, <2>1, <2>2
<1>8. CASE Leaves
  <2> DEFINE s == Queue.stack
             r == Tail(s)
             h == Head(s)
  <2>1. /\ s # <<>> /\ Running = {} /\ delivered' = delivered
        /\ NextQueue = [stack |-> r, waiting |-> Queue.waiting, nodes |-> Queue.nodes]
        /\ \/ NextRunning = {h} /\ consumed' = consumed
           \/ NextRunning = {} /\ consumed' = consumed \cup Tokens(h)
    BY <1>8 DEF Leaves
  <2>2. /\ h = s[1] /\ h \in Items
        /\ \A k \in DOMAIN s : k = 1 \/ (k - 1 \in DOMAIN r /\ s[k] = r[k - 1])
    BY <1>4, <2>1, HeadAndRest
  <2>3. NextQueue.stack = r /\ NextQueue.waiting = Queue.waiting
    BY <2>1
  <2> HIDE DEF r, h, s
  <2>4. ASSUME NEW t \in delivered, HeldIn(Queue, t)
        PROVE  HeldIn(NextQueue, t) \/ Holds(h.node, h.data, t)
    BY <2>2, <2>3, <2>4 DEF HeldIn, s
  <2>5. \A t \in delivered : Holds(h.node, h.data, t) => HeldBy(NextRunning, t) \/ t \in consumed'
    BY <1>4, <2>1, <2>2, TokensFacts DEF HeldBy
  <2>6. consumed \subseteq consumed' /\ \A t : ~HeldBy(Running, t)
    BY <2>1 DEF HeldBy
  <2> QED BY <1>6, <2>1, <2>3, <2>4, <2>5, <2>6
<1>9. CASE Stops
  <2>1. /\ Running = {executionData} /\ NextQueue = Queue /\ delivered' = delivered
        /\ consumed' = consumed \cup Tokens(executionData)
    BY <1>9 DEF Stops
  <2>2. \A t \in delivered : HeldBy(Running, t) => t \in consumed'
    BY <1>4, <1>5, <2>1, TokensFacts DEF HeldBy
  <2> QED BY <1>6, <2>1, <2>2
<1>10. CASE GoesBack
  <2> DEFINE s == <<executionData>> \o Queue.stack
  <2>1. /\ Running = {executionData} /\ consumed' = consumed /\ delivered' = delivered
        /\ NextQueue.waiting = Queue.waiting /\ NextQueue.stack = s
    BY <1>4, <1>10 DEF GoesBack, Enqueued, QueueRecords
  <2>2. /\ 1 \in DOMAIN s /\ s[1] = executionData
        /\ \A k \in DOMAIN Queue.stack : k + 1 \in DOMAIN s /\ s[k + 1] = Queue.stack[k]
    BY <1>4, <1>5, <2>1, PushFacts
  <2> HIDE DEF s
  <2>3. \A t \in delivered : HeldIn(Queue, t) => HeldIn(NextQueue, t)
    BY <2>1, <2>2 DEF HeldIn
  <2>4. \A t \in delivered : HeldBy(Running, t) => HeldIn(NextQueue, t)
    BY <2>1, <2>2 DEF HeldIn, HeldBy
  <2> QED BY <1>6, <2>1, <2>3, <2>4
<1>11. CASE GoesOn
  <2>1. /\ Running = {executionData} /\ consumed' = consumed \cup Tokens(executionData)
    BY <1>11 DEF GoesOn
  <2>2. \A t \in delivered : HeldBy(Running, t) => t \in consumed'
    BY <1>4, <1>5, <2>1, TokensFacts DEF HeldBy
  <2>3. CASE NextQueue = Queue /\ delivered' = delivered
    BY <1>6, <2>1, <2>2, <2>3
  <2>4. CASE ~(NextQueue = Queue /\ delivered' = delivered)
    <3> DEFINE run == Len(done[e])
    <3>1. PICK outputs :
            /\ NextQueue = Search(AddNodes(Queue, e, run, outputs))
            /\ delivered' = delivered \cup SentAlong(e, run, Range(NodesToAdd(e, outputs)))
      BY <1>11, <2>4 DEF GoesOn, done, e
    <3>2. run \in Nat /\ Known(done) \cap SentBy(e, run) = {}
      BY <2>1, SendFacts DEF done, e
    <3> HIDE DEF run
    <3>3. \A t \in delivered : t.datum \notin SentBy(e, run)
      <4>1. \A t \in delivered : t.datum \in Known(done)
        BY <1>4, <1>5, <2>1 DEF Tokened
      <4> QED BY <3>2, <4>1
    <3>4. /\ Second(NextQueue, delivered') /\ Traced(NextQueue, delivered')
          /\ \A u \in TokenSet : HeldIn(Queue, u) => HeldIn(NextQueue, u)
          /\ \A t \in delivered' \ delivered : HeldIn(NextQueue, t)
      <4>1. Few(delivered \cup SentAlong(e, run, Range(NodesToAdd(e, outputs))))
        BY <3>1
      <4>2. Second(Queue, delivered) /\ Traced(Queue, delivered)
        BY <1>3 DEF Kept
      <4> QED BY <1>4, <1>5, <2>1, <3>1, <3>2, <3>3, <4>1, <4>2, SentKept
    <3>5. \A t \in delivered' : HeldIn(NextQueue, t) \/ t \in consumed'
      BY <1>3, <1>4, <2>1, <2>2, <3>4 DEF Kept
    <3> QED BY <3>4, <3>5 DEF Kept
  <2> QED BY <2>3, <2>4
<1> QED BY <1>1, <1>7, <1>8, <1>9, <1>10, <1>11

-----------------------------------------------------------------------------
(* The theorems.                                                           *)

\* The invariant holds in every state (processRunExecutionData(), retry(), and what
\* starts an execution again).
THEOREM Invariance == Spec => []IInv
<1>1. Init => IInv
  BY InitInvariant
<1>2. IInv /\ [Next]_vars => IInv'
  BY NextInvariant
<1> QED BY <1>1, <1>2, PTL DEF Spec

\* Types are correct: of the stack, of the waiting area and its list of nodes, whose entries
\* are never complete or empty, and of the runs (run(), addNodeToBeExecuted()).
THEOREM TypeCorrect == Spec => []TypeOK
<1>1. IInv => TypeOK
  BY TypesType DEF IInv
<1> QED BY <1>1, Invariance, PTL

\* While an engine works, data is the input of one run at most, and of none while its item is
\* still to be executed, through every failure, wait, resume and retry.
THEOREM DataRecordedOnce == Spec => []RecordedOnce
<1>1. IInv => RecordedOnce
  BY RecordedFact
<1> QED BY <1>1, Invariance, PTL

\* A state of the engine is consistent, if no node of a workflow has more than two inputs:
\* with three, addNodeToBeExecuted() has forgotten the first source when the third comes.
THEOREM StateConsistent == TwoInputs => (Spec => []Inv)
<1>1. IInv /\ TwoInputs => Inv
  BY TypesType, RecordedFact DEF IInv, Inv, Sources, SourceOK, SourceMatchesData
<1> SUFFICES ASSUME TwoInputs PROVE Spec => []Inv
  OBVIOUS
<1>2. IInv => Inv
  BY <1>1
<1> QED BY <1>2, Invariance, PTL

\* A node is left waiting by an execution that succeeds only if its type requires data that
\* has not come, or a node that leads to it is left waiting: the search of
\* processRunExecutionData() overlooks none.
THEOREM WaitingServed == Spec => []ServedUnlessRequired
<1>1. IInv => ServedUnlessRequired
  BY DEF IInv, Rested, ServedUnlessRequired
<1> QED BY <1>1, Invariance, PTL

\* A branch is executed to its end before the next one begins: addNodeToBeExecuted() puts
\* nodes on top of the stack, and nothing below was sent by a later run.
THEOREM BranchesInOrder == Spec => []BranchOrder
<1>1. IInv => BranchOrder
  BY OrderFact
<1> QED BY <1>1, Invariance, PTL

\* A node that was executed without data on an input gets none for it afterwards, in a
\* workflow without loops: processRunExecutionData() searches when nothing is left to execute, and
\* picks a node that nothing that waits leads to.
THEOREM NoDataLate == Spec => NoLateData
<1>1. Init => IInv /\ LateInv
  BY InitInvariant, InitLate
<1>2. IInv /\ LateInv /\ [Next]_vars => (IInv /\ LateInv)'
  BY NextInvariant, LateStep
<1>3. IInv /\ LateInv /\ [Next]_vars
        => [\A t \in delivered' \ delivered : RanWithout(t.to, t.index) => ~Acyclic]_vars
  BY NoLateStep
<1> QED BY <1>1, <1>2, <1>3, PTL DEF Spec, NoLateData

\* Data that was sent is never in two places: no failure, wait, resume or retry hands it to two
\* runs, and addNodeToBeExecuted() leaves none behind in the waiting area that it puts on the
\* stack. And none is lost, as long as no new entry is given the index of another one.
THEOREM DataIsKept == Spec => []DataKept
<1>1. Init => IInv /\ OnceInv /\ KeptInv
  BY InitInvariant, InitOnce, InitKept
<1>2. IInv /\ OnceInv /\ KeptInv /\ [Next]_vars => (IInv /\ OnceInv /\ KeptInv)'
  BY NextInvariant, NextOnce, KeptStep
<1>3. OnceInv /\ KeptInv => DataKept
  BY PlacesFacts DEF OnceInv, KeptInv, Kept, Tokened, DataKept
<1> QED BY <1>1, <1>2, <1>3, PTL DEF Spec

=============================================================================
