----------------------------- MODULE QueueFacts -----------------------------
(***************************************************************************)
(* What the operations on lists do: on sequences, which the models keep    *)
(* their queues, stacks and channels in, and on the queue behind the       *)
(* production concurrency limit, for whoever keeps such a queue.           *)
(***************************************************************************)
EXTENDS Integers, Sequences, FiniteSets, SequencesExt, ConcurrencyQueue,
        FiniteSetTheorems, SequenceTheorems, WellFoundedInduction, TLAPS

-----------------------------------------------------------------------------
(* Sequences.                                                              *)

\* A non-empty set of numbers has a least element: among the intervals that end
\* in one of them, one is included in all the others.
LEMMA LeastElement ==
  ASSUME NEW S \in SUBSET Nat, S # {}
  PROVE  \E m \in S : \A n \in S : m <= n
<1> DEFINE R == StrictSubsetOrdering(Nat)
           F == FiniteSubsetsOf(Nat)
           T == { 1..n : n \in S }
<1>1. IsWellFoundedOn(R, F)
  BY FS_StrictSubsetOrderingWellFounded
<1>2. T \subseteq F /\ T # {}
  <2>1. \A n \in S : IsFiniteSet(1..n) /\ 1..n \in SUBSET Nat
    BY FS_Interval
  <2>2. \A n \in S : 1..n \in F
    BY <2>1 DEF FiniteSubsetsOf
  <2> HIDE DEF F
  <2> QED BY <2>2
<1>3. \A m, n \in S : 1..n # 1..m /\ 1..n \subseteq 1..m => <<1..n, 1..m>> \in R
  BY DEF StrictSubsetOrdering
<1>4. \E x \in T : \A y \in T : ~(<<y, x>> \in R)
  <2> HIDE DEF R, F, T
  <2> QED BY <1>1, <1>2, WFMin
<1>5. PICK m \in S : \A n \in S : ~(<<1..n, 1..m>> \in R)
  BY <1>4
<1>6. ASSUME NEW n \in S, ~(m <= n) PROVE FALSE
  <2>1. 1..n \subseteq 1..m /\ m \in 1..m /\ m \notin 1..n
    BY <1>6
  <2> QED BY <2>1, <1>3, <1>5
<1> QED BY <1>6

\* Append() adds one position, the last.
LEMMA AppendFacts ==
  ASSUME NEW S, NEW s \in Seq(S), NEW e \in S
  PROVE  /\ Append(s, e) \in Seq(S)
         /\ DOMAIN Append(s, e) = DOMAIN s \cup {Len(s) + 1} /\ Len(s) + 1 \notin DOMAIN s
         /\ \A i \in DOMAIN s : Append(s, e)[i] = s[i]
         /\ Append(s, e)[Len(s) + 1] = e
  BY AppendProperties, LenProperties

\* Tail() shifts the positions after the first by one.
LEMMA TailFacts ==
  ASSUME NEW S, NEW s \in Seq(S), s # <<>>
  PROVE  /\ Tail(s) \in Seq(S) /\ Head(s) = s[1] /\ 1 \in DOMAIN s /\ Head(s) \in S
         /\ \A i \in DOMAIN Tail(s) : /\ i + 1 \in DOMAIN s /\ i + 1 # 1
                                      /\ Tail(s)[i] = s[i + 1]
         /\ \A i, j \in DOMAIN Tail(s) : i + 1 = j + 1 => i = j
<1>1. /\ Tail(s) \in Seq(S) /\ Head(s) \in S /\ Len(Tail(s)) = Len(s) - 1
      /\ \A i \in 1..Len(Tail(s)) : Tail(s)[i] = s[i + 1]
  BY HeadTailProperties
<1>2. Len(s) \in Nat \ {0} /\ DOMAIN s = 1..Len(s) /\ DOMAIN Tail(s) = 1..Len(Tail(s))
  BY <1>1, EmptySeq, LenProperties
<1> QED
  BY <1>1, <1>2

\* A prefix keeps its positions.
LEMMA PrefixFacts ==
  ASSUME NEW S, NEW s \in Seq(S), NEW n \in 0..Len(s)
  PROVE  /\ SubSeq(s, 1, n) \in Seq(S)
         /\ \A i \in DOMAIN SubSeq(s, 1, n) : i \in DOMAIN s /\ SubSeq(s, 1, n)[i] = s[i]
<1>1. /\ Len(s) \in Nat /\ DOMAIN s = 1..Len(s) /\ \A i \in 1..n : s[i] \in S
  BY LenProperties, ElementOfSeq
<1>2. /\ SubSeq(s, 1, n) \in Seq(S) /\ Len(SubSeq(s, 1, n)) = n
      /\ \A i \in 1..n : SubSeq(s, 1, n)[i] = s[i]
  <2>1. /\ SubSeq(s, 1, n) \in Seq(S)
        /\ Len(SubSeq(s, 1, n)) = (IF 1 <= n THEN n - 1 + 1 ELSE 0)
        /\ \A i \in 1..(n - 1 + 1) : SubSeq(s, 1, n)[i] = s[1 + i - 1]
    BY <1>1, SubSeqProperties
  <2> QED BY <2>1
<1>3. DOMAIN SubSeq(s, 1, n) = 1..n
  BY <1>2, LenProperties
<1> QED
  BY <1>1, <1>2, <1>3

\* RemoveAt() shifts the positions after the one taken out by one.
LEMMA RemoveAtFacts ==
  ASSUME NEW S, NEW s \in Seq(S), NEW i \in DOMAIN s
  PROVE  /\ RemoveAt(s, i) \in Seq(S)
         /\ Len(RemoveAt(s, i)) = Len(s) - 1
         /\ \A k \in 1..Len(RemoveAt(s, i)) :
              RemoveAt(s, i)[k] = IF k < i THEN s[k] ELSE s[k + 1]
<1> DEFINE r == RemoveAt(s, i)
           u == SubSeq(s, 1, i - 1)
           v == SubSeq(s, i + 1, Len(s))
<1>1. u \in Seq(S) /\ Len(u) = i - 1 /\ \A k \in 1..(i - 1) : u[k] = s[k]
  BY SubSeqProperties
<1>2. /\ v \in Seq(S) /\ Len(v) = Len(s) - i
      /\ \A k \in 1..(Len(s) - i) : v[k] = s[i + k]
  BY SubSeqProperties
<1>3. r = u \o v
  BY DEF RemoveAt
<1>4. i \in 1..Len(s) /\ Len(s) \in Nat
  OBVIOUS
<1> HIDE DEF u, v, r
<1>5. /\ r \in Seq(S) /\ Len(r) = Len(u) + Len(v)
      /\ \A k \in 1..(Len(u) + Len(v)) : r[k] = IF k <= Len(u) THEN u[k] ELSE v[k - Len(u)]
  BY <1>1, <1>2, <1>3, ConcatProperties
<1>6. Len(r) = Len(s) - 1
  BY <1>1, <1>2, <1>4, <1>5
<1>7. ASSUME NEW k \in 1..Len(r)
      PROVE  r[k] = IF k < i THEN s[k] ELSE s[k + 1]
  <2>1. CASE k < i
    BY <2>1, <1>1, <1>2, <1>4, <1>5, SMTT(30)
  <2>2. CASE k >= i
    <3>1. k - (i - 1) \in 1..(Len(s) - i) /\ i + (k - (i - 1)) = k + 1
      BY <2>2, <1>4, <1>6
    <3>2. r[k] = v[k - (i - 1)]
      BY <2>2, <1>1, <1>2, <1>4, <1>5
    <3> QED BY <2>2, <3>1, <3>2, <1>2, <1>4, SMTT(30)
  <2> QED BY <2>1, <2>2, <1>4
<1> QED
  BY <1>5, <1>6, <1>7 DEF r

\* Taking out the first element leaves the tail.
LEMMA TailIsRemoveAt ==
  ASSUME NEW S, NEW s \in Seq(S), s # <<>>
  PROVE  Tail(s) = RemoveAt(s, 1)
<1>1. RemoveAt(s, 1) \in Seq(S) /\ 1 \in DOMAIN s
  BY RemoveAtFacts, EmptySeq, LenProperties
<1>2. SubSeq(s, 1, 0) = <<>>
  BY SubSeqEmpty
<1>3. RemoveAt(s, 1) = SubSeq(s, 2, Len(s))
  BY <1>1, <1>2, SubSeqProperties, ConcatEmptySeq DEF RemoveAt
<1> QED
  BY <1>3, TailIsSubSeq

\* RemoveFirst() keeps every other element and adds none.
LEMMA RemoveFirstFacts ==
  ASSUME NEW S, NEW s \in Seq(S), NEW e
  PROVE  /\ RemoveFirst(s, e) \in Seq(S)
         /\ \A x : x # e /\ Contains(s, x) => Contains(RemoveFirst(s, e), x)
         /\ \A k \in DOMAIN RemoveFirst(s, e) : Contains(s, RemoveFirst(s, e)[k])
<1>1. CASE ~\E i \in 1..Len(s) : s[i] = e
  BY <1>1 DEF RemoveFirst, Contains
<1>2. CASE \E i \in 1..Len(s) : s[i] = e
  <2> DEFINE I == { i \in 1..Len(s) : s[i] = e }
             n == SelectInSeq(s, LAMBDA v : v = e)
             r == RemoveAt(s, n)
  <2>1. \E m \in I : \A i \in I : m <= i
    <3>1. I \in SUBSET Nat /\ I # {}
      BY <1>2
    <3> HIDE DEF I
    <3> QED BY <3>1, LeastElement
  <2>2. n \in I
    BY <1>2, <2>1 DEF SelectInSeq, Min
  <2>3. n \in DOMAIN s /\ s[n] = e /\ n \in 1..Len(s) /\ Len(s) \in Nat
    BY <2>2, LenProperties
  <2>4. RemoveFirst(s, e) = r
    BY <1>2 DEF RemoveFirst
  <2> HIDE DEF I, n
  <2>5. /\ r \in Seq(S) /\ Len(r) = Len(s) - 1
        /\ \A k \in 1..Len(r) : r[k] = IF k < n THEN s[k] ELSE s[k + 1]
    BY <2>3, RemoveAtFacts
  <2> HIDE DEF r
  <2>6. ASSUME NEW x, x # e, NEW i \in 1..Len(s), s[i] = x
        PROVE  \E k \in 1..Len(r) : r[k] = x
    <3>1. CASE i < n
      BY <3>1, <2>3, <2>5, <2>6
    <3>2. CASE i > n
      <4>1. i - 1 \in 1..Len(r) /\ r[i - 1] = s[i]
        BY <3>2, <2>3, <2>5
      <4> QED BY <4>1, <2>6
    <3> QED BY <3>1, <3>2, <2>3, <2>6
  <2>7. ASSUME NEW k \in 1..Len(r)
        PROVE  \E i \in 1..Len(s) : s[i] = r[k]
    <3>1. k \in 1..Len(s) /\ k + 1 \in 1..Len(s)
      BY <2>3, <2>5
    <3> QED BY <3>1, <2>5
  <2>8. DOMAIN r = 1..Len(r)
    BY <2>5, LenProperties
  <2> QED
    BY <2>4, <2>5, <2>6, <2>7, <2>8 DEF Contains
<1> QED
  BY <1>1, <1>2

-----------------------------------------------------------------------------
(* The queue of the limit.                                                 *)

\* findIndex() finds a position whenever some item has the id.
LEMMA IndexOfFound ==
  ASSUME NEW Callers, NEW Ids, NEW q \in Queues(Callers, Ids), NEW id \in GetAll(q)
  PROVE  IsFirst(q, id, IndexOf(q, id))
<1> DEFINE S == { i \in DOMAIN q.queue : q.queue[i].executionId = id }
<1>1. S \in SUBSET Nat /\ S # {} /\ DOMAIN q.queue = 1..Len(q.queue) /\ Len(q.queue) \in Nat
  BY DEF GetAll, Queues
<1>2. PICK i \in S : \A j \in S : i <= j
  BY <1>1, LeastElement
<1>3. IsFirst(q, id, i)
  BY <1>1, <1>2 DEF IsFirst
<1> QED
  BY <1>3 DEF IndexOf, IsFirst

\* Taking out any item leaves a list of the other calls.
LEMMA RemoveAtLists ==
  ASSUME NEW Items, NEW s \in Seq(Items), NEW W, Lists(s, W), NEW i \in DOMAIN s
  PROVE  /\ RemoveAt(s, i) \in Seq(Items)
         /\ Len(RemoveAt(s, i)) = Len(s) - 1
         /\ Lists(RemoveAt(s, i), W \ {s[i].call})
         /\ ToSet(RemoveAt(s, i)) \subseteq ToSet(s)
<1> DEFINE r == RemoveAt(s, i)
<1>1. /\ r \in Seq(Items)
      /\ Len(r) = Len(s) - 1
      /\ \A k \in 1..Len(r) : r[k] = IF k < i THEN s[k] ELSE s[k + 1]
  BY RemoveAtFacts
<1>2. /\ Len(s) \in Nat /\ i \in 1..Len(s)
      /\ DOMAIN s = 1..Len(s) /\ DOMAIN r = 1..(Len(s) - 1)
  BY <1>1
<1> HIDE DEF r
<1>3. \A k \in DOMAIN r : \E j \in DOMAIN s : j # i /\ r[k] = s[j]
  <2> TAKE k \in DOMAIN r
  <2>1. CASE k < i
    BY <2>1, <1>1, <1>2
  <2>2. CASE k >= i
    <3>1. k + 1 \in DOMAIN s /\ k + 1 # i /\ r[k] = s[k + 1]
      BY <2>2, <1>1, <1>2
    <3> QED BY <3>1
  <2> QED BY <2>1, <2>2, <1>2
<1>4. \A j \in DOMAIN s : j # i => \E k \in DOMAIN r : r[k] = s[j]
  <2> TAKE j \in DOMAIN s
  <2>1. CASE j < i
    BY <2>1, <1>1, <1>2
  <2>2. CASE j > i
    <3>1. j - 1 \in DOMAIN r /\ r[j - 1] = s[j]
      BY <2>2, <1>1, <1>2
    <3> QED BY <3>1
  <2> QED BY <2>1, <2>2, <1>2
<1>5. \A j, k \in DOMAIN r : r[j].call = r[k].call => j = k
  <2> SUFFICES ASSUME NEW Callers, NEW Ids, NEW j \in DOMAIN r, NEW k \in DOMAIN r, r[j].call = r[k].call
               PROVE  j = k
    OBVIOUS
  <2>1. /\ j \in Nat /\ k \in Nat /\ j \in DOMAIN s /\ k \in DOMAIN s
        /\ j + 1 \in DOMAIN s /\ k + 1 \in DOMAIN s
    BY <1>2
  <2> DEFINE At(m) == IF m < i THEN m ELSE m + 1
  <2>2. /\ r[j] = s[At(j)] /\ At(j) \in DOMAIN s
        /\ r[k] = s[At(k)] /\ At(k) \in DOMAIN s
    BY <2>1, <1>1, <1>2
  <2>3. At(j) = At(k)
    <3> HIDE DEF At
    <3> QED BY <2>2 DEF Lists
  <2> QED BY <2>1, <2>3, <1>2
<1>6. W \ {s[i].call} = { r[k].call : k \in DOMAIN r }
  BY <1>3, <1>4 DEF Lists
<1>7. ToSet(r) \subseteq ToSet(s)
  BY <1>3 DEF ToSet
<1> QED
  BY <1>1, <1>5, <1>6, <1>7 DEF Lists, r

\* resolveNext() takes the first waiter out of the list, if there is one.
LEMMA ResolveNextLists ==
  ASSUME NEW Callers, NEW Ids, NEW q \in Queues(Callers, Ids), NEW W, Lists(q.queue, W)
  PROVE  /\ ResolveNext(q) \in Queues(Callers, Ids)
         /\ ResolveNext(q).capacity = q.capacity
         /\ q.queue = <<>> => ResolveNext(q) = q /\ Resolved(q) = {}
         /\ q.queue # <<>> =>
              \E c \in W : /\ Resolved(q) = {c}
                           /\ Len(ResolveNext(q).queue) = Len(q.queue) - 1
                           /\ Lists(ResolveNext(q).queue, W \ {c})
         /\ ToSet(ResolveNext(q).queue) \subseteq ToSet(q.queue)
<1> DEFINE Items == [call: Callers, executionId: Ids]
<1> HIDE DEF Items
<1>1. CASE q.queue = <<>>
  BY <1>1 DEF ResolveNext, Resolved, Queues
<1>2. CASE q.queue # <<>>
  <2>1. q.queue \in Seq(Items) /\ 1 \in DOMAIN q.queue
    BY <1>2 DEF Queues, Items
  <2>2. Tail(q.queue) = RemoveAt(q.queue, 1)
    BY <1>2, <2>1, TailIsRemoveAt
  <2>3. /\ Tail(q.queue) \in Seq(Items)
        /\ Len(Tail(q.queue)) = Len(q.queue) - 1
        /\ Lists(Tail(q.queue), W \ {q.queue[1].call})
        /\ ToSet(Tail(q.queue)) \subseteq ToSet(q.queue)
    <3>1. /\ RemoveAt(q.queue, 1) \in Seq(Items)
          /\ Len(RemoveAt(q.queue, 1)) = Len(q.queue) - 1
          /\ Lists(RemoveAt(q.queue, 1), W \ {q.queue[1].call})
          /\ ToSet(RemoveAt(q.queue, 1)) \subseteq ToSet(q.queue)
      BY <2>1, RemoveAtLists
    <3> QED BY <2>2, <3>1
  <2>4. q.queue[1].call \in W
    BY <2>1 DEF Lists
  <2>5. ResolveNext(q) = [q EXCEPT !.queue = Tail(q.queue)] /\ Resolved(q) = {q.queue[1].call}
    BY <1>2 DEF ResolveNext, Resolved
  <2> QED
    BY <1>2, <2>3, <2>4, <2>5 DEF Queues, Items
<1> QED
  BY <1>1, <1>2

\* remove() takes exactly one waiter out before it resolves the next.
LEMMA SplicedItem ==
  ASSUME NEW Callers, NEW Ids, NEW q \in Queues(Callers, Ids), NEW W, Lists(q.queue, W),
         NEW id \in GetAll(q)
  PROVE  /\ Spliced(q, id) \in Queues(Callers, Ids)
         /\ ToSet(Spliced(q, id).queue) \subseteq ToSet(q.queue)
         /\ \E x \in ToSet(q.queue) :
              /\ x.call \in W /\ x.executionId = id /\ Dropped(q, id) = {x.call}
              /\ Len(Spliced(q, id).queue) = Len(q.queue) - 1
              /\ Lists(Spliced(q, id).queue, W \ {x.call})
<1> DEFINE Items == [call: Callers, executionId: Ids]
<1> HIDE DEF Items
<1> DEFINE i == IndexOf(q, id)
<1>1. i \in DOMAIN q.queue /\ q.queue[i].executionId = id
  BY IndexOfFound DEF IsFirst
<1>2. q.queue \in Seq(Items)
  BY DEF Queues, Items
<1>3. q.queue[i].call \in W /\ q.queue[i] \in ToSet(q.queue)
  BY <1>1 DEF Lists, ToSet
<1>4. /\ RemoveAt(q.queue, i) \in Seq(Items)
      /\ Len(RemoveAt(q.queue, i)) = Len(q.queue) - 1
      /\ Lists(RemoveAt(q.queue, i), W \ {q.queue[i].call})
      /\ ToSet(RemoveAt(q.queue, i)) \subseteq ToSet(q.queue)
  <2> HIDE DEF i
  <2> QED BY <1>1, <1>2, RemoveAtLists
<1>5. Spliced(q, id) = [q EXCEPT !.queue = RemoveAt(q.queue, i)] /\ Dropped(q, id) = {q.queue[i].call}
  BY DEF Spliced, Dropped
<1> QED
  BY <1>1, <1>3, <1>4, <1>5 DEF Queues, Items

\* So does the removal of a call from the middle of the queue, with what it tells.
LEMMA SplicedLists ==
  ASSUME NEW Callers, NEW Ids, NEW q \in Queues(Callers, Ids), NEW W, Lists(q.queue, W),
         NEW id \in GetAll(q)
  PROVE  \E c \in W : /\ Dropped(q, id) = {c}
                      /\ Len(Spliced(q, id).queue) = Len(q.queue) - 1
                      /\ Lists(Spliced(q, id).queue, W \ {c})
<1>1. PICK x \in ToSet(q.queue) :
              /\ x.call \in W /\ Dropped(q, id) = {x.call}
              /\ Len(Spliced(q, id).queue) = Len(q.queue) - 1
              /\ Lists(Spliced(q, id).queue, W \ {x.call})
  BY SplicedItem, ZenonT(40)
<1> QED
  BY <1>1

\* enqueue() puts a caller that must wait at the end of the list.
LEMMA EnqueueLists ==
  ASSUME NEW Callers, NEW Ids, NEW q \in Queues(Callers, Ids), NEW W, Lists(q.queue, W),
         NEW c \in Callers, c \notin W, NEW id \in Ids
  PROVE  /\ Enqueue(q, c, id) \in Queues(Callers, Ids)
         /\ MustWait(q) => /\ Lists(Enqueue(q, c, id).queue, W \cup {c})
                           /\ ToSet(Enqueue(q, c, id).queue) \subseteq
                                ToSet(q.queue) \cup {[call |-> c, executionId |-> id]}
<1> DEFINE Items == [call: Callers, executionId: Ids]
<1> HIDE DEF Items
<1> DEFINE x == [call |-> c, executionId |-> id]
           r == Append(q.queue, x)
<1>1. q.queue \in Seq(Items) /\ x \in Items
  BY DEF Queues, Items
<1>2. /\ r \in Seq(Items) /\ Len(r) = Len(q.queue) + 1
      /\ \A k \in DOMAIN q.queue : r[k] = q.queue[k]
      /\ r[Len(r)] = x
      /\ Len(q.queue) \in Nat /\ DOMAIN q.queue = 1..Len(q.queue) /\ DOMAIN r = 1..Len(r)
  <2> HIDE DEF x
  <2> QED BY <1>1, AppendProperties
<1>3. Lists(r, W \cup {c}) /\ ToSet(r) \subseteq ToSet(q.queue) \cup {x}
  <2> HIDE DEF r
  <2>1. x.call = c OBVIOUS
  <2>2. \A k \in DOMAIN r : \/ k \in DOMAIN q.queue /\ r[k] = q.queue[k]
                            \/ k = Len(r) /\ r[k] = x
    BY <1>2
  <2>3. \A k \in DOMAIN q.queue : k \in DOMAIN r
    BY <1>2
  <2>4. Len(r) \in DOMAIN r
    BY <1>2
  <2> HIDE DEF x
  <2>5. W \cup {c} = { r[k].call : k \in DOMAIN r }
    BY <1>2, <2>1, <2>2, <2>3, <2>4 DEF Lists
  <2>6. \A j, k \in DOMAIN r : r[j].call = r[k].call => j = k
    BY <1>2, <2>1, <2>2 DEF Lists
  <2>7. ToSet(r) \subseteq ToSet(q.queue) \cup {x}
    BY <2>2 DEF ToSet
  <2> QED BY <2>5, <2>6, <2>7 DEF Lists
<1>4. CASE MustWait(q)
  <2>1. Enqueue(q, c, id) = [capacity |-> q.capacity - 1, queue |-> r]
    BY <1>4 DEF Enqueue
  <2> HIDE DEF r
  <2> QED BY <1>2, <1>3, <1>4, <2>1 DEF Queues, Items
<1>5. CASE ~MustWait(q)
  BY <1>5 DEF Enqueue, Queues
<1> QED
  BY <1>4, <1>5

\* Only who is listed is let through.
LEMMA ResolvedListed ==
  ASSUME NEW Callers, NEW Ids, NEW q \in Queues(Callers, Ids), NEW W, Lists(q.queue, W)
  PROVE  Resolved(q) \subseteq W
<1>1. q.queue # <<>> => 1 \in DOMAIN q.queue
  BY EmptySeq, LenProperties DEF Queues
<1> QED
  BY <1>1 DEF Lists, Resolved

-----------------------------------------------------------------------------
(* The order of the list: no operation lets a call pass another.           *)

\* Taking out an item keeps the order of the others.
LEMMA RemoveAtOrder ==
  ASSUME NEW Items, NEW s \in Seq(Items), NEW k \in DOMAIN s, NEW c, NEW d,
         Ahead(s, c, d), c # s[k].call, d # s[k].call
  PROVE  Ahead(RemoveAt(s, k), c, d)
<1> DEFINE r == RemoveAt(s, k)
           To(m) == IF m < k THEN m ELSE m - 1
<1>1. /\ r \in Seq(Items) /\ Len(r) = Len(s) - 1
      /\ \A m \in 1..Len(r) : r[m] = IF m < k THEN s[m] ELSE s[m + 1]
  BY RemoveAtFacts
<1>2. /\ Len(s) \in Nat /\ DOMAIN s = 1..Len(s) /\ k \in 1..Len(s)
      /\ DOMAIN r = 1..(Len(s) - 1)
  BY <1>1, LenProperties
<1>3. PICK i, j \in DOMAIN s : i < j /\ s[i].call = c /\ s[j].call = d
  BY DEF Ahead
<1> HIDE DEF r
<1>4. ASSUME NEW m \in DOMAIN s, m # k
      PROVE  To(m) \in DOMAIN r /\ r[To(m)] = s[m]
  <2>1. CASE m < k
    BY <2>1, <1>1, <1>2
  <2>2. CASE m > k
    BY <2>2, <1>1, <1>2
  <2> QED BY <2>1, <2>2, <1>2, <1>4
<1>5. i # k /\ j # k
  BY <1>3
<1>6. To(i) < To(j)
  BY <1>2, <1>3, <1>5
<1> HIDE DEF To
<1>7. Ahead(r, c, d)
  BY <1>3, <1>4, <1>5, <1>6 DEF Ahead
<1> QED
  BY <1>7 DEF r

\* A new item comes behind all the others, whose order stays.
LEMMA AppendOrder ==
  ASSUME NEW Items, NEW s \in Seq(Items), NEW x \in Items, NEW c
  PROVE  /\ \A d : Ahead(s, c, d) => Ahead(Append(s, x), c, d)
         /\ (\E i \in DOMAIN s : s[i].call = c) => Ahead(Append(s, x), c, x.call)
<1> DEFINE r == Append(s, x)
<1>1. /\ DOMAIN r = DOMAIN s \cup {Len(s) + 1} /\ \A i \in DOMAIN s : r[i] = s[i]
      /\ r[Len(s) + 1] = x
  BY AppendFacts
<1>2. \A i \in DOMAIN s : i < Len(s) + 1
  BY LenProperties
<1> HIDE DEF r
<1>3. \A d : Ahead(s, c, d) => Ahead(r, c, d)
  BY <1>1 DEF Ahead
<1>4. (\E i \in DOMAIN s : s[i].call = c) => Ahead(r, c, x.call)
  BY <1>1, <1>2 DEF Ahead
<1> QED
  BY <1>3, <1>4 DEF r

\* The head of the list is let through only after all that were in front of it, and the
\* order of those behind stays.
LEMMA ResolveNextOrder ==
  ASSUME NEW Callers, NEW Ids, NEW q \in Queues(Callers, Ids), NEW W, Lists(q.queue, W),
         NEW c, NEW d, Ahead(q.queue, c, d), c \notin Resolved(q)
  PROVE  d \notin Resolved(q) /\ Ahead(ResolveNext(q).queue, c, d)
<1> DEFINE Items == [call: Callers, executionId: Ids]
<1> HIDE DEF Items
<1>1. q.queue \in Seq(Items)
  BY DEF Queues, Items
<1>2. PICK i, j \in DOMAIN q.queue : i < j /\ q.queue[i].call = c /\ q.queue[j].call = d
  BY DEF Ahead
<1>3. Len(q.queue) \in Nat /\ DOMAIN q.queue = 1..Len(q.queue)
  BY <1>1, LenProperties
<1>4. q.queue # <<>> /\ 1 \in DOMAIN q.queue
  BY <1>1, <1>2, <1>3, EmptySeq
<1>5. Resolved(q) = {q.queue[1].call}
  BY <1>4 DEF Resolved
<1>6. d # q.queue[1].call
  <2> SUFFICES ASSUME d = q.queue[1].call PROVE FALSE
    OBVIOUS
  <2>1. j = 1
    BY <1>2, <1>4 DEF Lists
  <2> QED BY <2>1, <1>2, <1>3
<1>7. Tail(q.queue) = RemoveAt(q.queue, 1)
  BY <1>1, <1>4, TailIsRemoveAt
<1>8. Ahead(RemoveAt(q.queue, 1), c, d)
  BY <1>1, <1>4, <1>5, <1>6, RemoveAtOrder
<1>9. ResolveNext(q).queue = Tail(q.queue)
  BY <1>4 DEF ResolveNext, Queues
<1> QED
  BY <1>5, <1>6, <1>7, <1>8, <1>9

\* remove() keeps the order of those it leaves.
LEMMA SplicedOrder ==
  ASSUME NEW Callers, NEW Ids, NEW q \in Queues(Callers, Ids), NEW id \in GetAll(q),
         NEW c, NEW d, Ahead(q.queue, c, d), c \notin Dropped(q, id), d \notin Dropped(q, id)
  PROVE  Ahead(Spliced(q, id).queue, c, d)
<1> DEFINE Items == [call: Callers, executionId: Ids]
<1> HIDE DEF Items
<1> DEFINE i == IndexOf(q, id)
<1>1. i \in DOMAIN q.queue
  BY IndexOfFound DEF IsFirst
<1>2. q.queue \in Seq(Items)
  BY DEF Queues, Items
<1>3. Spliced(q, id).queue = RemoveAt(q.queue, i) /\ Dropped(q, id) = {q.queue[i].call}
  BY DEF Spliced, Dropped, Queues
<1> HIDE DEF i
<1>4. Ahead(RemoveAt(q.queue, i), c, d)
  BY <1>1, <1>2, <1>3, RemoveAtOrder
<1> QED
  BY <1>3, <1>4

=============================================================================
