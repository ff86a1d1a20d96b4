------------------------ MODULE ActiveWorkflowsProofs ------------------------
(***************************************************************************)
(* What keeps a workflow active, proved for any number of triggers and     *)
(* pollers, of activations at the same time, of requests and of mishaps:   *)
(* the memory is consistent whatever happens, and as long as nothing of    *)
(* what the code does not cope with has happened, only the latest          *)
(* activation listens and a workflow that was told to stop is silent.      *)
(***************************************************************************)
EXTENDS ActiveWorkflows, FiniteSetTheorems, SequenceTheorems, TLAPS

-----------------------------------------------------------------------------
(* The invariant.                                                          *)

\* What add() and its callers keep, with the bound on the timers: every retry that is
\* scheduled or on its way goes back to a mishap of its own, or to the start of the process.
Timing == { n \in Activations : InFlight(n) /\ adds[n].by # "request" }
Pending(q) == IF q = "waiting" THEN 1 ELSE 0

AddRecords     == [at: {"over", "begun", "node", "saving"}, node: 1..Len(Nodes),
                   by: {"start", "request", "retry"}]
Reasons        == {"no", "unauthorized", "abandoned"}
RequestRecords == [at: {"idle", "clear", "closing", "write", "adding", "revert"}, kind: Kinds]

Activity ==
  /\ adds \in [Activations -> AddRecords]
  /\ queued \in {"none", "waiting", "fired"}
  /\ request \in RequestRecords
  /\ request.at = "idle" => request = NoRequest
  /\ strays \in Nat /\ gaveUp \in Reasons
  /\ requests \in 0..MaxRequests /\ mishaps \in 0..MaxMishaps
  /\ spoiled \subseteq Unsafe

FewTimers ==
  /\ Cardinality(Timing) + strays + Pending(queued) <= mishaps + 1
  /\ strays <= mishaps

\* The entry, what listens, and the removals on their way.
Removals == [by: Started \cup {TheRequest}, of: Activations, at: Nat]

Memory ==
  /\ row \in {"active", "inactive"} /\ webhooks \in BOOLEAN
  /\ halfWay \subseteq Activations /\ kept \in BOOLEAN
  /\ entry \in Activations \cup {None}
  /\ responses \in [Activations -> Seq(Started)]
  /\ listening \subseteq Started /\ crons \subseteq Started
  /\ removals \subseteq Removals
  /\ \A r \in removals : r.at \in 1..Len(responses[r.of])

\* Without an overlap one thing is on its way at a time.
OneThing ==
  /\ \A n \in Activations : InFlight(n) =>
       /\ \A k \in Activations : InFlight(k) => k = n
       /\ removals = {}
       /\ request.at = IF adds[n].by = "request" THEN "adding" ELSE "idle"
       /\ queued = IF adds[n].by = "retry" /\ adds[n].at # "saving" THEN "fired" ELSE "none"
  /\ \A r \in removals :
       /\ removals = {r}
       /\ r.by = TheRequest => request.at = "closing"
       /\ r.by # TheRequest => request.at = "idle" /\ queued = "waiting"
  /\ request.at = "closing" => removals # {}
  /\ request.at = "adding" => Adding
  /\ request.at \in {"closing", "write", "revert"} => queued = "none"
  /\ queued = "fired" => Adding
  /\ strays = 0

\* All that listens, the entry and the webhooks were left behind by something that failed.
NodesLeft    == \A it \in listening \cup crons : it[1] \in halfWay
EntryLeft    == entry # None => entry \in halfWay
WebhooksLeft == webhooks => kept

\* Then what listens belongs to the entry or was left behind, and a removal has yet to close
\* whatever else is connected.
Whose ==
  /\ \A it \in listening \cup crons : it[1] = entry \/ it[1] \in halfWay
  /\ \A n \in Activations :
       /\ adds[n].at \in {"node", "saving"} => entry = n
       /\ adds[n].at = "begun" =>
            NodesLeft /\ (adds[n].by = "request" => EntryLeft /\ WebhooksLeft)
  /\ queued = "waiting" /\ removals = {} => NodesLeft
  /\ request.at \in {"write", "revert"} => NodesLeft /\ EntryLeft
  /\ request.at \in {"closing", "write", "revert"} => WebhooksLeft
  /\ removals = {} /\ entry # None =>
       \A it \in listening :
          it[1] \in halfWay \/ it \in { responses[entry][j] : j \in 1..Len(responses[entry]) }
  /\ \A r \in removals :
       /\ r.of = entry /\ crons = {}
       /\ \A it \in listening :
            it[1] \in halfWay \/ it \in { responses[r.of][j] : j \in r.at..Len(responses[r.of]) }
  /\ row # "active" => /\ ~Busy /\ EntryLeft /\ NodesLeft
                      /\ queued = "none" /\ WebhooksLeft

Sound == spoiled = {} => OneThing /\ Whose

IInv == Activity /\ FewTimers /\ Memory /\ Sound

-----------------------------------------------------------------------------
(* The data.                                                               *)

LEMMA NodesFacts ==
  /\ Len(Nodes) \in Nat /\ 1 \in 1..Len(Nodes)
  /\ \A n \in Activations, i \in 1..Len(Nodes) : <<n, Nodes[i]>> \in Started
  /\ \A it \in Started : it[1] \in Activations /\ it # TheRequest
  /\ None \notin Activations
  /\ IsFiniteSet(Activations)
<1> DEFINE S(s) == { s[i] : i \in DOMAIN s }
           T == S(Triggers) \cup S(Pollers)
<1>1. Triggers \in Seq(S(Triggers)) /\ Pollers \in Seq(S(Pollers))
  BY ActiveWorkflowsAssumption
<1>2. Triggers \in Seq(T) /\ Pollers \in Seq(T)
  <2>1. ASSUME NEW s, NEW A, NEW B, s \in Seq(A), A \subseteq B PROVE s \in Seq(B)
    <3>1. \A i \in 1..Len(s) : s[i] \in B
      BY <2>1, ElementOfSeq
    <3> QED BY <2>1, <3>1
  <2> HIDE DEF S
  <2> QED BY <1>1, <2>1
<1> HIDE DEF T
<1>3. /\ Nodes \in Seq(T) /\ Len(Nodes) = Len(Triggers) + Len(Pollers)
  BY <1>2, ConcatProperties DEF Nodes
<1>4. Len(Triggers) \in Nat /\ Len(Pollers) \in Nat /\ Len(Triggers) >= 1
  BY <1>2, LenProperties, ActiveWorkflowsAssumption
<1>5. Len(Nodes) \in Nat /\ 1 \in 1..Len(Nodes)
  BY <1>3, <1>4
<1>6. \A n \in Activations, i \in 1..Len(Nodes) : <<n, Nodes[i]>> \in Started
  BY DEF Started
<1>7. \A it \in Started : it[1] \in Activations /\ it # TheRequest
  BY DEF Started, TheRequest
<1>8. None \notin Activations /\ IsFiniteSet(Activations)
  BY ActiveWorkflowsAssumption, FS_Interval DEF None, Activations
<1> QED
  BY <1>5, <1>6, <1>7, <1>8

\* Histories only grow, and an empty one shows that the step added nothing.
LEMMA SpoilFacts ==
  ASSUME NEW S \in SUBSET (Unsafe), Activity, Spoil(S)
  PROVE  /\ spoiled' \subseteq Unsafe
         /\ spoiled' = {} => spoiled = {} /\ S = {}
  BY DEF Spoil, Unsafe, Activity, AddRecords, RequestRecords

LEMMA FiniteTiming ==
  IsFiniteSet(Timing) /\ Cardinality(Timing) \in Nat
  BY NodesFacts, FS_Subset, FS_CardinalityType DEF Timing

-----------------------------------------------------------------------------
(* The timers: what each kind of step does to the count.                   *)

\* No retry is on its way that was not, and what is scheduled is paid for by mishaps.
LEMMA TimersFewer ==
  ASSUME IInv, Timing' \subseteq Timing, strays' \in Nat, mishaps' \in Nat,
         strays' <= mishaps', mishaps' >= mishaps,
         strays' + Pending(queued') <= strays + Pending(queued) + (mishaps' - mishaps)
  PROVE  FewTimers'
<1>1. Cardinality(Timing') \in Nat /\ Cardinality(Timing') <= Cardinality(Timing)
  BY FiniteTiming, FS_Subset, FS_CardinalityType
<1>2. /\ strays \in Nat /\ mishaps \in Nat /\ Cardinality(Timing) \in Nat
      /\ Pending(queued) \in Nat /\ Pending(queued') \in Nat
      /\ Cardinality(Timing) + strays + Pending(queued) <= mishaps + 1
  BY FiniteTiming DEF IInv, Activity, AddRecords, RequestRecords, FewTimers, Pending
<1>3. Cardinality(Timing') + strays' + Pending(queued') <= mishaps' + 1
  BY <1>1, <1>2
<1> QED
  BY <1>3 DEF FewTimers

\* One that was on its way is over, and may have left one timer more.
LEMMA TimersEnd ==
  ASSUME IInv, NEW n \in Timing, Timing' = Timing \ {n}, strays' \in Nat, mishaps' \in Nat,
         mishaps' >= mishaps,
         strays' + Pending(queued') <= strays + Pending(queued) + 1,
         strays' # strays => strays' = strays + 1 /\ queued = "waiting"
  PROVE  FewTimers'
<1>1. Cardinality(Timing') = Cardinality(Timing) - 1 /\ Cardinality(Timing) >= 1
  <2>1. /\ Cardinality(Timing') \in Nat /\ Cardinality(Timing') = Cardinality(Timing) - 1
    BY FiniteTiming, FS_RemoveElement, FS_CardinalityType
  <2> QED BY <2>1, FiniteTiming
<1>2. /\ strays \in Nat /\ mishaps \in Nat /\ Cardinality(Timing) \in Nat
      /\ Pending(queued) \in Nat /\ Pending(queued') \in Nat
      /\ Cardinality(Timing) + strays + Pending(queued) <= mishaps + 1
      /\ strays <= mishaps
      /\ queued = "waiting" => Pending(queued) = 1
  BY FiniteTiming DEF IInv, Activity, AddRecords, RequestRecords, FewTimers, Pending
<1>3. Cardinality(Timing') + strays' + Pending(queued') <= mishaps' + 1
  BY <1>1, <1>2
<1>4. strays' <= mishaps'
  BY <1>1, <1>2
<1> QED
  BY <1>3, <1>4 DEF FewTimers

\* A timer fires and the retry begins.
LEMMA TimersBegin ==
  ASSUME IInv, NEW n, n \notin Timing, Timing' = Timing \cup {n}, strays' \in Nat,
         mishaps' = mishaps, strays' <= strays,
         strays' + Pending(queued') + 1 <= strays + Pending(queued)
  PROVE  FewTimers'
<1>1. Cardinality(Timing') = Cardinality(Timing) + 1
  BY FiniteTiming, FS_AddElement
<1>2. /\ strays \in Nat /\ mishaps \in Nat /\ Cardinality(Timing) \in Nat
      /\ Pending(queued) \in Nat /\ Pending(queued') \in Nat
      /\ Cardinality(Timing) + strays + Pending(queued) <= mishaps + 1
      /\ strays <= mishaps
  BY FiniteTiming DEF IInv, Activity, AddRecords, RequestRecords, FewTimers, Pending
<1> QED
  BY <1>1, <1>2 DEF FewTimers

-----------------------------------------------------------------------------
(* add(): how it begins and how it ends.                                   *)

LEMMA BeginAddFacts ==
  ASSUME IInv, NEW who \in {"start", "request", "retry"}, BeginAdd(who)
  PROVE  \E n \in Activations :
           /\ ~InFlight(n)
           /\ adds' = [adds EXCEPT ![n] = [at |-> "begun", node |-> 1, by |-> who]]
           /\ adds' \in [Activations -> AddRecords]
           /\ Timing' = IF who = "request" THEN Timing ELSE Timing \cup {n}
           /\ n \notin Timing
           /\ halfWay' \subseteq halfWay
           /\ \A k \in halfWay : (k = entry \/ \E it \in listening \cup crons : it[1] = k)
                                => k \in halfWay'
<1>1. PICK n \in Activations :
         Free(n) /\ adds' = [adds EXCEPT ![n] = [at |-> "begun", node |-> 1, by |-> who]]
  BY DEF BeginAdd
<1>6. halfWay' = { k \in halfWay : ~Free(k) }
  BY DEF BeginAdd
<1>7. \A k \in halfWay : (k = entry \/ \E it \in listening \cup crons : it[1] = k)
                        => k \in halfWay'
  BY <1>6 DEF Free
<1>2. ~InFlight(n)
  BY <1>1 DEF Free
<1>3. [at |-> "begun", node |-> 1, by |-> who] \in AddRecords
  BY NodesFacts DEF AddRecords
<1>4. adds' \in [Activations -> AddRecords]
  BY <1>1, <1>3 DEF IInv, Activity, AddRecords, RequestRecords
<1>5. /\ Timing' = IF who = "request" THEN Timing ELSE Timing \cup {n}
      /\ n \notin Timing
  BY <1>1, <1>2, <1>4 DEF Timing, InFlight, IInv, Activity, AddRecords, RequestRecords
<1> QED
  BY <1>1, <1>2, <1>4, <1>5, <1>6, <1>7

\* An activation that was on its way is no more.
LEMMA TimingEnds ==
  ASSUME IInv, NEW n \in Activations, adds' = [adds EXCEPT ![n] = Over]
  PROVE  adds' \in [Activations -> AddRecords] /\ Timing' = Timing \ {n}
<1>1. Over \in AddRecords
  BY NodesFacts DEF Over, AddRecords
<1>2. adds' \in [Activations -> AddRecords]
  BY <1>1 DEF IInv, Activity
<1>3. Timing' = Timing \ {n}
  BY <1>2 DEF Timing, InFlight, Over, IInv, Activity
<1> QED
  BY <1>2, <1>3

\* The activation has failed, and whoever asked for it goes on.
LEMMA AddEnds ==
  ASSUME IInv, NEW n \in Activations, InFlight(n), AddFails(n),
         UNCHANGED requests, mishaps' \in 0..MaxMishaps, mishaps' >= mishaps,
         spoiled' \subseteq Unsafe
  PROVE  /\ Activity' /\ FewTimers'
         /\ adds' = [adds EXCEPT ![n] = Over]
         /\ halfWay' = IF adds[n].at = "begun" THEN halfWay ELSE halfWay \cup {n}
         /\ halfWay' \subseteq Activations
<1> USE DEF IInv, Activity, AddRecords, RequestRecords, Reasons
<1>1. /\ adds' = [adds EXCEPT ![n] = Over]
      /\ halfWay' = IF adds[n].at = "begun" THEN halfWay ELSE halfWay \cup {n}
  BY DEF AddFails
<1>2. halfWay' \subseteq Activations
  BY <1>1 DEF Memory
<1>3. adds' \in [Activations -> AddRecords] /\ Timing' = Timing \ {n}
  BY <1>1, TimingEnds
<1>5. adds[n].by \in {"start", "request", "retry"} /\ adds[n].by # "request" => n \in Timing
  BY DEF Timing
<1>7. CASE AddFails(n) /\ adds[n].by = "start"
  <2>1. /\ queued' \in {queued, "waiting"} /\ strays' = strays
        /\ gaveUp' \in {gaveUp, "unauthorized"}
        /\ request' = request
    BY <1>7 DEF AddFails
  <2>2. FewTimers'
    <3>1. /\ Pending(queued') <= Pending(queued) + 1
          /\ Pending(queued) \in Nat /\ Pending(queued') \in Nat
      BY <2>1 DEF Pending
    <3> QED BY <2>1, <3>1, <1>3, <1>5, <1>7, TimersEnd
  <2> QED BY <1>1, <1>2, <1>3, <2>1, <2>2
<1>8. CASE AddFails(n) /\ adds[n].by = "retry"
  <2>1. Reschedule /\ request' = request /\ gaveUp' = gaveUp
    BY <1>8 DEF AddFails
  <2>2. /\ queued' \in {"none", "waiting"} /\ strays' \in Nat
        /\ strays' + Pending(queued') <= strays + Pending(queued) + 1
        /\ strays' # strays => strays' = strays + 1 /\ queued = "waiting"
    BY <2>1 DEF Reschedule, Pending
  <2>3. FewTimers'
    BY <2>2, <1>3, <1>5, <1>8, TimersEnd
  <2> QED BY <1>1, <1>2, <1>3, <2>1, <2>2, <2>3
<1>9. CASE AddFails(n) /\ adds[n].by = "request"
  <2>1. /\ request' = [request EXCEPT !.at = "revert"] /\ queued' = queued /\ strays' = strays
        /\ gaveUp' = gaveUp
    BY <1>9 DEF AddFails
  <2>2. FewTimers'
    <3>1. Timing' \subseteq Timing /\ strays <= mishaps /\ Pending(queued) \in Nat
      BY <1>3 DEF Pending, FewTimers
    <3> QED BY <2>1, <3>1, TimersFewer
  <2> QED BY <1>1, <1>2, <1>3, <2>1, <2>2
<1> QED
  BY <1>5, <1>7, <1>8, <1>9

\* The next node, or nothing but what is to be saved.
LEMMA AdvanceFacts ==
  ASSUME IInv, NEW n \in Activations, adds[n].at = "node", Advance(n), UNCHANGED counts,
         spoiled' \subseteq Unsafe
  PROVE  /\ Activity' /\ FewTimers' /\ halfWay' = halfWay
         /\ strays' = strays /\ request' = request /\ gaveUp' = gaveUp
         /\ \/ adds' = [adds EXCEPT ![n].at = "saving"] /\ queued' = "none"
            \/ adds' = [adds EXCEPT ![n].node = @ + 1] /\ queued' = queued
<1>0. requests' = requests /\ mishaps' = mishaps /\ mishaps \in 0..MaxMishaps
  BY DEF counts, IInv, Activity, AddRecords, RequestRecords
<1>1. CASE adds[n].node = Len(Nodes)
  <2>1. /\ adds' = [adds EXCEPT ![n].at = "saving"] /\ queued' = "none"
        /\ strays' = strays /\ request' = request /\ gaveUp' = gaveUp /\ halfWay' = halfWay
    BY <1>1 DEF Advance, AddSucceeds
  <2>2. adds' \in [Activations -> AddRecords]
    BY <2>1 DEF IInv, Activity, AddRecords
  <2>3. Timing' = Timing
    BY <2>1, <2>2 DEF Timing, InFlight, IInv, Activity, AddRecords
  <2>4. Activity'
    BY <1>0, <2>1, <2>2 DEF IInv, Activity, AddRecords, RequestRecords
  <2>5. Pending(queued') = 0 /\ Pending(queued) \in Nat
    BY <2>1 DEF Pending
  <2>6. FewTimers'
    BY <1>0, <2>1, <2>3, <2>5, TimersFewer DEF IInv, Activity, FewTimers
  <2> QED BY <2>1, <2>4, <2>6
<1>2. CASE adds[n].node # Len(Nodes)
  <2>1. /\ adds' = [adds EXCEPT ![n].node = @ + 1] /\ halfWay' = halfWay
        /\ queued' = queued /\ strays' = strays /\ request' = request /\ gaveUp' = gaveUp
    BY <1>2 DEF Advance
  <2>2. adds[n].node \in 1..Len(Nodes) /\ adds[n].node + 1 \in 1..Len(Nodes)
    BY <1>2, NodesFacts DEF IInv, Activity, AddRecords, RequestRecords
  <2>3. adds' \in [Activations -> AddRecords]
    BY <2>1, <2>2 DEF IInv, Activity, AddRecords, RequestRecords
  <2>4. Timing' = Timing
    BY <2>1, <2>3 DEF Timing, InFlight, IInv, Activity, AddRecords, RequestRecords
  <2> QED BY <1>0, <2>1, <2>2, <2>3, <2>4 DEF IInv, Activity, AddRecords, RequestRecords, FewTimers
<1> QED
  BY <1>1, <1>2

\* A step that begins and ends no activation and sets no timer.
LEMMA OthersGoOn ==
  ASSUME IInv, UNCHANGED <<adds, strays>>,
         queued' = queued \/ queued' = "none" \/ (queued' = "waiting" /\ mishaps' = mishaps + 1),
         mishaps' \in 0..MaxMishaps, mishaps' >= mishaps, requests' \in 0..MaxRequests,
         spoiled' \subseteq Unsafe, gaveUp' \in Reasons,
         request' \in RequestRecords,
         request'.at = "idle" => request' = NoRequest
  PROVE  Activity' /\ FewTimers'
<1>1. Activity'
  BY DEF IInv, Activity, AddRecords, RequestRecords
<1>2. Timing' = Timing
  BY DEF Timing, InFlight
<1>3. /\ Pending(queued) \in {0, 1} /\ Pending(queued') \in {0, 1}
      /\ queued' = "none" => Pending(queued') = 0
      /\ strays \in Nat /\ strays <= mishaps /\ mishaps \in Nat
  BY DEF Pending, IInv, Activity, AddRecords, RequestRecords, FewTimers
<1>4. strays' + Pending(queued') <= strays + Pending(queued) + (mishaps' - mishaps)
  BY <1>3
<1>5. FewTimers'
  BY <1>2, <1>3, <1>4, TimersFewer
<1> QED
  BY <1>1, <1>5

\* Garbage is what nobody can reach.
LEMMA CollectFacts ==
  ASSUME Memory, Collect
  PROVE  /\ responses' \in [Activations -> Seq(Started)]
         /\ \A n \in Activations : n = entry' => responses'[n] = responses[n]
         /\ \A r \in removals' : r.of \in Activations => responses'[r.of] = responses[r.of]
<1>1. <<>> \in Seq(Started)
  BY EmptySeq
<1> QED
  BY <1>1 DEF Memory, Collect

\* An activation that begins forgets nothing that is left.
LEMMA StaysLeft ==
  ASSUME halfWay' \subseteq halfWay, UNCHANGED <<entry, listening, crons>>,
         \A k \in halfWay : (k = entry \/ \E it \in listening \cup crons : it[1] = k)
                          => k \in halfWay'
  PROVE  /\ NodesLeft => NodesLeft'
         /\ EntryLeft => EntryLeft'
  BY DEF NodesLeft, EntryLeft

-----------------------------------------------------------------------------
(* One lemma for each kind of step.                                        *)

LEMMA WebhooksAddedStep ==
  ASSUME IInv, NEW n \in Activations, WebhooksAdded(n)
  PROVE  IInv'
<1>1. /\ adds[n].at = "begun" /\ adds' = [adds EXCEPT ![n].at = "node"]
      /\ webhooks' = TRUE /\ entry' = n /\ Collect
      /\ row' = row /\ listening' = listening /\ crons' = crons /\ queued' = queued
      /\ strays' = strays /\ removals' = removals /\ request' = request /\ gaveUp' = gaveUp
      /\ requests' = requests /\ mishaps' = mishaps /\ spoiled' = spoiled
      /\ halfWay' = halfWay /\ kept' = kept
  BY DEF WebhooksAdded, counts, left
<1>2. Activity' /\ FewTimers'
  <2>1. adds' \in [Activations -> AddRecords]
    BY <1>1 DEF IInv, Activity, AddRecords, RequestRecords
  <2>2. Timing' = Timing
    BY <1>1 DEF Timing, InFlight, IInv, Activity, AddRecords, RequestRecords
  <2> QED BY <1>1, <2>1, <2>2 DEF IInv, Activity, AddRecords, RequestRecords, FewTimers
<1>3. Memory'
  BY <1>1, CollectFacts DEF IInv, Memory, Removals
<1>4. ASSUME spoiled = {} PROVE OneThing' /\ Whose'
  <2>1. OneThing /\ Whose /\ InFlight(n)
    BY <1>1, <1>4 DEF IInv, Sound, InFlight
  <2>2. \A k \in Activations : InFlight(k)' <=> InFlight(k)
    BY <1>1 DEF InFlight, IInv, Activity, AddRecords, RequestRecords
  <2>3. \A k \in Activations : adds'[k].by = adds[k].by /\ adds'[k].node = adds[k].node
    BY <1>1 DEF IInv, Activity, AddRecords, RequestRecords
  <2>4. OneThing'
    <3>1. \A k \in Activations : adds'[k].at = "saving" <=> adds[k].at = "saving"
      BY <1>1 DEF IInv, Activity, AddRecords, RequestRecords
    <3> QED BY <1>1, <2>1, <2>2, <2>3, <3>1 DEF OneThing, Adding
  <2>5. removals = {} /\ NodesLeft /\ NodesLeft'
    BY <1>1, <2>1 DEF OneThing, Whose, NodesLeft
  <2>6. Whose'
    <3>1. \A k \in Activations : k # n => adds'[k].at = "over"
      BY <1>1, <2>1 DEF OneThing, InFlight, IInv, Activity, AddRecords, RequestRecords
    <3>2. adds'[n].at = "node"
      BY <1>1 DEF IInv, Activity, AddRecords, RequestRecords
    <3>3. request.at \notin {"closing", "write", "revert"} /\ row = "active"
      BY <1>1, <2>1 DEF OneThing, Whose, Busy, Adding, IInv, Memory
    <3> QED BY <1>1, <2>5, <3>1, <3>2, <3>3 DEF Whose, NodesLeft
  <2> QED BY <2>4, <2>6
<1> QED
  BY <1>1, <1>2, <1>3, <1>4 DEF IInv, Sound

\* Without an overlap nothing is on its way when an activation is over.
LEMMA EndsAlone ==
  ASSUME IInv, spoiled = {}, NEW n \in Activations, InFlight(n),
         adds' = [adds EXCEPT ![n] = Over]
  PROVE  /\ OneThing /\ Whose /\ removals = {} /\ row = "active"
         /\ \A k \in Activations : adds'[k].at = "over"
<1>1. OneThing /\ Whose
  BY DEF IInv, Sound
<1>2. removals = {} /\ \A k \in Activations : InFlight(k) => k = n
  BY <1>1 DEF OneThing
<1>3. \A k \in Activations : adds'[k].at = "over"
  BY <1>2 DEF InFlight, Over, IInv, Activity, AddRecords, RequestRecords
<1>4. row = "active"
  BY <1>1 DEF Whose, Busy, Adding
<1> QED
  BY <1>1, <1>2, <1>3, <1>4

\* A failure leaves a timer, or a request that takes its change back.
LEMMA FailsAlone ==
  ASSUME IInv, spoiled = {}, NEW n \in Activations, InFlight(n), AddFails(n),
         UNCHANGED <<row, entry, responses, listening, crons, removals>>, NodesLeft',
         adds[n].by = "request" => EntryLeft' /\ WebhooksLeft'
  PROVE  OneThing' /\ Whose'
<1>1. /\ adds' = [adds EXCEPT ![n] = Over]
      /\ halfWay \subseteq halfWay'
  BY DEF AddFails
<1>2. /\ OneThing /\ Whose /\ removals = {} /\ row = "active"
      /\ \A k \in Activations : adds'[k].at = "over"
  BY <1>1, EndsAlone
<1>3. ~Adding' /\ removals' = {} /\ row' = "active" /\ strays = 0
  BY <1>2 DEF Adding, InFlight, OneThing
<1>4. \/ /\ queued' \in {"none", "waiting"} /\ request' = request /\ request.at = "idle"
         /\ strays' = 0
      \/ /\ queued' = "none" /\ request'.at = "revert" /\ strays' = 0
         /\ adds[n].by = "request"
  <2>1. /\ request.at = IF adds[n].by = "request" THEN "adding" ELSE "idle"
        /\ queued = IF adds[n].by = "retry" /\ adds[n].at # "saving" THEN "fired" ELSE "none"
    BY <1>2 DEF OneThing
  <2>2. request \in RequestRecords
    BY DEF IInv, Activity, AddRecords, RequestRecords
  <2>3. CASE adds[n].by = "start"
    BY <2>1, <2>3, <1>3 DEF AddFails
  <2>4. CASE adds[n].by = "retry"
    BY <2>1, <2>4, <1>3 DEF AddFails, Reschedule
  <2>5. CASE adds[n].by = "request"
    BY <2>1, <2>2, <2>5, <1>3 DEF AddFails, RequestRecords
  <2> QED BY <2>3, <2>4, <2>5 DEF AddFails
<1>5. OneThing'
  BY <1>2, <1>3, <1>4 DEF OneThing, InFlight
<1>6. Whose'
  <2>1. \A it \in listening' : it[1] \in halfWay'
    BY DEF NodesLeft
  <2>2. \A it \in listening' \cup crons' : it[1] = entry' \/ it[1] \in halfWay'
    BY DEF NodesLeft
  <2> QED BY <1>2, <1>3, <1>4, <2>1, <2>2 DEF Whose
<1> QED
  BY <1>5, <1>6

LEMMA WebhooksFailStep ==
  ASSUME IInv, NEW n \in Activations, WebhooksFail(n)
  PROVE  IInv'
<1>1. /\ adds[n].at = "begun" /\ AddFails(n)
      /\ requests' = requests /\ mishaps < MaxMishaps /\ mishaps' = mishaps + 1
      /\ row' = row /\ entry' = entry /\ responses' = responses /\ listening' = listening
      /\ crons' = crons /\ removals' = removals
  BY DEF WebhooksFail, Mishap
<1>2. /\ spoiled' \subseteq Unsafe
      /\ spoiled' = {} => spoiled = {}
      /\ webhooks' \in BOOLEAN /\ kept' \in BOOLEAN
      /\ WebhooksLeft => WebhooksLeft'
  <2>1. (IF "overlap" \in spoiled THEN {"othersCleared"} ELSE {}) \in SUBSET Unsafe
    BY DEF Unsafe, Hopeless
  <2>2. CASE UNCHANGED <<webhooks, kept, spoiled>>
    BY <2>2 DEF IInv, Activity, Memory, WebhooksLeft
  <2>3. CASE /\ webhooks' = FALSE /\ kept' = FALSE
             /\ Spoil(IF "overlap" \in spoiled THEN {"othersCleared"} ELSE {})
    <3>1. spoiled' \subseteq Unsafe /\ (spoiled' = {} => spoiled = {})
      <4>1. Activity
        BY DEF IInv
      <4> QED BY <2>1, <2>3, <4>1, SpoilFacts
    <3> QED BY <2>3, <3>1, Zenon DEF WebhooksLeft
  <2>4. CASE webhooks' = TRUE /\ kept' = TRUE /\ UNCHANGED spoiled
    <3>1. spoiled' \subseteq Unsafe /\ (spoiled' = {} => spoiled = {})
      BY <2>4 DEF IInv, Activity
    <3> QED BY <2>4, <3>1, Zenon DEF WebhooksLeft
  <2> QED BY <2>2, <2>3, <2>4 DEF WebhooksFail
<1>3. mishaps' \in 0..MaxMishaps /\ mishaps' >= mishaps
  BY <1>1, ActiveWorkflowsAssumption DEF IInv, Activity, AddRecords, RequestRecords
<1>4. Activity' /\ FewTimers' /\ halfWay' = halfWay
  BY <1>1, <1>2, <1>3, AddEnds DEF InFlight
<1>5. Memory'
  BY <1>1, <1>2, <1>4 DEF IInv, Memory, Removals
<1>6. ASSUME spoiled = {} PROVE OneThing' /\ Whose'
  <2>1. NodesLeft' /\ (adds[n].by = "request" => EntryLeft' /\ WebhooksLeft')
    BY <1>1, <1>2, <1>4, <1>6 DEF IInv, Sound, Whose, NodesLeft, EntryLeft
  <2> QED BY <1>1, <1>6, <2>1, FailsAlone DEF InFlight
<1> QED
  BY <1>2, <1>4, <1>5, <1>6 DEF IInv, Sound

LEMMA NodeFailsStep ==
  ASSUME IInv, NEW n \in Activations, NodeFails(n)
  PROVE  IInv'
<1>1. /\ adds[n].at \in {"node", "saving"} /\ AddFails(n)
      /\ requests' = requests /\ mishaps < MaxMishaps /\ mishaps' = mishaps + 1
      /\ row' = row /\ entry' = entry /\ responses' = responses /\ listening' = listening
      /\ crons' = crons /\ removals' = removals /\ webhooks' = webhooks
      /\ spoiled' = spoiled
  BY DEF NodeFails, Mishap
<1>2. /\ kept' \in BOOLEAN
      /\ adds[n].by = "request" => kept'
  BY Zenon DEF NodeFails
<1>3. /\ mishaps' \in 0..MaxMishaps /\ mishaps' >= mishaps
      /\ spoiled' \subseteq Unsafe
  BY <1>1, ActiveWorkflowsAssumption DEF IInv, Activity, AddRecords, RequestRecords
<1>4. /\ Activity' /\ FewTimers' /\ halfWay' = halfWay \cup {n}
      /\ halfWay' \subseteq Activations
  BY <1>1, <1>3, AddEnds DEF InFlight
<1>5. Memory'
  BY <1>1, <1>2, <1>4 DEF IInv, Memory, Removals
<1>6. ASSUME spoiled = {} PROVE OneThing' /\ Whose'
  <2>1. entry = n /\ \A it \in listening \cup crons : it[1] = entry \/ it[1] \in halfWay
    BY <1>1, <1>6 DEF IInv, Sound, Whose
  <2>2. NodesLeft' /\ EntryLeft'
    BY <1>1, <1>4, <2>1 DEF NodesLeft, EntryLeft
  <2>3. adds[n].by = "request" => WebhooksLeft'
    BY <1>2 DEF WebhooksLeft
  <2> QED BY <1>1, <1>6, <2>2, <2>3, FailsAlone DEF InFlight
<1> QED
  BY <1>1, <1>4, <1>5, <1>6 DEF IInv, Sound

LEMMA AddReturnsStep ==
  ASSUME IInv, NEW n \in Activations, AddReturns(n)
  PROVE  IInv'
<1>1. /\ adds[n].at = "saving" /\ adds' = [adds EXCEPT ![n] = Over]
      /\ request' = IF adds[n].by = "request" THEN NoRequest ELSE request
      /\ row' = row /\ webhooks' = webhooks /\ entry' = entry /\ responses' = responses
      /\ listening' = listening /\ crons' = crons /\ queued' = queued /\ strays' = strays
      /\ removals' = removals /\ gaveUp' = gaveUp /\ requests' = requests
      /\ mishaps' = mishaps /\ halfWay' = halfWay /\ kept' = kept /\ spoiled' = spoiled
  BY DEF AddReturns, counts, left
<1>2. adds' \in [Activations -> AddRecords] /\ Timing' = Timing \ {n}
  BY <1>1, TimingEnds
<1>3. NoRequest \in RequestRecords /\ NoRequest.at = "idle"
  BY DEF NoRequest, Kinds, RequestRecords
<1>4. Activity'
  BY <1>1, <1>2, <1>3 DEF IInv, Activity, AddRecords
<1>5. FewTimers'
  <2>1. Pending(queued) \in Nat
    BY DEF Pending
  <2> QED BY <1>1, <1>2, <2>1, TimersFewer DEF IInv, Activity, FewTimers
<1>6. Memory'
  BY <1>1 DEF IInv, Memory
<1>7. ASSUME spoiled = {} PROVE OneThing' /\ Whose'
  <2>1. /\ OneThing /\ Whose /\ removals = {} /\ row = "active"
        /\ \A k \in Activations : adds'[k].at = "over"
    BY <1>1, <1>7, EndsAlone DEF InFlight
  <2>2. queued = "none" /\ strays = 0 /\ request'.at = "idle"
    BY <1>1, <1>3, <2>1 DEF OneThing, InFlight
  <2>3. OneThing'
    BY <1>1, <2>1, <2>2 DEF OneThing, InFlight
  <2>4. Whose'
    BY <1>1, <2>1, <2>2 DEF Whose
  <2> QED BY <2>3, <2>4
<1> QED
  BY <1>1, <1>4, <1>5, <1>6, <1>7 DEF IInv, Sound

\* What has been started belongs to the entry, of the one activation on its way.
LEMMA GoesOnAlone ==
  ASSUME IInv, spoiled = {}, NEW n \in Activations, adds[n].at = "node",
         \/ adds' = [adds EXCEPT ![n].at = "saving"] /\ queued' = "none"
         \/ adds' = [adds EXCEPT ![n].node = @ + 1] /\ queued' = queued,
         UNCHANGED <<row, webhooks, entry, removals, strays, request, halfWay, kept>>,
         \A it \in listening' \cup crons' : it[1] = n \/ it[1] \in halfWay,
         \A it \in listening' :
            it[1] \in halfWay \/ it \in { responses'[entry][j] : j \in 1..Len(responses'[entry]) }
  PROVE  OneThing' /\ Whose'
<1>1. OneThing /\ Whose /\ InFlight(n) /\ entry = n
  BY DEF IInv, Sound, InFlight, Whose
<1>2. removals = {} /\ removals' = {} /\ strays = 0 /\ row = "active" /\ row' = "active"
  BY <1>1 DEF OneThing, Whose, Busy, Adding
<1>3. \A k \in Activations : k # n => adds[k].at = "over"
  BY <1>1 DEF OneThing, InFlight, IInv, Activity, AddRecords, RequestRecords
<1>4. /\ adds'[n].at \in {"node", "saving"} /\ adds'[n].by = adds[n].by
      /\ adds'[n].at = "saving" => queued' = "none"
      /\ adds'[n].at = "node" => queued' = queued
      /\ \A k \in Activations : k # n => adds'[k] = adds[k]
  BY DEF IInv, Activity, AddRecords, RequestRecords
<1>5. OneThing'
  <2>1. Adding /\ Adding'
    BY <1>1, <1>4 DEF Adding, InFlight
  <2>2. queued = IF adds[n].by = "retry" THEN "fired" ELSE "none"
    BY <1>1 DEF OneThing
  <2>3. request.at = IF adds[n].by = "request" THEN "adding" ELSE "idle"
    BY <1>1 DEF OneThing
  <2> QED BY <1>2, <1>3, <1>4, <2>1, <2>2, <2>3 DEF OneThing, InFlight
<1>6. request.at \notin {"closing", "write", "revert"} /\ queued' # "waiting"
  BY <1>1, <1>2, <1>4 DEF OneThing
<1>7. Whose'
  BY <1>1, <1>2, <1>3, <1>4, <1>6 DEF Whose
<1> QED
  BY <1>5, <1>7

LEMMA TriggerStartsStep ==
  ASSUME IInv, NEW n \in Activations, TriggerStarts(n)
  PROVE  IInv'
<1> DEFINE it == <<n, Nodes[adds[n].node]>>
<1>1. /\ adds[n].at = "node" /\ listening' = listening \cup {it}
      /\ row' = row /\ webhooks' = webhooks /\ entry' = entry /\ crons' = crons
      /\ removals' = removals /\ UNCHANGED counts /\ kept' = kept /\ spoiled' = spoiled
      /\ requests' = requests /\ mishaps' = mishaps
      /\ \/ /\ entry # None /\ responses' = [responses EXCEPT ![entry] = Append(@, it)]
            /\ Advance(n)
         \/ /\ entry = None /\ AddFails(n) /\ responses' = responses
  BY DEF TriggerStarts, counts
<1>2. it \in Started /\ it[1] = n
  BY NodesFacts DEF IInv, Activity, AddRecords, RequestRecords
<1> HIDE DEF it
<1>3. spoiled \subseteq Unsafe /\ mishaps \in 0..MaxMishaps
  BY DEF IInv, Activity, AddRecords, RequestRecords
<1>4. CASE entry = None
  <2>1. AddFails(n) /\ responses' = responses
    BY <1>1, <1>4
  <2>2. spoiled # {}
    BY <1>1, <1>4, NodesFacts DEF IInv, Sound, Whose
  <2>3. Activity' /\ FewTimers' /\ halfWay' \subseteq Activations
    BY <1>1, <1>3, <2>1, AddEnds DEF InFlight, IInv, Activity, AddRecords, RequestRecords
  <2>4. Memory'
    BY <1>1, <1>2, <2>1, <2>3 DEF IInv, Memory, Removals
  <2> QED BY <1>1, <2>2, <2>3, <2>4 DEF IInv, Sound
<1>5. CASE entry # None
  <2>1. /\ responses' = [responses EXCEPT ![entry] = Append(@, it)]
        /\ Advance(n)
    BY <1>1, <1>5
  <2>2. /\ Activity' /\ FewTimers' /\ halfWay' = halfWay
        /\ strays' = strays /\ request' = request /\ gaveUp' = gaveUp
        /\ \/ adds' = [adds EXCEPT ![n].at = "saving"] /\ queued' = "none"
           \/ adds' = [adds EXCEPT ![n].node = @ + 1] /\ queued' = queued
    BY <1>1, <1>3, <2>1, AdvanceFacts
  <2>3. entry \in Activations /\ responses[entry] \in Seq(Started)
    BY <1>5 DEF IInv, Memory
  <2>4. /\ Append(responses[entry], it) \in Seq(Started)
        /\ Len(Append(responses[entry], it)) = Len(responses[entry]) + 1
        /\ \A j \in 1..Len(responses[entry]) : Append(responses[entry], it)[j] = responses[entry][j]
        /\ Append(responses[entry], it)[Len(responses[entry]) + 1] = it
        /\ Len(responses[entry]) \in Nat
    BY <1>2, <2>3, AppendProperties, LenProperties
  <2>5. /\ responses' \in [Activations -> Seq(Started)]
        /\ responses'[entry] = Append(responses[entry], it)
        /\ \A k \in Activations : k # entry => responses'[k] = responses[k]
    BY <2>1, <2>3, <2>4 DEF IInv, Memory
  <2>6. Memory'
    <3>1. \A r \in removals : r.at \in 1..Len(responses'[r.of])
      <4> TAKE r \in removals
      <4>1. r.of \in Activations /\ r.at \in 1..Len(responses[r.of])
        BY DEF IInv, Memory, Removals
      <4> QED BY <4>1, <2>4, <2>5
    <3> QED BY <3>1, <1>1, <1>2, <2>2, <2>5 DEF IInv, Memory, Removals
  <2>7. ASSUME spoiled = {} PROVE OneThing' /\ Whose'
    <3>1. /\ entry = n /\ removals = {}
          /\ \A x \in listening \cup crons : x[1] = n \/ x[1] \in halfWay
          /\ \A x \in listening :
                x[1] \in halfWay \/ x \in { responses[entry][j] : j \in 1..Len(responses[entry]) }
      BY <1>1, <1>5, <2>7 DEF IInv, Sound, Whose, OneThing, InFlight
    <3>2. \A x \in listening' :
             x[1] \in halfWay \/ x \in { responses'[entry][j] : j \in 1..Len(responses'[entry]) }
      <4> SUFFICES ASSUME NEW x \in listening', x[1] \notin halfWay
                   PROVE  \E j \in 1..Len(responses'[entry]) : x = responses'[entry][j]
        OBVIOUS
      <4>1. CASE x = it
        <5>1. Len(responses[entry]) + 1 \in 1..Len(responses'[entry])
          BY <2>4, <2>5
        <5> QED BY <5>1, <4>1, <2>4, <2>5
      <4>2. CASE x \in listening
        <5>1. PICK j \in 1..Len(responses[entry]) : x = responses[entry][j]
          BY <4>2, <3>1
        <5>2. j \in 1..Len(responses'[entry])
          BY <2>4, <2>5
        <5> QED BY <5>1, <5>2, <2>4, <2>5
      <4> QED BY <1>1, <4>1, <4>2
    <3>3. \A x \in listening' \cup crons' : x[1] = n \/ x[1] \in halfWay
      BY <1>1, <1>2, <3>1
    <3> QED BY <1>1, <2>2, <2>7, <3>2, <3>3, GoesOnAlone
  <2> QED BY <1>1, <2>2, <2>6, <2>7 DEF IInv, Sound
<1> QED
  BY <1>1, <1>4, <1>5

LEMMA PollerStartsStep ==
  ASSUME IInv, NEW n \in Activations, PollerStarts(n)
  PROVE  IInv'
<1> DEFINE it == <<n, Nodes[adds[n].node]>>
<1>1. /\ adds[n].at = "node" /\ crons' = crons \cup {it} /\ Advance(n)
      /\ row' = row /\ webhooks' = webhooks /\ entry' = entry /\ responses' = responses
      /\ listening' = listening /\ removals' = removals /\ UNCHANGED counts
      /\ requests' = requests /\ mishaps' = mishaps /\ kept' = kept /\ spoiled' = spoiled
  BY DEF PollerStarts, counts
<1>2. it \in Started /\ it[1] = n
  BY NodesFacts DEF IInv, Activity, AddRecords, RequestRecords
<1> HIDE DEF it
<1>3. spoiled \subseteq Unsafe
  BY DEF IInv, Activity, AddRecords, RequestRecords
<1>4. /\ Activity' /\ FewTimers' /\ halfWay' = halfWay
      /\ strays' = strays /\ request' = request /\ gaveUp' = gaveUp
      /\ \/ adds' = [adds EXCEPT ![n].at = "saving"] /\ queued' = "none"
         \/ adds' = [adds EXCEPT ![n].node = @ + 1] /\ queued' = queued
  BY <1>1, <1>3, AdvanceFacts
<1>5. Memory'
  BY <1>1, <1>2, <1>4 DEF IInv, Memory, Removals
<1>6. ASSUME spoiled = {} PROVE OneThing' /\ Whose'
  <2>1. /\ entry = n /\ entry # None /\ removals = {}
        /\ \A x \in listening \cup crons : x[1] = n \/ x[1] \in halfWay
    BY <1>1, <1>6, NodesFacts DEF IInv, Sound, Whose, OneThing, InFlight
  <2>2. \A x \in listening' \cup crons' : x[1] = n \/ x[1] \in halfWay
    BY <1>1, <1>2, <2>1
  <2>3. \A x \in listening' :
           x[1] \in halfWay \/ x \in { responses'[entry][j] : j \in 1..Len(responses'[entry]) }
    BY <1>1, <1>6, <2>1 DEF IInv, Sound, Whose
  <2> QED BY <1>1, <1>4, <1>6, <2>2, <2>3, GoesOnAlone
<1> QED
  BY <1>1, <1>4, <1>5, <1>6 DEF IInv, Sound

\* Without an overlap a removal is alone, and what it has not closed is all that listens, but
\* for what was left behind.
LEMMA RemovesAlone ==
  ASSUME IInv, spoiled = {}, NEW r \in removals
  PROVE  /\ removals = {r} /\ row = "active" /\ strays = 0
         /\ r.of = entry /\ crons = {} /\ entry # None
         /\ \A x \in listening :
              x[1] \in halfWay \/ x \in { responses[r.of][j] : j \in r.at..Len(responses[r.of]) }
         /\ \A k \in Activations : adds[k].at = "over"
         /\ \/ r.by = TheRequest /\ request.at = "closing" /\ queued = "none" /\ WebhooksLeft
            \/ r.by # TheRequest /\ request.at = "idle" /\ queued = "waiting"
<1>1. OneThing /\ Whose
  BY DEF IInv, Sound
<1>2. removals # {} /\ row = "active"
  BY <1>1 DEF Whose, Busy, IInv, Memory
<1>3. \A k \in Activations : adds[k].at = "over"
  BY <1>1, <1>2 DEF OneThing, InFlight, IInv, Activity, AddRecords, RequestRecords
<1>4. entry # None
  BY <1>1, NodesFacts DEF Whose, IInv, Memory, Removals
<1>5. removals = {r} /\ strays = 0
  BY <1>1 DEF OneThing
<1>6. /\ r.of = entry /\ crons = {}
      /\ \A x \in listening :
           x[1] \in halfWay \/ x \in { responses[r.of][j] : j \in r.at..Len(responses[r.of]) }
  BY <1>1 DEF Whose
<1>7. \/ r.by = TheRequest /\ request.at = "closing" /\ queued = "none" /\ WebhooksLeft
      \/ r.by # TheRequest /\ request.at = "idle" /\ queued = "waiting"
  BY <1>1 DEF OneThing, Whose
<1> QED
  BY <1>2, <1>3, <1>4, <1>5, <1>6, <1>7

LEMMA ClosesStep ==
  ASSUME IInv, NEW r \in removals, Closes(r)
  PROVE  IInv'
<1> DEFINE q == [r EXCEPT !.at = @ + 1]
<1>1. /\ listening' = listening \ {responses[r.of][r.at]} /\ Collect
      /\ row' = row /\ webhooks' = webhooks /\ adds' = adds /\ crons' = crons
      /\ queued' = queued /\ strays' = strays /\ gaveUp' = gaveUp
      /\ requests' = requests /\ mishaps' = mishaps /\ spoiled' = spoiled
      /\ halfWay' = halfWay /\ kept' = kept
      /\ \/ /\ r.at # Len(responses[r.of]) /\ removals' = (removals \ {r}) \cup {q}
            /\ entry' = entry /\ request' = request
         \/ /\ r.at = Len(responses[r.of]) /\ removals' = removals \ {r} /\ entry' = None
            /\ request' = IF r.by = TheRequest THEN [request EXCEPT !.at = "write"] ELSE request
  BY DEF Closes, IsLast, counts, left
<1>2. /\ r \in Removals /\ r.of \in Activations /\ r.at \in 1..Len(responses[r.of])
      /\ Len(responses[r.of]) \in Nat
  BY LenProperties DEF IInv, Memory, Removals
<1>3. Activity' /\ FewTimers'
  BY <1>1, OthersGoOn DEF IInv, Activity, AddRecords, RequestRecords
<1>4. q \in Removals /\ q.of = r.of /\ q.by = r.by /\ q.at = r.at + 1
  BY <1>2 DEF Removals
<1> HIDE DEF q
<1>5. Memory'
  <2>1. /\ responses' \in [Activations -> Seq(Started)]
        /\ \A x \in removals' : x.of \in Activations => responses'[x.of] = responses[x.of]
    BY <1>1, CollectFacts DEF IInv
  <2>2. removals' \subseteq Removals
    BY <1>1, <1>4 DEF IInv, Memory
  <2>3. \A x \in removals' : x.at \in 1..Len(responses[x.of])
    BY <1>1, <1>2, <1>4 DEF IInv, Memory
  <2>4. \A x \in removals' : x.of \in Activations
    BY <2>2 DEF Removals
  <2> QED BY <1>1, <2>1, <2>2, <2>3, <2>4 DEF IInv, Memory
<1>6. ASSUME spoiled = {} PROVE OneThing' /\ Whose'
  <2>1. /\ removals = {r} /\ row = "active" /\ strays = 0
        /\ r.of = entry /\ crons = {} /\ entry # None
        /\ \A x \in listening :
             x[1] \in halfWay \/ x \in { responses[r.of][j] : j \in r.at..Len(responses[r.of]) }
        /\ \A k \in Activations : adds[k].at = "over"
        /\ \/ r.by = TheRequest /\ request.at = "closing" /\ queued = "none" /\ WebhooksLeft
           \/ r.by # TheRequest /\ request.at = "idle" /\ queued = "waiting"
    BY <1>6, RemovesAlone
  <2>2. \A x \in listening' : x[1] = entry \/ x[1] \in halfWay
    BY <1>1, <1>6 DEF IInv, Sound, Whose
  <2>3. CASE r.at # Len(responses[r.of])
    <3>1. removals' = {q} /\ entry' = entry /\ request' = request
      BY <1>1, <2>1, <2>3
    <3>2. responses'[q.of] = responses[q.of]
      BY <1>1, <1>2, <1>4, <3>1, CollectFacts DEF IInv
    <3>3. \A x \in listening' : x[1] \in halfWay
             \/ x \in { responses'[q.of][j] : j \in q.at..Len(responses'[q.of]) }
      <4> SUFFICES ASSUME NEW x \in listening', x[1] \notin halfWay
                   PROVE  \E j \in q.at..Len(responses'[q.of]) : x = responses'[q.of][j]
        OBVIOUS
      <4>1. PICK j \in r.at..Len(responses[r.of]) : x = responses[r.of][j]
        BY <1>1, <2>1
      <4>2. j # r.at
        BY <1>1, <4>1
      <4>3. j \in q.at..Len(responses'[q.of])
        BY <1>2, <1>4, <3>2, <4>1, <4>2
      <4> QED BY <4>1, <4>3, <1>4, <3>2
    <3>4. OneThing'
      BY <1>1, <1>4, <2>1, <3>1 DEF OneThing, InFlight
    <3>5. Whose'
      BY <1>1, <1>4, <2>1, <2>2, <3>1, <3>3 DEF Whose, WebhooksLeft
    <3> QED BY <3>4, <3>5
  <2>4. CASE r.at = Len(responses[r.of])
    <3>1. removals' = {} /\ entry' = None
      BY <1>1, <2>1, <2>4
    <3>2. NodesLeft' /\ EntryLeft'
      <4>1. r.at..Len(responses[r.of]) = {r.at}
        BY <1>2, <2>4
      <4> QED BY <1>1, <2>1, <3>1, <4>1 DEF NodesLeft, EntryLeft
    <3>3. \/ r.by = TheRequest /\ request'.at = "write" /\ queued' = "none" /\ WebhooksLeft'
          \/ r.by # TheRequest /\ request'.at = "idle" /\ queued' = "waiting"
      <4>1. request \in RequestRecords
        BY DEF IInv, Activity, AddRecords, RequestRecords
      <4> QED BY <1>1, <2>1, <2>4, <4>1 DEF RequestRecords, WebhooksLeft
    <3>4. OneThing'
      BY <1>1, <2>1, <3>1, <3>3 DEF OneThing, InFlight
    <3>5. Whose'
      <4>1. \A x \in listening' \cup crons' : x[1] = entry' \/ x[1] \in halfWay'
        BY <3>2 DEF NodesLeft
      <4> QED BY <1>1, <2>1, <3>1, <3>2, <3>3, <4>1 DEF Whose
    <3> QED BY <3>4, <3>5
  <2> QED BY <2>3, <2>4
<1> QED
  BY <1>1, <1>3, <1>5, <1>6 DEF IInv, Sound

LEMMA CloseFailsStep ==
  ASSUME IInv, NEW r \in removals, CloseFails(r)
  PROVE  IInv'
<1>1. /\ removals' = removals \ {r} /\ Collect /\ spoiled' = spoiled
      /\ \/ r.by = TheRequest /\ request' = NoRequest /\ gaveUp' = "abandoned"
         \/ r.by # TheRequest /\ request' = request /\ gaveUp' = gaveUp
      /\ requests' = requests /\ mishaps < MaxMishaps /\ mishaps' = mishaps + 1
      /\ row' = row /\ webhooks' = webhooks /\ adds' = adds /\ entry' = entry
      /\ listening' = listening /\ crons' = crons /\ queued' = queued /\ strays' = strays
      /\ halfWay' = halfWay \cup {r.of} /\ kept' = kept
  BY DEF CloseFails, Mishap
<1>2. NoRequest \in RequestRecords /\ NoRequest.at = "idle"
  BY DEF NoRequest, Kinds, RequestRecords
<1>3. Activity' /\ FewTimers'
  <2>1. request' \in RequestRecords /\ gaveUp' \in Reasons
    BY <1>1, <1>2 DEF Reasons, IInv, Activity
  <2>2. mishaps' \in 0..MaxMishaps /\ mishaps' >= mishaps
    BY <1>1, ActiveWorkflowsAssumption DEF IInv, Activity, AddRecords, RequestRecords
  <2> QED BY <1>1, <1>2, <2>1, <2>2, OthersGoOn DEF IInv, Activity, AddRecords, RequestRecords
<1>4. Memory'
  <2>1. /\ responses' \in [Activations -> Seq(Started)]
        /\ \A x \in removals' : x.of \in Activations => responses'[x.of] = responses[x.of]
    BY <1>1, CollectFacts DEF IInv
  <2>2. \A x \in removals : x.of \in Activations /\ x.at \in 1..Len(responses[x.of])
    BY DEF IInv, Memory, Removals
  <2>3. \A x \in removals' : x.of \in Activations /\ x.at \in 1..Len(responses'[x.of])
    BY <1>1, <2>1, <2>2
  <2>4. removals' \subseteq Removals /\ halfWay' \subseteq Activations
    BY <1>1, <2>2 DEF IInv, Memory
  <2> QED BY <1>1, <2>1, <2>3, <2>4 DEF IInv, Memory
<1>5. ASSUME spoiled = {} PROVE OneThing' /\ Whose'
  <2>1. /\ removals = {r} /\ row = "active" /\ strays = 0
        /\ r.of = entry /\ entry # None
        /\ \A k \in Activations : adds[k].at = "over"
        /\ \/ r.by = TheRequest /\ request.at = "closing" /\ queued = "none" /\ WebhooksLeft
           \/ r.by # TheRequest /\ request.at = "idle" /\ queued = "waiting"
    BY <1>5, RemovesAlone
  <2>2. NodesLeft'
    BY <1>1, <1>5, <2>1 DEF IInv, Sound, Whose, NodesLeft
  <2>3. removals' = {} /\ request'.at = "idle" /\ queued' \in {"none", "waiting"}
    BY <1>1, <1>2, <2>1
  <2>4. OneThing'
    BY <1>1, <2>1, <2>3 DEF OneThing, InFlight
  <2>5. Whose'
    <3>1. \A x \in listening' \cup crons' : x[1] = entry' \/ x[1] \in halfWay'
      BY <2>2 DEF NodesLeft
    <3>2. \A x \in listening' : x[1] \in halfWay'
      BY <2>2 DEF NodesLeft
    <3> QED BY <1>1, <2>1, <2>2, <2>3, <3>1, <3>2 DEF Whose
  <2> QED BY <2>4, <2>5
<1> QED
  BY <1>1, <1>3, <1>4, <1>5 DEF IInv, Sound

\* ActiveWorkflows.remove() up to its first await.
LEMMA RemoveFacts ==
  ASSUME IInv, NEW who \in Started \cup {TheRequest}, entry # None, Remove(who),
         UNCHANGED <<row, responses, halfWay>>, webhooks' \in BOOLEAN, kept' \in BOOLEAN,
         listening' \subseteq listening
  PROVE  /\ Memory' /\ crons' = {}
         /\ \/ responses[entry] = <<>> /\ entry' = None /\ removals' = removals
            \/ \E r \in Removals :
                 /\ r.by = who /\ r.of = entry /\ r.at = 1
                 /\ removals' = removals \cup {r} /\ entry' = entry
<1> DEFINE r == [by |-> who, of |-> entry, at |-> 1]
<1>1. entry \in Activations /\ responses[entry] \in Seq(Started)
  BY DEF IInv, Memory
<1>2. r \in Removals /\ r.by = who /\ r.of = entry /\ r.at = 1
  BY <1>1 DEF Removals
<1>3. /\ crons' = {}
      /\ \/ responses[entry] = <<>> /\ entry' = None /\ removals' = removals
         \/ responses[entry] # <<>> /\ removals' = removals \cup {r} /\ entry' = entry
  BY DEF Remove
<1>4. responses[entry] # <<>> => 1 \in 1..Len(responses[entry])
  BY <1>1, EmptySeq, LenProperties
<1> HIDE DEF r
<1>5. Memory'
  <2>1. removals' \subseteq Removals /\ \A x \in removals' : x.at \in 1..Len(responses[x.of])
    BY <1>2, <1>3, <1>4 DEF IInv, Memory
  <2> QED BY <1>3, <2>1 DEF IInv, Memory
<1> QED
  BY <1>2, <1>3, <1>5

\* What meets nothing else finds nothing on its way.
LEMMA MeetsNothing ==
  ASSUME IInv, NEW S \in SUBSET Unsafe, Spoil(Meets \cup S)
  PROVE  /\ spoiled' \subseteq Unsafe
         /\ spoiled' = {} =>
              /\ spoiled = {} /\ S = {} /\ OneThing /\ Whose
              /\ removals = {} /\ request = NoRequest /\ request.at = "idle"
              /\ \A k \in Activations : adds[k].at = "over"
<1>1. Meets \cup S \in SUBSET Unsafe
  BY DEF Meets, Unsafe
<1>2. /\ spoiled' \subseteq Unsafe
      /\ spoiled' = {} => spoiled = {} /\ Meets \cup S = {}
  <2>1. Activity
    BY DEF IInv
  <2> QED BY <1>1, <2>1, SpoilFacts
<1>3. ASSUME Meets = {} PROVE ~Busy
  BY <1>3 DEF Meets
<1>4. ASSUME ~Busy
      PROVE  /\ removals = {} /\ request = NoRequest /\ request.at = "idle"
             /\ \A k \in Activations : adds[k].at = "over"
  BY <1>4 DEF Busy, Adding, InFlight, NoRequest, IInv, Activity, AddRecords, RequestRecords
<1> QED
  BY <1>2, <1>3, <1>4 DEF IInv, Sound

LEMMA TriggerErrorsStep ==
  ASSUME IInv, NEW n \in Activations, NEW i \in 1..Len(Nodes), TriggerErrors(n, i)
  PROVE  IInv'
<1> DEFINE it == <<n, Nodes[i]>>
           S  == (IF Starting THEN {"errorMeetsAdd"} ELSE {})
                   \cup (IF row # "active" THEN {"revived"} ELSE {})
<1>1. /\ it \in listening \/ (adds[n].at = "node" /\ adds[n].node = i)
      /\ requests' = requests /\ mishaps < MaxMishaps /\ mishaps' = mishaps + 1
      /\ listening' = listening \ {it}
      /\ IF entry = None THEN UNCHANGED <<crons, entry, removals>> ELSE Remove(it)
      /\ queued' = "waiting"
      /\ Spoil(Meets \cup S)
      /\ row' = row /\ webhooks' = webhooks /\ adds' = adds /\ responses' = responses
      /\ strays' = strays /\ request' = request /\ gaveUp' = gaveUp
      /\ halfWay' = halfWay /\ kept' = kept
  <2>1. Spoil(Meets \cup S)
    <3>1. Meets \cup S = Meets \cup (IF Starting THEN {"errorMeetsAdd"} ELSE {})
                               \cup (IF row # "active" THEN {"revived"} ELSE {})
      OBVIOUS
    <3> QED BY <3>1 DEF TriggerErrors
  <2> HIDE DEF S
  <2> QED BY <2>1 DEF TriggerErrors, Mishap, left
<1>2. it \in Started /\ it # TheRequest
  BY NodesFacts
<1> HIDE DEF it
<1>3. /\ spoiled' \subseteq Unsafe
      /\ spoiled' = {} =>
           /\ spoiled = {} /\ OneThing /\ Whose /\ row = "active"
           /\ removals = {} /\ request = NoRequest /\ request.at = "idle"
           /\ \A k \in Activations : adds[k].at = "over"
  <2>1. S \in SUBSET Unsafe
    BY DEF Hopeless, Unsafe
  <2>2. S = {} => row = "active"
    OBVIOUS
  <2> HIDE DEF S
  <2> QED BY <1>1, <2>1, <2>2, MeetsNothing
<1> HIDE DEF S
<1>4. Activity' /\ FewTimers'
  <2>1. mishaps' \in 0..MaxMishaps /\ mishaps' >= mishaps
    BY <1>1, ActiveWorkflowsAssumption DEF IInv, Activity, AddRecords, RequestRecords
  <2> QED BY <1>1, <1>3, <2>1, OthersGoOn DEF IInv, Activity, AddRecords, RequestRecords
<1>5. Memory'
  <2>1. CASE entry = None
    BY <1>1, <2>1 DEF IInv, Memory
  <2>2. CASE entry # None
    BY <1>1, <1>2, <2>2, RemoveFacts DEF IInv, Memory
  <2> QED BY <2>1, <2>2
<1>6. ASSUME spoiled' = {} PROVE OneThing' /\ Whose'
  <2>1. /\ OneThing /\ Whose /\ removals = {} /\ request.at = "idle" /\ row = "active"
        /\ \A k \in Activations : adds[k].at = "over"
    BY <1>3, <1>6
  <2>2. strays = 0
    BY <2>1 DEF OneThing
  <2>3. \A x \in listening \cup crons : x[1] = entry \/ x[1] \in halfWay
    BY <2>1 DEF Whose
  <2>4. ASSUME removals' = {}, NodesLeft' PROVE OneThing' /\ Whose'
    <3>1. OneThing'
      BY <1>1, <2>1, <2>2, <2>4 DEF OneThing, InFlight
    <3>2. \A x \in listening' \cup crons' : x[1] \in halfWay'
      BY <2>4 DEF NodesLeft
    <3>3. Whose'
      BY <1>1, <2>1, <2>4, <3>2 DEF Whose
    <3> QED BY <3>1, <3>3
  <2>5. CASE entry = None
    <3>1. NodesLeft'
      BY <1>1, <2>3, <2>5, NodesFacts DEF NodesLeft, IInv, Memory
    <3> QED BY <1>1, <2>1, <2>4, <2>5, <3>1
  <2>6. CASE entry # None
    <3>1. /\ crons' = {}
          /\ \/ responses[entry] = <<>> /\ entry' = None /\ removals' = removals
             \/ \E r \in Removals :
                  /\ r.by = it /\ r.of = entry /\ r.at = 1
                  /\ removals' = removals \cup {r} /\ entry' = entry
      BY <1>1, <1>2, <2>6, RemoveFacts DEF IInv, Memory
    <3>2. \A x \in listening :
             x[1] \in halfWay \/ x \in { responses[entry][j] : j \in 1..Len(responses[entry]) }
      BY <2>1, <2>6 DEF Whose
    <3>3. CASE responses[entry] = <<>> /\ entry' = None /\ removals' = removals
      <4>1. NodesLeft'
        BY <1>1, <3>1, <3>2, <3>3 DEF NodesLeft
      <4> QED BY <2>1, <2>4, <3>3, <4>1
    <3>4. ASSUME NEW r \in Removals, r.by = it, r.of = entry, r.at = 1,
                 removals' = removals \cup {r}, entry' = entry
          PROVE  OneThing' /\ Whose'
      <4>1. removals' = {r}
        BY <2>1, <3>4
      <4>2. OneThing'
        BY <1>1, <1>2, <2>1, <2>2, <3>4, <4>1 DEF OneThing, InFlight
      <4>3. \A x \in listening' \cup crons' : x[1] = entry' \/ x[1] \in halfWay'
        BY <1>1, <2>3, <3>1, <3>4
      <4>4. \A x \in listening' : x[1] \in halfWay'
               \/ x \in { responses'[r.of][j] : j \in r.at..Len(responses'[r.of]) }
        BY <1>1, <3>2, <3>4
      <4>5. Whose'
        BY <1>1, <2>1, <3>1, <3>4, <4>1, <4>3, <4>4 DEF Whose
      <4> QED BY <4>2, <4>5
    <3> QED BY <3>1, <3>3, <3>4
  <2> QED BY <2>5, <2>6
<1> QED
  BY <1>4, <1>5, <1>6 DEF IInv, Sound

\* The retry of a timer, known or not.
LEMMA RetryBegins ==
  ASSUME IInv, BeginAdd("retry"), Spoil(Meets \cup MeetsError),
         \/ queued = "waiting" /\ queued' = "fired" /\ strays' = strays
         \/ strays > 0 /\ queued' = queued /\ strays' = strays - 1,
         UNCHANGED <<row, webhooks, entry, responses, listening, crons, removals,
                     request, gaveUp, counts, kept>>
  PROVE  IInv'
<1>1. /\ row' = row /\ webhooks' = webhooks /\ entry' = entry /\ responses' = responses
      /\ listening' = listening /\ crons' = crons /\ removals' = removals
      /\ request' = request /\ gaveUp' = gaveUp /\ requests' = requests /\ mishaps' = mishaps
      /\ kept' = kept
  BY DEF counts
<1>2. PICK n \in Activations :
           /\ ~InFlight(n)
           /\ adds' = [adds EXCEPT ![n] = [at |-> "begun", node |-> 1, by |-> "retry"]]
           /\ adds' \in [Activations -> AddRecords]
           /\ Timing' = Timing \cup {n} /\ n \notin Timing
           /\ halfWay' \subseteq halfWay
           /\ \A k \in halfWay : (k = entry \/ \E it \in listening \cup crons : it[1] = k)
                                => k \in halfWay'
  BY BeginAddFacts
<1>3. /\ spoiled' \subseteq Unsafe
      /\ spoiled' = {} =>
           /\ spoiled = {} /\ OneThing /\ Whose
           /\ removals = {} /\ request = NoRequest /\ request.at = "idle"
           /\ \A k \in Activations : adds[k].at = "over"
  <2>1. MeetsError \in SUBSET Unsafe
    BY DEF MeetsError, Hopeless, Unsafe
  <2> QED BY <2>1, MeetsNothing
<1>4. strays \in Nat /\ queued \in {"none", "waiting", "fired"}
  BY DEF IInv, Activity, AddRecords, RequestRecords
<1>5. Activity'
  BY <1>1, <1>2, <1>3, <1>4 DEF IInv, Activity, AddRecords, RequestRecords
<1>6. FewTimers'
  <2>1. strays' \in Nat /\ strays' <= strays
    BY <1>4
  <2>2. strays' + Pending(queued') + 1 <= strays + Pending(queued)
    BY <1>4 DEF Pending
  <2> QED BY <1>1, <1>2, <2>1, <2>2, TimersBegin
<1>7. Memory'
  BY <1>1, <1>2 DEF IInv, Memory
<1>8. ASSUME spoiled' = {} PROVE OneThing' /\ Whose'
  <2>1. /\ OneThing /\ Whose /\ removals = {} /\ request.at = "idle"
        /\ \A k \in Activations : adds[k].at = "over"
    BY <1>3, <1>8
  <2>2. strays = 0 /\ queued = "waiting" /\ queued' = "fired" /\ strays' = 0
    BY <2>1 DEF OneThing
  <2>3. NodesLeft /\ NodesLeft' /\ row = "active"
    <3>1. NodesLeft /\ row = "active"
      BY <2>1, <2>2 DEF Whose
    <3> QED BY <1>1, <1>2, <3>1, StaysLeft
  <2>4. /\ \A k \in Activations : k # n => adds'[k].at = "over"
        /\ adds'[n].at = "begun" /\ adds'[n].by = "retry"
    BY <1>2, <2>1 DEF IInv, Activity, AddRecords, RequestRecords
  <2>5. OneThing'
    BY <1>1, <2>1, <2>2, <2>4 DEF OneThing, InFlight, Adding
  <2>6. Whose'
    <3>1. \A x \in listening' \cup crons' : x[1] \in halfWay'
      BY <2>3 DEF NodesLeft
    <3> QED BY <1>1, <2>1, <2>2, <2>3, <2>4, <3>1 DEF Whose
  <2> QED BY <2>5, <2>6
<1> QED
  BY <1>5, <1>6, <1>7, <1>8 DEF IInv, Sound

LEMMA TimersStep ==
  ASSUME IInv, Timers
  PROVE  IInv'
  BY RetryBegins DEF Timers, TimerFires, StrayTimerFires

\* An activation that a request asks for, with the workflow silent.
LEMMA RequestBegins ==
  ASSUME IInv, BeginAdd("request"),
         UNCHANGED <<webhooks, entry, responses, listening, crons, queued, strays, removals>>,
         mishaps' = mishaps, requests' \in 0..MaxRequests, gaveUp' = "no", kept' = kept,
         row' \in {"active", "inactive"},
         request' \in [at: {"adding"}, kind: Kinds],
         spoiled' \subseteq Unsafe,
         spoiled' = {} =>
           /\ spoiled = {} /\ OneThing /\ NodesLeft /\ EntryLeft /\ WebhooksLeft
           /\ queued = "none" /\ row' = "active" /\ removals = {}
           /\ \A k \in Activations : adds[k].at = "over"
  PROVE  IInv'
<1>1. PICK n \in Activations :
           /\ adds' = [adds EXCEPT ![n] = [at |-> "begun", node |-> 1, by |-> "request"]]
           /\ adds' \in [Activations -> AddRecords]
           /\ Timing' = Timing
           /\ halfWay' \subseteq halfWay
           /\ \A k \in halfWay : (k = entry \/ \E it \in listening \cup crons : it[1] = k)
                                => k \in halfWay'
  BY BeginAddFacts
<1>2. Activity' /\ FewTimers'
  <2>1. request' \in RequestRecords
        /\ request'.at = "adding"
    BY DEF RequestRecords
  <2>2. gaveUp' \in Reasons
    BY DEF Reasons
  <2> QED BY <1>1, <2>1, <2>2 DEF IInv, Activity, AddRecords, RequestRecords, FewTimers
<1>3. Memory'
  BY <1>1 DEF IInv, Memory
<1>4. ASSUME spoiled' = {} PROVE OneThing' /\ Whose'
  <2>1. /\ \A k \in Activations : k # n => adds'[k].at = "over"
        /\ adds'[n].at = "begun" /\ adds'[n].by = "request" /\ request'.at = "adding"
    BY <1>1, <1>4 DEF IInv, Activity, AddRecords, RequestRecords
  <2>2. OneThing'
    BY <1>4, <2>1 DEF OneThing, InFlight, Adding
  <2>3. NodesLeft' /\ EntryLeft' /\ WebhooksLeft'
    BY <1>1, <1>4, StaysLeft DEF WebhooksLeft
  <2>4. Whose'
    <3>1. \A x \in listening' \cup crons' : x[1] \in halfWay'
      BY <2>3 DEF NodesLeft
    <3> QED BY <1>4, <2>1, <2>3, <3>1 DEF Whose
  <2> QED BY <2>2, <2>4
<1> QED
  BY <1>2, <1>3, <1>4 DEF IInv, Sound

LEMMA RequestStep ==
  ASSUME IInv, NEW kind \in Kinds, Request(kind)
  PROVE  IInv'
<1>1. /\ request = NoRequest /\ requests < MaxRequests /\ requests' = requests + 1
      /\ mishaps' = mishaps
      /\ Spoil(Meets \cup IF kind = "activate" THEN MeetsError ELSE {})
      /\ webhooks' = webhooks /\ entry' = entry /\ responses' = responses
      /\ listening' = listening /\ crons' = crons /\ queued' = queued /\ strays' = strays
      /\ removals' = removals /\ kept' = kept
  BY DEF Request
<1>2. /\ spoiled' \subseteq Unsafe
      /\ spoiled' = {} =>
           /\ spoiled = {} /\ OneThing /\ Whose
           /\ removals = {} /\ request = NoRequest /\ request.at = "idle"
           /\ \A k \in Activations : adds[k].at = "over"
  <2>1. (IF kind = "activate" THEN MeetsError ELSE {}) \in SUBSET Unsafe
    BY DEF MeetsError, Hopeless, Unsafe
  <2> QED BY <1>1, <2>1, MeetsNothing
<1>3. requests' \in 0..MaxRequests
  BY <1>1, ActiveWorkflowsAssumption DEF IInv, Activity, AddRecords, RequestRecords
<1>4. CASE row = "active"
  <2>1. /\ request' = [at |-> "clear", kind |-> kind]
        /\ row' = row /\ adds' = adds /\ gaveUp' = gaveUp /\ halfWay' = halfWay
    BY <1>4 DEF Request
  <2>2. /\ request' \in RequestRecords
        /\ request'.at = "clear"
    BY <2>1 DEF RequestRecords
  <2>3. Activity' /\ FewTimers'
    BY <1>1, <1>2, <1>3, <2>1, <2>2, OthersGoOn DEF IInv, Activity, AddRecords, RequestRecords
  <2>4. Memory'
    BY <1>1, <2>1 DEF IInv, Memory
  <2>5. ASSUME spoiled' = {} PROVE OneThing' /\ Whose'
    <3>1. OneThing'
      BY <1>1, <1>2, <2>1, <2>2, <2>5 DEF OneThing, InFlight, Adding
    <3>2. Whose'
      BY <1>1, <1>2, <1>4, <2>1, <2>2, <2>5 DEF Whose, NodesLeft
    <3> QED BY <3>1, <3>2
  <2> QED BY <2>3, <2>4, <2>5 DEF IInv, Sound
<1>5. CASE row = "inactive"
  <2>1. /\ row' = "active" /\ request' = [at |-> "adding", kind |-> kind]
        /\ BeginAdd("request") /\ gaveUp' = "no"
    BY <1>5 DEF Request
  <2>2. request' \in [at: {"adding"}, kind: Kinds]
    BY <2>1
  <2>3. spoiled' = {} =>
           /\ spoiled = {} /\ OneThing /\ NodesLeft /\ EntryLeft /\ WebhooksLeft
           /\ queued = "none" /\ removals = {}
           /\ \A k \in Activations : adds[k].at = "over"
    BY <1>2, <1>5 DEF Whose
  <2> QED BY <1>1, <1>2, <1>3, <2>1, <2>2, <2>3, RequestBegins
<1> QED
  BY <1>4, <1>5 DEF IInv, Memory

\* A request that fails: the workflow is active, and the memory is as it was.
LEMMA RequestEnds ==
  ASSUME IInv, request.at \in {"idle", "clear", "write", "revert"}, request' = NoRequest,
         row' = "active", gaveUp' \in Reasons, UNCHANGED <<memory, halfWay, spoiled>>,
         webhooks' \in BOOLEAN, kept' \in BOOLEAN,
         mishaps' = mishaps + 1, mishaps < MaxMishaps, requests' \in 0..MaxRequests
  PROVE  IInv'
<1>1. /\ adds' = adds /\ entry' = entry /\ responses' = responses
      /\ listening' = listening /\ crons' = crons /\ queued' = queued /\ strays' = strays
      /\ removals' = removals /\ halfWay' = halfWay /\ spoiled' = spoiled
  BY DEF memory
<1>2. NoRequest \in RequestRecords /\ NoRequest.at = "idle"
  BY DEF NoRequest, Kinds, RequestRecords
<1>3. Activity' /\ FewTimers'
  <2>1. mishaps' \in 0..MaxMishaps /\ mishaps' >= mishaps
    BY ActiveWorkflowsAssumption DEF IInv, Activity
  <2>2. spoiled' \subseteq Unsafe
    BY <1>1 DEF IInv, Activity
  <2> QED BY <1>1, <1>2, <2>1, <2>2, OthersGoOn
<1>4. Memory'
  BY <1>1 DEF IInv, Memory
<1>5. ASSUME spoiled = {} PROVE OneThing' /\ Whose'
  <2>1. OneThing /\ Whose
    BY <1>5 DEF IInv, Sound
  <2>2. \A k \in Activations : InFlight(k) => request.at = "idle" /\ adds[k].by # "request"
    BY <2>1 DEF OneThing
  <2>3. \A r \in removals : r.by # TheRequest /\ queued = "waiting"
    BY <2>1 DEF OneThing
  <2>4. OneThing'
    BY <1>1, <1>2, <2>1, <2>2, <2>3 DEF OneThing, InFlight, Adding
  <2>5. Whose'
    <3>1. \A k \in Activations : adds[k].at = "begun" => adds[k].by # "request"
      BY <2>2 DEF InFlight
    <3>2. request'.at = "idle"
      BY <1>2
    <3> QED BY <1>1, <2>1, <3>1, <3>2 DEF Whose, NodesLeft
  <2> QED BY <2>4, <2>5
<1> QED
  BY <1>1, <1>3, <1>4, <1>5 DEF IInv, Sound

LEMMA ActivationLostStep ==
  ASSUME IInv, ActivationLost
  PROVE  IInv'
<1>1. requests' \in 0..MaxRequests /\ gaveUp' \in Reasons
  BY ActiveWorkflowsAssumption DEF ActivationLost, Reasons, IInv, Activity
<1>2. /\ request = NoRequest /\ request' = NoRequest /\ NoRequest.at = "idle"
      /\ row' = "active" /\ mishaps < MaxMishaps /\ mishaps' = mishaps + 1
      /\ webhooks' = webhooks /\ kept' = kept /\ UNCHANGED <<memory, halfWay, spoiled>>
  BY DEF ActivationLost, NoRequest, left
<1>3. webhooks' \in BOOLEAN /\ kept' \in BOOLEAN
  BY <1>2 DEF IInv, Memory
<1> QED
  BY <1>1, <1>2, <1>3, RequestEnds

\* A request that was on its way fails, and leaves the row as it is: active, without an
\* overlap.
LEMMA RequestFails ==
  ASSUME IInv, request.at \in {"clear", "write", "revert"}, request' = NoRequest,
         gaveUp' \in Reasons, UNCHANGED <<row, memory, halfWay, spoiled, requests>>,
         \/ webhooks' = webhooks /\ kept' = kept
         \/ webhooks' = FALSE /\ kept' = FALSE,
         mishaps' = mishaps + 1, mishaps < MaxMishaps
  PROVE  IInv'
<1>1. requests' \in 0..MaxRequests
  BY DEF IInv, Activity
<1>2. webhooks' \in BOOLEAN /\ kept' \in BOOLEAN
  BY Zenon DEF IInv, Memory
<1>3. CASE row = "active"
  BY <1>1, <1>2, <1>3, RequestEnds
<1>4. CASE row # "active"
  <2>1. spoiled # {}
    BY <1>4 DEF IInv, Sound, Whose, Busy, NoRequest
  <2>2. Activity' /\ FewTimers'
    <3>1. NoRequest \in RequestRecords
      BY DEF NoRequest, Kinds, RequestRecords
    <3>2. mishaps' \in 0..MaxMishaps /\ mishaps' >= mishaps
      BY ActiveWorkflowsAssumption DEF IInv, Activity
    <3>3. spoiled' \subseteq Unsafe /\ adds' = adds /\ strays' = strays /\ queued' = queued
      BY DEF IInv, Activity, memory
    <3> QED BY <1>1, <3>1, <3>2, <3>3, OthersGoOn
  <2>3. Memory'
    BY <1>2 DEF IInv, Memory, memory
  <2> QED BY <2>1, <2>2, <2>3 DEF IInv, Sound
<1> QED
  BY <1>3, <1>4

LEMMA WriteRowStep ==
  ASSUME IInv, WriteRow
  PROVE  IInv'
<1>1. /\ request.at = "write"
      /\ webhooks' = webhooks /\ entry' = entry /\ responses' = responses
      /\ listening' = listening /\ crons' = crons /\ queued' = queued /\ strays' = strays
      /\ removals' = removals /\ requests' = requests /\ mishaps' = mishaps
      /\ kept' = kept
  BY DEF WriteRow, counts
<1>2. request \in RequestRecords
  BY DEF IInv, Activity, AddRecords, RequestRecords
<1>3. ASSUME spoiled = {}
      PROVE  /\ OneThing /\ Whose /\ NodesLeft /\ EntryLeft /\ queued = "none" /\ WebhooksLeft
             /\ row = "active"
             /\ removals = {} /\ \A k \in Activations : adds[k].at = "over"
  <2>1. OneThing /\ Whose
    BY <1>3 DEF IInv, Sound
  <2>2. /\ removals = {} /\ \A k \in Activations : adds[k].at = "over"
    BY <1>1, <2>1 DEF OneThing, InFlight, IInv, Activity, AddRecords, RequestRecords
  <2>3. row = "active"
    BY <1>1, <2>1 DEF Whose, Busy, NoRequest
  <2> QED BY <1>1, <2>1, <2>2, <2>3 DEF OneThing, Whose
<1>4. CASE request.kind = "update"
  <2>1. /\ request' = [request EXCEPT !.at = "adding"] /\ BeginAdd("request") /\ gaveUp' = "no"
        /\ Spoil(MeetsError) /\ row' = row
    BY <1>4 DEF WriteRow
  <2>2. /\ spoiled' \subseteq Unsafe
        /\ spoiled' = {} => spoiled = {}
    <3>1. MeetsError \in SUBSET Unsafe
      BY DEF MeetsError, Hopeless, Unsafe
    <3> QED BY <2>1, <3>1, SpoilFacts DEF IInv
  <2>3. request' \in [at: {"adding"}, kind: Kinds]
    BY <1>2, <2>1 DEF RequestRecords
  <2>4. requests' \in 0..MaxRequests
    BY <1>1 DEF IInv, Activity, AddRecords, RequestRecords
  <2>5. /\ row' \in {"active", "inactive"}
        /\ spoiled' = {} => row' = "active"
    BY <1>3, <2>1, <2>2 DEF IInv, Memory
  <2> QED BY <1>1, <1>3, <2>1, <2>2, <2>3, <2>4, <2>5, RequestBegins
<1>5. CASE request.kind = "deactivate"
  <2>1. /\ row' = "inactive" /\ request' = NoRequest /\ adds' = adds /\ gaveUp' = gaveUp
        /\ spoiled' = spoiled /\ halfWay' = halfWay
    BY <1>5 DEF WriteRow
  <2>2. NoRequest \in RequestRecords
    BY DEF NoRequest, Kinds, RequestRecords
  <2>3. Activity' /\ FewTimers'
    BY <1>1, <2>1, <2>2, OthersGoOn DEF IInv, Activity, AddRecords, RequestRecords
  <2>4. Memory'
    BY <1>1, <2>1 DEF IInv, Memory
  <2>5. ASSUME spoiled = {} PROVE OneThing' /\ Whose'
    <3>1. request'.at = "idle" /\ \A k \in Activations : ~InFlight(k)'
      BY <1>3, <2>1, <2>5 DEF NoRequest, InFlight
    <3>2. OneThing'
      BY <1>1, <1>3, <2>1, <2>5, <3>1 DEF OneThing
    <3>3. ~Busy'
      BY <1>1, <1>3, <2>1, <2>5, <3>1 DEF Busy, Adding
    <3>4. NodesLeft' /\ EntryLeft' /\ WebhooksLeft'
      BY <1>1, <1>3, <2>1, <2>5 DEF NodesLeft, EntryLeft, WebhooksLeft
    <3>5. Whose'
      <4>1. \A x \in listening' \cup crons' : x[1] \in halfWay'
        BY <3>4 DEF NodesLeft
      <4> QED BY <1>1, <1>3, <2>1, <2>5, <3>1, <3>3, <3>4, <4>1 DEF Whose, InFlight
    <3> QED BY <3>2, <3>5
  <2> QED BY <2>1, <2>3, <2>4, <2>5 DEF IInv, Sound
<1> QED
  BY <1>4, <1>5 DEF WriteRow

LEMMA WriteFailsStep ==
  ASSUME IInv, WriteFails
  PROVE  IInv'
<1>1. /\ request.at = "write" /\ request' = NoRequest /\ gaveUp' \in Reasons
      /\ mishaps < MaxMishaps /\ mishaps' = mishaps + 1 /\ requests' = requests
      /\ row' = row /\ webhooks' = webhooks /\ kept' = kept
      /\ UNCHANGED <<memory, halfWay, spoiled>>
  BY DEF WriteFails, Mishap, Reasons, left
<1> QED
  BY <1>1, RequestFails

LEMMA RemoveWorkflowStep ==
  ASSUME IInv, RemoveWorkflow
  PROVE  IInv'
<1>1. /\ request.at = "clear"
      /\ queued' = "none"
      /\ IF entry = None THEN UNCHANGED <<crons, entry, removals>> ELSE Remove(TheRequest)
      /\ request' = [request EXCEPT !.at = IF removals' = removals THEN "write" ELSE "closing"]
      /\ row' = row /\ adds' = adds /\ responses' = responses /\ listening' = listening
      /\ strays' = strays /\ gaveUp' = gaveUp /\ halfWay' = halfWay /\ spoiled' = spoiled
  BY DEF RemoveWorkflow, RemoveQueued
<1>2. request \in RequestRecords
  BY DEF IInv, Activity, AddRecords, RequestRecords
<1>3. /\ webhooks' \in BOOLEAN /\ kept' \in BOOLEAN /\ requests' = requests
      /\ mishaps' \in 0..MaxMishaps /\ mishaps' >= mishaps
      /\ WebhooksLeft'
  <2>1. requests \in 0..MaxRequests /\ mishaps \in 0..MaxMishaps /\ webhooks \in BOOLEAN
    BY DEF IInv, Activity, AddRecords, RequestRecords, Memory
  <2>2. CASE webhooks' = FALSE /\ kept' = FALSE /\ UNCHANGED counts
    <3>1. requests' = requests /\ mishaps' = mishaps
      BY <2>2 DEF counts
    <3>2. mishaps' \in 0..MaxMishaps /\ mishaps' >= mishaps
      BY <2>1, <3>1, ActiveWorkflowsAssumption
    <3> QED BY <2>1, <2>2, <3>1, <3>2, Zenon DEF WebhooksLeft
  <2>3. CASE Mishap /\ kept' = TRUE /\ UNCHANGED webhooks
    <3>2. /\ webhooks' = webhooks /\ kept' = TRUE /\ requests' = requests
          /\ mishaps < MaxMishaps /\ mishaps' = mishaps + 1
      BY <2>3 DEF Mishap
    <3>3. mishaps' \in 0..MaxMishaps /\ mishaps' >= mishaps
      BY <2>1, <3>2, ActiveWorkflowsAssumption
    <3> QED BY <2>1, <3>2, <3>3, Zenon DEF WebhooksLeft
  <2> QED BY <2>2, <2>3 DEF RemoveWorkflow
<1>4. request' \in [at: {"closing", "write"}, kind: Kinds]
  BY <1>1, <1>2 DEF RequestRecords
<1>5. Activity' /\ FewTimers'
  <2>1. request' \in RequestRecords
        /\ request'.at # "idle"
    BY <1>4 DEF RequestRecords
  <2> QED BY <1>1, <1>3, <2>1, OthersGoOn DEF IInv, Activity, AddRecords, RequestRecords
<1>6. Memory'
  <2>1. CASE entry = None
    BY <1>1, <1>3, <2>1 DEF IInv, Memory
  <2>2. CASE entry # None
    BY <1>1, <1>3, <2>2, RemoveFacts DEF IInv, Memory
  <2> QED BY <2>1, <2>2
<1>7. ASSUME spoiled = {} PROVE OneThing' /\ Whose'
  <2>1. OneThing /\ Whose /\ WebhooksLeft'
    BY <1>3, <1>7 DEF IInv, Sound
  <2>2. /\ removals = {} /\ (\A k \in Activations : adds[k].at = "over") /\ row = "active"
        /\ strays = 0
    BY <1>1, <2>1 DEF OneThing, Whose, InFlight, Busy, NoRequest, IInv, Activity,
                      AddRecords, RequestRecords
  <2>3. \A x \in listening \cup crons : x[1] = entry \/ x[1] \in halfWay
    BY <2>1 DEF Whose
  <2>4. ASSUME removals' = {}, NodesLeft', EntryLeft', request'.at = "write"
        PROVE  OneThing' /\ Whose'
    <3>1. OneThing'
      BY <1>1, <2>2, <2>4 DEF OneThing, InFlight
    <3>2. \A x \in listening' \cup crons' : x[1] \in halfWay'
      BY <2>4 DEF NodesLeft
    <3>3. Whose'
      BY <1>1, <2>1, <2>2, <2>4, <3>2 DEF Whose
    <3> QED BY <3>1, <3>3
  <2>5. CASE entry = None
    <3>1. removals' = {} /\ entry' = None /\ crons' = crons /\ request'.at = "write"
      BY <1>1, <1>2, <2>2, <2>5
    <3>2. NodesLeft'
      BY <1>1, <2>3, <2>5, <3>1, NodesFacts DEF NodesLeft, IInv, Memory
    <3>3. EntryLeft'
      BY <3>1 DEF EntryLeft
    <3> QED BY <2>4, <3>1, <3>2, <3>3
  <2>6. CASE entry # None
    <3>1. /\ crons' = {}
          /\ \/ responses[entry] = <<>> /\ entry' = None /\ removals' = removals
             \/ \E r \in Removals :
                  /\ r.by = TheRequest /\ r.of = entry /\ r.at = 1
                  /\ removals' = removals \cup {r} /\ entry' = entry
      BY <1>1, <1>3, <2>6, RemoveFacts DEF IInv, Memory
    <3>2. \A x \in listening :
             x[1] \in halfWay \/ x \in { responses[entry][j] : j \in 1..Len(responses[entry]) }
      BY <2>1, <2>2, <2>6 DEF Whose
    <3>3. CASE responses[entry] = <<>> /\ entry' = None /\ removals' = removals
      <4>1. NodesLeft' /\ EntryLeft'
        BY <1>1, <3>1, <3>2, <3>3 DEF NodesLeft, EntryLeft
      <4>2. request'.at = "write"
        BY <1>1, <1>2, <3>3
      <4> QED BY <2>2, <2>4, <3>3, <4>1, <4>2
    <3>4. ASSUME NEW r \in Removals, r.by = TheRequest, r.of = entry, r.at = 1,
                 removals' = removals \cup {r}, entry' = entry
          PROVE  OneThing' /\ Whose'
      <4>1. removals' = {r} /\ removals' # removals
        BY <2>2, <3>4
      <4>2. request'.at = "closing"
        BY <1>1, <1>2, <4>1
      <4>3. OneThing'
        BY <1>1, <2>2, <3>4, <4>1, <4>2 DEF OneThing, InFlight
      <4>4. \A x \in listening' \cup crons' : x[1] = entry' \/ x[1] \in halfWay'
        BY <1>1, <2>3, <3>1, <3>4
      <4>5. \A x \in listening' : x[1] \in halfWay'
               \/ x \in { responses'[r.of][j] : j \in r.at..Len(responses'[r.of]) }
        BY <1>1, <3>2, <3>4
      <4>6. Whose'
        BY <1>1, <2>1, <2>2, <3>1, <3>4, <4>1, <4>2, <4>4, <4>5 DEF Whose
      <4> QED BY <4>3, <4>6
    <3> QED BY <3>1, <3>3, <3>4
  <2> QED BY <2>5, <2>6
<1> QED
  BY <1>1, <1>5, <1>6, <1>7 DEF IInv, Sound

LEMMA RemoveFailsStep ==
  ASSUME IInv, RemoveFails
  PROVE  IInv'
<1>1. /\ request.at = "clear" /\ request' = NoRequest /\ gaveUp' \in Reasons
      /\ mishaps < MaxMishaps /\ mishaps' = mishaps + 1 /\ requests' = requests
      /\ row' = row /\ webhooks' = FALSE /\ kept' = FALSE
      /\ UNCHANGED <<memory, halfWay, spoiled>>
  BY DEF RemoveFails, Mishap, Reasons
<1> QED
  BY <1>1, RequestFails

LEMMA RevertStep ==
  ASSUME IInv, Revert
  PROVE  IInv'
<1>1. /\ request.at = "revert" /\ request' = NoRequest
      /\ webhooks' = webhooks /\ UNCHANGED memory
      /\ adds' = adds /\ entry' = entry /\ responses' = responses
      /\ listening' = listening /\ crons' = crons /\ queued' = queued /\ strays' = strays
      /\ removals' = removals /\ spoiled' = spoiled /\ halfWay' = halfWay /\ kept' = kept
  BY DEF Revert, memory, left
<1>2. CASE Mishap /\ gaveUp' = "abandoned" /\ UNCHANGED row
  <2>1. gaveUp' \in Reasons /\ mishaps < MaxMishaps /\ mishaps' = mishaps + 1
        /\ requests' = requests
    BY <1>2 DEF Reasons, Mishap
  <2> QED BY <1>1, <1>2, <2>1, RequestFails
<1>3. CASE row' = "inactive" /\ UNCHANGED <<gaveUp, counts>>
  <2>1. /\ NoRequest \in RequestRecords
        /\ NoRequest.at = "idle"
    BY DEF NoRequest, Kinds, RequestRecords
  <2>2. gaveUp' = gaveUp /\ requests' = requests /\ mishaps' = mishaps
    BY <1>3 DEF counts
  <2>3. Activity' /\ FewTimers'
    BY <1>1, <2>1, <2>2, OthersGoOn DEF IInv, Activity, AddRecords, RequestRecords
  <2>4. Memory'
    BY <1>1, <1>3 DEF IInv, Memory
  <2>5. ASSUME spoiled = {} PROVE OneThing' /\ Whose'
    <3>1. OneThing /\ Whose
      BY <2>5 DEF IInv, Sound
    <3>2. /\ removals = {} /\ \A k \in Activations : adds[k].at = "over"
      BY <1>1, <3>1 DEF OneThing, InFlight, IInv, Activity, AddRecords, RequestRecords
    <3>3. NodesLeft /\ EntryLeft /\ queued = "none" /\ WebhooksLeft /\ strays = 0
      BY <1>1, <3>1 DEF OneThing, Whose
    <3>4. NodesLeft' /\ EntryLeft' /\ WebhooksLeft'
      BY <1>1, <3>3 DEF NodesLeft, EntryLeft, WebhooksLeft
    <3>5. \A k \in Activations : ~InFlight(k)'
      BY <1>1, <3>2 DEF InFlight
    <3>6. OneThing'
      BY <1>1, <2>1, <3>2, <3>3, <3>5 DEF OneThing
    <3>7. ~Busy'
      BY <1>1, <3>2, <3>5 DEF Busy, Adding
    <3>8. Whose'
      <4>1. \A x \in listening' \cup crons' : x[1] \in halfWay'
        BY <3>4 DEF NodesLeft
      <4> QED BY <1>1, <2>1, <3>2, <3>3, <3>4, <3>7, <4>1 DEF Whose
    <3> QED BY <3>6, <3>8
  <2> QED BY <1>1, <2>3, <2>4, <2>5 DEF IInv, Sound
<1> QED
  BY <1>2, <1>3 DEF Revert

\* What a process has when it starts: no more than one activation, of an active workflow.
Fresh ==
  /\ entry = None /\ responses = [n \in Activations |-> <<>>]
  /\ listening = {} /\ crons = {} /\ removals = {}
  /\ queued = "none" /\ strays = 0
  /\ request = NoRequest /\ gaveUp = "no" /\ halfWay = {}
  /\ LET none == [n \in Activations |-> Over]
     IN adds = IF row = "active" THEN [none EXCEPT ![1].at = "begun"] ELSE none

\* What it finds.
Around ==
  /\ row \in {"active", "inactive"} /\ webhooks \in BOOLEAN /\ kept \in BOOLEAN
  /\ spoiled = {} /\ row # "active" => WebhooksLeft
  /\ requests \in 0..MaxRequests /\ mishaps \in 0..MaxMishaps
  /\ spoiled \subseteq Unsafe

LEMMA FreshFacts ==
  Fresh /\ Around => IInv
<1> SUFFICES ASSUME Fresh, Around PROVE IInv
  OBVIOUS
<1>0. /\ row \in {"active", "inactive"} /\ webhooks \in BOOLEAN /\ kept \in BOOLEAN
      /\ spoiled = {} /\ row # "active" => WebhooksLeft
      /\ requests \in 0..MaxRequests /\ mishaps \in 0..MaxMishaps
      /\ spoiled \subseteq Unsafe
  BY DEF Around
<1>1. /\ entry = None /\ responses = [n \in Activations |-> <<>>]
      /\ listening = {} /\ crons = {} /\ removals = {}
      /\ queued = "none" /\ strays = 0
      /\ request = NoRequest /\ gaveUp = "no" /\ halfWay = {}
  BY DEF Fresh
<1>2. Over = [at |-> "over", node |-> 1, by |-> "start"] /\ 1 \in 1..Len(Nodes)
  BY NodesFacts DEF Over
<1>3. /\ adds \in [Activations -> AddRecords]
      /\ \A k \in Activations :
           /\ adds[k].at = IF k = 1 /\ row = "active" THEN "begun" ELSE "over"
           /\ adds[k].by = "start"
  BY <1>2 DEF Fresh, AddRecords
<1>4. Activity
  <2>1. NoRequest \in RequestRecords
    BY DEF NoRequest, Kinds, RequestRecords
  <2> QED BY <1>0, <1>1, <1>3, <2>1 DEF Activity, AddRecords, RequestRecords, Reasons
<1>5. FewTimers
  <2>1. Timing \subseteq {1}
    BY <1>3 DEF Timing, InFlight
  <2>2. Cardinality(Timing) \in Nat /\ Cardinality(Timing) <= 1
    <3>1. IsFiniteSet({1}) /\ Cardinality({1}) = 1
      BY FS_Singleton
    <3> QED BY <2>1, <3>1, FiniteTiming, FS_Subset
  <2>3. Pending(queued) = 0
    BY <1>1 DEF Pending
  <2> QED BY <1>0, <1>1, <2>2, <2>3 DEF FewTimers
<1>6. Memory
  <2>1. responses \in [Activations -> Seq(Started)]
    BY <1>1, EmptySeq
  <2> QED BY <1>0, <1>1, <2>1 DEF Memory
<1>7. NoRequest.at = "idle"
  BY DEF NoRequest
<1>8. OneThing
  BY <1>1, <1>3, <1>7 DEF OneThing, InFlight, Adding
<1>9. ASSUME spoiled = {} PROVE Whose
  <2>1. row # "active" => ~Busy /\ WebhooksLeft
    BY <1>0, <1>1, <1>3, <1>9 DEF Busy, Adding, InFlight
  <2> QED BY <1>1, <1>3, <1>7, <2>1 DEF Whose, NodesLeft, EntryLeft
<1> QED
  BY <1>4, <1>5, <1>6, <1>8, <1>9 DEF IInv, Sound

LEMMA InitInvariant == Init => IInv
<1> SUFFICES ASSUME Init PROVE IInv
  OBVIOUS
<1>1. Fresh
  BY DEF Init, Fresh
<1>2. Around
  <2>1. /\ row \in {"active", "inactive"} /\ requests = 0 /\ mishaps = 0 /\ spoiled = {}
        /\ kept \in BOOLEAN
    BY DEF Init
  <2>2. webhooks \in BOOLEAN /\ (row # "active" => WebhooksLeft)
    BY Zenon DEF Init, WebhooksLeft
  <2> QED BY <2>1, <2>2, ActiveWorkflowsAssumption DEF Around
<1> QED
  BY <1>1, <1>2, FreshFacts

LEMMA RestartStep ==
  ASSUME IInv, Restart
  PROVE  IInv'
<1>1. Fresh'
  BY DEF Restart, Fresh
<1>2. /\ requests' = requests /\ mishaps < MaxMishaps /\ mishaps' = mishaps + 1
      /\ row' = row /\ webhooks' = webhooks /\ kept' = kept /\ spoiled' = spoiled
  BY DEF Restart, Mishap
<1>3. mishaps' \in 0..MaxMishaps
  BY <1>2, ActiveWorkflowsAssumption DEF IInv, Activity, AddRecords, RequestRecords
<1>4. spoiled = {} /\ row # "active" => WebhooksLeft
  BY DEF IInv, Sound, Whose
<1>5. Around'
  BY <1>2, <1>3, <1>4 DEF Around, WebhooksLeft, IInv, Activity, AddRecords, RequestRecords, Memory
<1>6. (Fresh /\ Around => IInv)'
  BY FreshFacts, PTL
<1> QED
  BY <1>1, <1>5, <1>6

-----------------------------------------------------------------------------
(* The theorems.                                                           *)

LEMMA NextInvariant == IInv /\ [Next]_vars => IInv'
<1> SUFFICES ASSUME IInv, [Next]_vars PROVE IInv'
  OBVIOUS
<1>1. ASSUME NEW n \in Activations, AddStep(n) PROVE IInv'
  BY <1>1, WebhooksAddedStep, WebhooksFailStep, TriggerStartsStep, PollerStartsStep,
     NodeFailsStep, AddReturnsStep DEF AddStep
<1>2. ASSUME Closing PROVE IInv'
  BY <1>2, ClosesStep, CloseFailsStep DEF Closing
<1>3. ASSUME Timers PROVE IInv'
  BY <1>3, TimersStep
<1>4. ASSUME RequestGoesOn PROVE IInv'
  BY <1>4, RemoveWorkflowStep, RemoveFailsStep, WriteRowStep, WriteFailsStep, RevertStep DEF RequestGoesOn
<1>5. ASSUME NEW n \in Activations, NEW i \in 1..Len(Nodes), TriggerErrors(n, i) PROVE IInv'
  BY <1>5, TriggerErrorsStep
<1>6. ASSUME NEW kind \in Kinds, Request(kind) PROVE IInv'
  BY <1>6, RequestStep
<1>9. ASSUME ActivationLost PROVE IInv'
  BY <1>9, ActivationLostStep
<1>7. ASSUME Restart PROVE IInv'
  BY <1>7, RestartStep
<1>8. CASE UNCHANGED vars
  <2>1. /\ row' = row /\ webhooks' = webhooks /\ adds' = adds /\ entry' = entry
        /\ responses' = responses /\ listening' = listening /\ crons' = crons
        /\ queued' = queued /\ strays' = strays /\ removals' = removals
        /\ request' = request /\ gaveUp' = gaveUp /\ requests' = requests
        /\ mishaps' = mishaps /\ spoiled' = spoiled /\ halfWay' = halfWay /\ kept' = kept
    BY <1>8 DEF vars, memory, counts, left
  <2>2. Activity' /\ FewTimers' /\ Memory'
    BY <2>1 DEF IInv, Activity, AddRecords, RequestRecords, FewTimers, Memory, Timing, InFlight
  <2>3. Sound'
    BY <2>1 DEF IInv, Sound, OneThing, Whose, NodesLeft, EntryLeft, WebhooksLeft,
                   Busy, Adding, InFlight
  <2> QED BY <2>2, <2>3 DEF IInv
<1> QED
  BY <1>1, <1>2, <1>3, <1>4, <1>5, <1>6, <1>7, <1>8, <1>9 DEF Next, Goes

THEOREM Invariance == Spec => []IInv
<1> QED
  BY InitInvariant, NextInvariant, PTL DEF Spec

\* The memory has its types whatever happens: what is about to be closed exists, and there
\* are never more timers that nothing points to than mishaps.
THEOREM TypeCorrect == Spec => []TypeOK
<1>1. IInv => TypeOK
  <2> SUFFICES ASSUME IInv PROVE TypeOK
    OBVIOUS
  <2>1. strays \in 0..MaxMishaps
    BY ActiveWorkflowsAssumption DEF IInv, Activity, AddRecords, RequestRecords, FewTimers
  <2>2. \A n \in Activations : \A i \in 1..Len(responses[n]) : responses[n][i] \in Started
    BY ElementOfSeq DEF IInv, Memory
  <2>3. \A r \in removals : /\ r.by \in Started \cup {TheRequest} /\ r.of \in Activations
                             /\ r.at \in 1..Len(responses[r.of])
    BY DEF IInv, Memory, Removals
  <2> QED BY <2>1, <2>2, <2>3 DEF TypeOK, IInv, Activity, AddRecords, RequestRecords, Reasons, Memory
<1> QED
  BY <1>1, Invariance, PTL

\* What is told to stop is silent but for what a failed activation or removal left behind, in
\* whatever order activations, retries, errors of triggers, requests and restarts come and
\* fail, while no two of them overlap and nothing left behind revives the workflow.
THEOREM ToldToStop == Spec => []Inv
<1>1. IInv => StopsWhenTold
  <2> SUFFICES ASSUME IInv, row # "active", spoiled = {}
               PROVE  /\ queued = "none" /\ strays = 0
                      /\ entry # None => entry \in halfWay
                      /\ \A it \in listening \cup crons : it[1] \in halfWay
                      /\ webhooks => kept
    BY DEF StopsWhenTold
  <2> QED BY DEF IInv, Sound, OneThing, Whose, NodesLeft, EntryLeft, WebhooksLeft
<1> QED
  BY <1>1, TypeCorrect, Invariance, PTL DEF Inv

\* An event starts the workflow once, with the nodes that were saved last, but for what a
\* failed activation or removal left behind, in the same histories.
THEOREM LatestListens == Spec => []OnlyTheLatestListens
<1>1. IInv => OnlyTheLatestListens
  BY DEF IInv, Sound, Whose, OnlyTheLatestListens
<1> QED
  BY <1>1, Invariance, PTL

============================================================================
