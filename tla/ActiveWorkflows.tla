-------------------------- MODULE ActiveWorkflows --------------------------
(***************************************************************************)
(* How one main process keeps one workflow active: ActiveWorkflowManager   *)
(* (webhooks, retried activation) over ActiveWorkflows (triggers and       *)
(* pollers in memory), driven by WorkflowService when a user saves,        *)
(* activates, deactivates or deletes the workflow.  Both keep everything   *)
(* under the ID of the workflow, so workflows do not meet.                 *)
(*                                                                         *)
(* An activation is named by a number: it makes one entry in memory and    *)
(* starts every node once, so <<n, node>> names what it started.  The      *)
(* number is used again when nothing that it made is left.                 *)
(***************************************************************************)
EXTENDS Naturals, Sequences, FiniteSets

CONSTANTS
  Triggers,      \* the trigger nodes of the workflow, in order
  Pollers,       \* its polling nodes, in order
  MaxActivations, \* bound: activations of which something is left at the same time
  MaxRequests,   \* bound: requests of users
  MaxMishaps,    \* bound: calls that fail, triggers that report an error, restarts
  BeyondHope     \* bound: do requests and mishaps go on once something hopeless happened?

Nodes == Triggers \o Pollers
IsTrigger(i) == i <= Len(Triggers)

ASSUME ActiveWorkflowsAssumption ==
  /\ \A s \in {Triggers, Pollers} : s \in Seq({ s[i] : i \in DOMAIN s })
  /\ Len(Triggers) >= 1
  /\ \A i, j \in 1..Len(Nodes) : i # j => Nodes[i] # Nodes[j]
  /\ {MaxActivations, MaxRequests, MaxMishaps} \subseteq Nat
  /\ BeyondHope \in BOOLEAN

\* "deactivate" stands for deletion too
Kinds == {"update", "activate", "deactivate"}
Activations == 1..MaxActivations
None == 0
Started == Activations \X {Nodes[i] : i \in 1..Len(Nodes)}

VARIABLES
  row,         \* the workflow in the database
  webhooks,    \* are its webhooks in the database?
  adds,        \* the activations: who asked, and how far add() is
  entry,       \* ActiveWorkflows.activeWorkflows: the activation that made the entry
  responses,   \* the trigger responses in the entry that each activation made
  listening,   \* triggers that are connected
  crons,       \* ScheduledTaskManager: the jobs of the pollers
  queued,      \* queuedActivations, with the timer it points to
  strays,      \* timers of retries that nothing points to any more
  removals,    \* ActiveWorkflows.remove() on its way: who asked, the entry, the response
  request,     \* the request of a user
  gaveUp,      \* has the activation of an active workflow been given up?
  requests, mishaps,   \* how many there have been
  halfWay,     \* history: activations that failed, or were not closed, with an entry made
  kept,        \* history: have webhooks stayed because a call failed?
  spoiled      \* history: what has happened that the code does not cope with
left   == <<halfWay, kept>>
memory == <<adds, entry, responses, listening, crons, queued, strays, removals>>
counts == <<requests, mishaps>>
vars   == <<row, webhooks, memory, request, gaveUp, counts, left, spoiled>>

TheRequest == <<>>   \* the removal of a request, not of a trigger that reported an error
NoRequest == [at |-> "idle", kind |-> "update"]

Hopeless == {"errorMeetsAdd", "othersCleared"}
Unsafe   == {"overlap", "revived"} \cup Hopeless

TypeOK ==
  /\ row \in {"active", "inactive"}
  /\ webhooks \in BOOLEAN /\ kept \in BOOLEAN
  /\ gaveUp \in {"no", "unauthorized", "abandoned"} /\ halfWay \subseteq Activations
  /\ adds \in [Activations -> [at: {"over", "begun", "node", "saving"}, node: 1..Len(Nodes),
                               by: {"start", "request", "retry"}]]
  /\ entry \in Activations \cup {None}
  /\ \A n \in Activations : \A i \in 1..Len(responses[n]) : responses[n][i] \in Started
  /\ listening \subseteq Started /\ crons \subseteq Started
  /\ queued \in {"none", "waiting", "fired"}
  /\ strays \in 0..MaxMishaps
  /\ \A r \in removals : /\ r.by \in Started \cup {TheRequest} /\ r.of \in Activations
                          /\ r.at \in 1..Len(responses[r.of])
  /\ request \in [at: {"idle", "clear", "closing", "write", "adding", "revert"}, kind: Kinds]
  /\ requests \in 0..MaxRequests /\ mishaps \in 0..MaxMishaps
  /\ spoiled \subseteq Unsafe

InFlight(n) == adds[n].at # "over"
Adding      == \E n \in Activations : InFlight(n)
Starting    == \E n \in Activations : adds[n].at \in {"begun", "node"}
Busy        == Adding \/ removals # {} \/ request # NoRequest
Quiet       == ~Busy

Over == [at |-> "over", node |-> 1, by |-> "start"]

\* nothing is left of activation n
Free(n) ==
  /\ ~InFlight(n) /\ n # entry
  /\ \A it \in listening \cup crons : it[1] # n
  /\ \A r \in removals : r.of # n

\* an activation begins: add() with its first await
BeginAdd(who) ==
  \E n \in Activations :
     /\ Free(n) /\ \A k \in 1..(n - 1) : ~Free(k)
     /\ adds' = [adds EXCEPT ![n] = [at |-> "begun", node |-> 1, by |-> who]]
     /\ halfWay' = { k \in halfWay : ~Free(k) }

\* what is neither the entry nor held by a removal is garbage
Collect == responses' = [n \in Activations |->
  IF n = entry' \/ \E r \in removals' : r.of = n THEN responses[n] ELSE <<>>]

Bounded   == BeyondHope \/ spoiled \cap Hopeless = {}
Mishap    == mishaps < MaxMishaps /\ Bounded /\ mishaps' = mishaps + 1 /\ UNCHANGED requests
Spoil(S)  == spoiled' =
  IF spoiled \cap Hopeless # {} THEN spoiled
  ELSE IF S \cap Hopeless # {} THEN S \cap Hopeless ELSE spoiled \cup S
Meets     == IF Busy THEN {"overlap"} ELSE {}

Removing == \E r \in removals : r.by # TheRequest
MeetsError == IF Removing THEN {"errorMeetsAdd"} ELSE {}

Init ==
  /\ row \in {"active", "inactive"}
  /\ webhooks = (row = "active")
  /\ LET fresh == [n \in Activations |-> Over]
     IN adds = IF row = "active" THEN [fresh EXCEPT ![1].at = "begun"] ELSE fresh
  /\ entry = None /\ responses = [n \in Activations |-> <<>>]
  /\ listening = {} /\ crons = {} /\ removals = {}
  /\ queued = "none" /\ strays = 0
  /\ request = NoRequest /\ gaveUp = "no"
  /\ requests = 0 /\ mishaps = 0
  /\ halfWay = {} /\ kept = FALSE /\ spoiled = {}

-----------------------------------------------------------------------------
(* add(): the webhooks, then the triggers and the pollers one by one.      *)

\* everything has started: no retry is needed, and what is left is to be saved
AddSucceeds(n) ==
  /\ adds' = [adds EXCEPT ![n].at = "saving"]
  /\ queued' = "none"
  /\ UNCHANGED <<strays, request, gaveUp, halfWay>>


\* the catch of retryFunction(): with the entry gone it throws itself, and a timer that
\* somebody else has set meanwhile is no longer known to anybody
Reschedule ==
  \/ queued = "none" /\ UNCHANGED <<queued, strays>>
  \/ queued = "waiting" /\ strays' = strays + 1 /\ UNCHANGED queued
  \/ queued = "fired" /\ queued' = "waiting" /\ UNCHANGED strays

\* what has been started stays, and so does the entry
AddFails(n) ==
  /\ adds' = [adds EXCEPT ![n] = Over]
  /\ halfWay' = IF adds[n].at = "begun" THEN halfWay ELSE halfWay \cup {n}
  /\ \/ /\ adds[n].by = "start"
        /\ \/ gaveUp' = "unauthorized" /\ UNCHANGED queued
           \/ queued' = "waiting" /\ UNCHANGED gaveUp
        /\ UNCHANGED <<request, strays>>
     \/ /\ adds[n].by = "retry" /\ Reschedule
        /\ UNCHANGED <<request, gaveUp>>
     \/ /\ adds[n].by = "request"
        /\ request' = [request EXCEPT !.at = "revert"]
        /\ UNCHANGED <<queued, strays, gaveUp>>

Advance(n) ==
  IF adds[n].node = Len(Nodes) THEN AddSucceeds(n)
  ELSE /\ adds' = [adds EXCEPT ![n].node = @ + 1]
       /\ UNCHANGED <<queued, strays, request, gaveUp, halfWay>>

\* addWebhooks() has stored and created them; ActiveWorkflows.add() makes a new entry,
\* whatever is there, and starts the first node
WebhooksAdded(n) ==
  /\ adds[n].at = "begun"
  /\ webhooks' = TRUE
  /\ entry' = n
  /\ adds' = [adds EXCEPT ![n].at = "node"]
  /\ UNCHANGED <<row, listening, crons, queued, strays, removals, request,
                 gaveUp, counts, left, spoiled>>
  /\ Collect

\* the workflow cannot be loaded, or a webhook not be stored or created: then addWebhooks()
\* clears all of them, or fails in that too, and throws
WebhooksFail(n) ==
  /\ adds[n].at = "begun" /\ Mishap
  /\ \/ UNCHANGED <<webhooks, kept, spoiled>>
     \/ /\ webhooks' = FALSE /\ kept' = FALSE
        /\ Spoil(IF "overlap" \in spoiled THEN {"othersCleared"} ELSE {})
     \/ webhooks' = TRUE /\ kept' = TRUE /\ UNCHANGED spoiled
  /\ AddFails(n)
  /\ UNCHANGED <<row, entry, responses, listening, crons, removals>>

\* runTrigger() has returned a response, which goes to the entry that is there now
TriggerStarts(n) ==
  LET it == <<n, Nodes[adds[n].node]>> IN
  /\ adds[n].at = "node" /\ IsTrigger(adds[n].node)
  /\ listening' = listening \cup {it}
  /\ \/ /\ entry # None
        /\ responses' = [responses EXCEPT ![entry] = Append(@, it)]
        /\ Advance(n)
     \/ /\ entry = None
        /\ AddFails(n) /\ UNCHANGED responses
  /\ UNCHANGED <<row, webhooks, entry, crons, removals, counts, kept, spoiled>>

\* the first poll has worked: the job is registered
PollerStarts(n) ==
  /\ adds[n].at = "node" /\ ~IsTrigger(adds[n].node)
  /\ crons' = crons \cup {<<n, Nodes[adds[n].node]>>}
  /\ Advance(n)
  /\ UNCHANGED <<row, webhooks, entry, responses, listening, removals, counts, kept, spoiled>>

\* a node does not start, or with all of them started a call of the rest of add() fails:
\* the webhooks stay
NodeFails(n) ==
  /\ adds[n].at \in {"node", "saving"} /\ Mishap
  /\ AddFails(n)
  /\ kept' = (kept \/ adds[n].by = "request")
  /\ UNCHANGED <<row, webhooks, entry, responses, listening, crons, removals, spoiled>>

\* the activation is over: whoever asked goes on
AddReturns(n) ==
  /\ adds[n].at = "saving"
  /\ adds' = [adds EXCEPT ![n] = Over]
  /\ request' = IF adds[n].by = "request" THEN NoRequest ELSE request
  /\ UNCHANGED <<row, webhooks, entry, responses, listening, crons, queued, strays, removals,
                 gaveUp, counts, left, spoiled>>

-----------------------------------------------------------------------------
(* ActiveWorkflows.remove(): stop the jobs of the pollers, close the       *)
(* triggers of the entry one by one, delete whatever entry is there.       *)

\* (mutant) the jobs of the pollers go on
RemoveTriggersOnly(who) ==
  /\ UNCHANGED crons
  /\ IF responses[entry] = <<>>
     THEN entry' = None /\ UNCHANGED removals
     ELSE removals' = removals \cup {[by |-> who, of |-> entry, at |-> 1]} /\ UNCHANGED entry

\* up to the first await: with nothing to close it is over
Remove(who) ==
  /\ crons' = {}
  /\ IF responses[entry] = <<>>
     THEN entry' = None /\ UNCHANGED removals
     ELSE removals' = removals \cup {[by |-> who, of |-> entry, at |-> 1]} /\ UNCHANGED entry

IsLast(r) == r.at = Len(responses[r.of])

Closes(r) ==
  /\ r \in removals
  /\ listening' = listening \ {responses[r.of][r.at]}
  /\ IF ~IsLast(r)
     THEN /\ removals' = (removals \ {r}) \cup {[r EXCEPT !.at = @ + 1]}
          /\ UNCHANGED <<entry, request>>
     ELSE /\ removals' = removals \ {r}
          /\ entry' = None
          /\ request' = IF r.by = TheRequest THEN [request EXCEPT !.at = "write"]
                        ELSE request
  /\ Collect
  /\ UNCHANGED <<row, webhooks, adds, crons, queued, strays, gaveUp, counts,
                 left, spoiled>>

\* a trigger does not close: WorkflowDeactivationError ends the removal and the request, and
\* the entry stays with what is connected
CloseFails(r) ==
  /\ r \in removals /\ Mishap
  /\ removals' = removals \ {r}
  /\ IF r.by = TheRequest THEN request' = NoRequest /\ gaveUp' = "abandoned"
     ELSE UNCHANGED <<request, gaveUp>>
  /\ halfWay' = halfWay \cup {r.of}
  /\ UNCHANGED <<row, webhooks, adds, entry, listening, crons, queued, strays, kept, spoiled>>
  /\ Collect

-----------------------------------------------------------------------------
(* Retries.                                                                *)

\* emitError(): a trigger that is connected, or is being, reports that it is not any more
TriggerErrors(n, i) ==
  LET it == <<n, Nodes[i]>> IN
  /\ \/ it \in listening
     \/ adds[n].at = "node" /\ adds[n].node = i
  /\ IsTrigger(i) /\ Mishap
  /\ listening' = listening \ {it}
  /\ IF entry = None THEN UNCHANGED <<crons, entry, removals>> ELSE Remove(it)
  /\ queued' = "waiting"
  /\ Spoil(Meets \cup (IF Starting THEN {"errorMeetsAdd"} ELSE {})
                 \cup (IF row # "active" THEN {"revived"} ELSE {}))
  /\ UNCHANGED <<row, webhooks, adds, responses, strays, request, gaveUp, left>>

TimerFires ==
  /\ queued = "waiting"
  /\ queued' = "fired"
  /\ BeginAdd("retry")
  /\ Spoil(Meets \cup MeetsError)
  /\ UNCHANGED <<row, webhooks, entry, responses, listening, crons, strays, removals,
                 request, gaveUp, counts, kept>>

StrayTimerFires ==
  /\ strays > 0
  /\ strays' = strays - 1
  /\ BeginAdd("retry")
  /\ Spoil(Meets \cup MeetsError)
  /\ UNCHANGED <<row, webhooks, entry, responses, listening, crons, queued, removals,
                 request, gaveUp, counts, kept>>

-----------------------------------------------------------------------------
(* Requests: WorkflowService.update() and delete(), one at a time.         *)

Request(kind) ==
  /\ request = NoRequest /\ requests < MaxRequests /\ Bounded
  /\ requests' = requests + 1 /\ UNCHANGED mishaps
  /\ Spoil(Meets \cup IF kind = "activate" THEN MeetsError ELSE {})
  /\ \/ /\ row = "active" /\ kind # "activate"
        /\ request' = [at |-> "clear", kind |-> kind]
        /\ UNCHANGED <<row, adds, gaveUp, halfWay>>
     \/ /\ row = "inactive" /\ kind = "activate"
        /\ row' = "active"
        /\ request' = [at |-> "adding", kind |-> kind]
        /\ BeginAdd("request") /\ gaveUp' = "no"
  /\ UNCHANGED <<webhooks, entry, responses, listening, crons, queued, strays, removals, kept>>

\* an activation whose request fails between the write of the row and add()
ActivationLost ==
  /\ request = NoRequest /\ requests < MaxRequests /\ mishaps < MaxMishaps /\ Bounded
  /\ row = "inactive" /\ row' = "active"
  /\ requests' = requests + 1 /\ mishaps' = mishaps + 1
  /\ gaveUp' = "abandoned"
  /\ UNCHANGED <<webhooks, memory, request, left, spoiled>>

\* (mutant) a retry that is scheduled is forgotten
RemoveQueuedNot == UNCHANGED queued

\* removeQueuedWorkflowActivation(): a timer that has fired cannot be taken back
RemoveQueued == queued' = "none"

\* ActiveWorkflowManager.remove(): webhooks, scheduled retry, triggers and pollers
RemoveWorkflow ==
  /\ request.at = "clear"
  /\ \/ webhooks' = FALSE /\ kept' = FALSE /\ UNCHANGED counts
     \/ Mishap /\ kept' = TRUE /\ UNCHANGED webhooks
  /\ RemoveQueued
  /\ IF entry = None THEN UNCHANGED <<crons, entry, removals>> ELSE Remove(TheRequest)
  /\ request' = [request EXCEPT !.at = IF removals' = removals THEN "write" ELSE "closing"]
  /\ UNCHANGED <<row, adds, responses, listening, strays, gaveUp, halfWay, spoiled>>

\* remove() ends after the webhooks, and with it the request
RemoveFails ==
  /\ request.at = "clear" /\ Mishap
  /\ webhooks' = FALSE /\ kept' = FALSE
  /\ request' = NoRequest /\ gaveUp' = "abandoned"
  /\ UNCHANGED <<row, memory, halfWay, spoiled>>

WriteRow ==
  /\ request.at = "write"
  /\ \/ /\ request.kind = "update"
        /\ request' = [request EXCEPT !.at = "adding"]
        /\ BeginAdd("request") /\ gaveUp' = "no"
        /\ Spoil(MeetsError) /\ UNCHANGED row
     \/ /\ request.kind = "deactivate"
        /\ row' = "inactive" /\ request' = NoRequest
        /\ UNCHANGED <<adds, gaveUp, halfWay, spoiled>>
  /\ UNCHANGED <<webhooks, entry, responses, listening, crons, queued, strays, removals,
                 counts, kept>>

\* the request fails between remove() and add(): the row is active, and nothing is added
WriteFails ==
  /\ request.at = "write" /\ Mishap
  /\ request' = NoRequest /\ gaveUp' = "abandoned"
  /\ UNCHANGED <<row, webhooks, memory, left, spoiled>>

\* add() has failed: the workflow is set to inactive, if that does not fail too
Revert ==
  /\ request.at = "revert"
  /\ request' = NoRequest
  /\ \/ row' = "inactive" /\ UNCHANGED <<gaveUp, counts>>
     \/ Mishap /\ gaveUp' = "abandoned" /\ UNCHANGED row
  /\ UNCHANGED <<webhooks, memory, left, spoiled>>

\* the process goes and comes back: addActiveWorkflows('init')
Restart ==
  /\ Mishap
  /\ entry' = None /\ responses' = [n \in Activations |-> <<>>]
  /\ listening' = {} /\ crons' = {} /\ removals' = {}
  /\ queued' = "none" /\ strays' = 0
  /\ request' = NoRequest /\ gaveUp' = "no" /\ halfWay' = {}
  /\ LET none == [n \in Activations |-> Over]
     IN adds' = IF row = "active" THEN [none EXCEPT ![1].at = "begun"] ELSE none
  /\ UNCHANGED <<row, webhooks, kept, spoiled>>

-----------------------------------------------------------------------------
AddStep(n) ==
  \/ WebhooksAdded(n) \/ WebhooksFail(n) \/ TriggerStarts(n) \/ PollerStarts(n)
  \/ NodeFails(n) \/ AddReturns(n)
Closing    == \E r \in removals : Closes(r) \/ CloseFails(r)
Timers     == TimerFires \/ StrayTimerFires
RequestGoesOn == RemoveWorkflow \/ RemoveFails \/ WriteRow \/ WriteFails \/ Revert

Goes == (\E n \in Activations : AddStep(n)) \/ Closing \/ Timers \/ RequestGoesOn

Next ==
  \/ Goes
  \/ \E n \in Activations, i \in 1..Len(Nodes) : TriggerErrors(n, i)
  \/ \E kind \in Kinds : Request(kind)
  \/ ActivationLost
  \/ Restart

Spec == Init /\ [][Next]_vars
\* timers fire, and what is awaited ends some way or other: what is on its way is finite
FairSpec == Spec /\ WF_vars(Goes)
-----------------------------------------------------------------------------
(* Properties.                                                             *)

\* A workflow that is stored as inactive, or not stored, and on which nothing is on its way
\* is silent (ActiveWorkflowManager.remove(), WorkflowService.update(), delete()): no retry is
\* scheduled, and nothing is in memory or listens but what an activation that failed half way,
\* or a trigger that did not close, left behind, no webhook is there but those that a failing
\* call kept.  This is said of histories in which activations, removals and requests do not
\* overlap, and in which no trigger that was left behind reports an error once the workflow is
\* inactive, which would revive it.
StopsWhenTold ==
  row # "active" /\ Quiet /\ spoiled = {} =>
     /\ queued = "none" /\ strays = 0
     /\ entry # None => entry \in halfWay
     /\ \A it \in listening \cup crons : it[1] \in halfWay
     /\ webhooks => kept

\* The state is consistent: of its types, and silent when the workflow was told to stop.
Inv == TypeOK /\ StopsWhenTold

\* Only what the latest activation started listens, so that an event starts the workflow
\* once, with the nodes as they were saved last (ActiveWorkflows.add() and remove(), with
\* the retries in between), but for what a failed activation or removal left behind: an
\* activation over what was left adds nothing to it.  The histories are those above.
OnlyTheLatestListens ==
  spoiled = {} => \A it \in listening \cup crons : it[1] = entry \/ it[1] \in halfWay

Served ==
  /\ webhooks /\ entry # None
  /\ \A i \in 1..Len(Nodes) : \E n \in Activations : <<n, Nodes[i]>> \in listening \cup crons


\* The comment on addQueuedWorkflowActivation(): it will keep on trying to activate the
\* workflow in regular amounts indefinitely.  So an active workflow on which nothing is on
\* its way is in memory, or a retry is scheduled, unless it was given up.
KeepsOnTrying ==
  row = "active" /\ Quiet /\ gaveUp = "no" =>
     entry # None \/ queued = "waiting" \/ strays > 0
=============================================================================
