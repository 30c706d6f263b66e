--------------------------- MODULE DeadLetterConsole ---------------------------
(***************************************************************************)
(* Deleting, restoring and re-routing messages of the dead letter channel  *)
(* on the console (queues/js/treecontrol.js, dlc_messages_list.jsp and the *)
(* three dlc_message_* JSPs).  A flow is one click on Delete, Restore or   *)
(* ReRoute; it keeps the messages ticked at the click through the dialogs  *)
(* and requests that follow, while the same page or another one may start  *)
(* further flows.                                                          *)
(*                                                                         *)
(* The broker behind the admin service is external: a call moves the       *)
(* messages that are still in the channel, or only some of them and fails. *)
(***************************************************************************)
EXTENDS Naturals, FiniteSets

CONSTANTS
  Flows,      (* clicks on one of the three buttons                        *)
  Messages,   (* message ids                                               *)
  Destinations, (* queues that messages may go to                          *)
  Origin,     (* Origin[m]: the queue that m came from                     *)
  MaxRemoved  (* bound on the queues deleted meanwhile                     *)

ASSUME DeadLetterAssumption ==
  /\ Origin \in [Messages -> Destinations] /\ MaxRemoved \in Nat
  /\ {"channel", "gone", "nameless"} \intersect Destinations = {}

VARIABLES
  place,          (* place[m]: "channel", "gone" or a queue                *)
  liveQueues,     (* the queues that exist                                 *)
  ticked,         (* the ticked messages of the page                       *)
  flowAt,         (* flowAt[f]: where flow f is                            *)
  kind,           (* kind[f]: "delete", "restore" or "reroute"             *)
  checkedValues,  (* checkedValues[f]: the messages of f                   *)
  offered,        (* offered[f]: the queues in the popup of f              *)
  selectedQueue,  (* selectedQueue[f]: the queue picked in it               *)
  told,           (* told[f]: the last dialog of f                         *)
  (* history variables *)
  movedBy         (* movedBy[m]: the flows that took m out of the channel  *)

flow == <<kind, checkedValues, offered, selectedQueue>>
deadLetterVars == <<place, liveQueues, ticked, flowAt, flow, told, movedBy>>

Ended == {"done", "silent"}

DeadLetterInit ==
  /\ place = [m \in Messages |-> "channel"]
  /\ liveQueues = Destinations
  /\ ticked = {}
  /\ flowAt = [f \in Flows |-> "new"]
  /\ kind \in [Flows -> {"delete", "restore", "reroute"}]
  /\ checkedValues = [f \in Flows |-> {}]
  /\ offered = [f \in Flows |-> {}]
  /\ selectedQueue = [f \in Flows |-> "nameless"]
  /\ told = [f \in Flows |-> "nothing"]
  /\ movedBy = [m \in Messages |-> {}]

-----------------------------------------------------------------------------

FlowGoto(f, from, to) == flowAt[f] = from /\ flowAt' = [flowAt EXCEPT ![f] = to]
FlowTells(f, what) == told' = [told EXCEPT ![f] = what]

Tick(m) ==
  /\ ticked' = IF m \in ticked THEN ticked \ {m} ELSE ticked \union {m}
  /\ UNCHANGED <<place, liveQueues, flowAt, flow, told, movedBy>>

RemoveQueue(q) ==
  /\ Cardinality(Destinations \ liveQueues) < MaxRemoved
  /\ liveQueues' = liveQueues \ {q}
  /\ UNCHANGED <<place, ticked, flowAt, flow, told, movedBy>>

(* The three buttons: nothing ticked is answered by a dialog; otherwise    *)
(* the ticked messages are kept, and delete and restore ask at once.       *)
Click(f) ==
  /\ flowAt[f] = "new"
  /\ IF ticked = {}
       THEN /\ flowAt' = [flowAt EXCEPT ![f] = "done"]
            /\ FlowTells(f, "selectSome")
            /\ UNCHANGED checkedValues
       ELSE /\ flowAt' = [flowAt EXCEPT ![f] = IF kind[f] = "reroute" THEN "listing" ELSE "asking"]
            /\ checkedValues' = [checkedValues EXCEPT ![f] = ticked]
            /\ UNCHANGED told
  /\ UNCHANGED <<place, liveQueues, ticked, kind, offered, selectedQueue, movedBy>>

(* doReRouteMessages fetches the queues for the popup.  When the admin     *)
(* service throws, the JSP answers an empty text, and the popup offers one *)
(* nameless queue.  If the request fails (it does when there is no queue), *)
(* nothing more happens: jQuery knows no option named failure.             *)
ListQueues(f) ==
  /\ \/ /\ FlowGoto(f, "listing", "choosing") /\ liveQueues # {}
        /\ offered' = [offered EXCEPT ![f] = liveQueues]
     \/ FlowGoto(f, "listing", "choosing") /\ offered' = [offered EXCEPT ![f] = {"nameless"}]
     \/ FlowGoto(f, "listing", "silent") /\ UNCHANGED offered
  /\ UNCHANGED <<place, liveQueues, ticked, kind, checkedValues, selectedQueue, told,
                 movedBy>>

(* Mutant: the queue need not be in the popup.                           *)
ChooseAnyQueue(f, q) ==
  /\ q \in Destinations
  /\ FlowGoto(f, "choosing", "asking")
  /\ selectedQueue' = [selectedQueue EXCEPT ![f] = q]
  /\ UNCHANGED <<place, liveQueues, ticked, kind, checkedValues, offered, told, movedBy>>

ChooseQueue(f, q) ==
  /\ q \in offered[f]
  /\ FlowGoto(f, "choosing", "asking")
  /\ selectedQueue' = [selectedQueue EXCEPT ![f] = q]
  /\ UNCHANGED <<place, liveQueues, ticked, kind, checkedValues, offered, told, movedBy>>

(* The confirmation dialog, answered yes or no.                            *)
Confirm(f) ==
  /\ \/ FlowGoto(f, "asking", "calling")
     \/ FlowGoto(f, "asking", "done")
  /\ UNCHANGED <<place, liveQueues, ticked, flow, told, movedBy>>

Destination(f, m) ==
  CASE kind[f] = "delete" -> "gone"
    [] kind[f] = "restore" -> Origin[m]
    [] kind[f] = "reroute" -> selectedQueue[f]

Move(f, ms) ==
  /\ place' = [m \in Messages |-> IF m \in ms THEN Destination(f, m) ELSE place[m]]
  /\ movedBy' = [m \in Messages |-> IF m \in ms THEN movedBy[m] \union {f} ELSE movedBy[m]]

InChannel(f) == {m \in checkedValues[f] : place[m] = "channel"}

(* The JSP's call of the admin service.  An exception is put into the      *)
(* session and the JSP answers as if nothing had happened.                 *)
CallService(f) ==
  /\ FlowGoto(f, "calling", "answered")
  /\ \E ms \in SUBSET InChannel(f) : Move(f, ms)
  /\ UNCHANGED <<liveQueues, ticked, flow, told>>

(* success() says so and reloads the list, which unticks everything; a     *)
(* request that fails is never heard of again.                             *)
Answered(f) ==
  /\ \/ FlowGoto(f, "answered", "done") /\ FlowTells(f, "successful") /\ ticked' = {}
     \/ FlowGoto(f, "answered", "silent") /\ UNCHANGED <<told, ticked>>
  /\ UNCHANGED <<place, liveQueues, flow, movedBy>>

FlowStep(f) == ListQueues(f) \/ CallService(f) \/ Answered(f)

DeadLetterNext ==
  \/ \E m \in Messages : Tick(m)
  \/ \E q \in liveQueues : RemoveQueue(q)
  \/ \E f \in Flows : \/ Click(f) \/ Confirm(f) \/ FlowStep(f)
                      \/ \E q \in Destinations \union {"nameless"} : ChooseQueue(f, q)

DeadLetterSpec ==
  DeadLetterInit /\ [][DeadLetterNext]_deadLetterVars /\ \A f \in Flows : WF_deadLetterVars(FlowStep(f))

-----------------------------------------------------------------------------

DeadLetterTypeOK ==
  /\ place \in [Messages -> Destinations \union {"channel", "gone", "nameless"}]
  /\ liveQueues \subseteq Destinations /\ ticked \subseteq Messages
  /\ flowAt \in
       [Flows -> {"new", "listing", "choosing", "asking", "calling", "answered"} \union Ended]
  /\ \A f \in Flows : /\ checkedValues[f] \subseteq Messages
                       /\ (offered[f] \subseteq Destinations \/ offered[f] = {"nameless"})
  /\ told \in [Flows -> {"nothing", "selectSome", "successful"}]

(* However flows overlap and lists go stale, a message leaves the channel  *)
(* through one confirmed flow that had it ticked, and lies where that flow *)
(* sends it: to its own queue, to a name that was offered, or nowhere.     *)
LeavesThroughOneFlow ==
  \A m \in Messages :
    /\ Cardinality(movedBy[m]) <= 1
    /\ place[m] = "channel" <=> movedBy[m] = {}
    /\ \A f \in movedBy[m] :
         /\ m \in checkedValues[f]
         /\ place[m] = Destination(f, m)
         /\ kind[f] = "reroute" => place[m] \in offered[f]

(* What the page of the dead letter channel promises of flows that         *)
(* overlap.                                                                *)
DeadLettersMoveOnce ==
  /\ DeadLetterTypeOK
  /\ LeavesThroughOneFlow

(* A confirmed flow comes to its end.                                      *)
FlowsEnd == \A f \in Flows : flowAt[f] = "calling" ~> flowAt[f] \in Ended
=============================================================================
