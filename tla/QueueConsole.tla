----------------------------- MODULE QueueConsole -----------------------------
(***************************************************************************)
(* Adding, editing and deleting queues on the management console           *)
(* (queues/js/treecontrol.js and the JSPs it calls).  Every browser tab of *)
(* a user shares one HTTP session, whose attribute "queue" says on the     *)
(* server which queue is being edited; a permission update names no queue  *)
(* and is applied to the one found there.  A JSP is a server thread: each  *)
(* of its calls of the admin service and its accesses of the session is a  *)
(* step, and the steps of two tabs interleave.                             *)
(*                                                                         *)
(* What the admin service does is modelled in QueueLifecycle; here a call  *)
(* takes effect or fails as a whole.  The attribute queueRolePermission is *)
(* written and never read: it is left out.                                 *)
(***************************************************************************)
EXTENDS Naturals, FiniteSets

CONSTANTS
  Tabs,        (* browser tabs of one session                              *)
  Queues,      (* queue names a user may type                              *)
  Invalid,     (* those with a character that isValidQueueName refuses     *)
  Guarded,     (* queues whose permissions this user may not change        *)
  Tables,      (* permission tables: what can be ticked                    *)
  NoQueue,     (* absence of the session attribute                         *)
  MaxRequests  (* bound on the requests of the user                        *)

ASSUME ConsoleAssumption ==
  MaxRequests \in Nat /\ NoQueue \notin Queues /\ Queues # {} /\ Tables # {}

VARIABLES
  queues,       (* the queues that exist                                   *)
  permissions,  (* permissions[q]: the table stored last, {} if none       *)
  sessionQueue, (* the session attribute "queue"                           *)
  at,           (* at[t]: the next step of the request of tab t            *)
  page,         (* page[t]: "details", "add" or "manage"                   *)
  pageQueue,    (* pageQueue[t]: the queue that the page of t is about     *)
  table,        (* table[t]: the permissions ticked on it                  *)
  target,       (* target[t]: the queue that an update JSP works on        *)
  responseText, (* responseText[t]: empty, "Error ..." or "Unable ..."     *)
  dialog,       (* dialog[t]: what t was told last                         *)
  requests,     (* requests made so far                                    *)
  (* history variables *)
  created,      (* created[t]: createQueue of the last addQueue worked     *)
  alone         (* alone[t]: no other tab has set the attribute since the  *)
                (* page of t read or set it                                *)

server == <<queues, permissions, sessionQueue>>
browser == <<page, pageQueue, table, target, responseText, dialog>>
consoleVars == <<server, at, browser, requests, created, alone>>

Steps == {"idle", "create", "created", "load", "loaded", "open", "added",
          "permit", "update", "updated", "answered"}

AnyQueue == CHOOSE q \in Queues : TRUE
AnyTable == CHOOSE p \in Tables : TRUE

ConsoleInit ==
  /\ queues = {}
  /\ permissions = [q \in Queues |-> {}]
  /\ sessionQueue = NoQueue
  /\ at = [t \in Tabs |-> "idle"]
  /\ page = [t \in Tabs |-> "details"]
  /\ pageQueue = [t \in Tabs |-> AnyQueue]
  /\ table = [t \in Tabs |-> AnyTable]
  /\ target = [t \in Tabs |-> NoQueue]
  /\ responseText = [t \in Tabs |-> "empty"]
  /\ dialog = [t \in Tabs |-> "none"]
  /\ requests = 0
  /\ created = [t \in Tabs |-> FALSE]
  /\ alone = [t \in Tabs |-> FALSE]

-----------------------------------------------------------------------------

Goto(t, from, to) == at[t] = from /\ at' = [at EXCEPT ![t] = to]

Send(t, step) ==
  /\ requests < MaxRequests
  /\ requests' = requests + 1
  /\ Goto(t, "idle", step)

(* t sets the attribute: every other tab's page is now out of step.        *)
SetSessionQueue(t, q) ==
  /\ sessionQueue' = q
  /\ alone' = [u \in Tabs |-> u = t]

Tell(t, what) == dialog' = [dialog EXCEPT ![t] = what]

Answer(t, text) == responseText' = [responseText EXCEPT ![t] = text]

(* The JSP ends with HTTP status 500; failure() raises an alert.           *)
RequestFails(t, step) ==
  /\ Goto(t, step, "idle")
  /\ Tell(t, "alert")
  /\ UNCHANGED <<server, page, pageQueue, table, target, responseText, requests, created, alone>>

(* addQueue on queue_add.jsp: a name with a bad character is refused       *)
(* before any request.                                                     *)
AddQueue(t, q, p) ==
  /\ pageQueue' = [pageQueue EXCEPT ![t] = q]
  /\ table' = [table EXCEPT ![t] = p]
  /\ page' = [page EXCEPT ![t] = "add"]
  /\ created' = [created EXCEPT ![t] = FALSE]
  /\ IF q \in Invalid
       THEN at[t] = "idle" /\ Tell(t, "error") /\ UNCHANGED <<at, requests>>
       ELSE Send(t, "create") /\ Tell(t, "none")
  /\ UNCHANGED <<server, target, responseText, alone>>

(* add_queue_to_backend_ajaxprocessor.jsp, the call of createQueue.        *)
CreateQueue(t) ==
  /\ Goto(t, "create", "created")
  /\ \/ /\ pageQueue[t] \notin queues
        /\ queues' = queues \union {pageQueue[t]}
        /\ SetSessionQueue(t, NoQueue)
        /\ created' = [created EXCEPT ![t] = TRUE]
        /\ Answer(t, "empty")
     \/ /\ Answer(t, "Error")
        /\ UNCHANGED <<queues, sessionQueue, alone, created>>
  /\ UNCHANGED <<permissions, page, pageQueue, table, target, dialog, requests>>

(* Mutant: the session attribute stays removed.                          *)
RememberNothing(t) ==
  \/ /\ Goto(t, "created", "added")
     /\ SetSessionQueue(t, sessionQueue)
     /\ UNCHANGED <<queues, permissions, browser, requests, created>>
  \/ RequestFails(t, "created")

(* Its end: the permissions are fetched, then the attribute is set,        *)
(* whether or not the queue was created.                                   *)
RememberCreated(t) ==
  \/ /\ Goto(t, "created", "added")
     /\ SetSessionQueue(t, pageQueue[t])
     /\ UNCHANGED <<queues, permissions, browser, requests, created>>
  \/ RequestFails(t, "created")

(* addQueueToBackEnd, success(): addPermissions sends the second request.  *)
QueueAdded(t) ==
  /\ IF responseText[t] = "Error"
       THEN Goto(t, "added", "idle") /\ Tell(t, "error")
       ELSE Goto(t, "added", "permit") /\ UNCHANGED dialog
  /\ UNCHANGED <<server, page, pageQueue, table, target, responseText, requests, created, alone>>

(* updatePermissions on queue_manage.jsp.                                  *)
UpdatePermissions(t, p) ==
  /\ page[t] = "manage"
  /\ Send(t, "permit")
  /\ table' = [table EXCEPT ![t] = p]
  /\ Tell(t, "none")
  /\ UNCHANGED <<server, page, pageQueue, target, responseText, created, alone>>

(* update_queue_role_permissions_ajaxprocessor.jsp reads the attribute...  *)
ReadSessionQueue(t) ==
  /\ Goto(t, "permit", "update")
  /\ target' = [target EXCEPT ![t] = sessionQueue]
  /\ UNCHANGED <<server, page, pageQueue, table, responseText, dialog, requests, created, alone>>

(* ... and calls updatePermission.  "Unable to update permission of the    *)
(* queue" starts every fault text; the text of a user store exception may  *)
(* go on with "Error".                                                     *)
UpdatePermission(t) ==
  \/ /\ target[t] \in queues \ Guarded
     /\ Goto(t, "update", "updated")
     /\ permissions' = [permissions EXCEPT ![target[t]] = table[t]]
     /\ Answer(t, "empty")
     /\ UNCHANGED <<queues, sessionQueue, page, pageQueue, table, target, dialog, requests, created,
                    alone>>
  \/ /\ Goto(t, "update", "updated")
     /\ \/ Answer(t, "Unable")
        \/ target[t] \in queues /\ Answer(t, "Error")
     /\ UNCHANGED <<server, page, pageQueue, table, target, dialog, requests, created, alone>>

(* The permissions are read back outside the try block.                    *)
ReadBack(t) ==
  \/ /\ Goto(t, "updated", "answered")
     /\ UNCHANGED <<server, browser, requests, created, alone>>
  \/ RequestFails(t, "updated")

(* success() of addPermissions and updatePermissions: anything without the *)
(* word Error is a success.                                                *)
PermissionsAnswered(t) ==
  /\ Goto(t, "answered", "idle")
  /\ Tell(t, IF responseText[t] = "Error" THEN "error"
             ELSE IF page[t] = "add" THEN "added" ELSE "updated")
  /\ page' = [page EXCEPT ![t] = "details"]
  /\ UNCHANGED <<server, pageQueue, table, target, responseText, requests, created, alone>>

(* showManageQueueWindow asks for the details of q ...                     *)
ShowManageQueueWindow(t, q) ==
  /\ q \in queues
  /\ Send(t, "load")
  /\ pageQueue' = [pageQueue EXCEPT ![t] = q]
  /\ page' = [page EXCEPT ![t] = "details"]
  /\ UNCHANGED <<server, table, target, responseText, dialog, created, alone>>

LoadDetails(t) ==
  /\ Goto(t, "load", "loaded")
  /\ SetSessionQueue(t, pageQueue[t])
  /\ UNCHANGED <<queues, permissions, browser, requests, created>>

FetchPermissions(t) ==
  \/ /\ Goto(t, "loaded", "open")
     /\ UNCHANGED <<server, browser, requests, created, alone>>
  \/ RequestFails(t, "loaded")

(* ... and opens queue_manage.jsp, which shows the queue of the session.   *)
OpenManagePage(t) ==
  /\ Goto(t, "open", "idle")
  /\ IF sessionQueue = NoQueue
       THEN UNCHANGED <<page, pageQueue>>
       ELSE /\ page' = [page EXCEPT ![t] = "manage"]
            /\ pageQueue' = [pageQueue EXCEPT ![t] = sessionQueue]
  /\ alone' = [alone EXCEPT ![t] = TRUE]
  /\ UNCHANGED <<server, table, target, responseText, dialog, requests, created>>

(* doDelete submits a form to queue_details.jsp; only an AxisFault gets an *)
(* error dialog, the exception of the admin service an error page.         *)
DoDelete(t, q) ==
  /\ requests < MaxRequests
  /\ requests' = requests + 1
  /\ at[t] = "idle"
  /\ page[t] = "details"
  /\ \/ /\ q \in queues
        /\ queues' = queues \ {q}
        /\ permissions' = [permissions EXCEPT ![q] = {}]
        /\ Tell(t, "deleted")
     \/ Tell(t, "error") /\ UNCHANGED <<queues, permissions>>
  /\ UNCHANGED <<sessionQueue, at, page, pageQueue, table, target, responseText, created, alone>>

TabStep(t) ==
  \/ CreateQueue(t) \/ RememberCreated(t) \/ QueueAdded(t)
  \/ ReadSessionQueue(t) \/ UpdatePermission(t) \/ ReadBack(t) \/ PermissionsAnswered(t)
  \/ LoadDetails(t) \/ FetchPermissions(t) \/ OpenManagePage(t)

ConsoleNext ==
  \E t \in Tabs :
    \/ \E q \in Queues, p \in Tables : AddQueue(t, q, p)
    \/ \E p \in Tables : UpdatePermissions(t, p)
    \/ \E q \in Queues : ShowManageQueueWindow(t, q)
    \/ \E q \in Queues : DoDelete(t, q)
    \/ TabStep(t)

(* Servlet threads and browsers go on with what they have begun.           *)
ConsoleSpec ==
  /\ ConsoleInit /\ [][ConsoleNext]_consoleVars
  /\ \A t \in Tabs : WF_consoleVars(TabStep(t))

-----------------------------------------------------------------------------

ConsoleTypeOK ==
  /\ queues \subseteq Queues \ Invalid
  /\ permissions \in [Queues -> Tables \union {{}}]
  /\ sessionQueue \in Queues \union {NoQueue}
  /\ at \in [Tabs -> Steps]
  /\ page \in [Tabs -> {"details", "add", "manage"}]
  /\ pageQueue \in [Tabs -> Queues] /\ table \in [Tabs -> Tables]
  /\ target \in [Tabs -> Queues \union {NoQueue}]
  /\ responseText \in [Tabs -> {"empty", "Error", "Unable"}]
  /\ alone \in [Tabs -> BOOLEAN] /\ created \in [Tabs -> BOOLEAN]

(* Permissions ticked on a page reach the queue that the page is about, as *)
(* long as no other tab of the session has begun to add or edit another    *)
(* queue since the page was opened; the session forgets nothing by itself. *)
UpdateReachesShownQueue ==
  \A t \in Tabs :
    /\ alone[t] /\ at[t] = "permit" => sessionQueue = pageQueue[t]
    /\ alone[t] /\ at[t] = "idle" /\ page[t] = "manage" => sessionQueue = pageQueue[t]
    /\ alone[t] /\ at[t] \in {"update", "updated", "answered"} => target[t] = pageQueue[t]

(* "Queue added successfully" is only said of a queue that this request    *)
(* has created, even when its permissions could not be stored.             *)
AddedMeansCreated ==
  \A t \in Tabs : dialog[t] = "added" => created[t]

(* What the queue pages promise to a user with several tabs: permissions   *)
(* go to the queue a page shows, and a queue said to be added was created  *)
(* by that page.                                                           *)
TabsEditTheirQueue ==
  /\ ConsoleTypeOK
  /\ UpdateReachesShownQueue
  /\ AddedMeansCreated

(* Every request ends: with a dialog, an alert or another page.            *)
TabsComeToRest == \A t \in Tabs : at[t] # "idle" ~> at[t] = "idle"
=============================================================================
