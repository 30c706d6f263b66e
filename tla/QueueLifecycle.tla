---------------------------- MODULE QueueLifecycle ----------------------------
(***************************************************************************)
(* The life of a queue as the broker's users drive it, from two sides at   *)
(* once: the admin service (QueueManagerServiceImpl createQueue,           *)
(* deleteQueue, updatePermission) and AMQP clients, whose operations reach *)
(* QpidAuthorizationHandler (handleCreateQueue, handleDeleteQueue,         *)
(* handleBindQueue) before the broker acts on them.                        *)
(*                                                                         *)
(* Three stores are touched, none of them in a transaction with another:   *)
(* the registry entries of QueueRegistry, the broker's queues and bindings *)
(* (reached through QueueManagementBeans, an MBean call each) and the      *)
(* permissions of the user realm.  Each thread runs one request; every     *)
(* call on one of the stores is a step, and every call may throw.          *)
(*                                                                         *)
(* One tenant is modelled, the super tenant: names of other tenants and    *)
(* the separate registries they lead to are not.                           *)
(***************************************************************************)
EXTENDS QueueRegistry

CONSTANTS
  Users, Roles,
  Everyone,         (* the role "everyone", which is never granted anything *)
  MemberOf,         (* MemberOf[u]: the roles of user u                     *)
  ExistingRoles,    (* roles for which isExistingRole answers true          *)
  QueueAdders,      (* admins and users who may add queues or topics        *)
  QueueRemovers,    (* admins and users who may delete queues or topics     *)
  Admins,           (* users with the role "admin"                          *)
  OwnQueues,        (* queues whose name passes isOwnDomain                 *)
  PermissionTables, (* the QueueRolePermission lists callers send           *)
  MaxRequests       (* bound on the number of requests                      *)

Permissions == {"consume", "publish", "changePermission"}

ASSUME LifecycleAssumption ==
  /\ Users # {} /\ Roles # {}
  /\ MaxRequests \in Nat
  /\ MaxRequests <= MaxCalls
  /\ MemberOf \in [Users -> SUBSET Roles]
  /\ ExistingRoles \subseteq Roles
  /\ \A table \in PermissionTables :
       table \in [DOMAIN table -> SUBSET {"consume", "publish"}] /\ DOMAIN table \subseteq Roles

VARIABLES
  req,       (* req[t]: the last request that thread t took on            *)
  pc,        (* pc[t]: its next step, "idle" between requests             *)
  left,      (* left[t]: roles that the permission loop has yet to visit  *)
  cur,       (* cur[t]: the role the loop is at                           *)
  reply,     (* reply[t]: how the last request ended                      *)
  queues,    (* queues the broker has                                     *)
  bound,     (* queues bound to amq.direct under their own name           *)
  grants,    (* grants[q]: <<role, permission>> pairs authorized on q     *)
  (* bound and history variables *)
  requests,  (* requests taken on so far                                  *)
  crossed,   (* threads whose request overlapped another on its queue     *)
  disturbed  (* queues with overlapping requests or a failed one          *)

threadVars == <<req, pc, left, cur, reply>>
brokerVars == <<queues, bound>>
historyVars == <<requests, crossed, disturbed>>
requestVars == <<threadVars, brokerVars, grants, historyVars>>
vars == <<registryVars, requestVars>>

-----------------------------------------------------------------------------

NoTable == [r \in {} |-> {}]

AdminOps == {"create", "delete", "update"}
AmqpOps == {"declare", "drop", "bind"}

Request == [op : AdminOps \union AmqpOps, queue : Queues, user : Users,
            table : PermissionTables \union {NoTable}]

(* Only to have initial values: no thread has taken on a request yet.      *)
AnyUser == CHOOSE u \in Users : TRUE
AnyRole == CHOOSE r \in Roles : TRUE
NoRequest == [op |-> "create", queue |-> AnyQueue, user |-> AnyUser, table |-> NoTable]

Phases == Permissions \union
  {"idle", "check", "authorise", "register", "roles", "mayChange",
   "createQueue", "createBinding", "removeBinding", "deleteQueue", "eraseEntry",
   "unregister", "brokerCreate", "brokerDelete", "brokerBind"}

ThreadTypeOK ==
  /\ req \in [Threads -> Request]
  /\ pc \in [Threads -> Phases]
  /\ left \in [Threads -> SUBSET Roles]
  /\ cur \in [Threads -> Roles]
  /\ reply \in [Threads -> {"none", "ok", "refused", "error"}]

StoreTypeOK ==
  /\ queues \subseteq Queues
  /\ bound \subseteq queues
  /\ grants \in [Queues -> SUBSET (Roles \X Permissions)]

HistoryTypeOK ==
  /\ requests \in Nat
  /\ crossed \subseteq Threads
  /\ disturbed \subseteq Queues

LifecycleTypeOK == RegistryTypeOK /\ ThreadTypeOK /\ StoreTypeOK /\ HistoryTypeOK

(* The roles that a new queue's creator hands its permissions to.          *)
GrantableRoles(u) == (MemberOf[u] \intersect ExistingRoles) \ {Everyone}

(* isUserAuthorized: some role of the user holds the permission.           *)
Authorized(u, q, permission) == \E r \in MemberOf[u] : <<r, permission>> \in grants[q]

Active(t) == pc[t] # "idle"

LifecycleInit ==
  /\ RegistryInit
  /\ req = [t \in Threads |-> NoRequest]
  /\ pc = [t \in Threads |-> "idle"]
  /\ left = [t \in Threads |-> {}]
  /\ cur = [t \in Threads |-> AnyRole]
  /\ reply = [t \in Threads |-> "none"]
  /\ queues = {}
  /\ bound = {}
  /\ grants = [q \in Queues |-> {}]
  /\ requests = 0
  /\ crossed = {}
  /\ disturbed = {}

-----------------------------------------------------------------------------
(* Building blocks of the steps                                            *)

Goto(t, phase) == pc' = [pc EXCEPT ![t] = phase] /\ UNCHANGED <<req, left, cur, reply>>

(* The request ends; an exception leaves the stores as they are.           *)
Finish(t, how) ==
  /\ pc' = [pc EXCEPT ![t] = "idle"]
  /\ reply' = [reply EXCEPT ![t] = how]
  /\ disturbed' = IF how = "error" THEN disturbed \union {req[t].queue} ELSE disturbed
  /\ UNCHANGED <<req, left, cur, requests, crossed>>

(* Start of the loop over roles.                                           *)
ForRoles(t, roles) ==
  /\ pc' = [pc EXCEPT ![t] = "roles"]
  /\ left' = [left EXCEPT ![t] = roles]
  /\ UNCHANGED <<req, cur, reply>>

StoresUnchanged == UNCHANGED <<registryVars, brokerVars, grants>>

(* A thread of the admin service or of the broker takes on a request.      *)
Begin(t, op, q, u, table) ==
  LET others == {o \in Threads : Active(o) /\ req[o].queue = q}
  IN
  /\ ~Active(t)
  /\ requests < MaxRequests
  /\ op = "update" <=> table # NoTable
  /\ requests' = requests + 1
  /\ req' = [req EXCEPT ![t] = [op |-> op, queue |-> q, user |-> u, table |-> table]]
  /\ pc' = [pc EXCEPT ![t] = IF op \in AdminOps THEN "check" ELSE "authorise"]
  /\ reply' = [reply EXCEPT ![t] = "none"]
  /\ crossed' = (crossed \ {t}) \union others \union (IF others = {} THEN {} ELSE {t})
  /\ disturbed' = IF others = {} THEN disturbed ELSE disturbed \union {q}
  /\ UNCHANGED <<left, cur>>
  /\ StoresUnchanged

-----------------------------------------------------------------------------
(* createQueue of the admin service                                        *)

CreateRefused(t) ==
  /\ pc[t] = "check" /\ req[t].op = "create"
  /\ req[t].queue \in queues
  /\ Finish(t, "refused")
  /\ StoresUnchanged

(* Mutant: straight to the broker, the registry is skipped.                *)
CreateSkipsRegistry(t) ==
  /\ pc[t] = "check" /\ req[t].op = "create"
  /\ req[t].queue \notin queues
  /\ Goto(t, "createQueue")
  /\ StoresUnchanged /\ UNCHANGED historyVars

CreateRegisters(t) ==
  /\ pc[t] = "check" /\ req[t].op = "create"
  /\ req[t].queue \notin queues
  /\ CreateQueue(t, req[t].queue)
  /\ Goto(t, "register")
  /\ UNCHANGED <<brokerVars, grants, historyVars>>

(* Back from RegistryClient.createQueue.                                   *)
CreateRegistered(t) ==
  /\ pc[t] = "register" /\ req[t].op = "create"
  /\ at[t] = "out" /\ outcome[t] = "ok"
  /\ Goto(t, "createQueue")
  /\ StoresUnchanged /\ UNCHANGED historyVars

(* createNewQueue; of a queue that came into being since the check it may  *)
(* also throw (StepFails).                                                 *)
CreateBrokerQueue(t) ==
  /\ pc[t] = "createQueue"
  /\ queues' = queues \union {req[t].queue}
  /\ Goto(t, "createBinding")
  /\ UNCHANGED <<registryVars, bound, grants, historyVars>>

(* Mutant: the binding is forgotten.                                       *)
CreateWithoutBinding(t) ==
  /\ pc[t] = "createBinding"
  /\ ForRoles(t, GrantableRoles(req[t].user))
  /\ StoresUnchanged /\ UNCHANGED historyVars

(* createNewBinding needs the queue; then the roles of the creator follow. *)
CreateBinding(t) ==
  /\ pc[t] = "createBinding"
  /\ req[t].queue \in queues
  /\ bound' = bound \union {req[t].queue}
  /\ ForRoles(t, GrantableRoles(req[t].user))
  /\ UNCHANGED <<registryVars, queues, grants, historyVars>>

-----------------------------------------------------------------------------
(* deleteQueue of the admin service                                        *)

DeleteNothing(t) ==
  /\ pc[t] = "check" /\ req[t].op = "delete"
  /\ req[t].queue \notin queues
  /\ Finish(t, "ok")
  /\ StoresUnchanged

DeleteBegins(t) ==
  /\ pc[t] = "check" /\ req[t].op = "delete"
  /\ req[t].queue \in queues
  /\ Goto(t, "removeBinding")
  /\ StoresUnchanged /\ UNCHANGED historyVars

RemoveBinding(t) ==
  /\ pc[t] = "removeBinding"
  /\ bound' = bound \ {req[t].queue}
  /\ Goto(t, "deleteQueue")
  /\ UNCHANGED <<registryVars, queues, grants, historyVars>>

(* Mutant: the binding outlives its queue.                                 *)
DeleteKeepsBinding(t) ==
  /\ pc[t] = "deleteQueue"
  /\ req[t].queue \in queues
  /\ queues' = queues \ {req[t].queue}
  /\ Goto(t, "eraseEntry")
  /\ UNCHANGED <<registryVars, bound, grants, historyVars>>

(* The broker drops what is still bound with the queue.                    *)
DeleteBrokerQueue(t) ==
  /\ pc[t] = "deleteQueue"
  /\ req[t].queue \in queues
  /\ queues' = queues \ {req[t].queue}
  /\ bound' = bound \ {req[t].queue}
  /\ Goto(t, "eraseEntry")
  /\ UNCHANGED <<registryVars, grants, historyVars>>

(* Mutant: the entry stays behind.                                         *)
DeleteKeepsEntry(t) ==
  /\ pc[t] = "eraseEntry"
  /\ Finish(t, "ok")
  /\ StoresUnchanged

(* Mutant: the entry loses one user instead of all.                        *)
DeleteDecrements(t) ==
  /\ pc[t] = "eraseEntry"
  /\ userCount' = [userCount EXCEPT ![req[t].queue] = IF @ > 0 THEN @ - 1 ELSE 0]
  /\ Finish(t, "ok")
  /\ UNCHANGED <<at, target, held, outcome, calls, shares, users, raced, brokerVars, grants>>

DeleteEntry(t) ==
  /\ pc[t] = "eraseEntry"
  /\ EraseEntry(t, req[t].queue)
  /\ Finish(t, "ok")
  /\ UNCHANGED <<brokerVars, grants>>

-----------------------------------------------------------------------------
(* updatePermission of the admin service                                   *)

UpdateRefused(t) ==
  /\ req[t].op = "update"
  /\ \/ pc[t] = "check" /\ req[t].queue \notin queues
     \/ pc[t] = "mayChange" /\ ~Authorized(req[t].user, req[t].queue, "changePermission")
  /\ Finish(t, "refused")
  /\ StoresUnchanged

UpdateFindsQueue(t) ==
  /\ pc[t] = "check" /\ req[t].op = "update"
  /\ req[t].queue \in queues
  /\ Goto(t, "mayChange")
  /\ StoresUnchanged /\ UNCHANGED historyVars

(* Mutant: nobody asks whether the user may change permissions.            *)
UpdateUnchecked(t) ==
  /\ pc[t] = "mayChange"
  /\ ForRoles(t, DOMAIN req[t].table)
  /\ StoresUnchanged /\ UNCHANGED historyVars

UpdateAllowed(t) ==
  /\ pc[t] = "mayChange"
  /\ Authorized(req[t].user, req[t].queue, "changePermission")
  /\ ForRoles(t, DOMAIN req[t].table)
  /\ StoresUnchanged /\ UNCHANGED historyVars

-----------------------------------------------------------------------------
(* The loop that all three permission writers run over roles               *)

(* Mutant: the iterator does not advance.                                  *)
SameRoleAgain(t) ==
  /\ pc[t] = "roles"
  /\ \E r \in left[t] : cur' = [cur EXCEPT ![t] = r]
  /\ pc' = [pc EXCEPT ![t] = IF req[t].op = "create" THEN "changePermission" ELSE "consume"]
  /\ UNCHANGED <<req, left, reply>>
  /\ StoresUnchanged /\ UNCHANGED historyVars

NextRole(t) ==
  /\ pc[t] = "roles"
  /\ \E r \in left[t] :
       /\ cur' = [cur EXCEPT ![t] = r]
       /\ left' = [left EXCEPT ![t] = @ \ {r}]
  /\ pc' = [pc EXCEPT ![t] = IF req[t].op = "create" THEN "changePermission" ELSE "consume"]
  /\ UNCHANGED <<req, reply>>
  /\ StoresUnchanged /\ UNCHANGED historyVars

(* Creators authorize; an update authorizes or denies as its table says.   *)
Wanted(t, permission) ==
  req[t].op = "update" => permission \in req[t].table[cur[t]]

(* Mutant: permissions are added and never denied.                         *)
OnlyAddPermission(t, permission, next) ==
  /\ pc[t] = permission
  /\ grants' = [grants EXCEPT ![req[t].queue] =
                  IF Wanted(t, permission) THEN @ \union {<<cur[t], permission>>} ELSE @]
  /\ Goto(t, next)
  /\ UNCHANGED <<registryVars, brokerVars, historyVars>>

SetPermission(t, permission, next) ==
  LET pair == <<cur[t], permission>>
  IN
  /\ pc[t] = permission
  /\ grants' = [grants EXCEPT ![req[t].queue] =
                  IF Wanted(t, permission) THEN @ \union {pair} ELSE @ \ {pair}]
  /\ Goto(t, next)
  /\ UNCHANGED <<registryVars, brokerVars, historyVars>>

SetConsume(t) == SetPermission(t, "consume", "publish")

(* Mutant: a declared queue gets no changePermission.                      *)
SetPublishOnly(t) == SetPermission(t, "publish", "roles")

SetPublish(t) ==
  SetPermission(t, "publish", IF req[t].op = "declare" THEN "changePermission" ELSE "roles")

SetChangePermission(t) == SetPermission(t, "changePermission", "roles")

RolesDone(t) ==
  /\ pc[t] = "roles" /\ left[t] = {} /\ req[t].op \in {"create", "update"}
  /\ Finish(t, "ok")
  /\ StoresUnchanged

-----------------------------------------------------------------------------
(* AMQP clients: declare, delete and bind a queue                          *)

AmqpDenied(t) ==
  /\ pc[t] = "authorise"
  /\ \/ req[t].op = "declare" /\ req[t].user \notin QueueAdders
     \/ req[t].op = "drop" /\ req[t].user \notin QueueRemovers
     \/ /\ req[t].op = "bind"
        /\ ~(req[t].user \in Admins /\ req[t].queue \in OwnQueues)
        /\ ~Authorized(req[t].user, req[t].queue, "consume")
  /\ Finish(t, "refused")
  /\ StoresUnchanged

(* The registry counts the user before the domain of the name is checked.  *)
DeclareRegisters(t) ==
  /\ pc[t] = "authorise" /\ req[t].op = "declare"
  /\ req[t].user \in QueueAdders
  /\ CreateQueue(t, req[t].queue)
  /\ Goto(t, "register")
  /\ UNCHANGED <<brokerVars, grants, historyVars>>

DeclareOwnQueue(t) ==
  /\ pc[t] = "register" /\ req[t].op = "declare"
  /\ at[t] = "out" /\ outcome[t] = "ok"
  /\ req[t].queue \in OwnQueues
  /\ ForRoles(t, GrantableRoles(req[t].user))
  /\ StoresUnchanged /\ UNCHANGED historyVars

DeclareForeignQueue(t) ==
  /\ pc[t] = "register" /\ req[t].op = "declare"
  /\ at[t] = "out" /\ outcome[t] = "ok"
  /\ req[t].queue \notin OwnQueues
  /\ Finish(t, "refused")
  /\ StoresUnchanged

DeclareAllowed(t) ==
  /\ pc[t] = "roles" /\ left[t] = {} /\ req[t].op = "declare"
  /\ Goto(t, "brokerCreate")
  /\ StoresUnchanged /\ UNCHANGED historyVars

(* What the broker does once the plugin has answered ALLOWED.              *)
BrokerCreates(t) ==
  /\ pc[t] = "brokerCreate"
  /\ queues' = queues \union {req[t].queue}
  /\ Finish(t, "ok")
  /\ UNCHANGED <<registryVars, bound, grants>>

DropUnregisters(t) ==
  /\ pc[t] = "authorise" /\ req[t].op = "drop"
  /\ req[t].user \in QueueRemovers
  /\ DeleteQueue(t, req[t].queue)
  /\ Goto(t, "unregister")
  /\ UNCHANGED <<brokerVars, grants, historyVars>>

DropAllowed(t) ==
  /\ pc[t] = "unregister"
  /\ at[t] = "out" /\ outcome[t] = "ok"
  /\ Goto(t, "brokerDelete")
  /\ StoresUnchanged /\ UNCHANGED historyVars

BrokerDeletes(t) ==
  /\ pc[t] = "brokerDelete"
  /\ queues' = queues \ {req[t].queue}
  /\ bound' = bound \ {req[t].queue}
  /\ Finish(t, "ok")
  /\ UNCHANGED <<registryVars, grants>>

BindAllowed(t) ==
  /\ pc[t] = "authorise" /\ req[t].op = "bind"
  /\ \/ req[t].user \in Admins /\ req[t].queue \in OwnQueues
     \/ Authorized(req[t].user, req[t].queue, "consume")
  /\ Goto(t, "brokerBind")
  /\ StoresUnchanged /\ UNCHANGED historyVars

BrokerBinds(t) ==
  /\ pc[t] = "brokerBind"
  /\ req[t].queue \in queues
  /\ bound' = bound \union {req[t].queue}
  /\ Finish(t, "ok")
  /\ UNCHANGED <<registryVars, queues, grants>>

-----------------------------------------------------------------------------
(* Failures                                                                *)

(* A registry, MBean or user-store call throws: the request is abandoned   *)
(* where it stands, nothing is undone.                                     *)
StepFails(t) ==
  /\ \/ pc[t] \in Phases \ {"idle", "roles", "register", "unregister"}
     \/ pc[t] \in {"register", "unregister"} /\ at[t] = "out" /\ outcome[t] = "error"
  /\ Finish(t, "error")
  /\ StoresUnchanged

-----------------------------------------------------------------------------

RequestStep(t) ==
  \/ CreateRefused(t) \/ CreateRegisters(t) \/ CreateRegistered(t)
  \/ CreateBrokerQueue(t) \/ CreateBinding(t)
  \/ DeleteNothing(t) \/ DeleteBegins(t) \/ RemoveBinding(t)
  \/ DeleteBrokerQueue(t) \/ DeleteEntry(t)
  \/ UpdateRefused(t) \/ UpdateFindsQueue(t) \/ UpdateAllowed(t)
  \/ NextRole(t) \/ SetConsume(t) \/ SetPublish(t) \/ SetChangePermission(t) \/ RolesDone(t)
  \/ AmqpDenied(t) \/ DeclareRegisters(t) \/ DeclareOwnQueue(t) \/ DeclareForeignQueue(t)
  \/ DeclareAllowed(t) \/ BrokerCreates(t)
  \/ DropUnregisters(t) \/ DropAllowed(t) \/ BrokerDeletes(t)
  \/ BindAllowed(t) \/ BrokerBinds(t)
  \/ StepFails(t)

(* Inside RegistryClient the thread runs the steps of QueueRegistry.       *)
ThreadStep(t) == RequestStep(t) \/ (RegistryStep(t) /\ UNCHANGED requestVars)

BeginSome(t) ==
  \E op \in AdminOps \union AmqpOps, q \in Queues, u \in Users,
     table \in PermissionTables \union {NoTable} : Begin(t, op, q, u, table)

LifecycleNext == \E t \in Threads : ThreadStep(t) \/ BeginSome(t)

LifecycleSpec == LifecycleInit /\ [][LifecycleNext]_vars

(* A request runs on a container or broker thread of its own, takes no     *)
(* lock and waits for no other request; every store answers or throws.     *)
FairLifecycleSpec == LifecycleSpec /\ \A t \in Threads : WF_vars(ThreadStep(t))

-----------------------------------------------------------------------------

Created(t) == pc[t] = "idle" /\ reply[t] = "ok" /\ req[t].op \in {"create", "declare"}

(* Whoever created or declared a queue can change its permissions from     *)
(* then on: the grant survives every later update, delete and re-creation. *)
CreatorCanManage ==
  \A t \in Threads, r \in Roles :
    Created(t) /\ r \in GrantableRoles(req[t].user) =>
      <<r, "changePermission">> \in grants[req[t].queue]

(* updatePermission checks changePermission once and then writes role by   *)
(* role; the user still holds it at every one of these writes.             *)
UpdaterStillAuthorized ==
  \A t \in Threads :
    (req[t].op = "update" /\ pc[t] \in {"roles", "consume", "publish"}) =>
      Authorized(req[t].user, req[t].queue, "changePermission")

(* What the two invariants above rest on: which requests go through which  *)
(* phases, and what the permission loop of a request has done so far.      *)
PhaseFits ==
  \A t \in Threads :
    /\ pc[t] \in {"createQueue", "createBinding"} => req[t].op = "create"
    /\ pc[t] \in {"removeBinding", "deleteQueue", "eraseEntry"} => req[t].op = "delete"
    /\ pc[t] = "mayChange" => req[t].op = "update"
    /\ pc[t] = "roles" => req[t].op \in {"create", "declare", "update"}
    /\ pc[t] \in {"consume", "publish"} => req[t].op \in {"declare", "update"}
    /\ pc[t] = "changePermission" => req[t].op \in {"create", "declare"}
    /\ pc[t] = "brokerCreate" => req[t].op = "declare"
    /\ pc[t] \in {"unregister", "brokerDelete"} => req[t].op = "drop"
    /\ pc[t] = "brokerBind" => req[t].op = "bind"

Granting(t) ==
  req[t].op \in {"create", "declare"} /\ pc[t] \in Permissions \union {"roles", "brokerCreate"}

OwnRolesOnly ==
  \A t \in Threads : Granting(t) =>
    /\ left[t] \subseteq MemberOf[req[t].user]
    /\ pc[t] \in Permissions => cur[t] \in MemberOf[req[t].user]
    /\ pc[t] = "brokerCreate" => left[t] = {}

GrantedSoFar ==
  \A t \in Threads, r \in Roles :
    Granting(t) /\ r \in GrantableRoles(req[t].user) =>
      \/ r \in left[t]
      \/ r = cur[t] /\ pc[t] \in Permissions
      \/ <<r, "changePermission">> \in grants[req[t].queue]

RequestInv ==
  /\ PhaseFits
  /\ OwnRolesOnly
  /\ GrantedSoFar
  /\ CreatorCanManage
  /\ UpdaterStillAuthorized

LifecycleInv == LifecycleTypeOK /\ RequestInv

PermittedChange(q) ==
  grants'[q] # grants[q] =>
    \E t \in Threads :
      /\ Active(t) /\ req[t].queue = q
      /\ \/ /\ req[t].op \in {"create", "declare"}
            /\ grants[q] \subseteq grants'[q]
            /\ grants'[q] \ grants[q] \subseteq MemberOf[req[t].user] \X Permissions
         \/ /\ req[t].op = "update"
            /\ Authorized(req[t].user, q, "changePermission")

(* Every change of a queue's permissions is made by a thread that creates  *)
(* or declares this queue, and then only adds to its user's own roles, or  *)
(* by an update of a user who may change permissions at that very moment.  *)
PermissionChangesAuthorized == [][\A q \in Queues : PermittedChange(q)]_vars

(* A queue that the broker has is registered, as long as no requests on it *)
(* overlapped and none failed half way.                                    *)
BrokerQueueRegistered ==
  \A q \in queues \ disturbed :
    (\A t \in Threads : Active(t) => req[t].queue # q) => userCount[q] > 0

Completes(t, op) ==
  /\ Active(t) /\ req[t].op = op
  /\ pc'[t] = "idle" /\ reply'[t] = "ok"

(* A successful createQueue that no other request on the queue overlapped  *)
(* leaves it in the broker, bound, and registered.                         *)
CreateTakesEffect ==
  [][\A t \in Threads : LET q == req[t].queue IN
       Completes(t, "create") /\ t \notin crossed =>
         q \in queues' /\ q \in bound' /\ userCount'[q] > 0]_vars

(* A successful deleteQueue that no other request overlapped leaves        *)
(* neither queue nor binding, and no entry if it deleted a queue.          *)
DeleteTakesEffect ==
  [][\A t \in Threads : LET q == req[t].queue IN
       Completes(t, "delete") /\ t \notin crossed =>
         q \notin queues' /\ q \notin bound' /\ (pc[t] # "check" => userCount'[q] = 0)]_vars

(* A successful updatePermission that no other request overlapped leaves   *)
(* exactly the consume and publish permissions of its table.               *)
UpdateTakesEffect ==
  [][\A t \in Threads :
       Completes(t, "update") /\ t \notin crossed =>
         \A r \in DOMAIN req[t].table, p \in {"consume", "publish"} :
           <<r, p>> \in grants'[req[t].queue] <=> p \in req[t].table[r]]_vars

(* Every request is answered.                                              *)
RequestsEnd == \A t \in Threads : Active(t) ~> ~Active(t)
=============================================================================
