------------------------ MODULE QueueLifecycleProofs ------------------------
(***************************************************************************)
(* Proofs about QueueRegistry and QueueLifecycle, for any sets of queues,  *)
(* threads, users and roles.  Of the registry: typing, the bound on        *)
(* userCount under every interleaving, and its exactness as long as no     *)
(* write falls inside another call's read-to-write window.  A request's    *)
(* steps on the registry are steps of QueueRegistry, so all this holds for *)
(* the requests too; permissions follow from LifecycleInv, which records   *)
(* what each permission loop has done so far; what undisturbed requests    *)
(* achieve follows from EffectInv, which records the same of every store.  *)
(***************************************************************************)
EXTENDS QueueLifecycle, TLAPS

-----------------------------------------------------------------------------
(* The registry alone                                                      *)

USE DEF Creating, Deleting, InRegistry, Deciding

(* The registry's initial states satisfy the inductive invariant.          *)
LEMMA RegistryInitInv == RegistryInit => RegistryInv
<1>1. AnyQueue \in Queues
  BY RegistryAssumption, Zenon DEF AnyQueue
<1>2. QED
  BY <1>1 DEF RegistryInit, RegistryInv, RegistryTypeOK, UserCountBounded, HeldBounded,
              ExactUserCount, DecisionCurrent

(* Starting a call, or moving on to the next registry call without a new   *)
(* decision, changes nothing that a decision rests on.                     *)
LEMMA CallKeepsInv ==
  ASSUME RegistryInv, NEW t \in Threads, NEW q \in Queues, NEW first \in {"exists", "lookup"},
         Call(t, q, first)
  PROVE  RegistryInv'
  BY DEF RegistryInv, RegistryTypeOK, UserCountBounded, HeldBounded,
         ExactUserCount, DecisionCurrent, Call

(* CheckExists: a new entry will hold 1, one more than nothing.            *)
LEMMA CheckExistsKeepsInv ==
  ASSUME RegistryInv, NEW t \in Threads, CheckExists(t)
  PROVE  RegistryInv'
  BY DEF RegistryInv, RegistryTypeOK, UserCountBounded, HeldBounded,
         ExactUserCount, DecisionCurrent, CheckExists, Advance

(* ShareEntry: the local copy is one more than the count just read.        *)
LEMMA ShareEntryKeepsInv ==
  ASSUME RegistryInv, NEW t \in Threads, ShareEntry(t)
  PROVE  RegistryInv'
  BY DEF RegistryInv, RegistryTypeOK, UserCountBounded, HeldBounded,
         ExactUserCount, DecisionCurrent, ShareEntry, Advance

(* StoreEntry: a decision of another thread on the same queue makes the    *)
(* queue raced, so nothing is claimed about that decision any more.        *)
LEMMA StoreEntryKeepsInv ==
  ASSUME RegistryInv, NEW t \in Threads, StoreEntry(t)
  PROVE  RegistryInv'
  BY DEF RegistryInv, RegistryTypeOK, UserCountBounded, HeldBounded,
         ExactUserCount, DecisionCurrent, StoreEntry, NoteRace, Return

(* The lookups of deleteQueue store nothing.                               *)
LEMMA LookupKeepsInv ==
  ASSUME RegistryInv, NEW t \in Threads, LookupEntry(t) \/ CheckOrigin(t)
  PROVE  RegistryInv'
  BY DEF RegistryInv, RegistryTypeOK, UserCountBounded, HeldBounded,
         ExactUserCount, DecisionCurrent, LookupEntry, CheckOrigin, Advance, Return

(* ReadCount: the decision to decrement or to remove follows the count.    *)
LEMMA ReadCountKeepsInv ==
  ASSUME RegistryInv, NEW t \in Threads, ReadCount(t)
  PROVE  RegistryInv'
  BY DEF RegistryInv, RegistryTypeOK, UserCountBounded, HeldBounded,
         ExactUserCount, DecisionCurrent, ReadCount, Advance

(* StoreDecrement writes a current decision, or the queue is raced.        *)
LEMMA StoreDecrementKeepsInv ==
  ASSUME RegistryInv, NEW t \in Threads, StoreDecrement(t)
  PROVE  RegistryInv'
  BY DEF RegistryInv, RegistryTypeOK, UserCountBounded, HeldBounded,
         ExactUserCount, DecisionCurrent, StoreDecrement, LeaveUser, NoteRace, Return

(* RemoveEntry removes the last user, or the queue is raced.               *)
LEMMA RemoveEntryKeepsInv ==
  ASSUME RegistryInv, NEW t \in Threads, RemoveEntry(t)
  PROVE  RegistryInv'
  BY DEF RegistryInv, RegistryTypeOK, UserCountBounded, HeldBounded,
         ExactUserCount, DecisionCurrent, RemoveEntry, LeaveUser, NoteRace, Return

(* A failed call leaves the registry as it found it.                       *)
LEMMA CallFailsKeepsInv ==
  ASSUME RegistryInv, NEW t \in Threads, CallFails(t)
  PROVE  RegistryInv'
  BY DEF RegistryInv, RegistryTypeOK, UserCountBounded, HeldBounded,
         ExactUserCount, DecisionCurrent, CallFails, Return

(* Deleting the resource from outside brings count and ledger to zero.     *)
LEMMA EraseEntryKeepsInv ==
  ASSUME RegistryInv, NEW t \in Threads, NEW q \in Queues, EraseEntry(t, q)
  PROVE  RegistryInv'
  BY DEF RegistryInv, RegistryTypeOK, UserCountBounded, HeldBounded,
         ExactUserCount, DecisionCurrent, EraseEntry, NoteRace

(* Every step of RegistryNext preserves the inductive invariant.           *)
LEMMA RegistryStepInv == RegistryInv /\ [RegistryNext]_registryVars => RegistryInv'
<1> SUFFICES ASSUME RegistryInv, [RegistryNext]_registryVars
             PROVE  RegistryInv'
  OBVIOUS
<1>1. ASSUME NEW t \in Threads, RegistryStep(t)
      PROVE  RegistryInv'
  BY <1>1, CheckExistsKeepsInv, ShareEntryKeepsInv, StoreEntryKeepsInv, LookupKeepsInv,
     ReadCountKeepsInv, StoreDecrementKeepsInv, RemoveEntryKeepsInv, CallFailsKeepsInv
     DEF RegistryStep
<1>2. ASSUME NEW t \in Threads, RegistryCall(t)
      PROVE  RegistryInv'
  <2>1. PICK q \in Queues : CreateQueue(t, q) \/ DeleteQueue(t, q) \/ EraseEntry(t, q)
    BY <1>2 DEF RegistryCall
  <2>2. CASE CreateQueue(t, q)
    BY <2>2, CallKeepsInv DEF CreateQueue
  <2>3. CASE DeleteQueue(t, q)
    BY <2>3, CallKeepsInv DEF DeleteQueue
  <2>4. CASE EraseEntry(t, q)
    BY <2>4, EraseEntryKeepsInv
  <2>5. QED
    BY <2>1, <2>2, <2>3, <2>4
<1>3. CASE UNCHANGED registryVars
  BY <1>3 DEF registryVars, RegistryInv, RegistryTypeOK, UserCountBounded, HeldBounded,
              ExactUserCount, DecisionCurrent
<1>4. QED
  BY <1>1, <1>2, <1>3 DEF RegistryNext

(* The inductive invariant holds throughout, for all constants.            *)
THEOREM RegistryInvariant == RegistrySpec => []RegistryInv
  BY RegistryInitInv, RegistryStepInv, PTL DEF RegistrySpec

(* Every variable of RegistryClient's model keeps its type.                *)
THEOREM RegistryTyping == RegistrySpec => []RegistryTypeOK
<1>1. RegistryInv => RegistryTypeOK
  BY DEF RegistryInv
<1>2. QED
  BY <1>1, RegistryInvariant, PTL

(* userCount never exceeds the number of createQueue calls that stored the *)
(* queue, whatever the interleaving of the unlocked calls.                 *)
THEOREM CountBounded == RegistrySpec => []UserCountBounded
<1>1. RegistryInv => UserCountBounded
  BY DEF RegistryInv
<1>2. QED
  BY <1>1, RegistryInvariant, PTL

(* Without a write inside another call's window, userCount is what atomic  *)
(* calls would have left.                                                  *)
THEOREM CountExact == RegistrySpec => []ExactUserCount
<1>1. RegistryInv => ExactUserCount
  BY DEF RegistryInv
<1>2. QED
  BY <1>1, RegistryInvariant, PTL

HIDE DEF Creating, Deleting, InRegistry, Deciding

-----------------------------------------------------------------------------
(* The registry as seen from here                                          *)

(* A step of a request either leaves the registry alone or is one of the   *)
(* steps of QueueRegistry.                                                 *)
LEMMA RequestStepOnRegistry ==
  ASSUME NEW t \in Threads, LifecycleTypeOK, RequestStep(t)
  PROVE  [RegistryNext]_registryVars
<1>1. req[t].queue \in Queues
  BY DEF LifecycleTypeOK, ThreadTypeOK, Request
<1>2. CASE CreateRegisters(t) \/ DeclareRegisters(t)
  BY <1>1, <1>2 DEF CreateRegisters, DeclareRegisters, RegistryNext, RegistryCall
<1>3. CASE DropUnregisters(t)
  BY <1>1, <1>3 DEF DropUnregisters, RegistryNext, RegistryCall
<1>4. CASE DeleteEntry(t)
  BY <1>1, <1>4 DEF DeleteEntry, RegistryNext, RegistryCall
<1>5. CASE CreateRefused(t) \/ CreateRegistered(t) \/ CreateBrokerQueue(t) \/ CreateBinding(t)
  BY <1>5 DEF CreateRefused, CreateRegistered, CreateBrokerQueue, CreateBinding, StoresUnchanged
<1>6. CASE \/ DeleteNothing(t) \/ DeleteBegins(t) \/ RemoveBinding(t) \/ DeleteBrokerQueue(t)
  BY <1>6 DEF DeleteNothing, DeleteBegins, RemoveBinding, DeleteBrokerQueue, StoresUnchanged
<1>7. CASE UpdateRefused(t) \/ UpdateFindsQueue(t) \/ UpdateAllowed(t)
  BY <1>7 DEF UpdateRefused, UpdateFindsQueue, UpdateAllowed, StoresUnchanged
<1>8. CASE NextRole(t) \/ SetConsume(t) \/ SetPublish(t) \/ SetChangePermission(t) \/ RolesDone(t)
  BY <1>8 DEF NextRole, SetConsume, SetPublish, SetChangePermission, SetPermission, RolesDone,
              StoresUnchanged
<1>9. CASE \/ AmqpDenied(t) \/ DeclareOwnQueue(t) \/ DeclareForeignQueue(t) \/ DeclareAllowed(t)
           \/ BrokerCreates(t) \/ DropAllowed(t) \/ BrokerDeletes(t)
           \/ BindAllowed(t) \/ BrokerBinds(t)
  BY <1>9 DEF AmqpDenied, DeclareOwnQueue, DeclareForeignQueue, DeclareAllowed, BrokerCreates,
              DropAllowed, BrokerDeletes, BindAllowed, BrokerBinds, StoresUnchanged
<1>10. CASE StepFails(t)
  BY <1>10 DEF StepFails, StoresUnchanged
<1>11. QED
  BY <1>2, <1>3, <1>4, <1>5, <1>6, <1>7, <1>8, <1>9, <1>10 DEF RequestStep

-----------------------------------------------------------------------------
(* The inductive invariant                                                 *)

LEMMA LifecycleInitInv == LifecycleInit => LifecycleInv
<1> SUFFICES ASSUME LifecycleInit
             PROVE  LifecycleInv
  OBVIOUS
<1>1. RegistryTypeOK
  BY RegistryInitInv DEF LifecycleInit, RegistryInv
<1>2. NoRequest \in Request
  <2>1. AnyQueue \in Queues
    BY RegistryAssumption, Zenon DEF AnyQueue
  <2>2. AnyUser \in Users
    BY LifecycleAssumption, Zenon DEF AnyUser
  <2>3. QED
    BY <2>1, <2>2 DEF NoRequest, Request, AdminOps
<1>3. LifecycleTypeOK
  <2>1. AnyRole \in Roles
    BY LifecycleAssumption, Zenon DEF AnyRole
  <2>2. QED
    BY <1>1, <1>2, <2>1
       DEF LifecycleInit, LifecycleTypeOK, ThreadTypeOK, StoreTypeOK, HistoryTypeOK, Phases
<1>4. QED
  BY <1>3 DEF LifecycleInit, LifecycleInv, RequestInv, PhaseFits, OwnRolesOnly, Granting, Permissions,
              GrantedSoFar, CreatorCanManage, Created, UpdaterStillAuthorized

(* Whatever the registry does, its variables keep their types.             *)
LEMMA RegistryTypesKept ==
  ASSUME RegistryTypeOK, [RegistryNext]_registryVars
  PROVE  RegistryTypeOK'
<1> USE DEF RegistryTypeOK, Creating, Deleting, InRegistry, Deciding
<1>1. ASSUME NEW t \in Threads, RegistryStep(t)
      PROVE  RegistryTypeOK'
  BY <1>1 DEF RegistryStep, CheckExists, ShareEntry, StoreEntry, LookupEntry, CheckOrigin,
              ReadCount, StoreDecrement, RemoveEntry, CallFails, Advance, Return, NoteRace,
              LeaveUser
<1>2. ASSUME NEW t \in Threads, RegistryCall(t)
      PROVE  RegistryTypeOK'
  BY <1>2 DEF RegistryCall, CreateQueue, DeleteQueue, EraseEntry, Call, NoteRace
<1>3. QED
  BY <1>1, <1>2 DEF RegistryNext, registryVars

-----------------------------------------------------------------------------
(* Types                                                                   *)

LEMMA RequestFields ==
  ASSUME ThreadTypeOK, NEW t \in Threads
  PROVE  /\ req[t].queue \in Queues
         /\ req[t].user \in Users
         /\ GrantableRoles(req[t].user) \subseteq Roles \intersect MemberOf[req[t].user]
         /\ DOMAIN req[t].table \subseteq Roles
<1>1. req[t].queue \in Queues /\ req[t].user \in Users
  BY DEF ThreadTypeOK, Request
<1>2. MemberOf[req[t].user] \subseteq Roles
  BY <1>1, LifecycleAssumption
<1>3. req[t].table \in PermissionTables \union {NoTable}
  BY DEF ThreadTypeOK, Request
<1>4. DOMAIN NoTable = {}
  BY DEF NoTable
<1>5. DOMAIN req[t].table \subseteq Roles
  BY <1>3, <1>4, LifecycleAssumption
<1>6. QED
  BY <1>1, <1>2, <1>5 DEF GrantableRoles

(* The three ways in which a request moves on.                             *)
LEMMA GotoTypes ==
  ASSUME ThreadTypeOK, NEW t \in Threads, NEW phase \in Phases, Goto(t, phase)
  PROVE  ThreadTypeOK'
  BY DEF ThreadTypeOK, Goto

LEMMA FinishTypes ==
  ASSUME ThreadTypeOK, HistoryTypeOK, NEW t \in Threads,
         NEW how \in {"ok", "refused", "error"}, Finish(t, how)
  PROVE  ThreadTypeOK' /\ HistoryTypeOK'
<1>1. req[t].queue \in Queues
  BY RequestFields
<1>2. QED
  BY <1>1 DEF ThreadTypeOK, HistoryTypeOK, Finish, Phases

LEMMA ForRolesTypes ==
  ASSUME ThreadTypeOK, NEW t \in Threads, NEW roles \in SUBSET Roles, ForRoles(t, roles)
  PROVE  ThreadTypeOK'
  BY DEF ThreadTypeOK, ForRoles, Phases

(* Every step of a request is one of these, or the choice of a role.       *)
LEMMA StepShapes ==
  ASSUME ThreadTypeOK, NEW t \in Threads, RequestStep(t)
  PROVE  \/ \E how \in {"ok", "refused", "error"} : Finish(t, how)
         \/ \E phase \in Phases : Goto(t, phase) /\ UNCHANGED historyVars
         \/ \E roles \in SUBSET Roles : ForRoles(t, roles) /\ UNCHANGED historyVars
         \/ NextRole(t)
<1> USE DEF Phases, Permissions
<1>1. CASE CreateRefused(t) \/ DeleteNothing(t) \/ DeleteEntry(t) \/ UpdateRefused(t)
  BY <1>1 DEF CreateRefused, DeleteNothing, DeleteEntry, UpdateRefused
<1>2. CASE RolesDone(t) \/ BrokerCreates(t) \/ BrokerDeletes(t) \/ BrokerBinds(t)
  BY <1>2 DEF RolesDone, BrokerCreates, BrokerDeletes, BrokerBinds
<1>3. CASE AmqpDenied(t) \/ DeclareForeignQueue(t) \/ StepFails(t)
  BY <1>3 DEF AmqpDenied, DeclareForeignQueue, StepFails
<1>4. CASE CreateRegisters(t) \/ CreateRegistered(t) \/ CreateBrokerQueue(t)
  BY <1>4 DEF CreateRegisters, CreateRegistered, CreateBrokerQueue, historyVars
<1>5. CASE DeleteBegins(t) \/ RemoveBinding(t) \/ DeleteBrokerQueue(t) \/ UpdateFindsQueue(t)
  BY <1>5 DEF DeleteBegins, RemoveBinding, DeleteBrokerQueue, UpdateFindsQueue, historyVars
<1>6. CASE \/ DeclareRegisters(t) \/ DropUnregisters(t) \/ DropAllowed(t) \/ BindAllowed(t)
           \/ DeclareAllowed(t)
  BY <1>6 DEF DeclareRegisters, DropUnregisters, DropAllowed, BindAllowed, DeclareAllowed
<1>7. CASE SetConsume(t) \/ SetPublish(t) \/ SetChangePermission(t)
  BY <1>7 DEF SetConsume, SetPublish, SetChangePermission, SetPermission, historyVars
<1>8. CASE CreateBinding(t) \/ DeclareOwnQueue(t) \/ UpdateAllowed(t)
  <2>1. GrantableRoles(req[t].user) \in SUBSET Roles /\ DOMAIN req[t].table \in SUBSET Roles
    BY RequestFields
  <2>2. QED
    BY <1>8, <2>1 DEF CreateBinding, DeclareOwnQueue, UpdateAllowed, historyVars
<1>9. QED
  BY <1>1, <1>2, <1>3, <1>4, <1>5, <1>6, <1>7, <1>8 DEF RequestStep

LEMMA RequestStepTypes ==
  ASSUME LifecycleTypeOK, RegistryTypeOK', NEW t \in Threads, RequestStep(t)
  PROVE  LifecycleTypeOK'
<1>1. ThreadTypeOK /\ StoreTypeOK /\ HistoryTypeOK
  BY DEF LifecycleTypeOK
<1>2. req[t].queue \in Queues
  BY <1>1, RequestFields
<1>3. ThreadTypeOK' /\ HistoryTypeOK'
  <2>1. UNCHANGED historyVars => HistoryTypeOK'
    BY <1>1 DEF HistoryTypeOK, historyVars
  <2>2. CASE NextRole(t)
    BY <1>1, <2>1, <2>2 DEF NextRole, ThreadTypeOK, Phases, Permissions
  <2>3. QED
    BY <1>1, <2>1, <2>2, StepShapes, FinishTypes, GotoTypes, ForRolesTypes
<1>4. StoreTypeOK'
  <2>1. CASE \/ CreateBrokerQueue(t) \/ CreateBinding(t) \/ RemoveBinding(t)
             \/ DeleteBrokerQueue(t) \/ BrokerCreates(t) \/ BrokerDeletes(t) \/ BrokerBinds(t)
    BY <1>1, <1>2, <2>1
       DEF StoreTypeOK, CreateBrokerQueue, CreateBinding, RemoveBinding, DeleteBrokerQueue,
           BrokerCreates, BrokerDeletes, BrokerBinds
  <2>2. CASE SetConsume(t) \/ SetPublish(t) \/ SetChangePermission(t)
    <3>1. cur[t] \in Roles
      BY <1>1 DEF ThreadTypeOK
    <3>2. QED
      BY <1>1, <1>2, <2>2, <3>1
         DEF StoreTypeOK, Permissions, SetConsume, SetPublish, SetChangePermission, SetPermission,
             brokerVars
  <2>3. CASE UNCHANGED <<brokerVars, grants>>
    BY <1>1, <2>3 DEF StoreTypeOK, brokerVars
  <2>4. QED
    BY <2>1, <2>2, <2>3
       DEF RequestStep, StoresUnchanged, CreateRefused, CreateRegisters, CreateRegistered,
           DeleteNothing, DeleteBegins, DeleteEntry, UpdateRefused, UpdateFindsQueue,
           UpdateAllowed, NextRole, RolesDone, AmqpDenied, DeclareRegisters, DeclareOwnQueue,
           DeclareForeignQueue, DeclareAllowed, DropUnregisters, DropAllowed, BindAllowed,
           StepFails
<1>5. QED
  BY <1>3, <1>4 DEF LifecycleTypeOK

LEMMA BeginTypes ==
  ASSUME LifecycleTypeOK, NEW t \in Threads, BeginSome(t)
  PROVE  LifecycleTypeOK'
<1>1. RegistryTypeOK' /\ StoreTypeOK'
  BY DEF LifecycleTypeOK, RegistryTypeOK, StoreTypeOK, BeginSome, Begin, StoresUnchanged,
         registryVars, brokerVars
<1>2. ThreadTypeOK'
  BY DEF LifecycleTypeOK, ThreadTypeOK, BeginSome, Begin, Request, Phases
<1>3. HistoryTypeOK'
  BY DEF LifecycleTypeOK, HistoryTypeOK, BeginSome, Begin
<1>4. QED
  BY <1>1, <1>2, <1>3 DEF LifecycleTypeOK

-----------------------------------------------------------------------------
(* Requests and permissions: one lemma per shape of step                   *)

(* A request that ends keeps its promise: if it succeeded at creating its  *)
(* queue, all its grants are made.                                         *)
LEMMA FinishKeepsInv ==
  ASSUME ThreadTypeOK, RequestInv, NEW t \in Threads, NEW how \in {"ok", "refused", "error"},
         Active(t), Finish(t, how), UNCHANGED grants,
         (how = "ok" /\ req[t].op \in {"create", "declare"}) =>
            left[t] = {} /\ pc[t] \in {"roles", "brokerCreate"}
  PROVE  RequestInv'
<1> USE DEF RequestInv, ThreadTypeOK, Finish, Granting, Permissions
<1>1. PhaseFits'
  BY DEF PhaseFits
<1>2. OwnRolesOnly'
  BY DEF OwnRolesOnly
<1>3. GrantedSoFar'
  BY DEF GrantedSoFar
<1>4. CreatorCanManage'
  BY DEF CreatorCanManage, Created, GrantedSoFar
<1>5. UpdaterStillAuthorized'
  BY DEF UpdaterStillAuthorized, Authorized
<1>6. QED
  BY <1>1, <1>2, <1>3, <1>4, <1>5

(* Moving on outside the permission loop claims nothing but its phase.     *)
LEMMA GotoKeepsInv ==
  ASSUME ThreadTypeOK, RequestInv, NEW t \in Threads,
         NEW phase \in Phases \ (Permissions \union {"idle", "roles", "brokerCreate"}),
         Goto(t, phase), UNCHANGED grants,
         phase \in {"createQueue", "createBinding"} => req[t].op = "create",
         phase \in {"removeBinding", "deleteQueue", "eraseEntry"} => req[t].op = "delete",
         phase = "mayChange" => req[t].op = "update",
         phase \in {"unregister", "brokerDelete"} => req[t].op = "drop",
         phase = "brokerBind" => req[t].op = "bind"
  PROVE  RequestInv'
<1> USE DEF RequestInv, ThreadTypeOK, Goto, Granting, Permissions
<1>1. PhaseFits'
  BY DEF PhaseFits
<1>2. OwnRolesOnly'
  BY DEF OwnRolesOnly
<1>3. GrantedSoFar'
  BY DEF GrantedSoFar
<1>4. CreatorCanManage'
  BY DEF CreatorCanManage, Created
<1>5. UpdaterStillAuthorized'
  BY DEF UpdaterStillAuthorized, Authorized
<1>6. QED
  BY <1>1, <1>2, <1>3, <1>4, <1>5

(* A loop starts with everything still to do: a creator's over the roles   *)
(* to be granted, an update's only for a user who may change permissions.  *)
LEMMA ForRolesKeepsInv ==
  ASSUME ThreadTypeOK, RequestInv, NEW t \in Threads, NEW roles \in SUBSET Roles,
         ForRoles(t, roles), UNCHANGED grants,
         \/ req[t].op \in {"create", "declare"} /\ roles = GrantableRoles(req[t].user)
         \/ req[t].op = "update" /\ Authorized(req[t].user, req[t].queue, "changePermission")
  PROVE  RequestInv'
<1> USE DEF RequestInv, ThreadTypeOK, ForRoles, Granting, Permissions
<1>1. PhaseFits'
  BY DEF PhaseFits
<1>2. OwnRolesOnly'
  <2>1. GrantableRoles(req[t].user) \subseteq MemberOf[req[t].user]
    BY DEF GrantableRoles
  <2>2. QED
    BY <2>1 DEF OwnRolesOnly
<1>3. GrantedSoFar'
  BY DEF GrantedSoFar
<1>4. CreatorCanManage'
  BY DEF CreatorCanManage, Created
<1>5. UpdaterStillAuthorized'
  BY DEF UpdaterStillAuthorized, Authorized
<1>6. QED
  BY <1>1, <1>2, <1>3, <1>4, <1>5

LEMMA NextRoleKeepsInv ==
  ASSUME ThreadTypeOK, RequestInv, NEW t \in Threads, NextRole(t)
  PROVE  RequestInv'
<1> USE DEF RequestInv, ThreadTypeOK, NextRole, Granting, Permissions, StoresUnchanged
<1>1. PhaseFits'
  BY DEF PhaseFits
<1>2. OwnRolesOnly'
  BY DEF OwnRolesOnly
<1>3. GrantedSoFar'
  BY DEF GrantedSoFar
<1>4. CreatorCanManage'
  BY DEF CreatorCanManage, Created
<1>5. UpdaterStillAuthorized'
  BY DEF UpdaterStillAuthorized, Authorized
<1>6. QED
  BY <1>1, <1>2, <1>3, <1>4, <1>5

(* A step of the loop never takes changePermission away from anybody:      *)
(* updates do not touch it and creators only grant.                        *)
LEMMA ChangePermissionKept ==
  ASSUME ThreadTypeOK, StoreTypeOK, NEW t \in Threads, NEW permission \in Permissions, NEW next,
         SetPermission(t, permission, next),
         permission # "changePermission" \/ req[t].op # "update"
  PROVE  \A q \in Queues, r \in Roles :
           <<r, "changePermission">> \in grants[q] => <<r, "changePermission">> \in grants'[q]
<1>1. req[t].queue \in Queues
  BY RequestFields
<1>2. QED
  BY <1>1 DEF StoreTypeOK, SetPermission, Wanted

(* Its owner moves on in the loop; all that was granted stays granted.     *)
LEMMA SetPermissionKeepsInv ==
  ASSUME ThreadTypeOK, StoreTypeOK, RequestInv, NEW t \in Threads,
         SetConsume(t) \/ SetPublish(t) \/ SetChangePermission(t)
  PROVE  RequestInv'
<1> USE DEF RequestInv
<1> DEFINE Next == IF pc[t] = "consume" THEN "publish"
                   ELSE IF pc[t] = "publish" /\ req[t].op = "declare" THEN "changePermission"
                   ELSE "roles"
<1>1. pc[t] \in Permissions /\ SetPermission(t, pc[t], Next)
  BY DEF SetConsume, SetPublish, SetChangePermission, SetPermission, Permissions
<1>2. Goto(t, Next) /\ pc' = [pc EXCEPT ![t] = Next] /\ UNCHANGED <<req, left, cur, reply>>
  BY <1>1 DEF SetPermission, Goto
<1>3. pc[t] = "changePermission" => req[t].op \in {"create", "declare"}
  BY DEF PhaseFits
<1>4. \A q \in Queues, r \in Roles :
        <<r, "changePermission">> \in grants[q] => <<r, "changePermission">> \in grants'[q]
  BY <1>1, <1>3, ChangePermissionKept
<1>5. \A u \in Threads : /\ req[u].queue \in Queues
                         /\ GrantableRoles(req[u].user) \subseteq Roles
                         /\ MemberOf[req[u].user] \subseteq Roles
  BY RequestFields, LifecycleAssumption DEF ThreadTypeOK, Request
<1>6. PhaseFits'
  <2>1. /\ pc'[t] = "publish" => req[t].op \in {"declare", "update"}
        /\ pc'[t] = "changePermission" => req[t].op \in {"create", "declare"}
        /\ pc'[t] = "roles" => req[t].op \in {"create", "declare", "update"}
        /\ pc'[t] \in {"publish", "changePermission", "roles"}
    BY <1>1, <1>2 DEF PhaseFits, ThreadTypeOK, Permissions
  <2>2. \A u \in Threads \ {t} : pc'[u] = pc[u]
    BY <1>2 DEF ThreadTypeOK
  <2> HIDE DEF Next
  <2>3. QED
    BY <1>2, <2>1, <2>2 DEF PhaseFits
<1>7. OwnRolesOnly'
  BY <1>1, <1>2 DEF OwnRolesOnly, Granting, ThreadTypeOK, Permissions
<1>8. GrantedSoFar'
  <2>1. SUFFICES ASSUME NEW u \in Threads, Granting(u)', NEW r \in Roles,
                        r \in GrantableRoles(req[u].user),
                        ~(r \in left[u]), ~(r = cur[u] /\ pc'[u] \in Permissions)
                 PROVE  <<r, "changePermission">> \in grants'[req[u].queue]
    BY <1>2 DEF GrantedSoFar
  <2>2. Granting(u)
    BY <1>1, <1>2, <2>1 DEF Granting, ThreadTypeOK, Permissions
  <2>3. \/ <<r, "changePermission">> \in grants[req[u].queue]
        \/ r = cur[u] /\ pc[u] \in Permissions
    BY <2>1, <2>2 DEF GrantedSoFar
  <2>4. CASE <<r, "changePermission">> \in grants[req[u].queue]
    BY <1>4, <1>5, <2>1, <2>4
  <2>5. CASE r = cur[u] /\ pc[u] \in Permissions
    <3>1. u = t /\ pc[t] = "changePermission"
      BY <1>1, <1>2, <2>1, <2>5 DEF PhaseFits, Granting, ThreadTypeOK, Permissions
    <3>2. <<cur[t], "changePermission">> \in grants'[req[t].queue]
      BY <1>1, <1>3, <1>5, <3>1 DEF SetPermission, Wanted, StoreTypeOK
    <3>3. QED
      BY <2>5, <3>1, <3>2
  <2>6. QED
    BY <2>3, <2>4, <2>5
<1>9. CreatorCanManage'
  BY <1>1, <1>2, <1>4, <1>5 DEF CreatorCanManage, Created, ThreadTypeOK, Permissions
<1>10. UpdaterStillAuthorized'
  <2>1. \A u \in Threads :
          Authorized(req[u].user, req[u].queue, "changePermission") =>
            Authorized(req[u].user, req[u].queue, "changePermission")'
    BY <1>2, <1>4, <1>5 DEF Authorized
  <2>2. QED
    BY <1>1, <1>2, <1>3, <2>1 DEF UpdaterStillAuthorized, ThreadTypeOK, Permissions
<1>11. QED
  BY <1>6, <1>7, <1>8, <1>9, <1>10

LEMMA DeclareAllowedKeepsInv ==
  ASSUME ThreadTypeOK, RequestInv, NEW t \in Threads, DeclareAllowed(t)
  PROVE  RequestInv'
<1> USE DEF RequestInv, ThreadTypeOK, DeclareAllowed, Goto, Granting, Permissions, StoresUnchanged
<1>1. PhaseFits'
  BY DEF PhaseFits
<1>2. OwnRolesOnly'
  BY DEF OwnRolesOnly
<1>3. GrantedSoFar'
  BY DEF GrantedSoFar
<1>4. CreatorCanManage'
  BY DEF CreatorCanManage, Created
<1>5. UpdaterStillAuthorized'
  BY DEF UpdaterStillAuthorized, Authorized
<1>6. QED
  BY <1>1, <1>2, <1>3, <1>4, <1>5

(* A new request is at its first check and has promised nothing yet.       *)
LEMMA BeginKeepsInv ==
  ASSUME ThreadTypeOK, RequestInv, NEW t \in Threads, BeginSome(t)
  PROVE  RequestInv'
<1>1. PICK op \in AdminOps \union AmqpOps, q \in Queues, u \in Users,
           table \in PermissionTables \union {NoTable} : Begin(t, op, q, u, table)
  BY DEF BeginSome
<1>2. /\ pc'[t] \in {"check", "authorise"}
      /\ \A o \in Threads \ {t} : req'[o] = req[o] /\ pc'[o] = pc[o] /\ reply'[o] = reply[o]
      /\ UNCHANGED <<left, cur, grants>>
  BY <1>1 DEF Begin, StoresUnchanged, ThreadTypeOK
<1> USE <1>2 DEF RequestInv, Granting, Permissions
<1>3. PhaseFits'
  BY DEF PhaseFits
<1>4. OwnRolesOnly'
  BY DEF OwnRolesOnly
<1>5. GrantedSoFar'
  BY DEF GrantedSoFar
<1>6. CreatorCanManage'
  BY DEF CreatorCanManage, Created
<1>7. UpdaterStillAuthorized'
  BY DEF UpdaterStillAuthorized, Authorized
<1>8. QED
  BY <1>3, <1>4, <1>5, <1>6, <1>7

LEMMA RequestStepKeepsInv ==
  ASSUME ThreadTypeOK, StoreTypeOK, RequestInv, NEW t \in Threads, RequestStep(t)
  PROVE  RequestInv'
<1>1. PhaseFits
  BY DEF RequestInv
<1> USE DEF StoresUnchanged, Phases, Permissions, Active
<1>2. CASE CreateRefused(t) \/ DeleteNothing(t) \/ DeleteEntry(t) \/ UpdateRefused(t)
  BY <1>1, <1>2, FinishKeepsInv
     DEF PhaseFits, CreateRefused, DeleteNothing, DeleteEntry, UpdateRefused
<1>3. CASE BrokerCreates(t) \/ BrokerDeletes(t) \/ BrokerBinds(t) \/ RolesDone(t)
  <2>1. BrokerCreates(t) => left[t] = {}
    BY <1>1 DEF BrokerCreates, PhaseFits, RequestInv, OwnRolesOnly, Granting
  <2>2. QED
    BY <1>1, <1>3, <2>1, FinishKeepsInv
       DEF PhaseFits, BrokerCreates, BrokerDeletes, BrokerBinds, RolesDone
<1>4. CASE AmqpDenied(t) \/ DeclareForeignQueue(t) \/ StepFails(t)
  BY <1>4, FinishKeepsInv DEF AmqpDenied, DeclareForeignQueue, StepFails
<1>5. CASE CreateRegisters(t) \/ CreateRegistered(t) \/ CreateBrokerQueue(t)
  BY <1>1, <1>5, GotoKeepsInv
     DEF PhaseFits, CreateRegisters, CreateRegistered, CreateBrokerQueue
<1>6. CASE DeleteBegins(t) \/ RemoveBinding(t) \/ DeleteBrokerQueue(t) \/ UpdateFindsQueue(t)
  BY <1>1, <1>6, GotoKeepsInv
     DEF PhaseFits, DeleteBegins, RemoveBinding, DeleteBrokerQueue, UpdateFindsQueue
<1>7. CASE DeclareRegisters(t) \/ DropUnregisters(t) \/ BindAllowed(t)
  BY <1>7, GotoKeepsInv DEF DeclareRegisters, DropUnregisters, BindAllowed
<1>8. CASE DropAllowed(t)
  BY <1>1, <1>8, GotoKeepsInv DEF PhaseFits, DropAllowed
<1>9. CASE CreateBinding(t) \/ DeclareOwnQueue(t)
  BY <1>1, <1>9, RequestFields, ForRolesKeepsInv DEF PhaseFits, CreateBinding, DeclareOwnQueue
<1>10. CASE UpdateAllowed(t)
  BY <1>1, <1>10, RequestFields, ForRolesKeepsInv DEF PhaseFits, UpdateAllowed
<1>11. CASE DeclareAllowed(t)
  BY <1>11, DeclareAllowedKeepsInv
<1>12. CASE NextRole(t)
  BY <1>12, NextRoleKeepsInv
<1>13. CASE SetConsume(t) \/ SetPublish(t) \/ SetChangePermission(t)
  BY <1>13, SetPermissionKeepsInv
<1>14. QED
  BY <1>2, <1>3, <1>4, <1>5, <1>6, <1>7, <1>8, <1>9, <1>10, <1>11, <1>12, <1>13 DEF RequestStep

(* Steps inside RegistryClient leave the request and its stores alone.     *)
LEMMA RequestVarsKeepInv ==
  ASSUME ThreadTypeOK, StoreTypeOK, HistoryTypeOK, RequestInv, UNCHANGED requestVars
  PROVE  ThreadTypeOK' /\ StoreTypeOK' /\ HistoryTypeOK' /\ RequestInv'
<1>1. /\ UNCHANGED <<req, pc, left, cur, reply>>
      /\ UNCHANGED <<queues, bound, grants, requests, crossed, disturbed>>
  BY DEF requestVars, threadVars, brokerVars, historyVars
<1>2. ThreadTypeOK' /\ StoreTypeOK' /\ HistoryTypeOK'
  BY <1>1 DEF ThreadTypeOK, StoreTypeOK, HistoryTypeOK
<1>3. PhaseFits' /\ OwnRolesOnly' /\ GrantedSoFar' /\ CreatorCanManage' /\ UpdaterStillAuthorized'
  BY <1>1 DEF RequestInv, PhaseFits, OwnRolesOnly, GrantedSoFar, Granting, CreatorCanManage,
              Created, UpdaterStillAuthorized, Authorized
<1>4. QED
  BY <1>2, <1>3 DEF RequestInv

(* Every step of a thread, in or outside RegistryClient, keeps LifecycleInv. *)
LEMMA LifecycleStepInv == LifecycleInv /\ [LifecycleNext]_vars => LifecycleInv'
<1> SUFFICES ASSUME LifecycleInv, [LifecycleNext]_vars
             PROVE  LifecycleInv'
  OBVIOUS
<1> USE DEF LifecycleInv, LifecycleTypeOK
<1>1. ASSUME NEW t \in Threads, RequestStep(t)
      PROVE  LifecycleInv'
  <2>1. RegistryTypeOK'
    BY <1>1, RequestStepOnRegistry, RegistryTypesKept
  <2>2. LifecycleTypeOK'
    BY <1>1, <2>1, RequestStepTypes
  <2>3. RequestInv'
    BY <1>1, RequestStepKeepsInv
  <2>4. QED
    BY <2>2, <2>3
<1>2. ASSUME NEW t \in Threads, RegistryStep(t), UNCHANGED requestVars
      PROVE  LifecycleInv'
  <2>1. RegistryTypeOK'
    BY <1>2, RegistryTypesKept DEF RegistryNext
  <2>2. QED
    BY <1>2, <2>1, RequestVarsKeepInv
<1>3. ASSUME NEW t \in Threads, BeginSome(t)
      PROVE  LifecycleInv'
  <2>1. LifecycleTypeOK'
    BY <1>3, BeginTypes
  <2>2. RequestInv'
    BY <1>3, BeginKeepsInv
  <2>3. QED
    BY <2>1, <2>2
<1>4. CASE UNCHANGED vars
  <2>1. UNCHANGED requestVars /\ UNCHANGED registryVars
    BY <1>4 DEF vars
  <2>2. RegistryTypeOK'
    BY <2>1 DEF RegistryTypeOK, registryVars
  <2>3. QED
    BY <2>1, <2>2, RequestVarsKeepInv
<1>5. QED
  BY <1>1, <1>2, <1>3, <1>4 DEF LifecycleNext, ThreadStep

(* The inductive invariant holds throughout, for all constants.            *)
THEOREM LifecycleInvariant == LifecycleSpec => []LifecycleInv
  BY LifecycleInitInv, LifecycleStepInv, PTL DEF LifecycleSpec

(* Every variable of the lifecycle keeps its type; in particular no        *)
(* binding outlives its queue.                                             *)
THEOREM LifecycleTyping == LifecycleSpec => []LifecycleTypeOK
<1>1. LifecycleInv => LifecycleTypeOK
  BY DEF LifecycleInv
<1>2. QED
  BY <1>1, LifecycleInvariant, PTL

(* Whoever created or declared a queue can change its permissions from     *)
(* then on, whatever the other threads do.                                 *)
THEOREM CreatorsManage == LifecycleSpec => []CreatorCanManage
<1>1. LifecycleInv => CreatorCanManage
  BY DEF LifecycleInv, RequestInv
<1>2. QED
  BY <1>1, LifecycleInvariant, PTL

-----------------------------------------------------------------------------
(* Theorems about steps                                                    *)

(* The permissions of a queue change in the three permission steps only.   *)
LEMMA OnlyLoopsChangeGrants ==
  ASSUME NEW t \in Threads, RequestStep(t),
         ~SetConsume(t), ~SetPublish(t), ~SetChangePermission(t)
  PROVE  UNCHANGED grants
  BY DEF RequestStep, CreateRefused, CreateRegisters, CreateRegistered, CreateBrokerQueue,
         CreateBinding, DeleteNothing, DeleteBegins, RemoveBinding, DeleteBrokerQueue,
         DeleteEntry, UpdateRefused, UpdateFindsQueue, UpdateAllowed, NextRole, RolesDone,
         AmqpDenied, DeclareRegisters, DeclareOwnQueue, DeclareForeignQueue, DeclareAllowed,
         BrokerCreates, DropUnregisters, DropAllowed, BrokerDeletes, BindAllowed, BrokerBinds,
         StepFails, StoresUnchanged

(* No step of anybody changes a queue's permissions unless its thread is   *)
(* creating that queue and grants to its user's own roles, or updates it   *)
(* for a user who may change permissions at that very moment.              *)
THEOREM ChangesAuthorized == LifecycleSpec => PermissionChangesAuthorized
<1>1. ASSUME LifecycleInv, NEW t \in Threads, NEW q \in Queues,
             SetConsume(t) \/ SetPublish(t) \/ SetChangePermission(t)
      PROVE  PermittedChange(q)
  <2>1. PICK permission \in Permissions, next \in Phases :
          pc[t] = permission /\ SetPermission(t, permission, next)
    BY <1>1 DEF SetConsume, SetPublish, SetChangePermission, SetPermission, Permissions, Phases
  <2>2. /\ ThreadTypeOK /\ StoreTypeOK
        /\ PhaseFits /\ OwnRolesOnly /\ UpdaterStillAuthorized
        /\ req[t].queue \in Queues
    BY <1>1, RequestFields DEF LifecycleInv, LifecycleTypeOK, RequestInv
  <2>3. grants' = [grants EXCEPT ![req[t].queue] =
                     IF Wanted(t, permission) THEN @ \union {<<cur[t], permission>>}
                                              ELSE @ \ {<<cur[t], permission>>}]
    BY <2>1 DEF SetPermission
  <2>4. SUFFICES ASSUME grants'[q] # grants[q]
                 PROVE  PermittedChange(q)
    BY DEF PermittedChange
  <2>5. req[t].queue = q
    BY <1>1, <2>2, <2>3, <2>4 DEF StoreTypeOK
  <2>6. CASE req[t].op \in {"create", "declare"}
    <3>1. cur[t] \in MemberOf[req[t].user]
      BY <2>1, <2>2, <2>6 DEF OwnRolesOnly, Granting
    <3>2. grants'[q] = grants[q] \union {<<cur[t], permission>>}
      BY <1>1, <2>2, <2>3, <2>5, <2>6 DEF Wanted, StoreTypeOK
    <3>3. QED
      BY <1>1, <2>1, <2>5, <2>6, <3>1, <3>2 DEF PermittedChange, Active, Permissions
  <2>7. CASE req[t].op = "update"
    <3>1. pc[t] \in {"consume", "publish"}
      BY <2>1, <2>2, <2>7 DEF PhaseFits, Permissions
    <3>2. QED
      BY <1>1, <2>2, <2>5, <2>7, <3>1 DEF PermittedChange, UpdaterStillAuthorized, Active
  <2>8. QED
    BY <2>1, <2>2, <2>6, <2>7 DEF PhaseFits, Permissions
<1>2. ASSUME LifecycleInv, [LifecycleNext]_vars, NEW q \in Queues
      PROVE  PermittedChange(q)
  <2>1. ASSUME NEW t \in Threads, RequestStep(t)
        PROVE  PermittedChange(q)
    BY <1>1, <1>2, <2>1, OnlyLoopsChangeGrants DEF PermittedChange
  <2>2. ASSUME NEW t \in Threads, BeginSome(t) \/ UNCHANGED requestVars
        PROVE  PermittedChange(q)
    BY <2>2 DEF BeginSome, Begin, StoresUnchanged, requestVars, PermittedChange
  <2>3. CASE UNCHANGED vars
    BY <2>3 DEF vars, requestVars, PermittedChange
  <2>4. QED
    BY <1>2, <2>1, <2>2, <2>3 DEF LifecycleNext, ThreadStep
<1>3. LifecycleInv /\ [LifecycleNext]_vars => [\A q \in Queues : PermittedChange(q)]_vars
  BY <1>2
<1>4. QED
  BY <1>3, LifecycleInvariant, PTL DEF LifecycleSpec, PermissionChangesAuthorized

(* The lifecycle implements QueueRegistry: its steps on the registry are   *)
(* those of RegistryClient and of the one outside delete, or stutters.     *)
THEOREM ImplementsRegistry == LifecycleSpec => RegistrySpec
<1>1. LifecycleInit => RegistryInit
  BY DEF LifecycleInit
<1>2. LifecycleInv /\ [LifecycleNext]_vars => [RegistryNext]_registryVars
  <2> SUFFICES ASSUME LifecycleInv, [LifecycleNext]_vars
               PROVE  [RegistryNext]_registryVars
    OBVIOUS
  <2>1. ASSUME NEW t \in Threads, RequestStep(t)
        PROVE  [RegistryNext]_registryVars
    BY <2>1, RequestStepOnRegistry DEF LifecycleInv
  <2>2. ASSUME NEW t \in Threads, RegistryStep(t)
        PROVE  [RegistryNext]_registryVars
    BY <2>2 DEF RegistryNext
  <2>3. ASSUME NEW t \in Threads, BeginSome(t)
        PROVE  [RegistryNext]_registryVars
    BY <2>3 DEF BeginSome, Begin, StoresUnchanged
  <2>4. CASE UNCHANGED vars
    BY <2>4 DEF vars
  <2>5. QED
    BY <2>1, <2>2, <2>3, <2>4 DEF LifecycleNext, ThreadStep
<1>3. QED
  BY <1>1, <1>2, LifecycleInvariant, PTL DEF LifecycleSpec, RegistrySpec

(* What holds of userCount in QueueRegistry holds of the whole lifecycle.  *)
COROLLARY LifecycleCounts == LifecycleSpec => [](UserCountBounded /\ ExactUserCount)
  BY ImplementsRegistry, CountBounded, CountExact, PTL

-----------------------------------------------------------------------------
(* Undisturbed requests: the inductive invariant                           *)

OnQueue(t, q) == Active(t) /\ req[t].queue = q

Alone(t) == Active(t) /\ t \notin crossed

(* Two requests on one queue at once are both on record, and so is their   *)
(* queue: what an unrecorded request has seen of its queue is still so.    *)
OverlapsNoted ==
  \A t \in Threads : Active(t) =>
    /\ t \in crossed => req[t].queue \in disturbed
    /\ \A u \in Threads \ {t} : OnQueue(u, req[t].queue) => t \in crossed

(* A thread is in RegistryClient on behalf of the request it runs, and     *)
(* what it will write there is a count of users.                           *)
CallFits(t) ==
  /\ at[t] \in Creating => pc[t] = "register"
  /\ at[t] \in Deleting => pc[t] = "unregister"
  /\ pc[t] \in {"register", "unregister"} => target[t] = req[t].queue
  /\ pc[t] = "register" => req[t].op \in {"create", "declare"}
  /\ at[t] \in {"store", "decrement"} => held[t] > 0

(* What a request has stored by now: the entry, then the queue, then the   *)
(* binding ...                                                             *)
CreatedSoFar(t) ==
  req[t].op \in {"create", "declare"} =>
    /\ \/ pc[t] = "register" /\ at[t] = "out" /\ outcome[t] = "ok"
       \/ pc[t] \in {"createQueue", "createBinding", "roles", "brokerCreate"} \union Permissions
       => userCount[req[t].queue] > 0
    /\ req[t].op = "create" /\ pc[t] \in {"createBinding", "roles"} \union Permissions =>
         req[t].queue \in queues
    /\ req[t].op = "create" /\ pc[t] \in {"roles"} \union Permissions => req[t].queue \in bound

(* ... or deleted ...                                                      *)
DeletedSoFar(t) == pc[t] = "eraseEntry" => req[t].queue \notin queues

(* ... or, role by role, granted and denied.                               *)
UpdatedSoFar(t) ==
  req[t].op = "update" /\ pc[t] \in {"roles", "consume", "publish"} =>
    \A r \in DOMAIN req[t].table, p \in {"consume", "publish"} :
      \/ r \in left[t]
      \/ r = cur[t] /\ pc[t] \in {"consume", p}
      \/ <<r, p>> \in grants[req[t].queue] <=> p \in req[t].table[r]

DoneSoFar(t) == Alone(t) => CreatedSoFar(t) /\ DeletedSoFar(t) /\ UpdatedSoFar(t)

(* Between the registry and the broker a drop leaves a queue unregistered. *)
Leaving(t) ==
  \/ pc[t] = "unregister" /\ at[t] = "out" /\ outcome[t] = "ok"
  \/ pc[t] = "brokerDelete"

RegisteredOrLeaving ==
  \A q \in queues \ disturbed :
    userCount[q] > 0 \/ \E t \in Threads : OnQueue(t, q) /\ Leaving(t)

EffectInv ==
  /\ OverlapsNoted
  /\ \A t \in Threads : CallFits(t) /\ DoneSoFar(t)
  /\ RegisteredOrLeaving

-----------------------------------------------------------------------------
(* A step concerns its own thread and the queue of its request.            *)

Local(t) ==
  /\ Active(t)
  /\ req' = req /\ crossed' = crossed /\ disturbed \subseteq disturbed'
  /\ \A u \in Threads \ {t} :
       /\ pc'[u] = pc[u] /\ left'[u] = left[u] /\ cur'[u] = cur[u]
       /\ at'[u] = at[u] /\ target'[u] = target[u] /\ held'[u] = held[u]
       /\ outcome'[u] = outcome[u]
  /\ \A q \in Queues \ {req[t].queue} :
       /\ userCount'[q] = userCount[q] /\ grants'[q] = grants[q]
       /\ q \in queues' <=> q \in queues
       /\ q \in bound' <=> q \in bound

LEMMA RequestStepThreads ==
  ASSUME LifecycleTypeOK, NEW t \in Threads, RequestStep(t)
  PROVE  /\ Active(t)
         /\ req' = req /\ crossed' = crossed /\ disturbed \subseteq disturbed'
         /\ \A u \in Threads \ {t} : pc'[u] = pc[u] /\ left'[u] = left[u] /\ cur'[u] = cur[u]
<1>1. ThreadTypeOK
  BY DEF LifecycleTypeOK
<1>2. Active(t)
  BY DEF RequestStep, Active, CreateRefused, CreateRegisters, CreateRegistered,
         CreateBrokerQueue, CreateBinding, DeleteNothing, DeleteBegins, RemoveBinding,
         DeleteBrokerQueue, DeleteEntry, UpdateRefused, UpdateFindsQueue, UpdateAllowed, NextRole,
         SetConsume, SetPublish, SetChangePermission, SetPermission, RolesDone, AmqpDenied,
         DeclareRegisters, DeclareOwnQueue, DeclareForeignQueue, DeclareAllowed, BrokerCreates,
         DropUnregisters, DropAllowed, BrokerDeletes, BindAllowed, BrokerBinds, StepFails
<1>3. CASE \E how \in {"ok", "refused", "error"} : Finish(t, how)
  BY <1>1, <1>2, <1>3 DEF Finish, ThreadTypeOK
<1>4. CASE \E phase \in Phases : Goto(t, phase) /\ UNCHANGED historyVars
  BY <1>1, <1>2, <1>4 DEF Goto, ThreadTypeOK, historyVars
<1>5. CASE \E roles \in SUBSET Roles : ForRoles(t, roles) /\ UNCHANGED historyVars
  BY <1>1, <1>2, <1>5 DEF ForRoles, ThreadTypeOK, historyVars
<1>6. CASE NextRole(t)
  BY <1>1, <1>2, <1>6 DEF NextRole, ThreadTypeOK, historyVars
<1>7. QED
  BY <1>1, <1>3, <1>4, <1>5, <1>6, StepShapes

LEMMA RequestStepLocal ==
  ASSUME LifecycleTypeOK, NEW t \in Threads, RequestStep(t)
  PROVE  Local(t)
<1>1. /\ Active(t)
      /\ req' = req /\ crossed' = crossed /\ disturbed \subseteq disturbed'
      /\ \A u \in Threads \ {t} : pc'[u] = pc[u] /\ left'[u] = left[u] /\ cur'[u] = cur[u]
  BY RequestStepThreads
<1>2. req[t].queue \in Queues
  BY RequestFields DEF LifecycleTypeOK
<1>3. /\ \A u \in Threads \ {t} : /\ at'[u] = at[u] /\ target'[u] = target[u]
                                  /\ held'[u] = held[u] /\ outcome'[u] = outcome[u]
      /\ \A q \in Queues \ {req[t].queue} : userCount'[q] = userCount[q]
  <2>1. CASE CreateRegisters(t) \/ DeclareRegisters(t) \/ DropUnregisters(t)
    BY <2>1 DEF CreateRegisters, DeclareRegisters, DropUnregisters, CreateQueue, DeleteQueue, Call,
                LifecycleTypeOK, RegistryTypeOK
  <2>2. CASE DeleteEntry(t)
    BY <1>2, <2>2 DEF DeleteEntry, EraseEntry, LifecycleTypeOK, RegistryTypeOK
  <2>3. CASE UNCHANGED registryVars
    BY <2>3 DEF registryVars
  <2>4. QED
    BY <2>1, <2>2, <2>3
       DEF RequestStep, StoresUnchanged, CreateRefused, CreateRegistered, CreateBrokerQueue,
           CreateBinding, DeleteNothing, DeleteBegins, RemoveBinding, DeleteBrokerQueue,
           UpdateRefused, UpdateFindsQueue, UpdateAllowed, NextRole, SetConsume, SetPublish,
           SetChangePermission, SetPermission, RolesDone, AmqpDenied, DeclareOwnQueue,
           DeclareForeignQueue, DeclareAllowed, BrokerCreates, DropAllowed, BrokerDeletes,
           BindAllowed, BrokerBinds, StepFails
<1>4. \A q \in Queues \ {req[t].queue} :
        /\ grants'[q] = grants[q]
        /\ q \in queues' <=> q \in queues
        /\ q \in bound' <=> q \in bound
  <2>1. CASE \/ CreateBrokerQueue(t) \/ CreateBinding(t) \/ RemoveBinding(t)
             \/ DeleteBrokerQueue(t) \/ BrokerCreates(t) \/ BrokerDeletes(t) \/ BrokerBinds(t)
    BY <1>2, <2>1
       DEF CreateBrokerQueue, CreateBinding, RemoveBinding, DeleteBrokerQueue, BrokerCreates,
           BrokerDeletes, BrokerBinds
  <2>2. CASE SetConsume(t) \/ SetPublish(t) \/ SetChangePermission(t)
    BY <1>2, <2>2 DEF SetConsume, SetPublish, SetChangePermission, SetPermission, brokerVars,
                      LifecycleTypeOK, StoreTypeOK
  <2>3. CASE UNCHANGED <<brokerVars, grants>>
    BY <2>3 DEF brokerVars
  <2>4. QED
    BY <2>1, <2>2, <2>3
       DEF RequestStep, StoresUnchanged, CreateRefused, CreateRegisters, CreateRegistered,
           DeleteNothing, DeleteBegins, DeleteEntry, UpdateRefused, UpdateFindsQueue,
           UpdateAllowed, NextRole, RolesDone, AmqpDenied, DeclareRegisters, DeclareOwnQueue,
           DeclareForeignQueue, DeclareAllowed, DropUnregisters, DropAllowed, BindAllowed,
           StepFails
<1>5. QED
  BY <1>1, <1>3, <1>4 DEF Local

LEMMA RegistryStepLocal ==
  ASSUME LifecycleTypeOK, NEW t \in Threads, CallFits(t), RegistryStep(t), UNCHANGED requestVars
  PROVE  Local(t)
<1>1. at[t] \in InRegistry
  BY DEF RegistryStep, CheckExists, ShareEntry, StoreEntry, LookupEntry, CheckOrigin, ReadCount,
         StoreDecrement, RemoveEntry, CallFails, InRegistry, Creating, Deleting
<1>2. Active(t) /\ target[t] = req[t].queue
  BY <1>1 DEF CallFits, InRegistry, Active
<1>3. /\ UNCHANGED <<req, pc, left, cur, reply>>
      /\ UNCHANGED <<queues, bound, grants, requests, crossed, disturbed>>
  BY DEF requestVars, threadVars, brokerVars, historyVars
<1>4. target[t] \in Queues
  BY DEF LifecycleTypeOK, RegistryTypeOK
<1>5. /\ \A u \in Threads \ {t} : /\ at'[u] = at[u] /\ target'[u] = target[u]
                                  /\ held'[u] = held[u] /\ outcome'[u] = outcome[u]
      /\ \A q \in Queues \ {target[t]} : userCount'[q] = userCount[q]
  <2> USE <1>4 DEF LifecycleTypeOK, RegistryTypeOK, Advance, Return
  <2>1. CASE CheckExists(t) \/ ShareEntry(t) \/ StoreEntry(t)
    BY <2>1 DEF CheckExists, ShareEntry, StoreEntry
  <2>2. CASE LookupEntry(t) \/ CheckOrigin(t) \/ ReadCount(t)
    BY <2>2 DEF LookupEntry, CheckOrigin, ReadCount
  <2>3. CASE StoreDecrement(t) \/ RemoveEntry(t) \/ CallFails(t)
    BY <2>3 DEF StoreDecrement, RemoveEntry, CallFails
  <2>4. QED
    BY <2>1, <2>2, <2>3 DEF RegistryStep
<1>6. QED
  BY <1>2, <1>3, <1>5 DEF Local

-----------------------------------------------------------------------------
(* What the others have done stays done.                                   *)

LEMMA OthersKeepDone ==
  ASSUME LifecycleTypeOK, EffectInv, NEW t \in Threads, Local(t), NEW u \in Threads \ {t}
  PROVE  CallFits(u)' /\ DoneSoFar(u)'
<1>1. /\ pc'[u] = pc[u] /\ left'[u] = left[u] /\ cur'[u] = cur[u] /\ at'[u] = at[u]
      /\ target'[u] = target[u] /\ held'[u] = held[u] /\ outcome'[u] = outcome[u]
      /\ req' = req /\ crossed' = crossed
  BY DEF Local
<1>2. CallFits(u) /\ DoneSoFar(u)
  BY DEF EffectInv
<1>3. CallFits(u)'
  BY <1>1, <1>2 DEF CallFits
<1>4. DoneSoFar(u)'
  <2> SUFFICES ASSUME Alone(u)'
               PROVE  (CreatedSoFar(u) /\ DeletedSoFar(u) /\ UpdatedSoFar(u))'
    BY DEF DoneSoFar
  <2>1. Alone(u)
    BY <1>1 DEF Alone, Active
  <2>2. req[u].queue # req[t].queue
    BY <2>1 DEF EffectInv, OverlapsNoted, OnQueue, Alone, Local
  <2>3. req[u].queue \in Queues
    BY RequestFields DEF LifecycleTypeOK
  <2>4. LET q == req[u].queue
        IN  /\ userCount'[q] = userCount[q] /\ grants'[q] = grants[q]
            /\ q \in queues' <=> q \in queues
            /\ q \in bound' <=> q \in bound
    BY <2>2, <2>3 DEF Local
  <2>5. CreatedSoFar(u) /\ DeletedSoFar(u) /\ UpdatedSoFar(u)
    BY <1>2, <2>1 DEF DoneSoFar
  <2>6. CreatedSoFar(u)' /\ DeletedSoFar(u)'
    BY <1>1, <2>4, <2>5 DEF CreatedSoFar, DeletedSoFar
  <2>7. UpdatedSoFar(u)'
    BY <1>1, <2>4, <2>5 DEF UpdatedSoFar
  <2>8. QED
    BY <2>6, <2>7
<1>5. QED
  BY <1>3, <1>4

(* What the thread that steps has to show for its own queue.               *)
OwnQueueKept(t) ==
  LET q == req[t].queue
  IN  q \in queues \ disturbed => userCount[q] > 0 \/ Leaving(t)

LEMMA OwnQueueBefore ==
  ASSUME EffectInv, NEW t \in Threads, Active(t)
  PROVE  /\ OwnQueueKept(t)
         /\ t \in crossed => req[t].queue \in disturbed
<1>1. t \in crossed => req[t].queue \in disturbed
  BY DEF EffectInv, OverlapsNoted
<1>2. ASSUME req[t].queue \notin disturbed, NEW u \in Threads, OnQueue(u, req[t].queue)
      PROVE  u = t
  BY <1>1, <1>2 DEF EffectInv, OverlapsNoted
<1>3. QED
  BY <1>1, <1>2 DEF EffectInv, RegisteredOrLeaving, OwnQueueKept

LEMMA LocalKeepsEffect ==
  ASSUME LifecycleTypeOK, EffectInv, queues' \subseteq Queues, NEW t \in Threads, Local(t),
         CallFits(t)', DoneSoFar(t)', (OwnQueueKept(t) /\ (Leaving(t) => Active(t)))'
  PROVE  EffectInv'
<1>1. OverlapsNoted'
  <2>1. \A u \in Threads : Active(u)' => Active(u)
    BY DEF Local, Active
  <2>2. QED
    BY <2>1 DEF EffectInv, OverlapsNoted, OnQueue, Local
<1>2. \A u \in Threads : CallFits(u)' /\ DoneSoFar(u)'
  BY OthersKeepDone
<1>3. RegisteredOrLeaving'
  <2> SUFFICES ASSUME NEW q \in queues' \ disturbed'
               PROVE  userCount'[q] > 0 \/ \E u \in Threads : (OnQueue(u, q) /\ Leaving(u))'
    BY DEF RegisteredOrLeaving
  <2>1. CASE q = req[t].queue
    <3>1. req' = req
      BY DEF Local
    <3>2. userCount'[q] > 0 \/ Leaving(t)'
      BY <2>1, <3>1 DEF OwnQueueKept
    <3>3. Leaving(t)' => (OnQueue(t, q) /\ Leaving(t))'
      BY <2>1, <3>1 DEF OnQueue
    <3>4. QED
      BY <3>2, <3>3
  <2>2. CASE q # req[t].queue
    <3>1. q \in queues \ disturbed /\ userCount'[q] = userCount[q]
      BY <2>2 DEF Local
    <3>2. CASE userCount[q] > 0
      BY <3>1, <3>2
    <3>3. CASE \E u \in Threads : OnQueue(u, q) /\ Leaving(u)
      <4>1. PICK u \in Threads : OnQueue(u, q) /\ Leaving(u)
        BY <3>3
      <4>2. u # t
        BY <2>2, <4>1 DEF OnQueue
      <4>3. OnQueue(u, q)' /\ Leaving(u)'
        BY <4>1, <4>2 DEF OnQueue, Active, Leaving, Local
      <4>4. QED
        BY <4>3
    <3>4. QED
      BY <3>1, <3>2, <3>3 DEF EffectInv, RegisteredOrLeaving
  <2>3. QED
    BY <2>1, <2>2
<1>4. QED
  BY <1>1, <1>2, <1>3 DEF EffectInv

-----------------------------------------------------------------------------
(* The thread that steps, and the queue of its request                     *)

OwnKept(t) == CallFits(t) /\ DoneSoFar(t) /\ OwnQueueKept(t)

LEMMA OwnBefore ==
  ASSUME LifecycleInv, EffectInv, NEW t \in Threads, Active(t)
  PROVE  /\ OwnKept(t)
         /\ t \in crossed => req[t].queue \in disturbed
         /\ req[t].queue \in Queues
  BY OwnQueueBefore, RequestFields DEF EffectInv, OwnKept, LifecycleInv, LifecycleTypeOK

(* A request moves on only when it is not inside RegistryClient.           *)
LEMMA RequestStepOut ==
  ASSUME LifecycleTypeOK, NEW t \in Threads, CallFits(t), RequestStep(t)
  PROVE  at[t] = "out"
<1>1. at[t] \in Creating \union Deleting \union {"out"}
  BY DEF LifecycleTypeOK, RegistryTypeOK, InRegistry
<1>2. at[t] = "out" \/ pc[t] \in {"register", "unregister"}
  BY <1>1 DEF CallFits
<1>3. CASE pc[t] \in {"register", "unregister"}
  BY <1>3
     DEF RequestStep, CreateRefused, CreateRegisters, CreateRegistered,
         CreateBrokerQueue, CreateBinding, DeleteNothing, DeleteBegins, RemoveBinding,
         DeleteBrokerQueue, DeleteEntry, UpdateRefused, UpdateFindsQueue, UpdateAllowed, NextRole,
         SetConsume, SetPublish, SetChangePermission, SetPermission, RolesDone, AmqpDenied,
         DeclareRegisters, DeclareOwnQueue, DeclareForeignQueue, DeclareAllowed, BrokerCreates,
         DropUnregisters, DropAllowed, BrokerDeletes, BindAllowed, BrokerBinds, StepFails, Phases
<1>4. QED
  BY <1>2, <1>3

(* A request that has ended claims nothing any more.                       *)
LEMMA FinishedKeepsDone ==
  ASSUME LifecycleTypeOK, NEW t \in Threads, at'[t] = "out", NEW how, Finish(t, how)
  PROVE  CallFits(t)' /\ DoneSoFar(t)'
<1>1. pc'[t] = "idle"
  BY DEF Finish, LifecycleTypeOK, ThreadTypeOK
<1>2. QED
  BY <1>1 DEF CallFits, DoneSoFar, Alone, Active, Creating, Deleting

LEMMA FailureKeepsOwn ==
  ASSUME LifecycleInv, EffectInv, NEW t \in Threads, Active(t), at[t] = "out", StepFails(t)
  PROVE  OwnKept(t)'
<1>1. Finish(t, "error") /\ at'[t] = "out"
  BY DEF StepFails, StoresUnchanged, registryVars
<1>2. OwnQueueKept(t)'
  BY <1>1 DEF Finish, OwnQueueKept
<1>3. QED
  BY <1>1, <1>2, FinishedKeepsDone DEF OwnKept, LifecycleInv

LEMMA FinishKeepsOwn ==
  ASSUME LifecycleInv, EffectInv, NEW t \in Threads, Active(t), at[t] = "out",
         \/ CreateRefused(t) \/ DeleteNothing(t) \/ UpdateRefused(t) \/ RolesDone(t)
         \/ AmqpDenied(t) \/ DeclareForeignQueue(t) \/ BrokerBinds(t)
  PROVE  OwnKept(t)'
<1>1. /\ \E how \in {"ok", "refused"} : Finish(t, how)
      /\ UNCHANGED registryVars /\ UNCHANGED queues
      /\ pc[t] \notin {"unregister", "brokerDelete"}
  BY DEF CreateRefused, DeleteNothing, UpdateRefused, RolesDone, AmqpDenied, DeclareForeignQueue,
         BrokerBinds, StoresUnchanged, brokerVars
<1>2. OwnQueueKept(t)'
  <2>1. req' = req /\ queues' = queues /\ userCount' = userCount /\ disturbed' = disturbed
    BY <1>1 DEF Finish, registryVars
  <2>2. ~Leaving(t)
    BY <1>1 DEF Leaving
  <2>3. QED
    BY <2>1, <2>2, OwnBefore DEF OwnKept, OwnQueueKept
<1>3. at'[t] = "out"
  BY <1>1 DEF registryVars
<1>4. QED
  BY <1>1, <1>2, <1>3, FinishedKeepsDone DEF OwnKept, LifecycleInv

LEMMA LastStepKeepsOwn ==
  ASSUME LifecycleInv, EffectInv, NEW t \in Threads, Active(t), at[t] = "out",
         DeleteEntry(t) \/ BrokerCreates(t) \/ BrokerDeletes(t)
  PROVE  OwnKept(t)'
<1>1. /\ OwnKept(t) /\ req[t].queue \in Queues
      /\ t \in crossed => req[t].queue \in disturbed
  BY OwnBefore
<1>2. Finish(t, "ok") /\ at'[t] = "out"
  BY DEF DeleteEntry, EraseEntry, BrokerCreates, BrokerDeletes, registryVars
<1>3. req' = req /\ disturbed' = disturbed
  BY <1>2 DEF Finish
<1>4. CASE DeleteEntry(t)
  <2>1. req[t].queue \notin disturbed => req[t].queue \notin queues
    BY <1>1, <1>4 DEF OwnKept, DoneSoFar, Alone, DeletedSoFar, DeleteEntry
  <2>2. queues' = queues
    BY <1>4 DEF DeleteEntry, brokerVars
  <2>3. QED
    BY <1>2, <1>3, <2>1, <2>2, FinishedKeepsDone DEF OwnKept, OwnQueueKept, LifecycleInv
<1>5. CASE BrokerCreates(t)
  <2>1. req[t].op = "declare"
    BY <1>5 DEF BrokerCreates, LifecycleInv, RequestInv, PhaseFits
  <2>2. req[t].queue \notin disturbed => userCount[req[t].queue] > 0
    BY <1>1, <1>5, <2>1 DEF OwnKept, DoneSoFar, Alone, CreatedSoFar, BrokerCreates
  <2>3. userCount' = userCount
    BY <1>5 DEF BrokerCreates, registryVars
  <2>4. QED
    BY <1>2, <1>3, <2>2, <2>3, FinishedKeepsDone DEF OwnKept, OwnQueueKept, LifecycleInv
<1>6. CASE BrokerDeletes(t)
  <2>1. req[t].queue \notin queues'
    BY <1>6 DEF BrokerDeletes
  <2>2. QED
    BY <1>2, <1>3, <2>1, FinishedKeepsDone DEF OwnKept, OwnQueueKept, LifecycleInv
<1>7. QED
  BY <1>4, <1>5, <1>6

(* Calling RegistryClient claims nothing until the call has returned.      *)
LEMMA RegistryCallKeepsOwn ==
  ASSUME LifecycleInv, EffectInv, NEW t \in Threads, Active(t), at[t] = "out",
         CreateRegisters(t) \/ DeclareRegisters(t) \/ DropUnregisters(t)
  PROVE  OwnKept(t)'
<1>1. OwnKept(t)
  BY OwnBefore
<1>2. LifecycleTypeOK /\ RegistryTypeOK /\ ThreadTypeOK
  BY DEF LifecycleInv, LifecycleTypeOK
<1>3. /\ req' = req /\ queues' = queues /\ userCount' = userCount /\ disturbed' = disturbed
      /\ outcome'[t] = "none" /\ target'[t] = req[t].queue
  BY <1>2 DEF CreateRegisters, DeclareRegisters, DropUnregisters, CreateQueue, DeleteQueue, Call,
              Goto, RegistryTypeOK, brokerVars, historyVars
<1>4. \/ pc'[t] = "register" /\ at'[t] = "exists" /\ req[t].op \in {"create", "declare"}
      \/ pc'[t] = "unregister" /\ at'[t] = "lookup" /\ req[t].op = "drop"
  BY <1>2 DEF CreateRegisters, DeclareRegisters, DropUnregisters, CreateQueue, DeleteQueue, Call,
              Goto, RegistryTypeOK, ThreadTypeOK
<1>5. CallFits(t)'
  BY <1>3, <1>4 DEF CallFits, Creating, Deleting
<1>6. DoneSoFar(t)'
  BY <1>3, <1>4
     DEF DoneSoFar, CreatedSoFar, DeletedSoFar, UpdatedSoFar, Permissions
<1>7. OwnQueueKept(t)'
  BY <1>1, <1>3
     DEF OwnKept, OwnQueueKept, Leaving, CreateRegisters, DeclareRegisters, DropUnregisters
<1>8. QED
  BY <1>5, <1>6, <1>7 DEF OwnKept

(* The steps of createQueue and of a declare up to the permission loop.    *)
LEMMA CreateKeepsOwn ==
  ASSUME LifecycleInv, EffectInv, NEW t \in Threads, Active(t), at[t] = "out",
         CreateRegistered(t) \/ CreateBrokerQueue(t) \/ CreateBinding(t) \/ DeclareOwnQueue(t)
  PROVE  OwnKept(t)'
<1>1. OwnKept(t) /\ (t \in crossed => req[t].queue \in disturbed)
  BY OwnBefore
<1>2. LifecycleTypeOK /\ RegistryTypeOK /\ ThreadTypeOK /\ PhaseFits
  BY DEF LifecycleInv, LifecycleTypeOK, RequestInv
<1>3. /\ req' = req /\ disturbed' = disturbed /\ crossed' = crossed
      /\ userCount' = userCount /\ at'[t] = "out"
  BY DEF CreateRegistered, CreateBrokerQueue, CreateBinding, DeclareOwnQueue, StoresUnchanged,
         Goto, ForRoles, registryVars, historyVars
<1>4. req[t].op \in {"create", "declare"}
  BY <1>2 DEF CreateRegistered, CreateBrokerQueue, CreateBinding, DeclareOwnQueue, PhaseFits
<1>5. \/ pc'[t] = "createQueue"
      \/ pc'[t] = "createBinding" /\ req[t].queue \in queues'
      \/ pc'[t] = "roles" /\ req[t].op = "declare"
      \/ pc'[t] = "roles" /\ req[t].queue \in queues' /\ req[t].queue \in bound'
  BY <1>2 DEF CreateRegistered, CreateBrokerQueue, CreateBinding, DeclareOwnQueue,
              Goto, ForRoles, ThreadTypeOK, StoresUnchanged, brokerVars
<1>6. CallFits(t)'
  BY <1>3, <1>5 DEF CallFits, Creating, Deleting
<1>7. Alone(t) => userCount[req[t].queue] > 0
  <2>1. \/ pc[t] = "register" /\ outcome[t] = "ok"
        \/ pc[t] \in {"createQueue", "createBinding"}
    BY DEF CreateRegistered, CreateBrokerQueue, CreateBinding, DeclareOwnQueue
  <2>2. QED
    BY <1>1, <1>4, <2>1 DEF OwnKept, DoneSoFar, CreatedSoFar
<1>8. DoneSoFar(t)'
  <2> SUFFICES ASSUME Alone(t)'
               PROVE  (CreatedSoFar(t) /\ DeletedSoFar(t) /\ UpdatedSoFar(t))'
    BY DEF DoneSoFar
  <2>1. userCount'[req'[t].queue] > 0
    BY <1>3, <1>7 DEF Alone
  <2>2. CreatedSoFar(t)'
    BY <1>3, <1>5, <2>1 DEF CreatedSoFar, Permissions
  <2>3. DeletedSoFar(t)' /\ UpdatedSoFar(t)'
    BY <1>3, <1>4, <1>5 DEF DeletedSoFar, UpdatedSoFar
  <2>4. QED
    BY <2>2, <2>3
<1>9. OwnQueueKept(t)'
  BY <1>1, <1>3, <1>7 DEF OwnQueueKept, Alone
<1>10. QED
  BY <1>6, <1>8, <1>9 DEF OwnKept

(* The steps of deleteQueue up to the registry entry, and of a drop.       *)
LEMMA DeleteKeepsOwn ==
  ASSUME LifecycleInv, EffectInv, NEW t \in Threads, Active(t), at[t] = "out",
         DeleteBegins(t) \/ RemoveBinding(t) \/ DeleteBrokerQueue(t) \/ DropAllowed(t)
  PROVE  OwnKept(t)'
<1>1. OwnKept(t)
  BY OwnBefore
<1>2. LifecycleTypeOK /\ RegistryTypeOK /\ ThreadTypeOK /\ PhaseFits
  BY DEF LifecycleInv, LifecycleTypeOK, RequestInv
<1>3. /\ req' = req /\ disturbed' = disturbed
      /\ userCount' = userCount /\ at'[t] = "out"
  BY DEF DeleteBegins, RemoveBinding, DeleteBrokerQueue, DropAllowed, StoresUnchanged,
         Goto, registryVars, historyVars
<1>4. req[t].op \in {"delete", "drop"}
  BY <1>2 DEF DeleteBegins, RemoveBinding, DeleteBrokerQueue, DropAllowed, PhaseFits
<1>5. \/ pc'[t] \in {"removeBinding", "deleteQueue"} /\ queues' = queues /\ ~Leaving(t)
      \/ pc'[t] = "eraseEntry" /\ req[t].queue \notin queues'
      \/ pc'[t] = "brokerDelete"
  BY <1>2 DEF DeleteBegins, RemoveBinding, DeleteBrokerQueue, DropAllowed, Leaving,
              Goto, ThreadTypeOK, StoresUnchanged, brokerVars
<1>6. CallFits(t)'
  BY <1>3, <1>5 DEF CallFits, Creating, Deleting
<1>7. DoneSoFar(t)'
  BY <1>3, <1>4, <1>5 DEF DoneSoFar, CreatedSoFar, DeletedSoFar, UpdatedSoFar
<1>8. OwnQueueKept(t)'
  BY <1>1, <1>3, <1>5 DEF OwnKept, OwnQueueKept, Leaving
<1>9. QED
  BY <1>6, <1>7, <1>8 DEF OwnKept

(* Granting and denying, role by role                                      *)
InPermissionLoop(t) ==
  NextRole(t) \/ SetConsume(t) \/ SetPublish(t) \/ SetChangePermission(t)

LEMMA UpdateLoopKeepsDone ==
  ASSUME LifecycleInv, NEW t \in Threads, UpdatedSoFar(t), req[t].op = "update",
         UpdateAllowed(t) \/ InPermissionLoop(t)
  PROVE  UpdatedSoFar(t)'
<1>1. ThreadTypeOK /\ StoreTypeOK /\ PhaseFits
  BY DEF LifecycleInv, LifecycleTypeOK, RequestInv
<1>2. req[t].queue \in Queues
  BY <1>1, RequestFields
<1>3. CASE UpdateAllowed(t)
  BY <1>1, <1>3 DEF UpdateAllowed, ForRoles, ThreadTypeOK, UpdatedSoFar
<1>4. CASE NextRole(t)
  <2>1. PICK r \in left[t] : cur' = [cur EXCEPT ![t] = r] /\ left' = [left EXCEPT ![t] = @ \ {r}]
    BY <1>4 DEF NextRole
  <2>2. /\ cur'[t] = r /\ left'[t] = left[t] \ {r} /\ pc[t] = "roles" /\ pc'[t] = "consume"
        /\ req' = req /\ grants' = grants
    BY <1>1, <1>4, <2>1 DEF NextRole, ThreadTypeOK, StoresUnchanged
  <2>3. QED
    BY <2>2 DEF UpdatedSoFar
<1>5. CASE SetConsume(t) \/ SetPublish(t) \/ SetChangePermission(t)
  <2>1. pc[t] \in {"consume", "publish"}
    BY <1>1, <1>5 DEF PhaseFits, SetConsume, SetPublish, SetChangePermission, SetPermission
  <2>2. SetPermission(t, pc[t], IF pc[t] = "consume" THEN "publish" ELSE "roles")
    BY <1>5, <2>1 DEF SetConsume, SetPublish, SetChangePermission, SetPermission
  <2>3. /\ req' = req /\ left' = left /\ cur' = cur
        /\ pc'[t] = IF pc[t] = "consume" THEN "publish" ELSE "roles"
    BY <1>1, <2>2 DEF SetPermission, Goto, ThreadTypeOK
  <2>4. grants'[req[t].queue] =
          IF pc[t] \in req[t].table[cur[t]]
            THEN grants[req[t].queue] \union {<<cur[t], pc[t]>>}
            ELSE grants[req[t].queue] \ {<<cur[t], pc[t]>>}
    BY <1>1, <1>2, <2>2 DEF SetPermission, StoreTypeOK, Wanted
  <2>5. SUFFICES ASSUME NEW r \in DOMAIN req[t].table, NEW p \in {"consume", "publish"},
                        r \notin left[t],
                        ~(r = cur[t] /\ pc'[t] \in {"consume", p})
                 PROVE  <<r, p>> \in grants'[req[t].queue] <=> p \in req[t].table[r]
    BY <2>3 DEF UpdatedSoFar
  <2>6. CASE r = cur[t] /\ p = pc[t]
    BY <2>4, <2>6
  <2>7. CASE ~(r = cur[t] /\ p = pc[t])
    <3>1. <<r, p>> \in grants'[req[t].queue] <=> <<r, p>> \in grants[req[t].queue]
      BY <2>4, <2>7
    <3>2. ~(r = cur[t] /\ pc[t] \in {"consume", p})
      BY <2>1, <2>3, <2>5, <2>7
    <3>3. QED
      BY <2>1, <2>5, <3>1, <3>2 DEF UpdatedSoFar
  <2>8. QED
    BY <2>6, <2>7
<1>6. QED
  BY <1>3, <1>4, <1>5 DEF InPermissionLoop

LEMMA LoopKeepsOwn ==
  ASSUME LifecycleInv, EffectInv, NEW t \in Threads, Active(t), at[t] = "out",
         \/ UpdateFindsQueue(t) \/ UpdateAllowed(t) \/ InPermissionLoop(t)
         \/ DeclareAllowed(t) \/ BindAllowed(t)
  PROVE  OwnKept(t)'
<1>1. OwnKept(t)
  BY OwnBefore
<1>2. ThreadTypeOK /\ PhaseFits
  BY DEF LifecycleInv, LifecycleTypeOK, RequestInv
<1>3. /\ req' = req /\ disturbed' = disturbed /\ crossed' = crossed
      /\ userCount' = userCount /\ at'[t] = "out" /\ queues' = queues /\ bound' = bound
  BY DEF InPermissionLoop, UpdateFindsQueue, UpdateAllowed, NextRole, SetConsume, SetPublish,
         SetChangePermission, SetPermission, DeclareAllowed, BindAllowed, StoresUnchanged,
         Goto, ForRoles, registryVars, historyVars, brokerVars
<1>4. \/ pc'[t] \in {"mayChange", "brokerBind"}
      \/ pc'[t] \in {"roles", "brokerCreate"} \union Permissions
         /\ (pc[t] \in {"roles"} \union Permissions \/ req[t].op = "update")
         /\ (pc'[t] = "brokerCreate" => req[t].op = "declare")
  <2>1. CASE UpdateFindsQueue(t) \/ UpdateAllowed(t) \/ BindAllowed(t) \/ DeclareAllowed(t)
    BY <1>2, <2>1 DEF UpdateFindsQueue, UpdateAllowed, BindAllowed, DeclareAllowed, Goto, ForRoles,
                      ThreadTypeOK, PhaseFits
  <2>2. CASE InPermissionLoop(t)
    BY <1>2, <2>2 DEF InPermissionLoop, NextRole, SetConsume, SetPublish, SetChangePermission,
                      SetPermission, Goto, ThreadTypeOK, Permissions
  <2>3. QED
    BY <2>1, <2>2
<1>5. CallFits(t)'
  BY <1>3, <1>4 DEF CallFits, Creating, Deleting, Permissions
<1>6. DoneSoFar(t)'
  <2> SUFFICES ASSUME Alone(t)'
               PROVE  (CreatedSoFar(t) /\ DeletedSoFar(t) /\ UpdatedSoFar(t))'
    BY DEF DoneSoFar
  <2>1. CreatedSoFar(t) /\ UpdatedSoFar(t)
    BY <1>1, <1>3 DEF OwnKept, DoneSoFar, Alone
  <2>2. CreatedSoFar(t)'
    BY <1>3, <1>4, <2>1 DEF CreatedSoFar, Permissions
  <2>3. DeletedSoFar(t)'
    BY <1>4 DEF DeletedSoFar, Permissions
  <2>4. UpdatedSoFar(t)'
    <3>1. CASE req[t].op # "update"
      BY <1>3, <3>1 DEF UpdatedSoFar
    <3>2. CASE req[t].op = "update" /\ (UpdateAllowed(t) \/ InPermissionLoop(t))
      BY <2>1, <3>2, UpdateLoopKeepsDone
    <3>3. CASE req[t].op = "update" /\ (UpdateFindsQueue(t) \/ DeclareAllowed(t) \/ BindAllowed(t))
      BY <1>2, <3>3 DEF UpdateFindsQueue, DeclareAllowed, BindAllowed, Goto, ThreadTypeOK,
                        UpdatedSoFar
    <3>4. QED
      BY <3>1, <3>2, <3>3
  <2>5. QED
    BY <2>2, <2>3, <2>4
<1>7. OwnQueueKept(t)'
  <2>1. ~Leaving(t)
    BY DEF Leaving, InPermissionLoop, UpdateFindsQueue, UpdateAllowed, NextRole, SetConsume,
           SetPublish, SetChangePermission, SetPermission, DeclareAllowed, BindAllowed
  <2>2. QED
    BY <1>1, <1>3, <2>1 DEF OwnKept, OwnQueueKept
<1>8. QED
  BY <1>5, <1>6, <1>7 DEF OwnKept

LEMMA RequestStepKeepsEffect ==
  ASSUME LifecycleInv, LifecycleInv', EffectInv, NEW t \in Threads, RequestStep(t)
  PROVE  EffectInv'
<1>1. LifecycleTypeOK /\ queues' \subseteq Queues
  BY DEF LifecycleInv, LifecycleTypeOK, StoreTypeOK
<1>2. Local(t) /\ Active(t)
  BY <1>1, RequestStepLocal DEF Local
<1>3. at[t] = "out"
  BY <1>1, RequestStepOut DEF EffectInv
<1>4. OwnKept(t)'
  BY <1>2, <1>3, FailureKeepsOwn, FinishKeepsOwn, LastStepKeepsOwn, RegistryCallKeepsOwn,
     CreateKeepsOwn, DeleteKeepsOwn, LoopKeepsOwn DEF RequestStep, InPermissionLoop
<1>5. (Leaving(t) => Active(t))'
  BY DEF Leaving, Active
<1>6. QED
  BY <1>1, <1>2, <1>4, <1>5, LocalKeepsEffect DEF OwnKept

-----------------------------------------------------------------------------
(* Inside RegistryClient                                                   *)

LEMMA RegisteringKeepsOwn ==
  ASSUME LifecycleInv, EffectInv, NEW t \in Threads, UNCHANGED requestVars,
         CheckExists(t) \/ ShareEntry(t) \/ StoreEntry(t) \/ (CallFails(t) /\ at[t] \in Creating)
  PROVE  OwnKept(t)'
<1>1. RegistryTypeOK /\ ThreadTypeOK
  BY DEF LifecycleInv, LifecycleTypeOK
<1>2. at[t] \in Creating
  BY DEF CheckExists, ShareEntry, StoreEntry, Creating
<1>3. CallFits(t) /\ pc[t] = "register" /\ Active(t)
  BY <1>2 DEF EffectInv, CallFits, Active
<1>4. OwnKept(t)
  BY <1>3, OwnBefore
<1>5. target[t] = req[t].queue /\ req[t].queue \in Queues /\ req[t].op \in {"create", "declare"}
  BY <1>1, <1>3, RequestFields DEF CallFits
<1>6. /\ req' = req /\ pc' = pc /\ queues' = queues /\ disturbed' = disturbed
      /\ target' = target
  BY DEF requestVars, threadVars, brokerVars, historyVars, CheckExists, ShareEntry, StoreEntry,
         CallFails, Advance
<1>7. /\ \/ at'[t] \in Creating
         \/ at'[t] = "out" /\ (outcome'[t] = "ok" => userCount'[req[t].queue] > 0)
      /\ at'[t] = "store" => held'[t] > 0
      /\ userCount'[req[t].queue] = userCount[req[t].queue] \/ userCount'[req[t].queue] > 0
  BY <1>1, <1>3, <1>5
     DEF CheckExists, ShareEntry, StoreEntry, CallFails, Advance, Return, CallFits, Creating,
         RegistryTypeOK
<1>8. CallFits(t)'
  BY <1>3, <1>5, <1>6, <1>7 DEF CallFits, Creating, Deleting
<1>9. DoneSoFar(t)'
  BY <1>3, <1>5, <1>6, <1>7
     DEF DoneSoFar, CreatedSoFar, DeletedSoFar, UpdatedSoFar, Creating, Permissions
<1>10. OwnQueueKept(t)'
  BY <1>3, <1>4, <1>6, <1>7 DEF OwnKept, OwnQueueKept, Leaving
<1>11. QED
  BY <1>8, <1>9, <1>10 DEF OwnKept

LEMMA UnregisteringKeepsOwn ==
  ASSUME LifecycleInv, EffectInv, NEW t \in Threads, UNCHANGED requestVars,
         \/ LookupEntry(t) \/ CheckOrigin(t) \/ ReadCount(t) \/ StoreDecrement(t) \/ RemoveEntry(t)
         \/ CallFails(t) /\ at[t] \in Deleting
  PROVE  OwnKept(t)'
<1>1. RegistryTypeOK /\ ThreadTypeOK /\ PhaseFits
  BY DEF LifecycleInv, LifecycleTypeOK, RequestInv
<1>2. at[t] \in Deleting
  BY DEF LookupEntry, CheckOrigin, ReadCount, StoreDecrement, RemoveEntry, Deleting
<1>3. CallFits(t) /\ pc[t] = "unregister" /\ Active(t)
  BY <1>2 DEF EffectInv, CallFits, Active
<1>4. OwnKept(t) /\ ~Leaving(t)
  BY <1>2, <1>3, OwnBefore DEF Leaving, Deleting
<1>5. target[t] = req[t].queue /\ req[t].queue \in Queues /\ req[t].op = "drop"
  BY <1>1, <1>3, RequestFields DEF CallFits, PhaseFits
<1>6. /\ req' = req /\ pc' = pc /\ queues' = queues /\ disturbed' = disturbed
      /\ target' = target
  BY DEF requestVars, threadVars, brokerVars, historyVars, LookupEntry, CheckOrigin, ReadCount,
         StoreDecrement, RemoveEntry, CallFails, Advance
<1>7. /\ at'[t] \in Deleting \union {"out"}
      /\ at'[t] = "decrement" => held'[t] > 0
      /\ \/ userCount'[req[t].queue] = userCount[req[t].queue]
         \/ userCount'[req[t].queue] > 0
         \/ at'[t] = "out" /\ outcome'[t] = "ok"
  BY <1>1, <1>3, <1>5
     DEF LookupEntry, CheckOrigin, ReadCount, StoreDecrement, RemoveEntry, CallFails, Advance,
         Return, CallFits, Deleting, RegistryTypeOK
<1>8. CallFits(t)'
  BY <1>3, <1>5, <1>6, <1>7 DEF CallFits, Creating, Deleting
<1>9. DoneSoFar(t)'
  BY <1>3, <1>5, <1>6 DEF DoneSoFar, CreatedSoFar, DeletedSoFar, UpdatedSoFar
<1>10. OwnQueueKept(t)'
  BY <1>3, <1>4, <1>6, <1>7 DEF OwnKept, OwnQueueKept, Leaving
<1>11. QED
  BY <1>8, <1>9, <1>10 DEF OwnKept

LEMMA RegistryStepKeepsEffect ==
  ASSUME LifecycleInv, LifecycleInv', EffectInv, NEW t \in Threads, RegistryStep(t),
         UNCHANGED requestVars
  PROVE  EffectInv'
<1>1. LifecycleTypeOK /\ queues' \subseteq Queues
  BY DEF LifecycleInv, LifecycleTypeOK, StoreTypeOK
<1>2. Local(t)
  BY <1>1, RegistryStepLocal DEF EffectInv
<1>3. CallFails(t) => at[t] \in Creating \union Deleting
  BY DEF CallFails, InRegistry
<1>4. OwnKept(t)'
  BY <1>3, RegisteringKeepsOwn, UnregisteringKeepsOwn DEF RegistryStep
<1>5. (Leaving(t) => Active(t))'
  BY DEF Leaving, Active
<1>6. QED
  BY <1>1, <1>2, <1>4, <1>5, LocalKeepsEffect DEF OwnKept

-----------------------------------------------------------------------------
(* A request begins                                                        *)

LEMMA BeginKeepsEffect ==
  ASSUME LifecycleInv, EffectInv, NEW t \in Threads, BeginSome(t)
  PROVE  EffectInv'
<1>1. PICK op \in AdminOps \union AmqpOps, q \in Queues, w \in Users,
           table \in PermissionTables \union {NoTable} : Begin(t, op, q, w, table)
  BY DEF BeginSome
<1>2. ThreadTypeOK /\ RegistryTypeOK
  BY DEF LifecycleInv, LifecycleTypeOK
<1> DEFINE others == {o \in Threads : Active(o) /\ req[o].queue = q}
<1>3. /\ ~Active(t) /\ t \notin others
      /\ pc'[t] \in {"check", "authorise"} /\ req'[t].queue = q
      /\ crossed' = (crossed \ {t}) \union others \union (IF others = {} THEN {} ELSE {t})
      /\ disturbed' = IF others = {} THEN disturbed ELSE disturbed \union {q}
      /\ StoresUnchanged /\ UNCHANGED <<left, cur>>
  BY <1>1, <1>2 DEF Begin, ThreadTypeOK, Active
<1>4. \A u \in Threads \ {t} : pc'[u] = pc[u] /\ req'[u] = req[u]
  BY <1>1, <1>2 DEF Begin, ThreadTypeOK
<1>5. /\ at' = at /\ target' = target /\ held' = held /\ outcome' = outcome
      /\ userCount' = userCount /\ queues' = queues /\ bound' = bound /\ grants' = grants
      /\ left' = left /\ cur' = cur
  BY <1>3 DEF StoresUnchanged, registryVars, brokerVars
<1>6. OverlapsNoted'
  <2> SUFFICES ASSUME NEW u \in Threads, Active(u)'
               PROVE  /\ (u \in crossed => req[u].queue \in disturbed)'
                      /\ \A v \in Threads \ {u} : (OnQueue(v, req[u].queue) => u \in crossed)'
    BY DEF OverlapsNoted
  <2>1. CASE u = t
    <3>1. u \in crossed' => others # {}
      BY <1>3, <2>1
    <3>2. ASSUME NEW v \in Threads \ {u}, OnQueue(v, req[u].queue)'
          PROVE  u \in crossed'
      <4>1. v \in others
        BY <1>3, <1>4, <2>1, <3>2 DEF OnQueue, Active
      <4>2. QED
        BY <1>3, <2>1, <4>1
    <3>3. QED
      BY <1>3, <2>1, <3>1, <3>2
  <2>2. CASE u # t
    <3>1. Active(u) /\ req'[u] = req[u]
      BY <1>4, <2>2 DEF Active
    <3>2. /\ u \in crossed => req[u].queue \in disturbed
          /\ \A v \in Threads \ {u} : OnQueue(v, req[u].queue) => u \in crossed
      BY <3>1 DEF EffectInv, OverlapsNoted
    <3>3. u \in crossed' => req'[u].queue \in disturbed'
      BY <1>3, <2>2, <3>1, <3>2
    <3>4. ASSUME NEW v \in Threads \ {u}, OnQueue(v, req[u].queue)'
          PROVE  u \in crossed'
      <4>1. CASE v = t
        <5>1. u \in others
          BY <1>3, <3>1, <3>4, <4>1 DEF OnQueue
        <5>2. QED
          BY <1>3, <5>1
      <4>2. CASE v # t
        BY <1>3, <1>4, <2>2, <3>1, <3>2, <3>4, <4>2 DEF OnQueue, Active
      <4>3. QED
        BY <4>1, <4>2
    <3>5. QED
      BY <3>3, <3>4
  <2>3. QED
    BY <2>1, <2>2
<1>7. ASSUME NEW u \in Threads
      PROVE  CallFits(u)' /\ DoneSoFar(u)'
  <2>1. CallFits(u) /\ DoneSoFar(u)
    BY DEF EffectInv
  <2>2. CASE u = t
    <3>1. pc[u] = "idle"
      BY <1>3, <2>2 DEF Active
    <3>2. CallFits(u)'
      BY <1>3, <1>5, <2>1, <2>2, <3>1 DEF CallFits, Creating, Deleting
    <3>3. DoneSoFar(u)'
      BY <1>3, <2>2 DEF DoneSoFar, CreatedSoFar, DeletedSoFar, UpdatedSoFar, Permissions
    <3>4. QED
      BY <3>2, <3>3
  <2>3. CASE u # t
    <3>1. pc'[u] = pc[u] /\ req'[u] = req[u]
      BY <1>4, <2>3
    <3>2. CallFits(u)'
      BY <1>5, <2>1, <3>1 DEF CallFits
    <3>3. Alone(u)' => Alone(u)
      BY <1>3, <2>3, <3>1 DEF Alone, Active
    <3>4. (CreatedSoFar(u) => CreatedSoFar(u)') /\ (DeletedSoFar(u) => DeletedSoFar(u)')
      BY <1>5, <3>1 DEF CreatedSoFar, DeletedSoFar
    <3>5. UpdatedSoFar(u) => UpdatedSoFar(u)'
      BY <1>5, <3>1 DEF UpdatedSoFar
    <3>6. QED
      BY <2>1, <3>2, <3>3, <3>4, <3>5 DEF DoneSoFar
  <2>4. QED
    BY <2>2, <2>3
<1>8. RegisteredOrLeaving'
  <2> SUFFICES ASSUME NEW p \in queues' \ disturbed'
               PROVE  userCount'[p] > 0 \/ \E u \in Threads : (OnQueue(u, p) /\ Leaving(u))'
    BY DEF RegisteredOrLeaving
  <2>1. p \in queues \ disturbed
    BY <1>3, <1>5
  <2>2. ASSUME NEW u \in Threads, OnQueue(u, p), Leaving(u)
        PROVE  (OnQueue(u, p) /\ Leaving(u))'
    <3>1. u # t
      BY <1>3, <2>2 DEF OnQueue
    <3>2. pc'[u] = pc[u] /\ req'[u] = req[u]
      BY <1>4, <3>1
    <3>3. QED
      BY <1>5, <2>2, <3>2 DEF OnQueue, Active, Leaving
  <2>3. QED
    BY <1>5, <2>1, <2>2 DEF EffectInv, RegisteredOrLeaving
<1>9. QED
  BY <1>6, <1>7, <1>8 DEF EffectInv

LEMMA EffectInit == LifecycleInit => EffectInv
  BY DEF LifecycleInit, RegistryInit, EffectInv, OverlapsNoted, Active, CallFits, DoneSoFar, Alone,
         RegisteredOrLeaving, Creating, Deleting

LEMMA EffectStutter ==
  ASSUME EffectInv, UNCHANGED vars
  PROVE  EffectInv'
<1>1. /\ UNCHANGED <<userCount, at, target, held, outcome>>
      /\ UNCHANGED <<req, pc, left, cur, queues, bound, grants, crossed, disturbed>>
  BY DEF vars, registryVars, requestVars, threadVars, brokerVars, historyVars
<1>2. OverlapsNoted'
  BY <1>1 DEF EffectInv, OverlapsNoted, OnQueue, Active
<1>3. (\A t \in Threads : CallFits(t))'
  BY <1>1 DEF EffectInv, CallFits
<1>4. (\A t \in Threads : DoneSoFar(t))'
  BY <1>1 DEF EffectInv, DoneSoFar, Alone, Active, CreatedSoFar, DeletedSoFar, UpdatedSoFar
<1>5. RegisteredOrLeaving'
  BY <1>1 DEF EffectInv, RegisteredOrLeaving, OnQueue, Active, Leaving
<1>6. QED
  BY <1>2, <1>3, <1>4, <1>5 DEF EffectInv

(* What undisturbed requests have done so far, the records of overlaps and *)
(* the registration of undisturbed queues hold in every state.             *)
THEOREM EffectInvariant == LifecycleSpec => []EffectInv
<1>1. LifecycleInv /\ LifecycleInv' /\ EffectInv /\ [LifecycleNext]_vars => EffectInv'
  BY RequestStepKeepsEffect, RegistryStepKeepsEffect, BeginKeepsEffect, EffectStutter
     DEF LifecycleNext, ThreadStep
<1>2. QED
  BY <1>1, EffectInit, LifecycleInvariant, PTL DEF LifecycleSpec

-----------------------------------------------------------------------------
(* What undisturbed requests achieve                                       *)

(* A queue that the broker has is registered, unless requests on it        *)
(* overlapped or one failed half way (create, declare, delete and drop     *)
(* each change registry and broker in separate calls).                     *)
THEOREM RegisteredWhenAtRest == LifecycleSpec => []BrokerQueueRegistered
<1>1. EffectInv => BrokerQueueRegistered
  BY DEF EffectInv, RegisteredOrLeaving, OnQueue, BrokerQueueRegistered
<1>2. QED
  BY <1>1, EffectInvariant, PTL

(* Only a request's own last step ends it.                                 *)
LEMMA CompletesAtLastStep ==
  ASSUME LifecycleInv, [LifecycleNext]_vars, NEW t \in Threads, NEW op \in AdminOps,
         Completes(t, op)
  PROVE  IF op = "delete" THEN DeleteNothing(t) \/ DeleteEntry(t) ELSE RolesDone(t)
<1>1. LifecycleTypeOK /\ ThreadTypeOK /\ PhaseFits
  BY DEF LifecycleInv, LifecycleTypeOK, RequestInv
<1>2. pc[t] # "idle" /\ req[t].op = op /\ pc'[t] = "idle" /\ reply'[t] = "ok"
  BY DEF Completes, Active
<1>3. RequestStep(t)
  <2>1. ~UNCHANGED requestVars
    BY <1>2 DEF requestVars, threadVars
  <2>2. PICK u \in Threads : RequestStep(u) \/ BeginSome(u)
    BY <2>1 DEF LifecycleNext, ThreadStep, vars
  <2>3. CASE BeginSome(u)
    BY <1>1, <1>2, <2>3 DEF BeginSome, Begin, Active, ThreadTypeOK
  <2>4. CASE RequestStep(u) /\ u # t
    BY <1>1, <1>2, <2>4, RequestStepThreads
  <2>5. QED
    BY <2>2, <2>3, <2>4
<1>4. ASSUME NEW phase, Goto(t, phase)
      PROVE  phase = "idle"
  BY <1>1, <1>2, <1>4 DEF Goto, ThreadTypeOK
<1>5. ASSUME NEW how, Finish(t, how)
      PROVE  how = "ok"
  BY <1>1, <1>2, <1>5 DEF Finish, ThreadTypeOK
<1>6. ASSUME NEW roles, ForRoles(t, roles)
      PROVE  FALSE
  BY <1>1, <1>2, <1>6 DEF ForRoles, ThreadTypeOK
<1>7. ~(\/ CreateRefused(t) \/ UpdateRefused(t) \/ AmqpDenied(t) \/ DeclareForeignQueue(t)
        \/ StepFails(t))
  BY <1>5 DEF CreateRefused, UpdateRefused, AmqpDenied, DeclareForeignQueue, StepFails
<1>8. ~(\/ CreateRegisters(t) \/ CreateRegistered(t) \/ CreateBrokerQueue(t) \/ DeleteBegins(t)
        \/ RemoveBinding(t) \/ DeleteBrokerQueue(t) \/ UpdateFindsQueue(t) \/ DeclareRegisters(t)
        \/ DeclareAllowed(t) \/ DropUnregisters(t) \/ DropAllowed(t) \/ BindAllowed(t))
  BY <1>4 DEF CreateRegisters, CreateRegistered, CreateBrokerQueue, DeleteBegins, RemoveBinding,
              DeleteBrokerQueue, UpdateFindsQueue, DeclareRegisters, DeclareAllowed,
              DropUnregisters, DropAllowed, BindAllowed
<1>9. ~(CreateBinding(t) \/ UpdateAllowed(t) \/ DeclareOwnQueue(t))
  BY <1>6 DEF CreateBinding, UpdateAllowed, DeclareOwnQueue
<1>10. ~(SetConsume(t) \/ SetPublish(t) \/ SetChangePermission(t))
  BY <1>4 DEF SetConsume, SetPublish, SetChangePermission, SetPermission
<1>11. ~NextRole(t)
  BY <1>1, <1>2 DEF NextRole, ThreadTypeOK
<1>12. ~(BrokerCreates(t) \/ BrokerDeletes(t) \/ BrokerBinds(t))
  BY <1>1, <1>2 DEF BrokerCreates, BrokerDeletes, BrokerBinds, PhaseFits, AdminOps
<1>13. DeleteNothing(t) \/ DeleteEntry(t) \/ RolesDone(t)
  BY <1>3, <1>7, <1>8, <1>9, <1>10, <1>11, <1>12 DEF RequestStep
<1>14. QED
  BY <1>1, <1>2, <1>13 DEF DeleteNothing, DeleteEntry, RolesDone, PhaseFits

(* What a request knows of its queue when no other overlapped it.          *)
LEMMA DoneWhenAlone ==
  ASSUME EffectInv, NEW t \in Threads, NEW op \in AdminOps, Completes(t, op), t \notin crossed
  PROVE  CreatedSoFar(t) /\ DeletedSoFar(t) /\ UpdatedSoFar(t)
  BY DEF EffectInv, DoneSoFar, Alone, Completes

(* createQueue that no other request on the queue overlapped, once it has  *)
(* succeeded, leaves the queue in the broker, bound, and registered.       *)
THEOREM CreateDone == LifecycleSpec => CreateTakesEffect
<1> DEFINE Effect(t) ==
      Completes(t, "create") /\ t \notin crossed =>
        req[t].queue \in queues' /\ req[t].queue \in bound' /\ userCount'[req[t].queue] > 0
<1>1. ASSUME LifecycleInv, EffectInv, [LifecycleNext]_vars, NEW t \in Threads
      PROVE  Effect(t)
  <2> SUFFICES ASSUME Completes(t, "create"), t \notin crossed
               PROVE  req[t].queue \in queues' /\ req[t].queue \in bound'
                      /\ userCount'[req[t].queue] > 0
    OBVIOUS
  <2>1. RolesDone(t) /\ CreatedSoFar(t)
    BY <1>1, CompletesAtLastStep, DoneWhenAlone DEF AdminOps
  <2>2. queues' = queues /\ bound' = bound /\ userCount' = userCount /\ pc[t] = "roles"
    BY <2>1 DEF RolesDone, StoresUnchanged, registryVars, brokerVars
  <2>3. QED
    BY <2>1, <2>2 DEF CreatedSoFar, Completes
<1>2. LifecycleInv /\ EffectInv /\ [LifecycleNext]_vars => [\A t \in Threads : Effect(t)]_vars
  BY <1>1
<1>3. QED
  BY <1>2, LifecycleInvariant, EffectInvariant, PTL DEF LifecycleSpec, CreateTakesEffect

(* deleteQueue that no other request overlapped, once it has succeeded,    *)
(* leaves neither queue nor binding, and no entry if it deleted a queue.   *)
THEOREM DeleteDone == LifecycleSpec => DeleteTakesEffect
<1> DEFINE Effect(t) ==
      Completes(t, "delete") /\ t \notin crossed =>
        req[t].queue \notin queues' /\ req[t].queue \notin bound'
        /\ (pc[t] # "check" => userCount'[req[t].queue] = 0)
<1>1. ASSUME LifecycleInv, EffectInv, [LifecycleNext]_vars, NEW t \in Threads
      PROVE  Effect(t)
  <2> SUFFICES ASSUME Completes(t, "delete"), t \notin crossed
               PROVE  /\ req[t].queue \notin queues' /\ req[t].queue \notin bound'
                      /\ pc[t] # "check" => userCount'[req[t].queue] = 0
    OBVIOUS
  <2>1. (DeleteNothing(t) \/ DeleteEntry(t)) /\ DeletedSoFar(t)
    BY <1>1, CompletesAtLastStep, DoneWhenAlone DEF AdminOps
  <2>2. bound \subseteq queues /\ req[t].queue \in Queues /\ userCount \in [Queues -> Nat]
    BY <1>1, RequestFields DEF LifecycleInv, LifecycleTypeOK, StoreTypeOK, RegistryTypeOK
  <2>3. queues' = queues /\ bound' = bound
    BY <2>1 DEF DeleteNothing, DeleteEntry, StoresUnchanged, brokerVars
  <2>4. req[t].queue \notin queues
    BY <2>1 DEF DeleteNothing, DeleteEntry, DeletedSoFar
  <2>5. DeleteEntry(t) => userCount'[req[t].queue] = 0
    BY <2>2 DEF DeleteEntry, EraseEntry
  <2>6. QED
    BY <2>1, <2>2, <2>3, <2>4, <2>5 DEF DeleteNothing
<1>2. LifecycleInv /\ EffectInv /\ [LifecycleNext]_vars => [\A t \in Threads : Effect(t)]_vars
  BY <1>1
<1>3. QED
  BY <1>2, LifecycleInvariant, EffectInvariant, PTL DEF LifecycleSpec, DeleteTakesEffect

(* updatePermission that no other request overlapped, once it has          *)
(* succeeded, leaves exactly the permissions of its table.                 *)
THEOREM UpdateDone == LifecycleSpec => UpdateTakesEffect
<1> DEFINE Effect(t) ==
      Completes(t, "update") /\ t \notin crossed =>
        \A r \in DOMAIN req[t].table, p \in {"consume", "publish"} :
          <<r, p>> \in grants'[req[t].queue] <=> p \in req[t].table[r]
<1>1. ASSUME LifecycleInv, EffectInv, [LifecycleNext]_vars, NEW t \in Threads
      PROVE  Effect(t)
  <2> SUFFICES ASSUME Completes(t, "update"), t \notin crossed
               PROVE  \A r \in DOMAIN req[t].table, p \in {"consume", "publish"} :
                        <<r, p>> \in grants'[req[t].queue] <=> p \in req[t].table[r]
    OBVIOUS
  <2>1. RolesDone(t) /\ UpdatedSoFar(t)
    BY <1>1, CompletesAtLastStep, DoneWhenAlone DEF AdminOps
  <2>2. grants' = grants /\ pc[t] = "roles" /\ left[t] = {} /\ req[t].op = "update"
    BY <2>1 DEF RolesDone, StoresUnchanged, Completes
  <2>3. QED
    BY <2>1, <2>2 DEF UpdatedSoFar
<1>2. LifecycleInv /\ EffectInv /\ [LifecycleNext]_vars => [\A t \in Threads : Effect(t)]_vars
  BY <1>1
<1>3. QED
  BY <1>2, LifecycleInvariant, EffectInvariant, PTL DEF LifecycleSpec, UpdateTakesEffect
=============================================================================
