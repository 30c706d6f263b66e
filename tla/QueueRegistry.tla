---------------------------- MODULE QueueRegistry ----------------------------
(***************************************************************************)
(* The queue entries that RegistryClient keeps in the governance registry: *)
(* one collection per queue at event/queues/jms/<queue>, whose property    *)
(* userCount says how many users share the queue.  createQueue and         *)
(* deleteQueue are unlocked read-modify-write sequences of registry calls, *)
(* run by any number of broker and web-service threads at once; every      *)
(* registry call is an action of its own, and every call may fail.         *)
(*                                                                         *)
(* Owner, name and time stamps are written beside userCount and are never  *)
(* read back by these operations: they are left out.                       *)
(***************************************************************************)
EXTENDS Naturals

CONSTANTS
  Queues,   (* queue names; getQueueID is injective on them              *)
  Threads,  (* server threads that call RegistryClient                   *)
  MaxCalls  (* bound on the number of calls ever started                 *)

ASSUME RegistryAssumption == Queues # {} /\ MaxCalls \in Nat

VARIABLES
  userCount, (* userCount[q]: property of the entry of q, 0 = no entry    *)
  at,        (* at[t]: the registry call thread t is about to make        *)
  target,    (* target[t]: the queue of the call in progress              *)
  held,      (* held[t]: the userCount that t will write                  *)
  outcome,   (* outcome[t]: how the last call of t returned               *)
  calls,     (* number of calls started so far                            *)
  (* history variables *)
  shares,    (* shares[q]: how many createQueue calls stored q so far     *)
  users,     (* users[q]: the count that atomic calls would have left     *)
  raced      (* queues on which a write hit another thread's decision     *)

registryVars == <<userCount, at, target, held, outcome, calls, shares, users, raced>>

(***************************************************************************)
(* A thread outside RegistryClient is at "out".  In createQueue it is at   *)
(* "exists", "share" or "store"; in deleteQueue at "lookup", "origin",     *)
(* "read", "decrement" or "remove".                                        *)
(***************************************************************************)
Creating == {"exists", "share", "store"}
Deleting == {"lookup", "origin", "read", "decrement", "remove"}
InRegistry == Creating \union Deleting

(* A thread that has read the entry and decided what to write.             *)
Deciding == {"store", "decrement", "remove"}

RegistryTypeOK ==
  /\ userCount \in [Queues -> Nat]
  /\ at \in [Threads -> InRegistry \union {"out"}]
  /\ target \in [Threads -> Queues]
  /\ held \in [Threads -> Nat]
  /\ outcome \in [Threads -> {"none", "ok", "error"}]
  /\ calls \in Nat
  /\ shares \in [Queues -> Nat]
  /\ users \in [Queues -> Nat]
  /\ raced \subseteq Queues

(* Only to have an initial value: no thread has called anything yet.       *)
AnyQueue == CHOOSE q \in Queues : TRUE

RegistryInit ==
  /\ userCount = [q \in Queues |-> 0]
  /\ at = [t \in Threads |-> "out"]
  /\ target = [t \in Threads |-> AnyQueue]
  /\ held = [t \in Threads |-> 0]
  /\ outcome = [t \in Threads |-> "none"]
  /\ calls = 0
  /\ shares = [q \in Queues |-> 0]
  /\ users = [q \in Queues |-> 0]
  /\ raced = {}

-----------------------------------------------------------------------------

(* Writing the entry of q invalidates what the other threads decided.      *)
NoteRace(t, q) ==
  raced' = IF \E u \in Threads \ {t} : target[u] = q /\ at[u] \in Deciding
             THEN raced \union {q}
             ELSE raced

Call(t, q, first) ==
  /\ at[t] = "out"
  /\ calls < MaxCalls
  /\ calls' = calls + 1
  /\ at' = [at EXCEPT ![t] = first]
  /\ target' = [target EXCEPT ![t] = q]
  /\ outcome' = [outcome EXCEPT ![t] = "none"]
  /\ UNCHANGED <<userCount, held, shares, users, raced>>

(* Mutant: location and result swapped.                                    *)
ReturnSwapped(t, how) ==
  /\ at' = [at EXCEPT ![t] = how]
  /\ outcome' = [outcome EXCEPT ![t] = "out"]

Return(t, how) ==
  /\ at' = [at EXCEPT ![t] = "out"]
  /\ outcome' = [outcome EXCEPT ![t] = how]

(* The thread goes on to its next registry call, nothing stored yet.       *)
Advance(t, next) ==
  /\ at' = [at EXCEPT ![t] = next]
  /\ UNCHANGED <<userCount, target, outcome, calls, shares, users, raced>>

CreateQueue(t, q) == Call(t, q, "exists")

DeleteQueue(t, q) == Call(t, q, "lookup")

(* resourceExists chooses between a new collection with userCount "1" and  *)
(* sharing the stored one.                                                 *)
CheckExists(t) ==
  /\ at[t] = "exists"
  /\ \/ /\ userCount[target[t]] = 0
        /\ held' = [held EXCEPT ![t] = 1]
        /\ Advance(t, "store")
     \/ /\ userCount[target[t]] > 0
        /\ UNCHANGED held
        /\ Advance(t, "share")

(* Mutant: the count is raised twice.                                      *)
ShareEntryTwice(t) ==
  /\ at[t] = "share"
  /\ userCount[target[t]] > 0
  /\ held' = [held EXCEPT ![t] = userCount[target[t]] + 2]
  /\ Advance(t, "store")

(* get and ++count on the local copy; get throws when the entry has gone.  *)
ShareEntry(t) ==
  /\ at[t] = "share"
  /\ userCount[target[t]] > 0
  /\ held' = [held EXCEPT ![t] = userCount[target[t]] + 1]
  /\ Advance(t, "store")

(* put replaces whatever the registry now holds for the queue.             *)
StoreEntry(t) ==
  LET q == target[t] IN
  /\ at[t] = "store"
  /\ userCount' = [userCount EXCEPT ![q] = held[t]]
  /\ shares' = [shares EXCEPT ![q] = @ + 1]
  /\ users' = [users EXCEPT ![q] = @ + 1]
  /\ NoteRace(t, q)
  /\ Return(t, "ok")
  /\ UNCHANGED <<target, held, calls>>

(* Deleting a queue without an entry does nothing and succeeds.            *)
LookupEntry(t) ==
  /\ at[t] = "lookup"
  /\ \/ /\ userCount[target[t]] = 0
        /\ Return(t, "ok")
        /\ UNCHANGED <<userCount, target, held, calls, shares, users, raced>>
     \/ /\ userCount[target[t]] > 0
        /\ UNCHANGED held
        /\ Advance(t, "origin")

(* Mutant: the lookup is repeated after the first get.                     *)
CheckOriginAgain(t) ==
  /\ at[t] = "origin"
  /\ userCount[target[t]] > 0
  /\ UNCHANGED held
  /\ Advance(t, "lookup")

(* First get: createdFrom, which is "amqp" for every entry stored here.    *)
CheckOrigin(t) ==
  /\ at[t] = "origin"
  /\ userCount[target[t]] > 0
  /\ UNCHANGED held
  /\ Advance(t, "read")

(* Mutant: the entry is removed while one more user shares it.             *)
ReadCountOffByOne(t) ==
  LET count == userCount[target[t]] IN
  /\ at[t] = "read"
  /\ count > 0
  /\ \/ /\ count > 2
        /\ held' = [held EXCEPT ![t] = count - 1]
        /\ Advance(t, "decrement")
     \/ /\ count <= 2
        /\ UNCHANGED held
        /\ Advance(t, "remove")

(* Second get: a shared entry is decremented, the last user removes it.    *)
ReadCount(t) ==
  LET count == userCount[target[t]] IN
  /\ at[t] = "read"
  /\ count > 0
  /\ \/ /\ count > 1
        /\ held' = [held EXCEPT ![t] = count - 1]
        /\ Advance(t, "decrement")
     \/ /\ count = 1
        /\ UNCHANGED held
        /\ Advance(t, "remove")

LeaveUser(q) == users' = [users EXCEPT ![q] = IF @ > 0 THEN @ - 1 ELSE 0]

StoreDecrement(t) ==
  LET q == target[t] IN
  /\ at[t] = "decrement"
  /\ userCount' = [userCount EXCEPT ![q] = held[t]]
  /\ LeaveUser(q)
  /\ NoteRace(t, q)
  /\ Return(t, "ok")
  /\ UNCHANGED <<target, held, calls, shares>>

RemoveEntry(t) ==
  LET q == target[t] IN
  /\ at[t] = "remove"
  /\ userCount' = [userCount EXCEPT ![q] = 0]
  /\ LeaveUser(q)
  /\ NoteRace(t, q)
  /\ Return(t, "ok")
  /\ UNCHANGED <<target, held, calls, shares>>

(* Any registry call may throw: the operation ends with nothing written.   *)
(* Nothing else can happen to a get that finds no entry.                   *)
CallFails(t) ==
  /\ at[t] \in InRegistry
  /\ Return(t, "error")
  /\ UNCHANGED <<userCount, target, held, calls, shares, users, raced>>

(* QueueManagerServiceImpl.deleteQueue deletes the resource itself, however *)
(* many users share it.                                                    *)
EraseEntry(t, q) ==
  /\ at[t] = "out"
  /\ userCount' = [userCount EXCEPT ![q] = 0]
  /\ users' = [users EXCEPT ![q] = 0]
  /\ NoteRace(t, q)
  /\ UNCHANGED <<at, target, held, outcome, calls, shares>>

-----------------------------------------------------------------------------

RegistryStep(t) ==
  \/ CheckExists(t) \/ ShareEntry(t) \/ StoreEntry(t)
  \/ LookupEntry(t) \/ CheckOrigin(t) \/ ReadCount(t)
  \/ StoreDecrement(t) \/ RemoveEntry(t)
  \/ CallFails(t)

RegistryCall(t) ==
  \E q \in Queues : CreateQueue(t, q) \/ DeleteQueue(t, q) \/ EraseEntry(t, q)

RegistryNext == \E t \in Threads : RegistryStep(t) \/ RegistryCall(t)

RegistrySpec == RegistryInit /\ [][RegistryNext]_registryVars

(* A call in progress runs on a thread of its own and waits for nobody.    *)
FairRegistrySpec ==
  RegistrySpec /\ \A t \in Threads : WF_registryVars(RegistryStep(t))

-----------------------------------------------------------------------------

(* However calls interleave, lost updates only lose users: userCount never *)
(* exceeds the number of createQueue calls that stored the queue.          *)
UserCountBounded == \A q \in Queues : userCount[q] <= shares[q]

(* userCount is the count that atomic createQueue, deleteQueue and delete  *)
(* calls would have left, on every queue where no write fell between       *)
(* another call's read of userCount and its put or delete.                 *)
ExactUserCount == \A q \in Queues : q \notin raced => userCount[q] = users[q]

(* What the decisions of the calls in progress rest on: with the two       *)
(* invariants above it is inductive.                                       *)
HeldBounded ==
  \A t \in Threads :
    /\ at[t] = "store" => held[t] <= shares[target[t]] + 1
    /\ at[t] = "decrement" => held[t] <= shares[target[t]]

DecisionCurrent ==
  \A t \in Threads : target[t] \notin raced =>
    /\ at[t] = "store" => held[t] = userCount[target[t]] + 1
    /\ at[t] = "decrement" => held[t] + 1 = userCount[target[t]]
    /\ at[t] = "remove" => userCount[target[t]] = 1

RegistryInv ==
  /\ RegistryTypeOK
  /\ UserCountBounded
  /\ HeldBounded
  /\ ExactUserCount
  /\ DecisionCurrent

(* "Share queue": once no call is in progress, every user that shares the  *)
(* queue is counted.  The unlocked read-modify-write does not keep this.   *)
SharersCounted ==
  (\A t \in Threads : at[t] = "out") => \A q \in Queues : userCount[q] = users[q]

(* Every call to RegistryClient returns, normally or with an exception.    *)
CallsReturn == \A t \in Threads : at[t] # "out" ~> at[t] = "out"
=============================================================================
