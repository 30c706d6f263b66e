---------------------------- MODULE TenantRegistry ----------------------------
(***************************************************************************)
(* The registries of the tenants, and the names under which the handlers   *)
(* of AMQP operations (QpidAuthorizationHandler) and the console store,    *)
(* look up and list queues and topic subscriptions there (RegistryClient,  *)
(* CommonsUtil).  authorise starts a tenant flow, so the current tenant is *)
(* the one of the connection's user, whatever the thread did before.       *)
(*                                                                         *)
(* A name is what the conversions tell apart: the tenant whose domain it   *)
(* begins with (the super tenant for none), whether it has an @ or the _   *)
(* that replaces it, and the rest.  The routing key of a topic may also    *)
(* separate its parts by . or / and end in a wildcard.  Names that hold a  *)
(* domain elsewhere, or begin with one that no / follows, are left out.    *)
(* Calls of RegistryClient are atomic here, except the listing: how those  *)
(* that write interleave is what QueueRegistry is about.                   *)
(***************************************************************************)
EXTENDS Naturals, Sequences, FiniteSets

CONSTANTS
  Tenants,     (* tenants                                                  *)
  Super,       (* the super tenant                                         *)
  Undotted,    (* tenants whose domain has no dot                          *)
  QueueNames,  (* queue names: records of, at, base                        *)
  Keys,        (* routing keys: records of, at, base, sep, end             *)
  Subscribers, (* names of the queues that are bound to topics             *)
  MaxOps       (* bound on the operations of clients                       *)

ASSUME TenantAssumption ==
  /\ Super \in Tenants /\ Undotted \subseteq Tenants \ {Super} /\ MaxOps \in Nat
  /\ \A n \in QueueNames \union Keys \union Subscribers : n.of \in Tenants

VARIABLES
  entries,       (* entries[t][p]: userCount of the queue stored at path p *)
                 (* in the registry of t, 0 if there is none               *)
  subscriptions, (* subscriptions[t]: those stored in the registry of t    *)
  live,          (* queues of the broker, with the tenants that declared   *)
  bound,         (* topic bindings of the broker, with the tenants         *)
  listingCall,   (* a call of getQueues                                    *)
  ops,           (* operations of clients so far                           *)
  (* history variables *)
  misled,        (* paths of the super tenant's registry that a drop of    *)
                 (* another name has emptied under a live queue            *)
  cutOff         (* subscriptions deleted for one of two bindings          *)

registryVars == <<entries, subscriptions, live, bound, listingCall, ops, misled, cutOff>>

Underscored(n) == IF n.at = "@" THEN [n EXCEPT !.at = "_"] ELSE n

(* getQueueID removes the domain of the current tenant, with its dots      *)
(* replaced by dashes: of a name that has them, it removes nothing.        *)
QueueID(t, n) == IF t \in Undotted /\ n.of = t THEN [n EXCEPT !.of = Super] ELSE n

(* getTenantBasedTopicName of RegistryClient.                              *)
WithoutDomain(t, k) == IF t # Super /\ k.of = t THEN [k EXCEPT !.of = Super] ELSE k

(* getTopicID: dots become slashes, * or # and what follows are cut off.   *)
TopicID(k) == [k EXCEPT !.sep = "/", !.end = IF @ = "" THEN "" ELSE "/"]

(* Where createQueue and createSubscription store what a client gives.     *)
QueueStored(t, n) == QueueID(t, Underscored(n))
SubscriptionStored(t, k, q) == <<TopicID(WithoutDomain(t, Underscored(k))), Underscored(q)>>

(* Where deleteSubscription looks for it.                                  *)
SubscriptionSought(k, q) == <<TopicID(k), q>>

Paths == {QueueID(t, n) : t \in Tenants,
                          n \in QueueNames \union {Underscored(m) : m \in QueueNames}}

(* Tenants and names are finitely many.                                    *)
ASSUME PathsAssumption == IsFiniteSet(Paths)

Listed(t) == {p \in Paths : entries[t][p] > 0}

NoListing == [at |-> "none", tenant |-> Super, count |-> 0, left |-> {}, slots |-> <<>>,
              quiet |-> TRUE]

TenantInit ==
  /\ entries = [t \in Tenants |-> [p \in Paths |-> 0]]
  /\ subscriptions = [t \in Tenants |-> {}]
  /\ live = {} /\ bound = {}
  /\ listingCall = NoListing
  /\ ops = 0
  /\ misled = {} /\ cutOff = {}

-----------------------------------------------------------------------------

Operation == ops < MaxOps /\ ops' = ops + 1

(* A change of the registry of t is no longer unnoticed by a listing there.*)
Disturb(t, changed) ==
  listingCall' = IF changed /\ listingCall.tenant = t THEN [listingCall EXCEPT !.quiet = FALSE] ELSE listingCall

(* Mutant: every queue is stored in the super tenant's registry.           *)
DeclareInSuper(t, n) ==
  LET p == QueueStored(t, n)
  IN  /\ Operation
      /\ entries' = [entries EXCEPT ![Super][p] = @ + 1]
      /\ Disturb(Super, entries[Super][p] = 0)
      /\ live' = live \union {<<t, n>>}
      /\ UNCHANGED <<subscriptions, bound, misled, cutOff>>

(* handleCreateQueue of a user of t, and createQueue in t's registry.      *)
Declare(t, n) ==
  LET p == QueueStored(t, n)
  IN  /\ Operation
      /\ entries' = [entries EXCEPT ![t][p] = @ + 1]
      /\ Disturb(t, entries[t][p] = 0)
      /\ live' = live \union {<<t, n>>}
      /\ UNCHANGED <<subscriptions, bound, misled, cutOff>>

(* handleDeleteQueue of a user of t: any queue of the broker, and whatever *)
(* deleteQueue finds for its name as given in the super tenant's registry. *)
Drop(t, n) ==
  LET p == QueueID(t, n)
      others == {m \in QueueNames \ {n} : <<Super, m>> \in live /\ QueueStored(Super, m) = p}
  IN  /\ Operation
      /\ \E u \in Tenants : <<u, n>> \in live
      /\ live' = {l \in live : l[2] # n}
      /\ IF entries[Super][p] > 0
           THEN /\ entries' = [entries EXCEPT ![Super][p] = @ - 1]
                /\ misled' = IF entries[Super][p] = 1 /\ others # {} THEN misled \union {p} ELSE misled
           ELSE UNCHANGED <<entries, misled>>
      /\ Disturb(Super, entries[Super][p] = 1)
      /\ UNCHANGED <<subscriptions, bound, cutOff>>

(* handleBindQueue on the topic exchange, for a user who may subscribe.    *)
Bind(t, k, q) ==
  /\ Operation
  /\ subscriptions' = [subscriptions EXCEPT ![t] = @ \union {SubscriptionStored(t, k, q)}]
  /\ bound' = bound \union {<<t, k, q>>}
  /\ cutOff' = cutOff \ {<<t, SubscriptionStored(t, k, q)>>}
  /\ UNCHANGED <<entries, live, listingCall, misled>>

(* handleUnbindQueue of the client that has bound.                         *)
Unbind(t, k, q) ==
  LET sought == SubscriptionSought(k, q)
  IN  /\ Operation
      /\ <<t, k, q>> \in bound
      /\ bound' = bound \ {<<t, k, q>>}
      /\ subscriptions' = [subscriptions EXCEPT ![t] = @ \ {sought}]
      /\ cutOff' = IF sought \in subscriptions[t] /\
                      (\E b \in bound' : b[1] = t /\ SubscriptionStored(b[1], b[2], b[3]) = sought)
                   THEN cutOff \union {<<t, sought>>} ELSE cutOff
      /\ UNCHANGED <<entries, live, listingCall, misled>>

-----------------------------------------------------------------------------

ListingStep(from, next) ==
  /\ listingCall.at = from
  /\ listingCall' = next
  /\ UNCHANGED <<entries, subscriptions, live, bound, ops, misled, cutOff>>

(* getQueues in the registry of t: an array of getChildCount slots ...     *)
BeginListing(t) ==
  ListingStep("none", [NoListing EXCEPT !.at = "counted", !.tenant = t,
                                        !.count = Cardinality(Listed(t))])

(* ... then the children, read when they are asked for ...                 *)
ReadChildren ==
  ListingStep("counted", [listingCall EXCEPT !.at = "reading", !.left = Listed(listingCall.tenant)])

(* ... and each child, which may be gone, or have no slot left.            *)
ReadChild(p) ==
  /\ p \in listingCall.left
  /\ IF p \in Listed(listingCall.tenant) /\ Len(listingCall.slots) < listingCall.count
       THEN ListingStep("reading", [listingCall EXCEPT !.left = @ \ {p}, !.slots = Append(@, p)])
       ELSE ListingStep("reading", [listingCall EXCEPT !.at = "threw"])

ReturnListing ==
  listingCall.left = {} /\ ListingStep("reading", [listingCall EXCEPT !.at = "returned"])

TenantNext ==
  \/ \E t \in Tenants :
       \/ \E n \in QueueNames : Declare(t, n) \/ Drop(t, n)
       \/ \E k \in Keys, q \in Subscribers : Bind(t, k, q) \/ Unbind(t, k, q)
       \/ BeginListing(t)
  \/ ReadChildren \/ (\E p \in Paths : ReadChild(p)) \/ ReturnListing

TenantSpec == TenantInit /\ [][TenantNext]_registryVars

-----------------------------------------------------------------------------

TenantTypeOK ==
  /\ entries \in [Tenants -> [Paths -> 0 .. MaxOps]]
  /\ live \subseteq Tenants \X QueueNames
  /\ bound \subseteq Tenants \X Keys \X Subscribers
  /\ listingCall.at \in {"none", "counted", "reading", "returned", "threw"}
  /\ ops \in 0 .. MaxOps

(* A queue of the broker is listed for the tenant that declared it, except *)
(* in the super tenant's registry after a drop of a queue with another     *)
(* name that is looked up at the same path.                                *)
LiveIsListed ==
  \A l \in live :
    LET p == QueueStored(l[1], l[2])
    IN  p \in Listed(l[1]) \/ (l[1] = Super /\ p \in misled)

(* A topic binding of the broker has its subscription in the registry of   *)
(* the tenant, except after the unbind of another one that is stored at    *)
(* the same path, as two wildcards of one topic are.                       *)
BoundIsListed ==
  \A b \in bound :
    LET s == SubscriptionStored(b[1], b[2], b[3])
    IN  s \in subscriptions[b[1]] \/ <<b[1], s>> \in cutOff

(* A subscription is only left in the registry without a binding if it is  *)
(* looked up under another name than it is stored under: the routing key   *)
(* or the queue has an @, or the key begins with the tenant's own domain.  *)
ListedIsBound ==
  \A t \in Tenants : \A s \in subscriptions[t] :
    \/ \E b \in bound : b[1] = t /\ SubscriptionStored(b[1], b[2], b[3]) = s
    \/ \E k \in Keys, q \in Subscribers :
         /\ SubscriptionStored(t, k, q) = s
         /\ k.at = "@" \/ q.at = "@" \/ (t # Super /\ k.of = t)

(* A listing that nobody disturbs returns every queue of the registry      *)
(* once; one that is disturbed never returns more queues than it counted.  *)
ListingTrue ==
  /\ listingCall.quiet => listingCall.at # "threw"
  /\ listingCall.quiet /\ listingCall.at = "returned" =>
       /\ {listingCall.slots[i] : i \in DOMAIN listingCall.slots} = Listed(listingCall.tenant)
       /\ Len(listingCall.slots) = listingCall.count
  /\ Len(listingCall.slots) <= listingCall.count

(* What a tenant may conclude from the registry.                           *)
TenantsFindTheirOwn ==
  /\ TenantTypeOK
  /\ LiveIsListed
  /\ BoundIsListed
  /\ ListedIsBound
  /\ ListingTrue
=============================================================================
