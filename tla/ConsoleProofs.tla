----------------------------- MODULE ConsoleProofs ---------------------------
(***************************************************************************)
(* Proofs about the server and its console, for any values of the          *)
(* constants.  A published service is usable, and tenants find what is     *)
(* their own.  Permissions reach the queue that the page is about, and a   *)
(* message leaves the dead letter channel once.                            *)
(***************************************************************************)
EXTENDS TenantRegistry, BrokerStartup, QueueConsole, DeadLetterConsole,
        FiniteSetTheorems, TLAPS

-----------------------------------------------------------------------------
(* The registry of the tenants                                             *)

(* Whatever is stored was stored by a bind of this tenant.                 *)
StoredBy(t) == {SubscriptionStored(t, k, q) : k \in Keys, q \in Subscribers}

StoresTypeOK ==
  /\ entries \in [Tenants -> [Paths -> Nat]]
  /\ subscriptions \in [Tenants -> SUBSET UNION {StoredBy(t) : t \in Tenants}]
  /\ live \subseteq Tenants \X QueueNames
  /\ bound \subseteq Tenants \X Keys \X Subscribers
  /\ ops \in 0 .. MaxOps

(* No entry counts more users than there were operations.                  *)
CountedOnce == \A t \in Tenants, p \in Paths : entries[t][p] <= ops

StoresInv ==
  /\ StoresTypeOK
  /\ CountedOnce
  /\ LiveIsListed
  /\ BoundIsListed
  /\ ListedIsBound

Elements(s) == {s[i] : i \in DOMAIN s}

ListingTypeOK ==
  listingCall \in [at : {"none", "counted", "reading", "returned", "threw"}, tenant : Tenants,
                   count : Nat, left : SUBSET Paths, slots : Seq(Paths), quiet : BOOLEAN]

(* While nobody changes the registry, the slots filled and the children    *)
(* still to be read are the listed queues, each counted once.              *)
UndisturbedListing ==
  listingCall.quiet =>
    /\ listingCall.at # "threw"
    /\ listingCall.at = "counted" =>
         /\ listingCall.count = Cardinality(Listed(listingCall.tenant))
         /\ listingCall.slots = <<>>
    /\ listingCall.at \in {"reading", "returned"} =>
         /\ listingCall.left \subseteq Listed(listingCall.tenant)
         /\ Elements(listingCall.slots) \union listingCall.left = Listed(listingCall.tenant)
         /\ Len(listingCall.slots) + Cardinality(listingCall.left) = listingCall.count
    /\ listingCall.at = "returned" => listingCall.left = {}

ListingInv ==
  /\ ListingTypeOK
  /\ UndisturbedListing
  /\ Len(listingCall.slots) <= listingCall.count

TenantInv == StoresInv /\ ListingInv

-----------------------------------------------------------------------------

(* The invariant says all that TenantsFindTheirOwn says.                   *)
LEMMA TenantInvSuffices == TenantInv => TenantsFindTheirOwn
<1> SUFFICES ASSUME TenantInv
             PROVE  TenantsFindTheirOwn
  OBVIOUS
<1>1. entries \in [Tenants -> [Paths -> 0 .. MaxOps]]
  <2>1. ASSUME NEW t \in Tenants, NEW p \in Paths
        PROVE  entries[t][p] \in 0 .. MaxOps
    BY TenantAssumption DEF TenantInv, StoresInv, StoresTypeOK, CountedOnce
  <2>2. QED
    BY <2>1 DEF TenantInv, StoresInv, StoresTypeOK
<1>2. TenantTypeOK
  BY <1>1 DEF TenantInv, StoresInv, StoresTypeOK, ListingInv, ListingTypeOK, TenantTypeOK
<1>3. listingCall.quiet /\ listingCall.at = "returned" =>
        /\ Elements(listingCall.slots) = Listed(listingCall.tenant)
        /\ Len(listingCall.slots) = listingCall.count
  <2> SUFFICES ASSUME listingCall.quiet, listingCall.at = "returned"
               PROVE  /\ Elements(listingCall.slots) = Listed(listingCall.tenant)
                      /\ Len(listingCall.slots) = listingCall.count
    OBVIOUS
  <2>1. /\ listingCall.left = {}
        /\ Elements(listingCall.slots) \union listingCall.left = Listed(listingCall.tenant)
        /\ Len(listingCall.slots) + Cardinality(listingCall.left) = listingCall.count
    BY DEF TenantInv, ListingInv, UndisturbedListing
  <2>2. Cardinality({}) = 0 /\ Len(listingCall.slots) \in Nat
    BY FS_EmptySet DEF TenantInv, ListingInv, ListingTypeOK
  <2>3. QED
    BY <2>1, <2>2
<1>4. ListingTrue
  BY <1>3 DEF TenantInv, ListingInv, UndisturbedListing, ListingTrue, Elements
<1>5. QED
  BY <1>2, <1>4 DEF TenantInv, StoresInv, TenantsFindTheirOwn

(* The paths under which a client's name is stored and looked up.          *)
LEMMA PathsType ==
  ASSUME NEW t \in Tenants, NEW n \in QueueNames
  PROVE  QueueStored(t, n) \in Paths /\ QueueID(t, n) \in Paths
<1>1. Underscored(n) \in {Underscored(m) : m \in QueueNames}
  OBVIOUS
<1>2. QED
  BY <1>1 DEF QueueStored, Paths

LEMMA ListedFinite ==
  ASSUME NEW t
  PROVE  IsFiniteSet(Listed(t)) /\ Cardinality(Listed(t)) \in Nat
<1>1. Listed(t) \in SUBSET Paths
  BY DEF Listed
<1>2. QED
  BY <1>1, PathsAssumption, FS_Subset, FS_CardinalityType

(* Unbind looks for the subscription where bind has stored it, unless one  *)
(* of the conversions of bind changes a name.                              *)
LEMMA SoughtWhereStored ==
  ASSUME NEW t \in Tenants, NEW k \in Keys, NEW q \in Subscribers,
         k.at # "@", q.at # "@", t = Super \/ k.of # t
  PROVE  SubscriptionSought(k, q) = SubscriptionStored(t, k, q)
  BY DEF SubscriptionSought, SubscriptionStored, WithoutDomain, Underscored

LEMMA TenantInitInv == TenantInit => TenantInv
<1> SUFFICES ASSUME TenantInit
             PROVE  TenantInv
  OBVIOUS
<1>1. StoresInv
  BY TenantAssumption DEF TenantInit, StoresInv, StoresTypeOK, CountedOnce, LiveIsListed,
       BoundIsListed, ListedIsBound
<1>2. ListingInv
  BY TenantAssumption DEF TenantInit, NoListing, ListingInv, ListingTypeOK, UndisturbedListing
<1>3. QED
  BY <1>1, <1>2 DEF TenantInv

-----------------------------------------------------------------------------

(* An operation either leaves the list of a tenant alone or is noticed by  *)
(* the listing of it.                                                      *)
LEMMA DisturbKeepsListing ==
  ASSUME ListingInv, NEW t \in Tenants, NEW changed \in BOOLEAN, Disturb(t, changed),
         \A u \in Tenants : u # t \/ ~changed => Listed(u)' = Listed(u)
  PROVE  ListingInv'
<1>1. CASE changed /\ listingCall.tenant = t
  BY <1>1 DEF Disturb, ListingInv, ListingTypeOK, UndisturbedListing
<1>2. CASE ~(changed /\ listingCall.tenant = t)
  <2>1. listingCall' = listingCall
    BY <1>2 DEF Disturb
  <2>2. Listed(listingCall.tenant)' = Listed(listingCall.tenant)
    BY <1>2, <2>1 DEF ListingInv, ListingTypeOK
  <2>3. QED
    BY <2>1, <2>2 DEF ListingInv, ListingTypeOK, UndisturbedListing
<1>3. QED
  BY <1>1, <1>2

(* A declared queue is listed for its tenant; no queue stops being listed. *)
LEMMA DeclareKeepsInv ==
  ASSUME TenantInv, NEW t \in Tenants, NEW n \in QueueNames, Declare(t, n)
  PROVE  TenantInv'
<1> DEFINE p == QueueStored(t, n)
<1>1. /\ p \in Paths
      /\ entries' = [entries EXCEPT ![t][p] = @ + 1]
      /\ Disturb(t, entries[t][p] = 0)
      /\ live' = live \union {<<t, n>>}
      /\ ops < MaxOps /\ ops' = ops + 1
      /\ UNCHANGED <<subscriptions, bound, misled, cutOff>>
  BY PathsType DEF Declare, Operation
<1> HIDE DEF p
<1>2. /\ entries' \in [Tenants -> [Paths -> Nat]]
      /\ \A u \in Tenants, r \in Paths :
           entries'[u][r] = IF u = t /\ r = p THEN entries[u][r] + 1 ELSE entries[u][r]
  BY <1>1 DEF TenantInv, StoresInv, StoresTypeOK
<1>3. StoresTypeOK' /\ CountedOnce'
  BY <1>1, <1>2, TenantAssumption DEF TenantInv, StoresInv, StoresTypeOK, CountedOnce
<1>4. LiveIsListed'
  <2>1. ASSUME NEW u \in Tenants, NEW r \in Paths, r \in Listed(u) \/ (u = t /\ r = p)
        PROVE  r \in Listed(u)'
    BY <1>2, <2>1 DEF Listed, TenantInv, StoresInv, StoresTypeOK
  <2>2. ASSUME NEW l \in live'
        PROVE  \/ QueueStored(l[1], l[2]) \in Listed(l[1])'
               \/ l[1] = Super /\ QueueStored(l[1], l[2]) \in misled
    <3>1. CASE l \in live
      <4>1. l[1] \in Tenants /\ l[2] \in QueueNames
        BY <3>1 DEF TenantInv, StoresInv, StoresTypeOK
      <4>2. QED
        BY <3>1, <4>1, <2>1, PathsType DEF TenantInv, StoresInv, LiveIsListed
    <3>2. CASE l = <<t, n>>
      BY <3>2, <2>1, <1>1 DEF p
    <3>3. QED
      BY <1>1, <3>1, <3>2
  <2>3. QED
    BY <1>1, <2>2 DEF LiveIsListed
<1>5. BoundIsListed' /\ ListedIsBound'
  BY <1>1 DEF TenantInv, StoresInv, BoundIsListed, ListedIsBound
<1>6. ListingInv'
  <2>1. \A u \in Tenants : u # t \/ ~(entries[t][p] = 0) => Listed(u)' = Listed(u)
    BY <1>1, <1>2 DEF Listed, TenantInv, StoresInv, StoresTypeOK
  <2>2. QED
    BY <1>1, <2>1, DisturbKeepsListing DEF TenantInv
<1>7. QED
  BY <1>3, <1>4, <1>5, <1>6 DEF TenantInv, StoresInv

(* A drop takes a user from an entry of the super tenant's registry, and   *)
(* whoever else is stored there is misled.                                 *)
LEMMA DropKeepsInv ==
  ASSUME TenantInv, NEW t \in Tenants, NEW n \in QueueNames, Drop(t, n)
  PROVE  TenantInv'
<1> DEFINE p == QueueID(t, n)
           others == {m \in QueueNames \ {n} : <<Super, m>> \in live /\ QueueStored(Super, m) = p}
<1>1. /\ p \in Paths /\ Super \in Tenants
      /\ live' = {l \in live : l[2] # n}
      /\ IF entries[Super][p] > 0
           THEN /\ entries' = [entries EXCEPT ![Super][p] = @ - 1]
                /\ misled' = IF entries[Super][p] = 1 /\ others # {} THEN misled \union {p} ELSE misled
           ELSE UNCHANGED <<entries, misled>>
      /\ Disturb(Super, entries[Super][p] = 1)
      /\ ops < MaxOps /\ ops' = ops + 1
      /\ UNCHANGED <<subscriptions, bound, cutOff>>
  BY PathsType, TenantAssumption DEF Drop, Operation
<1> HIDE DEF p
<1>2. /\ entries' \in [Tenants -> [Paths -> Nat]]
      /\ \A u \in Tenants, r \in Paths :
           entries'[u][r] = IF u = Super /\ r = p /\ entries[u][r] > 0
                              THEN entries[u][r] - 1 ELSE entries[u][r]
  BY SMTT(30), <1>1 DEF TenantInv, StoresInv, StoresTypeOK
<1>3. StoresTypeOK' /\ CountedOnce'
  <2>1. ops \in Nat /\ ops' \in 0 .. MaxOps
    BY <1>1, TenantAssumption DEF TenantInv, StoresInv, StoresTypeOK
  <2>2. ASSUME NEW u \in Tenants, NEW r \in Paths
        PROVE  entries'[u][r] <= ops'
    <3>1. entries[u][r] \in Nat /\ entries[u][r] <= ops
      BY DEF TenantInv, StoresInv, StoresTypeOK, CountedOnce
    <3>2. QED
      BY <1>1, <1>2, <2>1, <3>1
  <2>3. QED
    BY <1>1, <1>2, <2>1, <2>2 DEF TenantInv, StoresInv, StoresTypeOK, CountedOnce
<1>4. LiveIsListed'
  <2>1. ASSUME NEW u \in Tenants, NEW r \in Listed(u),
               u # Super \/ r # p \/ entries[Super][p] # 1
        PROVE  r \in Listed(u)'
    <3>1. r \in Paths /\ entries[u][r] \in Nat /\ entries[u][r] > 0
      BY DEF Listed, TenantInv, StoresInv, StoresTypeOK
    <3>2. entries'[u][r] > 0
      BY <1>2, <2>1, <3>1
    <3>3. QED
      BY <3>1, <3>2 DEF Listed
  <2>2. ASSUME NEW l \in live'
        PROVE  \/ QueueStored(l[1], l[2]) \in Listed(l[1])'
               \/ l[1] = Super /\ QueueStored(l[1], l[2]) \in misled'
    <3>1. /\ l \in live /\ l[1] \in Tenants /\ l[2] \in QueueNames \ {n}
          /\ l = <<l[1], l[2]>>
      BY <1>1 DEF TenantInv, StoresInv, StoresTypeOK
    <3>2. misled \subseteq misled'
      BY <1>1
    <3>3. \/ QueueStored(l[1], l[2]) \in Listed(l[1])
          \/ l[1] = Super /\ QueueStored(l[1], l[2]) \in misled
      BY <3>1 DEF TenantInv, StoresInv, LiveIsListed
    <3>4. CASE l[1] = Super /\ QueueStored(l[1], l[2]) = p /\ entries[Super][p] = 1
      <4>1. l[2] \in others
        BY <3>1, <3>4
      <4>2. QED
        BY <1>1, <3>4, <4>1
    <3>5. QED
      BY <2>1, <3>1, <3>2, <3>3, <3>4
  <2>3. QED
    BY <2>2 DEF LiveIsListed
<1>5. BoundIsListed' /\ ListedIsBound'
  BY <1>1 DEF TenantInv, StoresInv, BoundIsListed, ListedIsBound
<1>6. ListingInv'
  <2>1. ASSUME NEW u \in Tenants, u # Super \/ ~(entries[Super][p] = 1)
        PROVE  Listed(u)' = Listed(u)
    <3>1. ASSUME NEW r \in Paths
          PROVE  entries'[u][r] > 0 <=> entries[u][r] > 0
      <4>1. entries[u][r] \in Nat
        BY DEF TenantInv, StoresInv, StoresTypeOK
      <4>2. QED
        BY <1>2, <2>1, <4>1
    <3>2. QED
      BY <3>1 DEF Listed
  <2>2. QED
    BY <1>1, <2>1, DisturbKeepsListing DEF TenantInv
<1>7. QED
  BY <1>3, <1>4, <1>5, <1>6 DEF TenantInv, StoresInv

-----------------------------------------------------------------------------

(* Bind and unbind change subscriptions only.                              *)
LEMMA QueuesUntouched ==
  ASSUME TenantInv, UNCHANGED <<entries, live, listingCall, misled>>,
         StoresTypeOK', ops' \in Nat, ops' >= ops
  PROVE  CountedOnce' /\ LiveIsListed' /\ ListingInv'
<1>1. CountedOnce'
  BY TenantAssumption DEF TenantInv, StoresInv, StoresTypeOK, CountedOnce
<1>2. \A t : Listed(t)' = Listed(t)
  BY DEF Listed
<1>3. QED
  BY <1>1, <1>2 DEF TenantInv, StoresInv, LiveIsListed, ListingInv, ListingTypeOK,
                    UndisturbedListing

LEMMA BindKeepsInv ==
  ASSUME TenantInv, NEW t \in Tenants, NEW k \in Keys, NEW q \in Subscribers, Bind(t, k, q)
  PROVE  TenantInv'
<1> DEFINE s == SubscriptionStored(t, k, q)
<1>1. /\ s \in StoredBy(t)
      /\ subscriptions' = [subscriptions EXCEPT ![t] = @ \union {s}]
      /\ bound' = bound \union {<<t, k, q>>}
      /\ cutOff' = cutOff \ {<<t, s>>}
      /\ ops < MaxOps /\ ops' = ops + 1
      /\ UNCHANGED <<entries, live, listingCall, misled>>
  BY DEF Bind, Operation, StoredBy
<1> HIDE DEF s
<1>2. StoresTypeOK'
  BY <1>1, TenantAssumption DEF TenantInv, StoresInv, StoresTypeOK
<1>3. CountedOnce' /\ LiveIsListed' /\ ListingInv'
  BY <1>1, <1>2, QueuesUntouched DEF TenantInv, StoresInv, StoresTypeOK
<1>4. \A u \in Tenants :
        subscriptions'[u] = IF u = t THEN subscriptions[u] \union {s} ELSE subscriptions[u]
  BY <1>1 DEF TenantInv, StoresInv, StoresTypeOK
<1>5. BoundIsListed'
  <2>1. ASSUME NEW b \in bound'
        PROVE  \/ SubscriptionStored(b[1], b[2], b[3]) \in subscriptions'[b[1]]
               \/ <<b[1], SubscriptionStored(b[1], b[2], b[3])>> \in cutOff'
    <3>1. CASE b \in bound
      <4>1. b[1] \in Tenants
        BY <3>1 DEF TenantInv, StoresInv, StoresTypeOK
      <4>2. QED
        BY <1>1, <1>4, <3>1, <4>1 DEF TenantInv, StoresInv, BoundIsListed
    <3>2. CASE b = <<t, k, q>>
      BY <1>4, <3>2 DEF s
    <3>3. QED
      BY <1>1, <3>1, <3>2
  <2>2. QED
    BY <2>1 DEF BoundIsListed
<1>6. ListedIsBound'
  <2>1. ASSUME NEW u \in Tenants, NEW r \in subscriptions'[u]
        PROVE  \/ \E b \in bound' : b[1] = u /\ SubscriptionStored(b[1], b[2], b[3]) = r
               \/ \E j \in Keys, o \in Subscribers :
                    /\ SubscriptionStored(u, j, o) = r
                    /\ j.at = "@" \/ o.at = "@" \/ (u # Super /\ j.of = u)
    <3>1. CASE r \in subscriptions[u]
      BY <1>1, <3>1 DEF TenantInv, StoresInv, ListedIsBound
    <3>2. CASE r \notin subscriptions[u]
      <4>1. u = t /\ r = s
        BY <1>4, <3>2
      <4>2. <<t, k, q>> \in bound' /\ s = SubscriptionStored(t, k, q)
        BY <1>1 DEF s
      <4>3. QED
        BY <4>1, <4>2
    <3>3. QED
      BY <3>1, <3>2
  <2>2. QED
    BY <2>1 DEF ListedIsBound
<1>7. QED
  BY <1>2, <1>3, <1>5, <1>6 DEF TenantInv, StoresInv

(* Of the two subscriptions that unbind is about, the one it looks for is  *)
(* deleted; if the one that was stored is another, names were converted.   *)
LEMMA UnbindKeepsInv ==
  ASSUME TenantInv, NEW t \in Tenants, NEW k \in Keys, NEW q \in Subscribers, Unbind(t, k, q)
  PROVE  TenantInv'
<1> DEFINE sought == SubscriptionSought(k, q)
<1>1. /\ <<t, k, q>> \in bound
      /\ bound' = bound \ {<<t, k, q>>}
      /\ subscriptions' = [subscriptions EXCEPT ![t] = @ \ {sought}]
      /\ cutOff' = IF sought \in subscriptions[t] /\
                      (\E b \in bound' : b[1] = t /\ SubscriptionStored(b[1], b[2], b[3]) = sought)
                   THEN cutOff \union {<<t, sought>>} ELSE cutOff
      /\ ops < MaxOps /\ ops' = ops + 1
      /\ UNCHANGED <<entries, live, listingCall, misled>>
  BY DEF Unbind, Operation
<1> HIDE DEF sought
<1>2. StoresTypeOK'
  BY <1>1, TenantAssumption DEF TenantInv, StoresInv, StoresTypeOK
<1>3. CountedOnce' /\ LiveIsListed' /\ ListingInv'
  BY <1>1, <1>2, QueuesUntouched DEF TenantInv, StoresInv, StoresTypeOK
<1>4. \A u \in Tenants :
        subscriptions'[u] = IF u = t THEN subscriptions[u] \ {sought} ELSE subscriptions[u]
  BY <1>1 DEF TenantInv, StoresInv, StoresTypeOK
<1>5. BoundIsListed'
  <2>1. ASSUME NEW b \in bound'
        PROVE  \/ SubscriptionStored(b[1], b[2], b[3]) \in subscriptions'[b[1]]
               \/ <<b[1], SubscriptionStored(b[1], b[2], b[3])>> \in cutOff'
    <3>1. b[1] \in Tenants /\ b \in bound
      BY <1>1 DEF TenantInv, StoresInv, StoresTypeOK
    <3>2. QED
      BY <1>1, <1>4, <3>1 DEF TenantInv, StoresInv, BoundIsListed
  <2>2. QED
    BY <2>1 DEF BoundIsListed
<1>6. ListedIsBound'
  <2>1. ASSUME NEW u \in Tenants, NEW s \in subscriptions'[u]
        PROVE  \/ \E b \in bound' : b[1] = u /\ SubscriptionStored(b[1], b[2], b[3]) = s
               \/ \E j \in Keys, r \in Subscribers :
                    /\ SubscriptionStored(u, j, r) = s
                    /\ j.at = "@" \/ r.at = "@" \/ (u # Super /\ j.of = u)
    <3>1. s \in subscriptions[u] /\ (u = t => s # sought)
      BY <1>4
    <3>2. CASE \E b \in bound : b[1] = u /\ SubscriptionStored(b[1], b[2], b[3]) = s
      <4>1. PICK b \in bound : b[1] = u /\ SubscriptionStored(b[1], b[2], b[3]) = s
        BY <3>2
      <4>2. CASE b = <<t, k, q>>
        <5>1. u = t /\ s = SubscriptionStored(t, k, q) /\ s # sought
          BY <3>1, <4>1, <4>2
        <5>2. k.at = "@" \/ q.at = "@" \/ (t # Super /\ k.of = t)
          BY <5>1, SoughtWhereStored DEF sought
        <5>3. QED
          BY <5>1, <5>2
      <4>3. CASE b # <<t, k, q>>
        BY <1>1, <4>1, <4>3
      <4>4. QED
        BY <4>2, <4>3
    <3>3. QED
      BY <3>1, <3>2 DEF TenantInv, StoresInv, ListedIsBound
  <2>2. QED
    BY <2>1 DEF ListedIsBound
<1>7. QED
  BY <1>2, <1>3, <1>5, <1>6 DEF TenantInv, StoresInv

-----------------------------------------------------------------------------

(* Reading a child takes it from those left and fills a slot with it: an   *)
(* undisturbed listing finds it, and a slot for it.                        *)
LEMMA ReadChildKeepsListing ==
  ASSUME TenantInv, NEW p \in Paths, ReadChild(p)
  PROVE  ListingInv'
<1> DEFINE c == listingCall
<1> USE DEF TenantInv, ListingInv
<1>1. /\ c.at = "reading" /\ p \in c.left
      /\ UNCHANGED entries
      /\ IF p \in Listed(c.tenant) /\ Len(c.slots) < c.count
           THEN listingCall' = [c EXCEPT !.left = @ \ {p}, !.slots = Append(@, p)]
           ELSE listingCall' = [c EXCEPT !.at = "threw"]
  BY DEF ReadChild, ListingStep
<1>2. \A t : Listed(t)' = Listed(t)
  BY <1>1 DEF Listed
<1>3. /\ IsFiniteSet(c.left) /\ Cardinality(c.left) \in Nat
      /\ Cardinality(c.left \ {p}) = Cardinality(c.left) - 1
      /\ Cardinality(c.left \ {p}) \in Nat
  <2>1. c.left \in SUBSET Paths
    BY DEF ListingTypeOK
  <2>2. IsFiniteSet(c.left) /\ IsFiniteSet(c.left \ {p})
    BY <2>1, PathsAssumption, FS_Subset, FS_RemoveElement
  <2>3. QED
    BY <1>1, <2>2, FS_CardinalityType, FS_RemoveElement
<1>4. c.quiet => p \in Listed(c.tenant) /\ Len(c.slots) < c.count
  BY <1>1, <1>3 DEF UndisturbedListing, ListingTypeOK
<1>5. CASE p \in Listed(c.tenant) /\ Len(c.slots) < c.count
  <2>1. /\ listingCall'.at = "reading" /\ listingCall'.quiet = c.quiet
        /\ listingCall'.tenant = c.tenant /\ listingCall'.count = c.count
        /\ listingCall'.left = c.left \ {p} /\ listingCall'.slots = Append(c.slots, p)
    BY <1>1, <1>5 DEF ListingTypeOK
  <2>2. c.slots \in Seq(Paths)
    BY DEF ListingTypeOK
  <2>3. /\ Len(listingCall'.slots) = Len(c.slots) + 1
        /\ Elements(Append(c.slots, p)) = Elements(c.slots) \union {p}
    BY <2>1, <2>2 DEF Elements
  <2>4. ListingTypeOK'
    <3>1. Append(c.slots, p) \in Seq(Paths) /\ c.left \ {p} \in SUBSET Paths
      BY <2>2 DEF ListingTypeOK
    <3>2. listingCall' = [c EXCEPT !.left = c.left \ {p}, !.slots = Append(c.slots, p)]
      BY <1>1, <1>5
    <3>3. QED
      BY <3>1, <3>2 DEF ListingTypeOK
  <2>5. ASSUME c.quiet
        PROVE  /\ listingCall'.left \subseteq Listed(c.tenant)
               /\ Elements(listingCall'.slots) \union listingCall'.left = Listed(c.tenant)
               /\ Len(listingCall'.slots) + Cardinality(listingCall'.left) = c.count
    <3>1. /\ c.left \subseteq Listed(c.tenant)
          /\ Elements(c.slots) \union c.left = Listed(c.tenant)
          /\ Len(c.slots) + Cardinality(c.left) = c.count
      BY <1>1, <2>5 DEF UndisturbedListing
    <3>2. Len(c.slots) \in Nat
      BY <2>2
    <3>3. QED
      BY <1>1, <1>3, <2>1, <2>3, <3>1, <3>2
  <2>6. UndisturbedListing'
    BY <1>2, <2>1, <2>5 DEF UndisturbedListing
  <2>7. Len(c.slots) \in Nat /\ c.count \in Nat
    BY DEF ListingTypeOK
  <2>8. QED
    BY <1>5, <2>1, <2>3, <2>4, <2>6, <2>7
<1>6. CASE ~(p \in Listed(c.tenant) /\ Len(c.slots) < c.count)
  BY <1>1, <1>4, <1>6 DEF ListingTypeOK, UndisturbedListing
<1>7. QED
  BY <1>5, <1>6

(* The other steps of a listing.                                           *)
LEMMA ListingKeepsInv ==
  ASSUME TenantInv,
         \/ \E t \in Tenants : BeginListing(t)
         \/ ReadChildren \/ (\E p \in Paths : ReadChild(p)) \/ ReturnListing
  PROVE  TenantInv'
<1>1. UNCHANGED <<entries, subscriptions, live, bound, ops, misled, cutOff>>
  BY Zenon DEF BeginListing, ReadChildren, ReadChild, ReturnListing, ListingStep
<1>2. \A t : Listed(t)' = Listed(t)
  BY <1>1 DEF Listed
<1>3. StoresInv'
  BY <1>1, <1>2 DEF TenantInv, StoresInv, StoresTypeOK, CountedOnce, LiveIsListed,
                    BoundIsListed, ListedIsBound
<1>4. ListingInv'
  <2>1. ASSUME NEW t \in Tenants, BeginListing(t)
        PROVE  ListingInv'
    <3>1. listingCall' = [NoListing EXCEPT !.at = "counted", !.tenant = t,
                                           !.count = Cardinality(Listed(t))]
      BY <2>1, Zenon DEF BeginListing, ListingStep
    <3>2. NoListing \in [at : {"none"}, tenant : Tenants, count : Nat, left : {{}},
                         slots : {<<>>}, quiet : {TRUE}]
      BY TenantAssumption DEF NoListing
    <3>3. listingCall' \in [at : {"counted"}, tenant : Tenants, count : Nat, left : {{}},
                            slots : {<<>>}, quiet : {TRUE}]
      BY <3>1, <3>2, ListedFinite
    <3>4. listingCall'.tenant = t /\ listingCall'.count = Cardinality(Listed(t))
      BY <3>1, <3>2
    <3>5. /\ listingCall'.at = "counted" /\ listingCall'.slots = <<>>
          /\ listingCall'.left = {} /\ listingCall'.count \in Nat
      BY <3>3
    <3>6. UndisturbedListing'
      BY <1>2, <3>4, <3>5 DEF UndisturbedListing
    <3>7. ListingTypeOK'
      <4>1. <<>> \in Seq(Paths)
        OBVIOUS
      <4>2. QED
        BY <3>3, <4>1 DEF ListingTypeOK
    <3>8. Len(listingCall'.slots) <= listingCall'.count
      BY <3>5
    <3>9. QED
      BY <3>6, <3>7, <3>8 DEF ListingInv
  <2>2. ASSUME ReadChildren
        PROVE  ListingInv'
    <3>1. /\ listingCall.at = "counted"
          /\ listingCall' = [listingCall EXCEPT !.at = "reading",
                                                !.left = Listed(listingCall.tenant)]
      BY <2>2 DEF ReadChildren, ListingStep
    <3>2. Elements(<<>>) = {} /\ Len(<<>>) = 0
      BY DEF Elements
    <3>3. Listed(listingCall.tenant) \in SUBSET Paths
      BY DEF Listed
    <3>4. /\ listingCall'.at = "reading" /\ listingCall'.tenant = listingCall.tenant
          /\ listingCall'.left = Listed(listingCall.tenant)
          /\ listingCall'.slots = listingCall.slots /\ listingCall'.count = listingCall.count
          /\ listingCall'.quiet = listingCall.quiet
          /\ ListingTypeOK'
      BY <3>1, <3>3 DEF TenantInv, ListingInv, ListingTypeOK
    <3>5. ASSUME listingCall.quiet
          PROVE  /\ listingCall.slots = <<>>
                 /\ listingCall.count = Cardinality(Listed(listingCall.tenant))
      BY <3>1, <3>5 DEF TenantInv, ListingInv, UndisturbedListing
    <3>6. UndisturbedListing'
      BY <1>2, <3>2, <3>4, <3>5, ListedFinite DEF UndisturbedListing
    <3>7. QED
      BY <3>4, <3>6 DEF TenantInv, ListingInv
  <2>3. ASSUME ReturnListing
        PROVE  ListingInv'
    <3>1. /\ listingCall.at = "reading" /\ listingCall.left = {}
          /\ listingCall' = [listingCall EXCEPT !.at = "returned"]
      BY <2>3 DEF ReturnListing, ListingStep
    <3>2. QED
      BY <1>2, <3>1 DEF TenantInv, ListingInv, ListingTypeOK, UndisturbedListing
  <2>4. QED
    BY <2>1, <2>2, <2>3, ReadChildKeepsListing
<1>5. QED
  BY <1>3, <1>4 DEF TenantInv

LEMMA TenantStepInv == TenantInv /\ [TenantNext]_registryVars => TenantInv'
<1> SUFFICES ASSUME TenantInv, [TenantNext]_registryVars
             PROVE  TenantInv'
  OBVIOUS
<1>1. CASE UNCHANGED registryVars
  <2>1. \A t : Listed(t)' = Listed(t)
    BY <1>1 DEF registryVars, Listed
  <2>2. QED
    BY <1>1, <2>1 DEF registryVars, TenantInv, StoresInv, StoresTypeOK, CountedOnce, LiveIsListed,
         BoundIsListed, ListedIsBound, ListingInv, ListingTypeOK, UndisturbedListing
<1>2. CASE TenantNext
  BY <1>2, DeclareKeepsInv, DropKeepsInv, BindKeepsInv, UnbindKeepsInv, ListingKeepsInv, Zenon
  DEF TenantNext
<1>3. QED
  BY <1>1, <1>2

(* For any tenants and names: a live queue and a bound subscription are in *)
(* the registry of their tenant, what is left there without a binding was  *)
(* stored under a converted name, and an undisturbed listing is complete;  *)
(* the exceptions are the ones that the properties name.                   *)
THEOREM TenantsFind == TenantSpec => []TenantsFindTheirOwn
<1>1. TenantSpec => []TenantInv
  BY TenantInitInv, TenantStepInv, PTL DEF TenantSpec
<1>2. QED
  BY <1>1, TenantInvSuffices, PTL

-----------------------------------------------------------------------------
(* The broker's start                                                      *)

(* Where activate is says how far the broker has come: the waits before a  *)
(* step are the only reason that what they waited for is there.            *)
WaitedFor ==
  /\ phase = "store" => checks <= MaxChecks
  /\ phase = "port" => broker = "running"
  /\ phase = "publish" => failed \/ (broker = "running" /\ port)

(* Only an active component has a registration of its own; a service that  *)
(* is published without one was left by an activation that threw, and no   *)
(* activation goes on while there is one.                                  *)
Registration ==
  /\ own => phase = "active"
  /\ published => own \/ orphaned
  /\ phase \in Starting => ~published

StartupInv ==
  /\ StartupTypeOK
  /\ ServiceMeansBroker
  /\ WaitedFor
  /\ Registration

(* The invariant says all that PublishedWhenReady says: a component that   *)
(* is down has no registration.                                            *)
LEMMA StartupInvSuffices == StartupInv => PublishedWhenReady
  BY DEF StartupInv, PublishedWhenReady, WithdrawnWhenDown, Registration

LEMMA StartupInitInv == StartupInit => StartupInv
<1> SUFFICES ASSUME StartupInit
             PROVE  StartupInv
  OBVIOUS
<1>1. StartupTypeOK
  <2>1. checks \in 0 .. MaxChecks + 1 /\ activations \in 0 .. MaxActivations
    BY StartupAssumption DEF StartupInit
  <2>2. QED
    BY <2>1 DEF StartupInit, StartupTypeOK, Starting
<1>2. ServiceMeansBroker /\ WaitedFor /\ Registration
  BY DEF StartupInit, ServiceMeansBroker, WaitedFor, Registration, Starting
<1>3. QED
  BY <1>1, <1>2 DEF StartupInv

(* One step per action.  AwaitBroker and AwaitPort establish WaitedFor for *)
(* the step they lead to; Activate and PublishService are the two that     *)
(* Registration is about.                                                  *)
LEMMA StartupStepInv == StartupInv /\ [StartupNext]_startupVars => StartupInv'
<1> SUFFICES ASSUME StartupInv, [StartupNext]_startupVars
             PROVE  StartupInv'
  OBVIOUS
<1> USE StartupAssumption DEF StartupInv, StartupTypeOK, ServiceMeansBroker, WaitedFor, Registration,
                              Starting, outside
<1>1. CASE Activate
  <2>1. /\ phase' \in {"active", "store", "engine"}
        /\ phase' \in {"store", "engine"} => ~published
    BY <1>1 DEF Activate
  <2>2. checks' \in 0 .. MaxChecks + 1 /\ activations' \in 0 .. MaxActivations
    BY <1>1 DEF Activate
  <2>3. StartupTypeOK'
    BY <1>1, <2>1, <2>2 DEF Activate
  <2>4. (ServiceMeansBroker /\ WaitedFor /\ Registration)'
    BY <1>1, <2>1 DEF Activate
  <2>5. QED
    BY <2>3, <2>4
<1>2. CASE AwaitStore
  BY <1>2 DEF AwaitStore
<1>3. CASE StartEngine
  BY <1>3 DEF StartEngine
<1>4. CASE AwaitBroker
  BY <1>4 DEF AwaitBroker
<1>5. CASE AwaitPort
  BY <1>5 DEF AwaitPort
<1>6. CASE PublishService
  BY <1>6 DEF PublishService
<1>7. CASE Withdraw
  BY <1>7 DEF Withdraw
<1>8. CASE StopBroker
  BY <1>8 DEF StopBroker
<1>9. CASE StoreUp \/ BrokerUp \/ PortUp
  <2>1. CASE StoreUp
    BY <2>1 DEF StoreUp
  <2>2. CASE BrokerUp
    BY <2>2 DEF BrokerUp
  <2>3. CASE PortUp
    BY <2>3 DEF PortUp
  <2>4. QED
    BY <1>9, <2>1, <2>2, <2>3
<1>10. CASE Retry
  BY <1>10 DEF Retry
<1>11. CASE UNCHANGED startupVars
  BY <1>11 DEF startupVars
<1>12. QED
  BY <1>1, <1>2, <1>3, <1>4, <1>5, <1>6, <1>7, <1>8, <1>9, <1>10, <1>11
  DEF StartupNext, ActivateStep

(* Whatever fails or throws while the broker is started and stopped, the   *)
(* component's own service is published when the broker accepts            *)
(* connections or an exception was caught, and withdrawn before it stops.  *)
THEOREM ServiceIsUsable == StartupSpec => []PublishedWhenReady
<1>1. StartupSpec => []StartupInv
  BY StartupInitInv, StartupStepInv, PTL DEF StartupSpec
<1>2. QED
  BY <1>1, StartupInvSuffices, PTL

-----------------------------------------------------------------------------
(* The queue pages                                                         *)

Dialogs == {"none", "alert", "error", "added", "updated", "deleted"}

(* What a request of a tab is in the middle of says which page sent it.    *)
PageFits ==
  \A t \in Tabs :
    /\ at[t] \in {"create", "created", "added"} => page[t] = "add"
    /\ at[t] = "create" => pageQueue[t] \notin Invalid
    /\ at[t] \in {"load", "loaded", "open"} => page[t] = "details"

(* From the moment a page has set or read the attribute until the user     *)
(* leaves it, the attribute is the queue of the page: the page itself does *)
(* not change it, and another tab that does ends alone.                    *)
SessionFits ==
  \A t \in Tabs :
    alone[t] =>
      /\ at[t] \in {"added", "permit", "update", "updated", "answered"} =>
           sessionQueue = pageQueue[t]
      /\ at[t] = "idle" /\ page[t] = "manage" => sessionQueue = pageQueue[t]
      /\ at[t] \in {"update", "updated", "answered"} => target[t] = pageQueue[t]

(* The request that stores permissions is only sent after createQueue has  *)
(* worked.                                                                 *)
CreatedFirst ==
  \A t \in Tabs :
    /\ dialog[t] = "added" => created[t]
    /\ at[t] \in {"created", "added"} /\ responseText[t] # "Error" => created[t]
    /\ at[t] \in {"permit", "update", "updated", "answered"} /\ page[t] = "add" => created[t]

ConsoleInv ==
  /\ ConsoleTypeOK /\ dialog \in [Tabs -> Dialogs]
  /\ PageFits
  /\ SessionFits
  /\ CreatedFirst

(* The invariant says all that TabsEditTheirQueue says.                    *)
LEMMA ConsoleInvSuffices == ConsoleInv => TabsEditTheirQueue
  BY DEF ConsoleInv, SessionFits, CreatedFirst, TabsEditTheirQueue, UpdateReachesShownQueue,
         AddedMeansCreated

LEMMA ConsoleInitInv == ConsoleInit => ConsoleInv
<1> SUFFICES ASSUME ConsoleInit
             PROVE  ConsoleInv
  OBVIOUS
<1>1. ASSUME NEW t \in Tabs
      PROVE  AnyQueue \in Queues /\ AnyTable \in Tables
  BY ConsoleAssumption, Zenon DEF AnyQueue, AnyTable
<1>2. ConsoleTypeOK /\ dialog \in [Tabs -> Dialogs]
  BY <1>1 DEF ConsoleInit, ConsoleTypeOK, Steps, Dialogs
<1>3. PageFits /\ SessionFits /\ CreatedFirst
  BY DEF ConsoleInit, PageFits, SessionFits, CreatedFirst
<1>4. QED
  BY <1>2, <1>3 DEF ConsoleInv

(* A failed request leaves the tab where it was, with an alert.            *)
LEMMA RequestFailsKeepsInv ==
  ASSUME ConsoleInv, NEW t \in Tabs, NEW step \in {"created", "updated", "loaded"},
         RequestFails(t, step)
  PROVE  ConsoleInv'
  BY DEF ConsoleInv, ConsoleTypeOK, PageFits, SessionFits, CreatedFirst, RequestFails, Goto, Tell,
         server, Steps, Dialogs

(* The requests of a user start a chain from an idle tab, or end at once   *)
(* with a dialog that is not about an added queue.                         *)
LEMMA RequestKeepsInv ==
  ASSUME ConsoleInv, NEW t \in Tabs, NEW q \in Queues, NEW p \in Tables,
         \/ AddQueue(t, q, p) \/ UpdatePermissions(t, p)
         \/ ShowManageQueueWindow(t, q) \/ DoDelete(t, q)
  PROVE  ConsoleInv'
<1> USE DEF ConsoleInv, ConsoleTypeOK, PageFits, SessionFits, CreatedFirst, Send, Goto, Tell,
            server, Steps, Dialogs
<1>1. CASE AddQueue(t, q, p)
  BY <1>1 DEF AddQueue
<1>2. CASE UpdatePermissions(t, p)
  BY <1>2 DEF UpdatePermissions
<1>3. CASE ShowManageQueueWindow(t, q)
  BY <1>3 DEF ShowManageQueueWindow
<1>4. CASE DoDelete(t, q)
  BY <1>4 DEF DoDelete
<1>5. QED
  BY <1>1, <1>2, <1>3, <1>4

(* The JSPs and handlers of adding a queue: the attribute is set to the    *)
(* queue of the page before the second request is sent.                    *)
LEMMA AddingKeepsInv ==
  ASSUME ConsoleInv, NEW t \in Tabs, CreateQueue(t) \/ RememberCreated(t) \/ QueueAdded(t)
  PROVE  ConsoleInv'
<1> USE DEF ConsoleInv, ConsoleTypeOK, PageFits, SessionFits, CreatedFirst, Goto, Tell, Answer,
            SetSessionQueue, server, browser, Steps, Dialogs
<1>1. CASE CreateQueue(t)
  <2>1. /\ at' = [at EXCEPT ![t] = "created"] /\ at[t] = "create"
        /\ UNCHANGED <<permissions, page, pageQueue, table, target, dialog>>
        /\ queues' \subseteq queues \union {pageQueue[t]}
    BY <1>1 DEF CreateQueue
  <2>2. CASE /\ sessionQueue' = NoQueue /\ alone' = [u \in Tabs |-> u = t]
             /\ created' = [created EXCEPT ![t] = TRUE]
             /\ responseText' = [responseText EXCEPT ![t] = "empty"]
    <3>1. /\ sessionQueue' \in Queues \union {NoQueue} /\ alone' \in [Tabs -> BOOLEAN]
          /\ created' \in [Tabs -> BOOLEAN]
          /\ responseText' \in [Tabs -> {"empty", "Error", "Unable"}]
      BY <2>2
    <3>2. queues' \subseteq Queues \ Invalid
      BY <2>1
    <3>3. at' \in [Tabs -> Steps]
      BY <2>1
    <3>4. ConsoleTypeOK'
      BY <2>1, <3>1, <3>2, <3>3
    <3>5. PageFits' /\ SessionFits'
      BY <2>1, <2>2, ZenonT(40)
    <3>6. created'[t] /\ \A u \in Tabs : created[u] => created'[u]
      BY <2>2
    <3>7. \A u \in Tabs : u # t => /\ at'[u] = at[u] /\ responseText'[u] = responseText[u]
      BY <2>1, <2>2
    <3>8. CreatedFirst'
      BY <2>1, <3>6, <3>7
    <3>9. QED
      BY <2>1, <3>4, <3>5, <3>8
  <2>3. CASE /\ UNCHANGED <<queues, sessionQueue, alone, created>>
             /\ responseText' = [responseText EXCEPT ![t] = "Error"]
    BY <2>1, <2>3
  <2>4. QED
    BY <1>1, <2>2, <2>3 DEF CreateQueue
<1>2. CASE RememberCreated(t)
  <2>1. CASE RequestFails(t, "created")
    BY <2>1, RequestFailsKeepsInv
  <2>2. CASE ~RequestFails(t, "created")
    <3>1. /\ at[t] = "created" /\ at' = [at EXCEPT ![t] = "added"]
          /\ sessionQueue' = pageQueue[t] /\ alone' = [u \in Tabs |-> u = t]
          /\ UNCHANGED <<queues, permissions, page, pageQueue, table, target, responseText, dialog,
                         created>>
      BY <1>2, <2>2 DEF RememberCreated
    <3>2. SessionFits'
      BY <3>1
    <3>3. ConsoleTypeOK' /\ PageFits' /\ CreatedFirst'
      BY <3>1
    <3>4. QED
      BY <3>1, <3>2, <3>3
  <2>3. QED
    BY <2>1, <2>2
<1>3. CASE QueueAdded(t)
  BY <1>3 DEF QueueAdded
<1>4. QED
  BY <1>1, <1>2, <1>3

(* The update JSP takes the queue from the session.                        *)
LEMMA UpdatingKeepsInv ==
  ASSUME ConsoleInv, NEW t \in Tabs,
         ReadSessionQueue(t) \/ UpdatePermission(t) \/ ReadBack(t) \/ PermissionsAnswered(t)
  PROVE  ConsoleInv'
<1> USE DEF ConsoleInv, ConsoleTypeOK, PageFits, SessionFits, CreatedFirst, Goto, Tell, Answer,
            server, browser, Steps, Dialogs
<1>1. CASE ReadSessionQueue(t)
  BY <1>1 DEF ReadSessionQueue
<1>2. CASE UpdatePermission(t)
  BY <1>2 DEF UpdatePermission
<1>3. CASE ReadBack(t)
  <2>1. CASE RequestFails(t, "updated")
    BY <2>1, RequestFailsKeepsInv
  <2>2. CASE ~RequestFails(t, "updated")
    BY <1>3, <2>2 DEF ReadBack
  <2>3. QED
    BY <2>1, <2>2
<1>4. CASE PermissionsAnswered(t)
  BY <1>4 DEF PermissionsAnswered
<1>5. QED
  BY <1>1, <1>2, <1>3, <1>4

(* Opening a manage page makes the tab the last one that knows the         *)
(* attribute: whatever queue is found there is the queue of the page.      *)
LEMMA OpeningKeepsInv ==
  ASSUME ConsoleInv, NEW t \in Tabs, LoadDetails(t) \/ FetchPermissions(t) \/ OpenManagePage(t)
  PROVE  ConsoleInv'
<1> USE DEF ConsoleInv, ConsoleTypeOK, PageFits, SessionFits, CreatedFirst, Goto, Tell, Answer,
            SetSessionQueue, server, browser, Steps, Dialogs
<1>1. CASE LoadDetails(t)
  BY <1>1, ZenonT(40) DEF LoadDetails
<1>2. CASE FetchPermissions(t)
  <2>1. CASE RequestFails(t, "loaded")
    BY <2>1, RequestFailsKeepsInv
  <2>2. CASE ~RequestFails(t, "loaded")
    BY <1>2, <2>2 DEF FetchPermissions
  <2>3. QED
    BY <2>1, <2>2
<1>3. CASE OpenManagePage(t)
  BY <1>3 DEF OpenManagePage
<1>4. QED
  BY <1>1, <1>2, <1>3

LEMMA ConsoleStepInv == ConsoleInv /\ [ConsoleNext]_consoleVars => ConsoleInv'
<1> SUFFICES ASSUME ConsoleInv, [ConsoleNext]_consoleVars
             PROVE  ConsoleInv'
  OBVIOUS
<1>1. CASE UNCHANGED consoleVars
  BY <1>1 DEF consoleVars, server, browser, ConsoleInv, ConsoleTypeOK, PageFits, SessionFits,
              CreatedFirst
<1>2. CASE ConsoleNext
  <2>1. PICK t \in Tabs :
          \/ \E q \in Queues, p \in Tables : AddQueue(t, q, p)
          \/ \E p \in Tables : UpdatePermissions(t, p)
          \/ \E q \in Queues : ShowManageQueueWindow(t, q)
          \/ \E q \in Queues : DoDelete(t, q)
          \/ TabStep(t)
    BY <1>2, Zenon DEF ConsoleNext
  <2>2. CASE TabStep(t)
    BY <2>2, AddingKeepsInv, UpdatingKeepsInv, OpeningKeepsInv, Zenon DEF TabStep
  <2>3. CASE ~TabStep(t)
    <3>1. PICK q \in Queues : TRUE
      BY ConsoleAssumption
    <3>2. PICK p \in Tables : TRUE
      BY ConsoleAssumption
    <3>3. QED
      BY <2>1, <2>3, <3>1, <3>2, RequestKeepsInv, Zenon
  <2>4. QED
    BY <2>2, <2>3
<1>3. QED
  BY <1>1, <1>2

(* For any number of tabs and requests that interleave and fail in any     *)
(* way, permissions reach the queue of the page as long as no other tab    *)
(* has set the session attribute since, and a queue said to be added was   *)
(* created by that request.                                                *)
THEOREM TabsKeepTheirQueue == ConsoleSpec => []TabsEditTheirQueue
<1>1. ConsoleSpec => []ConsoleInv
  BY ConsoleInitInv, ConsoleStepInv, PTL DEF ConsoleSpec
<1>2. QED
  BY <1>1, ConsoleInvSuffices, PTL

-----------------------------------------------------------------------------
(* The dead letter channel                                                 *)

FlowTypeOK ==
  /\ place \in [Messages -> Destinations \union {"channel", "gone", "nameless"}]
  /\ flowAt \in
       [Flows -> {"new", "listing", "choosing", "asking", "calling", "answered"} \union Ended]
  /\ kind \in [Flows -> {"delete", "restore", "reroute"}]
  /\ checkedValues \in [Flows -> SUBSET Messages]
  /\ offered \in [Flows -> SUBSET (Destinations \union {"nameless"})]
  /\ \A f \in Flows : offered[f] \subseteq Destinations \/ offered[f] = {"nameless"}
  /\ selectedQueue \in [Flows -> Destinations \union {"nameless"}]
  /\ movedBy \in [Messages -> SUBSET Flows]

PageTypeOK ==
  /\ liveQueues \subseteq Destinations /\ ticked \subseteq Messages
  /\ told \in [Flows -> {"nothing", "selectSome", "successful"}]

(* A flow that is past the popup has picked what the popup offered.        *)
Picked ==
  \A f \in Flows :
    flowAt[f] \in {"asking", "calling", "answered"} /\ kind[f] = "reroute"
      => selectedQueue[f] \in offered[f]

(* What a flow has moved was in the channel, so nobody else had moved it,  *)
(* and the flow has made its call and changes its choices no more.         *)
MovedOnce ==
  \A m \in Messages :
    /\ place[m] = "channel" <=> movedBy[m] = {}
    /\ \A f \in movedBy[m] :
         /\ movedBy[m] = {f}
         /\ flowAt[f] \in {"answered"} \union Ended
         /\ m \in checkedValues[f]
         /\ place[m] = Destination(f, m)
         /\ kind[f] = "reroute" => place[m] \in offered[f]

DeadLetterInv ==
  /\ FlowTypeOK
  /\ PageTypeOK
  /\ Picked
  /\ MovedOnce

(* A set of flows each of which is all of it has at most one member.       *)
LEMMA AtMostOne ==
  ASSUME NEW S, \A f \in S : S = {f}
  PROVE  Cardinality(S) <= 1
<1>1. CASE S = {}
  BY <1>1, FS_EmptySet
<1>2. CASE S # {}
  <2>1. PICK f \in S : S = {f}
    BY <1>2
  <2>2. Cardinality({f}) = 1
    BY FS_Singleton
  <2>3. QED
    BY <2>1, <2>2
<1>3. QED
  BY <1>1, <1>2

(* The invariant says all that DeadLettersMoveOnce says.                   *)
LEMMA DeadLetterInvSuffices == DeadLetterInv => DeadLettersMoveOnce
<1> SUFFICES ASSUME DeadLetterInv
             PROVE  DeadLettersMoveOnce
  OBVIOUS
<1>1. DeadLetterTypeOK
  <2>1. ASSUME NEW f \in Flows
        PROVE  checkedValues[f] \subseteq Messages
    BY DEF DeadLetterInv, FlowTypeOK
  <2>2. QED
    BY <2>1 DEF DeadLetterInv, FlowTypeOK, PageTypeOK, DeadLetterTypeOK
<1>2. ASSUME NEW m \in Messages
      PROVE  Cardinality(movedBy[m]) <= 1
  BY AtMostOne DEF DeadLetterInv, MovedOnce
<1>3. LeavesThroughOneFlow
  BY <1>2 DEF DeadLetterInv, MovedOnce, LeavesThroughOneFlow
<1>4. QED
  BY <1>1, <1>3 DEF DeadLettersMoveOnce

LEMMA DeadLetterInitInv == DeadLetterInit => DeadLetterInv
  BY DEF DeadLetterInit, DeadLetterInv, FlowTypeOK, PageTypeOK, Picked, MovedOnce, Ended

(* A flow sends messages anywhere but back into the channel.               *)
LEMMA DestinationLeaves ==
  ASSUME DeadLetterInv, NEW f \in Flows, flowAt[f] = "calling", NEW m \in Messages
  PROVE  /\ Destination(f, m) \in Destinations \union {"gone", "nameless"}
         /\ Destination(f, m) # "channel"
         /\ kind[f] = "reroute" => Destination(f, m) \in offered[f]
<1>1. CASE kind[f] = "delete"
  BY <1>1, DeadLetterAssumption DEF Destination
<1>2. CASE kind[f] = "restore"
  BY <1>2, DeadLetterAssumption DEF Destination
<1>3. CASE kind[f] = "reroute"
  BY <1>3, DeadLetterAssumption DEF Destination, DeadLetterInv, FlowTypeOK, Picked
<1>4. QED
  BY <1>1, <1>2, <1>3 DEF DeadLetterInv, FlowTypeOK

(* The call moves some of the flow's messages that are in the channel:     *)
(* nobody has moved those, the others stay as they are.                    *)
LEMMA CallServiceKeepsInv ==
  ASSUME DeadLetterInv, NEW f \in Flows, CallService(f)
  PROVE  DeadLetterInv'
<1> USE DEF DeadLetterInv, FlowTypeOK, CallService, FlowGoto, flow
<1>1. PICK ms \in SUBSET InChannel(f) : Move(f, ms)
  OBVIOUS
<1>2. ASSUME NEW m \in Messages
      PROVE  Destination(f, m)' = Destination(f, m)
  BY DEF Destination
<1>3. FlowTypeOK'
  BY <1>1, DestinationLeaves DEF Move, InChannel, Ended
<1>4. PageTypeOK' /\ Picked'
  BY DEF PageTypeOK, Picked
<1>5. ASSUME NEW m \in ms
      PROVE  /\ m \in Messages /\ m \in checkedValues[f]
             /\ movedBy'[m] = {f} /\ place'[m] = Destination(f, m)
  BY <1>1 DEF Move, InChannel, MovedOnce
<1>6. ASSUME NEW m \in Messages, m \notin ms
      PROVE  /\ movedBy'[m] = movedBy[m] /\ place'[m] = place[m]
             /\ \A g \in movedBy[m] : g # f /\ flowAt'[g] = flowAt[g] /\ Destination(g, m)' = Destination(g, m)
  BY <1>1, <1>6 DEF Move, MovedOnce, Destination, Ended
<1>7. MovedOnce'
  <2> SUFFICES ASSUME NEW m \in Messages
               PROVE  /\ place'[m] = "channel" <=> movedBy'[m] = {}
                      /\ \A g \in movedBy'[m] :
                           /\ movedBy'[m] = {g}
                           /\ flowAt'[g] \in {"answered"} \union Ended
                           /\ m \in checkedValues'[g]
                           /\ place'[m] = Destination(g, m)'
                           /\ kind'[g] = "reroute" => place'[m] \in offered'[g]
    BY DEF MovedOnce
  <2>1. CASE m \in ms
    BY <2>1, <1>2, <1>5, DestinationLeaves
  <2>2. CASE m \notin ms
    BY <2>2, <1>6 DEF MovedOnce
  <2>3. QED
    BY <2>1, <2>2
<1>8. QED
  BY <1>3, <1>4, <1>7

(* Every other step of a flow that has not called yet leaves the messages  *)
(* alone, and no message is moved by it.                                   *)
LEMMA ChoicesKeepInv ==
  ASSUME DeadLetterInv, NEW f \in Flows, NEW q \in Destinations \union {"nameless"},
         Click(f) \/ ListQueues(f) \/ ChooseQueue(f, q) \/ Confirm(f) \/ Answered(f)
  PROVE  DeadLetterInv'
<1> USE DEF DeadLetterInv, FlowTypeOK, PageTypeOK, FlowGoto, FlowTells, flow, Ended
<1>1. FlowTypeOK' /\ PageTypeOK'
  <2>1. CASE Click(f)
    BY <2>1 DEF Click
  <2>2. CASE ListQueues(f)
    <3>1. offered' = offered \/ \E qs \in {liveQueues, {"nameless"}} :
                                   offered' = [offered EXCEPT ![f] = qs]
      BY <2>2 DEF ListQueues
    <3>2. /\ offered' \in [Flows -> SUBSET (Destinations \union {"nameless"})]
          /\ \A g \in Flows : offered'[g] \subseteq Destinations \/ offered'[g] = {"nameless"}
      BY <3>1
    <3>3. QED
      BY <2>2, <3>2 DEF ListQueues
  <2>3. CASE ChooseQueue(f, q)
    BY <2>3 DEF ChooseQueue
  <2>4. CASE Confirm(f) \/ Answered(f)
    BY <2>4 DEF Confirm, Answered
  <2>5. QED
    BY <2>1, <2>2, <2>3, <2>4
<1>2. Picked'
  BY DEF Picked, Click, ListQueues, ChooseQueue, Confirm, Answered
<1>3. /\ UNCHANGED <<place, movedBy, kind>>
      /\ \A g \in Flows : g # f => /\ flowAt'[g] = flowAt[g]
                                   /\ checkedValues'[g] = checkedValues[g]
                                   /\ offered'[g] = offered[g]
                                   /\ selectedQueue'[g] = selectedQueue[g]
      /\ flowAt[f] \in {"answered"} \union Ended
           => /\ flowAt'[f] \in Ended
              /\ UNCHANGED <<checkedValues, offered, selectedQueue>>
  BY DEF Click, ListQueues, ChooseQueue, Confirm, Answered
<1>4. ASSUME NEW m \in Messages, NEW g \in movedBy[m]
      PROVE  /\ flowAt'[g] \in {"answered"} \union Ended
             /\ checkedValues'[g] = checkedValues[g] /\ offered'[g] = offered[g]
             /\ Destination(g, m)' = Destination(g, m)
  BY <1>3 DEF MovedOnce, Destination
<1>5. MovedOnce'
  BY <1>3, <1>4 DEF MovedOnce
<1>6. QED
  BY <1>1, <1>2, <1>5

LEMMA DeadLetterStepInv == DeadLetterInv /\ [DeadLetterNext]_deadLetterVars => DeadLetterInv'
<1> SUFFICES ASSUME DeadLetterInv, [DeadLetterNext]_deadLetterVars
             PROVE  DeadLetterInv'
  OBVIOUS
<1>1. CASE \E f \in Flows : CallService(f)
  BY <1>1, CallServiceKeepsInv
<1>2. CASE \E f \in Flows : Click(f) \/ Confirm(f) \/ ListQueues(f) \/ Answered(f)
  BY <1>2, ChoicesKeepInv
<1>3. CASE \E f \in Flows, q \in Destinations \union {"nameless"} : ChooseQueue(f, q)
  BY <1>3, ChoicesKeepInv
<1>4. CASE (\E m \in Messages : Tick(m)) \/ (\E q \in liveQueues : RemoveQueue(q))
            \/ UNCHANGED deadLetterVars
  BY <1>4 DEF Tick, RemoveQueue, deadLetterVars, flow, DeadLetterInv, FlowTypeOK, PageTypeOK,
              Picked, MovedOnce, Destination
<1>5. QED
  BY <1>1, <1>2, <1>3, <1>4 DEF DeadLetterNext, FlowStep

(* Whatever flows are confirmed on lists of whatever age, a message of the *)
(* dead letter channel is moved by one flow at most, one that had it       *)
(* ticked, and lies where that flow sends it.                              *)
THEOREM MessagesMoveOnce == DeadLetterSpec => []DeadLettersMoveOnce
<1>1. DeadLetterSpec => []DeadLetterInv
  BY DeadLetterInitInv, DeadLetterStepInv, PTL DEF DeadLetterSpec
<1>2. QED
  BY <1>1, DeadLetterInvSuffices, PTL
=============================================================================
