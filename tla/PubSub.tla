------------------------------- MODULE PubSub -------------------------------
(***************************************************************************)
(* The event channels of a jsPDF document: subscribe, unsubscribe and      *)
(* publish, with listeners that call all three while they run.  JavaScript *)
(* has one thread, so the only interleaving is the one of the call stack:  *)
(* a frame of publish is suspended while the listener it called runs.      *)
(***************************************************************************)
EXTENDS Naturals, Sequences, FiniteSets, SequencesExt

CONSTANTS
  Topics,        \* names of channels
  Callbacks,     \* functions that are subscribed
  EmptyFunc,     \* the function a listener that has run once becomes
  MaxListeners,  \* bound: subscriptions ever made
  MaxPublish,    \* bound: events ever published
  MaxDepth       \* bound: publishes nested in each other

ASSUME PubSubAssumption ==
  /\ EmptyFunc \notin Callbacks
  /\ {MaxListeners, MaxPublish, MaxDepth} \subseteq Nat \ {0}

VARIABLES
  topics,     \* this.topics: a topic nobody subscribed to is an empty list
  frames,     \* the calls of publish on the stack, the innermost last
  tokens,     \* what subscribe has returned, in order
  published,  \* events published
  ran,        \* history: how often the listener of each token has run
  dropped     \* history: tokens whose callback was unsubscribed

pubSubVars == <<topics, frames, tokens, published, ran, dropped>>

Ids == 1 .. MaxListeners

(* A subscription: the pair [function, once_flag], and the number of the   *)
(* token that subscribe returned for it.                                   *)
Pair == [fn : Callbacks \cup {EmptyFunc}, once : BOOLEAN, id : Ids]

(* A call of publish: its topic, its loop index and bound, the indices it  *)
(* will remove.  `present` and `reached` are history: the listeners there  *)
(* were when it began, and those it has called; `quiet` says no other call *)
(* has taken anything from its list since.                                 *)
Frame == [topic : Topics, i : Nat, l : Nat, toremove : Seq(Nat),
          present : SUBSET Ids, reached : SUBSET Ids, quiet : BOOLEAN]

Token == [topic : Topics, callback : Callbacks, once : BOOLEAN]

PubSubTypeOK ==
  /\ topics \in [Topics -> Seq(Pair)]
  /\ frames \in Seq(Frame) /\ Len(frames) <= MaxDepth
  /\ tokens \in Seq(Token) /\ Len(tokens) <= MaxListeners
  /\ published \in 0 .. MaxPublish
  /\ ran \in [Ids -> Nat]
  /\ dropped \subseteq Ids

PubSubInit ==
  /\ topics = [t \in Topics |-> <<>>]
  /\ frames = <<>> /\ tokens = <<>> /\ published = 0
  /\ ran = [n \in Ids |-> 0] /\ dropped = {}

-----------------------------------------------------------------------------
Held(t) == {topics[t][j].id : j \in DOMAIN topics[t]}

(* Note in the frames under way on topic t that its list lost entries.     *)
Disturbed(fs, t) ==
  [j \in DOMAIN fs |->
     IF fs[j].topic = t THEN [fs[j] EXCEPT !.quiet = FALSE] ELSE fs[j]]

(* An uncaught TypeError ends every call on the stack.                     *)
TypeErrorThrown == frames' = <<>>

(* subscribe, by the program or by a listener that is running.             *)
Subscribe(t, f, once) ==
  /\ Len(tokens) < MaxListeners
  /\ tokens' = Append(tokens, [topic |-> t, callback |-> f, once |-> once])
  /\ topics' = [topics EXCEPT
       ![t] = Append(@, [fn |-> f, once |-> once, id |-> Len(tokens) + 1])]
  /\ UNCHANGED <<frames, published, ran, dropped>>

(* unsubscribe's loop over the list, whose bound l is read before the      *)
(* first removal: state after the step i, with the list as it stands.  It  *)
(* throws when i runs past the end of a list that got shorter.             *)
RemovalLoop(list, f) ==
  LET l == Len(list)
      step[i \in 0 .. l] ==
        IF i = 0 THEN [list |-> list, threw |-> FALSE]
        ELSE LET s == step[i - 1]
             IN  IF s.threw \/ i > Len(s.list)
                 THEN [s EXCEPT !.threw = TRUE]
                 ELSE IF s.list[i].fn = f
                      THEN [s EXCEPT !.list = RemoveAt(@, i)]
                      ELSE s
  IN  step[l]

(* unsubscribe with the token n.                                           *)
Unsubscribe(n) ==
  LET t == tokens[n].topic
      r == RemovalLoop(topics[t], tokens[n].callback)
      fs == IF r.list = topics[t] THEN frames ELSE Disturbed(frames, t)
  IN  /\ n \in DOMAIN tokens /\ n \notin dropped
      /\ topics' = [topics EXCEPT ![t] = r.list]
      /\ dropped' = dropped \cup
           {j \in DOMAIN tokens : tokens[j].topic = t
                                  /\ tokens[j].callback = tokens[n].callback}
      /\ IF r.threw THEN TypeErrorThrown ELSE frames' = fs
      /\ UNCHANGED <<tokens, published, ran>>

(* publish begins: the bound of its loop is the length of the list now.    *)
Publish(t) ==
  /\ published < MaxPublish /\ Len(frames) < MaxDepth
  /\ topics[t] # <<>>
  /\ published' = published + 1
  /\ frames' = Append(frames,
       [topic |-> t, i |-> 1, l |-> Len(topics[t]), toremove |-> <<>>,
        present |-> Held(t), reached |-> {}, quiet |-> TRUE])
  /\ UNCHANGED <<topics, tokens, ran, dropped>>

(* Mutant: a listener that is to run once stays in place till the end.   *)
CallListenerKeeps ==
  LET d == Len(frames)
      fr == frames[d]
      pair == topics[fr.topic][fr.i]
  IN  /\ frames # <<>> /\ fr.i <= fr.l
      /\ fr.i <= Len(topics[fr.topic])
      /\ frames' = [frames EXCEPT
           ![d].i = @ + 1, ![d].reached = @ \cup {pair.id},
           ![d].toremove = IF pair.once THEN Append(@, fr.i) ELSE @]
      /\ topics' = IF pair.once
                   THEN [topics EXCEPT ![fr.topic][fr.i].once = FALSE]
                   ELSE topics
      /\ ran' = IF pair.fn = EmptyFunc THEN ran
                  ELSE [ran EXCEPT ![pair.id] = @ + 1]
      /\ UNCHANGED <<tokens, published, dropped>>

(* Mutant: a listener that has run once is removed at once.              *)
CallListenerRemoves ==
  LET d == Len(frames)
      fr == frames[d]
      pair == topics[fr.topic][fr.i]
  IN  /\ frames # <<>> /\ fr.i <= fr.l
      /\ fr.i <= Len(topics[fr.topic])
      /\ frames' = [frames EXCEPT
           ![d].i = @ + 1, ![d].reached = @ \cup {pair.id},
           ![d].toremove = IF pair.once THEN @ ELSE @]
      /\ topics' = IF pair.once
                   THEN [topics EXCEPT ![fr.topic] = RemoveAt(@, fr.i)]
                   ELSE topics
      /\ ran' = IF pair.fn = EmptyFunc THEN ran
                  ELSE [ran EXCEPT ![pair.id] = @ + 1]
      /\ UNCHANGED <<tokens, published, dropped>>

(* One turn of publish's loop: the listener is called; if it was to run    *)
(* once, the empty function takes its place before.  The listener runs     *)
(* until the next turn of this frame; what it does meanwhile are the other *)
(* actions.                                                                *)
CallListener ==
  LET d == Len(frames)
      fr == frames[d]
      pair == topics[fr.topic][fr.i]
  IN  /\ frames # <<>> /\ fr.i <= fr.l
      /\ fr.i <= Len(topics[fr.topic])
      /\ frames' = [frames EXCEPT
           ![d].i = @ + 1, ![d].reached = @ \cup {pair.id},
           ![d].toremove = IF pair.once THEN Append(@, fr.i) ELSE @]
      /\ topics' = IF pair.once
                   THEN [topics EXCEPT ![fr.topic][fr.i].fn = EmptyFunc]
                   ELSE topics
      /\ ran' = IF pair.fn = EmptyFunc THEN ran
                  ELSE [ran EXCEPT ![pair.id] = @ + 1]
      /\ UNCHANGED <<tokens, published, dropped>>

(* The list became shorter than the loop's bound while a listener ran:     *)
(* currentTopic[i] is undefined and pair[0] throws.                        *)
CallPastEnd ==
  LET fr == Last(frames)
  IN  /\ frames # <<>> /\ fr.i <= fr.l
      /\ fr.i > Len(topics[fr.topic])
      /\ TypeErrorThrown
      /\ UNCHANGED <<topics, tokens, published, ran, dropped>>

(* The list after splice(index, 1) for each index in turn, none adjusted   *)
(* for the removals before it; a splice past the end removes nothing.      *)
Spliced(list, indices) ==
  LET after[n \in 0 .. Len(indices)] ==
        IF n = 0 THEN list
        ELSE LET s == after[n - 1]
             IN  IF indices[n] \in DOMAIN s THEN RemoveAt(s, indices[n]) ELSE s
  IN  after[Len(indices)]

(* The loop ends: the listeners that ran once are removed.                 *)
PublishEnds ==
  LET fr == Last(frames)
      rest == Front(frames)
  IN  /\ frames # <<>> /\ fr.i > fr.l
      /\ topics' = [topics EXCEPT ![fr.topic] = Spliced(@, fr.toremove)]
      /\ frames' = IF fr.toremove = <<>> THEN rest
                   ELSE Disturbed(rest, fr.topic)
      /\ UNCHANGED <<tokens, published, ran, dropped>>

PubSubNext ==
  \/ \E t \in Topics, f \in Callbacks, o \in BOOLEAN : Subscribe(t, f, o)
  \/ \E n \in DOMAIN tokens : Unsubscribe(n)
  \/ \E t \in Topics : Publish(t)
  \/ CallListener \/ CallPastEnd \/ PublishEnds

PubSubSpec == PubSubInit /\ [][PubSubNext]_pubSubVars

-----------------------------------------------------------------------------
(* A listener subscribed to run once runs at most once, even when it, or   *)
(* another listener of the same event, publishes the same topic again      *)
(* before the list is cleaned up, and even when an error skips the         *)
(* cleaning.                                                               *)
OnceIsOnce ==
  \A n \in DOMAIN tokens : tokens[n].once => ran[n] <= 1

(* No entry is in a channel twice and none is in the wrong one: whatever   *)
(* is removed at a wrong index, the lists stay in the order of subscribing.*)
ListsInOrder ==
  \A t \in Topics : \A j, k \in DOMAIN topics[t] :
    /\ tokens[topics[t][j].id].topic = t
    /\ j < k => topics[t][j].id < topics[t][k].id

(* What a channel promises while listeners change it: a once-listener is   *)
(* called at most once, and the lists keep the order of subscribing.       *)
ListenersInStep ==
  /\ PubSubTypeOK
  /\ OnceIsOnce
  /\ ListsInOrder

(* A publish from whose list nothing was taken while it ran has, when it   *)
(* ends, called every listener there was when it began.                    *)
EveryListenerReached ==
  [][\A d \in DOMAIN frames :
       (frames[d].quiet /\ d \notin DOMAIN frames' /\ PublishEnds)
         => frames[d].present = frames[d].reached]_pubSubVars
=============================================================================
