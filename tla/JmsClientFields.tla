--------------------------- MODULE JmsClientFields ---------------------------
(***************************************************************************)
(* sendMessage and browseQueue of QueueManagerServiceImpl, the one object  *)
(* behind the queue manager service.  Each call builds a chain of its own, *)
(* properties, naming context, connection, session and sender or browser,  *)
(* but hands it from step to step through the fields of that object:       *)
(*                                                                         *)
(*   field.properties, field.connection, field.session, field.sender,      *)
(*   field.browser                                                         *)
(*                                                                         *)
(* Every read and every assignment of a field is an action of its own; a   *)
(* call that assigns nothing is one step with the read of its receiver.  A *)
(* call makes at most one object of each sort, so an object is named by    *)
(* the call that made it.                                                  *)
(*                                                                         *)
(* What a message holds is left out.  Of the properties only the URL and   *)
(* the queue differ between callers; a table that still lacks one of the   *)
(* others makes its reader fail, as any reader may.                        *)
(***************************************************************************)
EXTENDS Naturals

CONSTANTS
  Calls,        (* the calls of sendMessage and browseQueue ever made      *)
  NoCall,       (* a null field                                            *)
  Queues,       (* queue names                                             *)
  Users,        (* users on whose behalf calls are made                    *)
  NoUser,       (* a property table without a connection URL               *)
  MaxMessages   (* bound on numberOfMessages                               *)

ASSUME JmsAssumption ==
  /\ NoCall \notin Calls
  /\ NoUser \notin Users
  /\ Queues # {}
  /\ Users # {}
  /\ MaxMessages \in Nat

VARIABLES
  request,    (* request[c]: the arguments of call c                       *)
  pc,         (* pc[c]: the next field access of call c                    *)
  outcome,    (* outcome[c]: how the try block of c, then c itself, ended  *)
  field,      (* the shared fields                                         *)
  receiver,   (* receiver[c]: the object c has read and is calling now     *)
  context,    (* context[c]: what the InitialContext of c was given        *)
  connection, (* connection[c]: the user of the connection c opened        *)
  session,    (* session[c]: the connection of the session c made          *)
  client,     (* client[c]: the session of the sender or browser c made    *)
  progress,   (* progress[c]: the messages c has sent                      *)
  (* history variables *)
  served,     (* every send and browse, with the queue and user it reached *)
  beside,     (* the pairs of calls that overlapped                        *)
  unclosed    (* calls whose queueConnection.close() threw                 *)

callVars == <<pc, outcome, receiver, context, progress>>
objectVars == <<field, connection, session, client>>
historyVars == <<served, beside, unclosed>>
jmsVars == <<request, callVars, objectVars, historyVars>>

-----------------------------------------------------------------------------

Requests ==
  [op : {"send"}, queue : Queues, user : Users, count : 0..MaxMessages]
    \union [op : {"browse"}, queue : Queues, user : Users, count : {0}]

(* The Properties object made by a call, and the URL and queues put in it. *)
Tables == [by : Calls \union {NoCall}, user : Users \union {NoUser}, queues : SUBSET Queues]

NewTable(c) == [by |-> c, user |-> NoUser, queues |-> {}]

(* getQueue, then the try block, then the finally block.                   *)
Getting == {"new", "url", "putUrl", "queue", "context", "connect", "lookup"}
Trying == {"session", "makeSession", "client", "makeClient", "start", "text", "work"}
Closing == {"closeConnection", "closeSession", "closeClient"}
Running == Getting \union Trying \union Closing

Handle == Calls \union {NoCall}

JmsTypeOK ==
  /\ request \in [Calls -> Requests]
  /\ pc \in [Calls -> Running \union {"idle", "done"}]
  /\ outcome \in [Calls -> {"none", "ok", "error"}]
  /\ field \in [properties : Tables, connection : Handle, session : Handle,
                sender : Handle, browser : Handle]
  /\ receiver \in [Calls -> Handle]
  /\ context \in [Calls -> Tables]
  /\ connection \in [Calls -> Users \union {NoUser}]
  /\ session \in [Calls -> Handle]
  /\ client \in [Calls -> Handle]
  /\ progress \in [Calls -> Nat]
  /\ served \subseteq [by : Calls, queue : Queues, user : Users]
  /\ beside \subseteq Calls \X Calls
  /\ unclosed \subseteq Calls

JmsInit ==
  /\ request \in [Calls -> Requests]
  /\ pc = [c \in Calls |-> "idle"]
  /\ outcome = [c \in Calls |-> "none"]
  /\ field = [properties |-> NewTable(NoCall), connection |-> NoCall,
              session |-> NoCall, sender |-> NoCall, browser |-> NoCall]
  /\ receiver = [c \in Calls |-> NoCall]
  /\ context = [c \in Calls |-> NewTable(NoCall)]
  /\ connection = [c \in Calls |-> NoUser]
  /\ session = [c \in Calls |-> NoCall]
  /\ client = [c \in Calls |-> NoCall]
  /\ progress = [c \in Calls |-> 0]
  /\ served = {}
  /\ beside = {}
  /\ unclosed = {}

-----------------------------------------------------------------------------
(* The JMS client.  Closing a connection closes its sessions, closing a    *)
(* session its senders and browsers; what is closed refuses to work.       *)

ConnectionOpen(k) == k # NoCall /\ connection[k] # NoUser

SessionOpen(k) == k # NoCall /\ session[k] # NoCall

ClientOpen(k) == k # NoCall /\ client[k] # NoCall

CloseClients(ks) == client' = [k \in Calls |-> IF k \in ks THEN NoCall ELSE client[k]]

CloseSessions(ks) ==
  /\ session' = [k \in Calls |-> IF k \in ks THEN NoCall ELSE session[k]]
  /\ CloseClients({k \in Calls : client[k] \in ks})

CloseConnections(ks) ==
  /\ connection' = [k \in Calls |-> IF k \in ks THEN NoUser ELSE connection[k]]
  /\ CloseSessions({k \in Calls : session[k] \in ks})

-----------------------------------------------------------------------------
(* Steps of getQueue.                                                      *)

Goto(c, phase) == pc' = [pc EXCEPT ![c] = phase]

Active == {c \in Calls : pc[c] \in Running}

Begin(c) ==
  /\ pc[c] = "idle"
  /\ Goto(c, "new")
  /\ beside' = beside \union ({c} \X Active) \union (Active \X {c})
  /\ UNCHANGED <<request, outcome, receiver, context, progress, objectVars,
                 served, unclosed>>

NewProperties(c) ==
  /\ pc[c] = "new"
  /\ Goto(c, "url")
  /\ field' = [field EXCEPT !.properties = NewTable(c)]
  /\ UNCHANGED <<request, outcome, receiver, context, progress, connection, session,
                 client, historyVars>>

(* The field is read before getTCPConnectionURL reads the configuration    *)
(* files that the URL is made of.                                          *)
ReadUrl(c) ==
  /\ pc[c] = "url"
  /\ Goto(c, "putUrl")
  /\ receiver' = [receiver EXCEPT ![c] = field.properties.by]
  /\ UNCHANGED <<request, outcome, context, progress, objectVars, historyVars>>

(* A table that was replaced meanwhile is put to, but never read again.    *)
PutUrl(c) ==
  /\ pc[c] = "putUrl"
  /\ Goto(c, "queue")
  /\ receiver' = [receiver EXCEPT ![c] = NoCall]
  /\ field' = IF field.properties.by = receiver[c]
                THEN [field EXCEPT !.properties.user = request[c].user]
                ELSE field
  /\ UNCHANGED <<request, outcome, context, progress, connection, session, client,
                 historyVars>>

PutQueue(c) ==
  /\ pc[c] = "queue"
  /\ Goto(c, "context")
  /\ field' = [field EXCEPT !.properties.queues = @ \union {request[c].queue}]
  /\ UNCHANGED <<request, outcome, receiver, context, progress, connection, session,
                 client, historyVars>>

(* The naming context copies the table that it is given.                   *)
MakeContext(c) ==
  /\ pc[c] = "context"
  /\ Goto(c, "connect")
  /\ context' = [context EXCEPT ![c] = field.properties]
  /\ UNCHANGED <<request, outcome, receiver, progress, objectVars, historyVars>>

(* Mutant: a connection that is still open is used again.                  *)
ConnectUnlessOpen(c) ==
  /\ pc[c] = "connect"
  /\ context[c].user # NoUser
  /\ Goto(c, "lookup")
  /\ IF ConnectionOpen(field.connection)
       THEN UNCHANGED <<connection, field>>
       ELSE /\ connection' = [connection EXCEPT ![c] = context[c].user]
            /\ field' = [field EXCEPT !.connection = c]
  /\ UNCHANGED <<request, outcome, receiver, context, progress, session, client,
                 historyVars>>

Connect(c) ==
  /\ pc[c] = "connect"
  /\ context[c].user # NoUser
  /\ Goto(c, "lookup")
  /\ connection' = [connection EXCEPT ![c] = context[c].user]
  /\ field' = [field EXCEPT !.connection = c]
  /\ UNCHANGED <<request, outcome, receiver, context, progress, session, client,
                 historyVars>>

LookupQueue(c) ==
  /\ pc[c] = "lookup"
  /\ request[c].queue \in context[c].queues
  /\ Goto(c, "session")
  /\ UNCHANGED <<request, outcome, receiver, context, progress, objectVars, historyVars>>

-----------------------------------------------------------------------------
(* Steps of the try block.                                                 *)

ReadConnection(c) ==
  /\ pc[c] = "session"
  /\ Goto(c, "makeSession")
  /\ receiver' = [receiver EXCEPT ![c] = field.connection]
  /\ UNCHANGED <<request, outcome, context, progress, objectVars, historyVars>>

CreateSession(c) ==
  /\ pc[c] = "makeSession"
  /\ ConnectionOpen(receiver[c])
  /\ Goto(c, "client")
  /\ session' = [session EXCEPT ![c] = receiver[c]]
  /\ field' = [field EXCEPT !.session = c]
  /\ UNCHANGED <<request, outcome, receiver, context, progress, connection, client,
                 historyVars>>

ReadSession(c) ==
  /\ pc[c] = "client"
  /\ Goto(c, "makeClient")
  /\ receiver' = [receiver EXCEPT ![c] = field.session]
  /\ UNCHANGED <<request, outcome, context, progress, objectVars, historyVars>>

(* The field of the sender or browser that c uses.                         *)
ClientField(c) == IF request[c].op = "send" THEN field.sender ELSE field.browser

SetClientField(c) ==
  field' = IF request[c].op = "send" THEN [field EXCEPT !.sender = c]
                                     ELSE [field EXCEPT !.browser = c]

(* Mutant: a sender or browser is made only where the field is null.       *)
CreateClientOnce(c) ==
  /\ pc[c] = "makeClient"
  /\ SessionOpen(receiver[c])
  /\ Goto(c, "start")
  /\ IF ClientField(c) = NoCall
       THEN client' = [client EXCEPT ![c] = receiver[c]] /\ SetClientField(c)
       ELSE UNCHANGED <<client, field>>
  /\ UNCHANGED <<request, outcome, receiver, context, progress, connection, session,
                 historyVars>>

CreateClient(c) ==
  /\ pc[c] = "makeClient"
  /\ SessionOpen(receiver[c])
  /\ Goto(c, "start")
  /\ client' = [client EXCEPT ![c] = receiver[c]]
  /\ SetClientField(c)
  /\ UNCHANGED <<request, outcome, receiver, context, progress, connection, session,
                 historyVars>>

StartConnection(c) ==
  /\ pc[c] = "start"
  /\ ConnectionOpen(field.connection)
  /\ Goto(c, IF request[c].op = "send" THEN "text" ELSE "work")
  /\ UNCHANGED <<request, outcome, receiver, context, progress, objectVars, historyVars>>

CreateText(c) ==
  /\ pc[c] = "text"
  /\ SessionOpen(field.session)
  /\ Goto(c, "work")
  /\ UNCHANGED <<request, outcome, receiver, context, progress, objectVars, historyVars>>

(* The queue that client k was made for, in the name of the user whose     *)
(* connection it runs over.                                                *)
Serve(c, k) ==
  /\ ClientOpen(k)
  /\ served' = served \union {[by |-> c, queue |-> request[k].queue,
                               user |-> connection[session[client[k]]]]}

SendOne(c) ==
  /\ pc[c] = "work"
  /\ request[c].op = "send"
  /\ progress[c] < request[c].count
  /\ Serve(c, field.sender)
  /\ progress' = [progress EXCEPT ![c] = @ + 1]
  /\ UNCHANGED <<request, pc, outcome, receiver, context, objectVars, beside, unclosed>>

(* Mutant: phase and outcome swapped.                                      *)
LeaveTrySwapped(c, how) ==
  /\ Goto(c, how)
  /\ outcome' = [outcome EXCEPT ![c] = "closeConnection"]
  /\ UNCHANGED <<request, receiver, context, progress, objectVars, beside, unclosed>>

LeaveTry(c, how) ==
  /\ Goto(c, "closeConnection")
  /\ outcome' = [outcome EXCEPT ![c] = how]
  /\ UNCHANGED <<request, receiver, context, progress, objectVars, beside, unclosed>>

(* Mutant: the last message is left out.                                   *)
AllButOneSent(c) ==
  /\ pc[c] = "work"
  /\ request[c].op = "send"
  /\ progress[c] + 1 >= request[c].count
  /\ LeaveTry(c, "ok")
  /\ UNCHANGED served

AllSent(c) ==
  /\ pc[c] = "work"
  /\ request[c].op = "send"
  /\ progress[c] >= request[c].count
  /\ LeaveTry(c, "ok")
  /\ UNCHANGED served

(* The messages are listed; a startingIndex beyond the batch size then     *)
(* makes the call fail.                                                    *)
Browse(c) ==
  /\ pc[c] = "work"
  /\ request[c].op = "browse"
  /\ Serve(c, field.browser)
  /\ \E how \in {"ok", "error"} : LeaveTry(c, how)

MayThrow == {"url", "context", "connect", "lookup"} \union Trying

(* Mutant: an exception leaves the call without the finally block.         *)
TryFailsAtOnce(c) ==
  /\ pc[c] \in MayThrow
  /\ Goto(c, "done")
  /\ outcome' = [outcome EXCEPT ![c] = "error"]
  /\ UNCHANGED <<request, receiver, context, progress, objectVars, historyVars>>

(* Any call of a library may throw, and must where the object is closed,   *)
(* the context lacks a name or the field is null.                          *)
TryFails(c) ==
  /\ pc[c] \in MayThrow
  /\ LeaveTry(c, "error")
  /\ UNCHANGED served

-----------------------------------------------------------------------------
(* Steps of the finally block, on whatever the fields hold by then.        *)

(* Mutant: the connection is left open.                                    *)
SkipConnection(c) ==
  /\ pc[c] = "closeConnection"
  /\ Goto(c, "closeSession")
  /\ UNCHANGED <<request, outcome, receiver, context, progress, objectVars, historyVars>>

CloseConnection(c) ==
  /\ pc[c] = "closeConnection"
  /\ field.connection # NoCall
  /\ Goto(c, "closeSession")
  /\ CloseConnections({field.connection})
  /\ UNCHANGED <<request, outcome, receiver, context, progress, field, historyVars>>

CloseSession(c) ==
  /\ pc[c] = "closeSession"
  /\ field.session # NoCall
  /\ Goto(c, "closeClient")
  /\ CloseSessions({field.session})
  /\ UNCHANGED <<request, outcome, receiver, context, progress, field, connection,
                 historyVars>>

CloseClient(c) ==
  /\ pc[c] = "closeClient"
  /\ ClientField(c) # NoCall
  /\ Goto(c, "done")
  /\ CloseClients({ClientField(c)})
  /\ UNCHANGED <<request, outcome, receiver, context, progress, field, connection,
                 session, historyVars>>

(* A null field or a close that throws ends the call: what follows is not  *)
(* closed, and the outcome of the try block is lost.                       *)
CloseFails(c) ==
  /\ pc[c] \in Closing
  /\ Goto(c, "done")
  /\ outcome' = [outcome EXCEPT ![c] = "error"]
  /\ unclosed' = IF pc[c] = "closeConnection" THEN unclosed \union {c} ELSE unclosed
  /\ UNCHANGED <<request, receiver, context, progress, objectVars, served, beside>>

-----------------------------------------------------------------------------

GetQueueStep(c) ==
  \/ NewProperties(c) \/ ReadUrl(c) \/ PutUrl(c) \/ PutQueue(c)
  \/ MakeContext(c) \/ Connect(c) \/ LookupQueue(c)

TryStep(c) ==
  \/ ReadConnection(c) \/ CreateSession(c) \/ ReadSession(c) \/ CreateClient(c)
  \/ StartConnection(c) \/ CreateText(c)
  \/ SendOne(c) \/ AllSent(c) \/ Browse(c) \/ TryFails(c)

FinallyStep(c) ==
  CloseConnection(c) \/ CloseSession(c) \/ CloseClient(c) \/ CloseFails(c)

JmsNext ==
  \E c \in Calls : Begin(c) \/ GetQueueStep(c) \/ TryStep(c) \/ FinallyStep(c)

JmsSpec == JmsInit /\ [][JmsNext]_jmsVars

-----------------------------------------------------------------------------
(* Properties.                                                             *)

Ended(c) == pc[c] = "done"

Alone(c) == \A d \in Calls : <<c, d>> \notin beside

(* A message is sent to the queue that the caller gave (the admin service  *)
(* documents sendMessage as "Send messages to given queue").               *)
MessagesToGivenQueue ==
  \A s \in served : request[s.by].op = "send" => s.queue = request[s.by].queue

(* A field can be overwritten between its assignment and its use, but only *)
(* by a call that is under way: what sendMessage sends reaches the queue   *)
(* of a send, and what browseQueue lists the queue of a browse, that       *)
(* overlaps it, never the queue of a call that was over before it began.   *)
StraysStayBeside ==
  \A s \in served : \E k \in Calls :
    /\ request[k].op = request[s.by].op
    /\ request[k].queue = s.queue
    /\ k = s.by \/ <<s.by, k>> \in beside

(* Whatever earlier calls left in the fields, a call of sendMessage or     *)
(* browseQueue that overlaps no other one serves the queue it was given,   *)
(* in the name of its own user.                                            *)
LoneCallServesCaller ==
  \A s \in served :
    Alone(s.by) => s.queue = request[s.by].queue /\ s.user = request[s.by].user

(* sendMessage answers true only if every message was sent.                *)
SuccessMeansSent ==
  \A c \in Calls :
    Ended(c) /\ outcome[c] = "ok" /\ request[c].op = "send"
      => progress[c] = request[c].count

(* A connection outlives the call that opened it only if another call      *)
(* replaced the field, or closing it failed.                               *)
LoneCallClosesConnection ==
  \A c \in Calls :
    Ended(c) /\ Alone(c) /\ c \notin unclosed => ~ConnectionOpen(c)

(* When no call is under way, the connection in the field is closed,       *)
(* unless closing it failed: at most the overwritten ones are lost.        *)
IdleConnectionClosed ==
  Active = {} =>
    \/ field.connection \in unclosed
    \/ ~ConnectionOpen(field.connection)

-----------------------------------------------------------------------------
(* The inductive invariant behind these properties.                        *)

(* An open session or client stands on an open connection or session.      *)
ObjectsChained ==
  \A k \in Calls :
    /\ SessionOpen(k) => ConnectionOpen(session[k])
    /\ ClientOpen(k) => SessionOpen(client[k])

ActiveBeside ==
  \A c, d \in Calls : c # d /\ c \in Active /\ d \in Active => <<c, d>> \in beside

(* Each client field holds an object of its sort, the own one or that of   *)
(* a call beside.                                                          *)
ClientFieldBeside ==
  /\ field.sender \in Calls => request[field.sender].op = "send"
  /\ field.browser \in Calls => request[field.browser].op = "browse"
  /\ \A c \in Calls : pc[c] \in {"start", "text", "work"} =>
       /\ ClientField(c) \in Calls
       /\ ClientField(c) = c \/ <<c, ClientField(c)>> \in beside

(* Phases of a call that has a session, or has opened a connection.        *)
WithSession == {"client", "makeClient", "start", "text", "work"}
Connected == {"lookup", "session", "makeSession"} \union WithSession

(* What a call without overlap has put into a field is still there.        *)
LoneTable ==
  \A c \in Calls : Alone(c) =>
    /\ pc[c] \in {"url", "putUrl", "queue", "context"} => field.properties.by = c
    /\ pc[c] = "putUrl" => receiver[c] = c
    /\ pc[c] \in {"queue", "context"} => field.properties.user = request[c].user
    /\ pc[c] = "connect" => context[c].user = request[c].user

LoneConnection ==
  \A c \in Calls : Alone(c) =>
    /\ pc[c] \in Connected => field.connection = c /\ connection[c] = request[c].user
    /\ pc[c] \in {"makeSession", "makeClient"} => receiver[c] = c
    /\ pc[c] \in WithSession => field.session = c /\ session[c] = c
    /\ pc[c] \in {"start", "text", "work"} => ClientField(c) = c /\ client[c] = c

(* A connection is open from Connect to the close of whoever finds it.     *)
ConnectionEnds ==
  \A c \in Calls :
    /\ pc[c] \in {"idle"} \union (Getting \ {"lookup"}) => connection[c] = NoUser
    /\ Alone(c) /\ pc[c] = "closeConnection" =>
         connection[c] = NoUser \/ field.connection = c
    /\ Alone(c) /\ pc[c] \in {"closeSession", "closeClient", "done"} /\ c \notin unclosed =>
         connection[c] = NoUser

(* The call whose connection is in the field has still to close it.        *)
LastConnection ==
  ConnectionOpen(field.connection) =>
    \/ pc[field.connection] \in Connected \union {"closeConnection"}
    \/ field.connection \in unclosed

Sent ==
  \A c \in Calls :
    /\ progress[c] <= request[c].count
    /\ outcome[c] = "ok" => pc[c] \in Closing \union {"done"}
    /\ outcome[c] = "ok" /\ request[c].op = "send" => progress[c] = request[c].count

JmsInv ==
  /\ JmsTypeOK
  /\ ObjectsChained
  /\ ActiveBeside
  /\ ClientFieldBeside
  /\ StraysStayBeside
  /\ LoneTable
  /\ LoneConnection
  /\ LoneCallServesCaller
  /\ ConnectionEnds
  /\ LastConnection
  /\ Sent

=============================================================================
