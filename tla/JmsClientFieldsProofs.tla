------------------------ MODULE JmsClientFieldsProofs ------------------------
(***************************************************************************)
(* Proofs about JmsClientFields, for any sets of calls, queues and users.  *)
(* Two lemmas carry them: a step of one call leaves the locals of the      *)
(* others alone, and a call that overlaps no other one is the only one to  *)
(* take steps while it runs.                                               *)
(***************************************************************************)
EXTENDS JmsClientFields, TLAPS

JmsStep(c) == Begin(c) \/ GetQueueStep(c) \/ TryStep(c) \/ FinallyStep(c)

USE DEF Getting, Trying, Closing, Running, Handle, WithSession, Connected, MayThrow

-----------------------------------------------------------------------------
(* Typing.                                                                 *)

(* The steps of getQueue keep the types.                                   *)
LEMMA GetQueueTypes ==
  ASSUME JmsTypeOK, NEW c \in Calls, Begin(c) \/ GetQueueStep(c)
  PROVE  JmsTypeOK'
<1> USE DEF callVars, objectVars, historyVars
<1>1. CASE Begin(c)
  BY <1>1 DEF JmsTypeOK, Begin, Goto, Active
<1>2. CASE NewProperties(c)
  BY <1>2 DEF JmsTypeOK, NewProperties, Goto, NewTable, Tables
<1>3. CASE ReadUrl(c)
  BY <1>3 DEF JmsTypeOK, ReadUrl, Goto, Tables
<1>4. CASE PutUrl(c)
  <2>1. request[c].user \in Users
    BY DEF JmsTypeOK, Requests
  <2>2. QED
    BY <1>4, <2>1 DEF JmsTypeOK, PutUrl, Goto, Tables
<1>5. CASE PutQueue(c)
  <2>1. request[c].queue \in Queues
    BY DEF JmsTypeOK, Requests
  <2>2. QED
    BY <1>5, <2>1 DEF JmsTypeOK, PutQueue, Goto, Tables
<1>6. CASE MakeContext(c)
  BY <1>6 DEF JmsTypeOK, MakeContext, Goto
<1>7. CASE Connect(c)
  <2>1. context[c].user \in Users \union {NoUser}
    BY DEF JmsTypeOK, Tables
  <2>2. QED
    BY <1>7, <2>1 DEF JmsTypeOK, Connect, Goto
<1>8. CASE LookupQueue(c)
  BY <1>8 DEF JmsTypeOK, LookupQueue, Goto
<1>9. QED
  BY <1>1, <1>2, <1>3, <1>4, <1>5, <1>6, <1>7, <1>8 DEF GetQueueStep

(* What is served is a queue, in the name of a user: an open client stands *)
(* on an open connection.                                                  *)
LEMMA ServeTypes ==
  ASSUME JmsTypeOK, ObjectsChained, NEW c \in Calls, NEW k \in Calls \union {NoCall},
         Serve(c, k)
  PROVE  /\ k \in Calls
         /\ served' \subseteq [by : Calls, queue : Queues, user : Users]
<1>1. k \in Calls /\ k # NoCall /\ client[k] # NoCall
  BY DEF Serve, ClientOpen
<1>2. client[k] \in Calls /\ SessionOpen(client[k])
  BY <1>1, Zenon DEF JmsTypeOK, ObjectsChained, ClientOpen
<1>3. session[client[k]] \in Calls /\ ConnectionOpen(session[client[k]])
  BY <1>2 DEF JmsTypeOK, ObjectsChained, SessionOpen
<1>4. connection[session[client[k]]] \in Users
  BY <1>3 DEF JmsTypeOK, ConnectionOpen
<1>5. request[k].queue \in Queues
  BY <1>1 DEF JmsTypeOK, Requests
<1>6. QED
  BY <1>1, <1>4, <1>5 DEF JmsTypeOK, Serve

(* The steps of the try block keep the types.                              *)
LEMMA TryTypes ==
  ASSUME JmsTypeOK, ObjectsChained, NEW c \in Calls, TryStep(c)
  PROVE  JmsTypeOK'
<1> USE DEF callVars, objectVars, historyVars
<1>1. CASE CreateSession(c)
  BY <1>1 DEF JmsTypeOK, CreateSession, Goto
<1>2. CASE CreateClient(c)
  BY <1>2 DEF JmsTypeOK, CreateClient, SetClientField, Goto
<1>3. CASE ReadConnection(c) \/ ReadSession(c) \/ StartConnection(c) \/ CreateText(c)
  BY <1>3 DEF JmsTypeOK, ReadConnection, ReadSession, StartConnection, CreateText, Goto
<1>4. CASE SendOne(c)
  <2>1. Serve(c, field.sender) /\ field.sender \in Calls \union {NoCall}
    BY <1>4 DEF JmsTypeOK, SendOne
  <2>2. served' \subseteq [by : Calls, queue : Queues, user : Users]
    BY <2>1, ServeTypes
  <2>3. QED
    BY <1>4, <2>2 DEF JmsTypeOK, SendOne
<1>5. CASE AllSent(c) \/ TryFails(c)
  BY <1>5 DEF JmsTypeOK, AllSent, TryFails, LeaveTry, Goto
<1>6. CASE Browse(c)
  <2>1. Serve(c, field.browser) /\ field.browser \in Calls \union {NoCall}
    BY <1>6 DEF JmsTypeOK, Browse
  <2>2. served' \subseteq [by : Calls, queue : Queues, user : Users]
    BY <2>1, ServeTypes
  <2>3. QED
    BY <1>6, <2>2 DEF JmsTypeOK, Browse, LeaveTry, Goto
<1>7. QED
  BY <1>1, <1>2, <1>3, <1>4, <1>5, <1>6 DEF TryStep

(* The steps of the finally block keep the types.                          *)
LEMMA FinallyTypes ==
  ASSUME JmsTypeOK, NEW c \in Calls, FinallyStep(c)
  PROVE  JmsTypeOK'
<1> USE DEF callVars, objectVars, historyVars
<1>1. CASE CloseConnection(c)
  BY <1>1 DEF JmsTypeOK, CloseConnection, CloseConnections, CloseSessions, CloseClients, Goto
<1>2. CASE CloseSession(c)
  BY <1>2 DEF JmsTypeOK, CloseSession, CloseSessions, CloseClients, Goto
<1>3. CASE CloseClient(c)
  BY <1>3 DEF JmsTypeOK, CloseClient, CloseClients, Goto
<1>4. CASE CloseFails(c)
  BY <1>4 DEF JmsTypeOK, CloseFails, Goto
<1>5. QED
  BY <1>1, <1>2, <1>3, <1>4 DEF FinallyStep

-----------------------------------------------------------------------------
(* What a step of one call means to the others.                            *)

(* A step touches the locals of its own call only; of the objects of the   *)
(* others it can only close the connection.  Histories grow.               *)
LEMMA StepFrame ==
  ASSUME JmsTypeOK, NEW c \in Calls, JmsStep(c)
  PROVE  /\ request' = request
         /\ beside \subseteq beside'
         /\ unclosed \subseteq unclosed'
         /\ \A d \in Calls \ {c} :
              /\ pc'[d] = pc[d]
              /\ outcome'[d] = outcome[d]
              /\ receiver'[d] = receiver[d]
              /\ context'[d] = context[d]
              /\ progress'[d] = progress[d]
              /\ connection'[d] \in {connection[d], NoUser}
<1> USE DEF JmsTypeOK, Goto, callVars, objectVars, historyVars
<1>1. CASE Begin(c)
  BY <1>1 DEF Begin
<1>2. CASE GetQueueStep(c)
  BY <1>2 DEF GetQueueStep, NewProperties, ReadUrl, PutUrl, PutQueue, MakeContext, Connect,
              LookupQueue
<1>3. CASE TryStep(c)
  BY <1>3 DEF TryStep, ReadConnection, CreateSession, ReadSession, CreateClient,
              StartConnection, CreateText, SendOne, AllSent, Browse, TryFails, LeaveTry,
              Serve
<1>4. CASE FinallyStep(c)
  BY <1>4 DEF FinallyStep, CloseConnection, CloseSession, CloseClient, CloseFails,
              CloseConnections, CloseSessions, CloseClients
<1>5. QED
  BY <1>1, <1>2, <1>3, <1>4 DEF JmsStep

(* Only Begin and the steps of a running call are ever taken.              *)
LEMMA StepOfActive ==
  ASSUME JmsTypeOK, NEW c \in Calls, JmsStep(c)
  PROVE  Begin(c) \/ (c \in Active /\ beside' = beside)
<1> USE DEF Active, callVars, objectVars, historyVars
<1>1. CASE GetQueueStep(c)
  BY <1>1 DEF GetQueueStep, NewProperties, ReadUrl, PutUrl, PutQueue, MakeContext, Connect,
              LookupQueue
<1>2. CASE TryStep(c)
  BY <1>2 DEF TryStep, ReadConnection, CreateSession, ReadSession, CreateClient,
              StartConnection, CreateText, SendOne, AllSent, Browse, TryFails, LeaveTry
<1>3. CASE FinallyStep(c)
  BY <1>3 DEF FinallyStep, CloseConnection, CloseSession, CloseClient, CloseFails
<1>4. QED
  BY <1>1, <1>2, <1>3 DEF JmsStep

(* Calls that run at the same time know it: beside is complete.            *)
LEMMA ActiveBesideKept ==
  ASSUME JmsTypeOK, ActiveBeside, NEW c \in Calls, JmsStep(c)
  PROVE  ActiveBeside'
<1>1. \A d \in Calls \ {c} : d \in Active' <=> d \in Active
  BY StepFrame DEF Active
<1>2. CASE Begin(c)
  <2> SUFFICES ASSUME NEW a \in Calls, NEW b \in Calls, a # b, a \in Active', b \in Active'
               PROVE  <<a, b>> \in beside'
    BY DEF ActiveBeside
  <2>1. beside' = beside \union ({c} \X Active) \union (Active \X {c})
    BY <1>2 DEF Begin
  <2>2. CASE a = c
    BY <2>1, <2>2, <1>1
  <2>3. CASE b = c
    BY <2>1, <2>3, <1>1
  <2>4. CASE a # c /\ b # c
    BY <2>1, <2>4, <1>1 DEF ActiveBeside
  <2>5. QED
    BY <2>2, <2>3, <2>4
<1>3. CASE c \in Active /\ beside' = beside
  BY <1>1, <1>3 DEF ActiveBeside
<1>4. QED
  BY <1>2, <1>3, StepOfActive

(* While a call without overlap runs, no other call takes a step.          *)
LEMMA LoneCallSteps ==
  ASSUME JmsTypeOK, ActiveBeside, NEW c \in Calls, JmsStep(c),
         NEW d \in Calls, Alone(d)', d \in Active
  PROVE  d = c
<1> SUFFICES ASSUME d # c
             PROVE  FALSE
  OBVIOUS
<1>1. <<d, c>> \notin beside'
  BY DEF Alone
<1>2. CASE Begin(c)
  BY <1>1, <1>2 DEF Begin
<1>3. CASE c \in Active /\ beside' = beside
  BY <1>1, <1>3 DEF ActiveBeside
<1>4. QED
  BY <1>2, <1>3, StepOfActive

(* A call without overlap had none before.                                 *)
LEMMA AloneBefore ==
  ASSUME JmsTypeOK, NEW c \in Calls, JmsStep(c), NEW d \in Calls, Alone(d)'
  PROVE  Alone(d)
  BY StepFrame DEF Alone

-----------------------------------------------------------------------------
(* The conjuncts of the inductive invariant.                               *)

(* Objects are made on open ones, and closed from the top of the chain.    *)
LEMMA ObjectsChainedKept ==
  ASSUME JmsTypeOK, ObjectsChained, NEW c \in Calls, JmsStep(c), JmsTypeOK'
  PROVE  ObjectsChained'
<1> USE JmsAssumption DEF ObjectsChained, ConnectionOpen, SessionOpen, ClientOpen
<1>1. CASE UNCHANGED <<connection, session, client>>
  BY <1>1
<1>2. CASE Connect(c)
  BY <1>2 DEF Connect, JmsTypeOK
<1>3. CASE CreateSession(c)
  BY <1>3 DEF CreateSession, JmsTypeOK
<1>4. CASE CreateClient(c)
  BY <1>4 DEF CreateClient, JmsTypeOK
<1>5. CASE CloseConnection(c)
  BY <1>5 DEF CloseConnection, CloseConnections, CloseSessions, CloseClients, JmsTypeOK
<1>6. CASE CloseSession(c)
  BY <1>6 DEF CloseSession, CloseSessions, CloseClients, JmsTypeOK
<1>7. CASE CloseClient(c)
  BY <1>7 DEF CloseClient, CloseClients, JmsTypeOK
<1>8. QED
  BY <1>1, <1>2, <1>3, <1>4, <1>5, <1>6, <1>7
     DEF JmsStep, GetQueueStep, TryStep, FinallyStep, Begin, NewProperties, ReadUrl, PutUrl,
         PutQueue, MakeContext, LookupQueue, ReadConnection, ReadSession, StartConnection,
         CreateText, SendOne, AllSent, Browse, TryFails, LeaveTry, CloseFails, callVars,
         objectVars, historyVars

(* Whoever overwrites the sender of a call that still needs it runs beside *)
(* that call.                                                              *)
LEMMA ClientFieldBesideKept ==
  ASSUME JmsTypeOK, ActiveBeside, ClientFieldBeside, NEW c \in Calls, JmsStep(c)
  PROVE  ClientFieldBeside'
<1>1. request' = request /\ beside \subseteq beside'
  BY StepFrame
<1>2. CASE CreateClient(c)
  <2>1. c \in Active /\ pc'[c] = "start" /\ beside' = beside
    BY <1>2 DEF CreateClient, Goto, Active, JmsTypeOK, historyVars
  <2>2. \A d \in Calls \ {c} : pc'[d] = pc[d]
    BY StepFrame
  <2>3. CASE request[c].op = "send"
    <3>1. field' = [field EXCEPT !.sender = c]
      BY <1>2, <2>3 DEF CreateClient, SetClientField
    <3>2. QED
      BY <1>1, <2>1, <2>2, <2>3, <3>1
         DEF ClientFieldBeside, ClientField, ActiveBeside, Active, JmsTypeOK
  <2>4. CASE request[c].op = "browse"
    <3>1. field' = [field EXCEPT !.browser = c]
      BY <1>2, <2>4 DEF CreateClient, SetClientField
    <3>2. QED
      BY <1>1, <2>1, <2>2, <2>4, <3>1
         DEF ClientFieldBeside, ClientField, ActiveBeside, Active, JmsTypeOK
  <2>5. QED
    BY <2>3, <2>4 DEF JmsTypeOK, Requests
<1>3. CASE ~CreateClient(c)
  <2>1. field'.sender = field.sender /\ field'.browser = field.browser
    BY <1>3 DEF JmsStep, GetQueueStep, TryStep, FinallyStep, Begin, NewProperties, ReadUrl,
                PutUrl, PutQueue, MakeContext, Connect, LookupQueue, ReadConnection,
                CreateSession, ReadSession, StartConnection, CreateText, SendOne, AllSent,
                Browse, TryFails, LeaveTry, CloseConnection, CloseSession, CloseClient,
                CloseFails, callVars, objectVars, historyVars, JmsTypeOK
  <2>2. \A d \in Calls : pc'[d] \in {"start", "text", "work"} => pc[d] \in {"start", "text", "work"}
    BY <1>3, StepFrame
       DEF JmsStep, GetQueueStep, TryStep, FinallyStep, Begin, NewProperties, ReadUrl,
           PutUrl, PutQueue, MakeContext, Connect, LookupQueue, ReadConnection,
           CreateSession, ReadSession, StartConnection, CreateText, SendOne, AllSent,
           Browse, TryFails, LeaveTry, CloseConnection, CloseSession, CloseClient,
           CloseFails, Goto, callVars, JmsTypeOK
  <2>3. QED
    BY <1>1, <2>1, <2>2 DEF ClientFieldBeside, ClientField
<1>4. QED
  BY <1>2, <1>3

(* What is sent or browsed comes from the field, hence from the call or    *)
(* one beside it.                                                          *)
LEMMA StraysKept ==
  ASSUME JmsTypeOK, ClientFieldBeside, StraysStayBeside, NEW c \in Calls, JmsStep(c)
  PROVE  StraysStayBeside'
<1>1. request' = request /\ beside \subseteq beside'
  BY StepFrame
<1>2. ASSUME pc[c] = "work", Serve(c, ClientField(c))
      PROVE  StraysStayBeside'
  <2> DEFINE k == ClientField(c)
  <2>1. k \in Calls /\ (k = c \/ <<c, k>> \in beside)
    BY <1>2 DEF ClientFieldBeside
  <2>2. request[k].op = request[c].op
    BY <2>1 DEF ClientFieldBeside, ClientField, JmsTypeOK, Requests
  <2> HIDE DEF k
  <2> SUFFICES ASSUME NEW s \in served'
               PROVE  \E j \in Calls : /\ request[j].op = request[s.by].op
                                       /\ request[j].queue = s.queue
                                       /\ j = s.by \/ <<s.by, j>> \in beside'
    BY <1>1 DEF StraysStayBeside
  <2>3. CASE s \in served
    BY <2>3, <1>1 DEF StraysStayBeside
  <2>4. CASE s \notin served
    <3>1. s.by = c /\ s.queue = request[k].queue
      BY <1>2, <2>4 DEF Serve, k
    <3>2. QED
      BY <3>1, <2>1, <2>2, <1>1
  <2>5. QED
    BY <2>3, <2>4
<1>3. CASE SendOne(c)
  BY <1>2, <1>3 DEF SendOne, ClientField
<1>4. CASE Browse(c)
  BY <1>2, <1>4 DEF Browse, ClientField
<1>5. CASE served' = served
  BY <1>1, <1>5 DEF StraysStayBeside
<1>6. QED
  BY <1>3, <1>4, <1>5
     DEF JmsStep, GetQueueStep, TryStep, FinallyStep, Begin, NewProperties, ReadUrl, PutUrl,
         PutQueue, MakeContext, Connect, LookupQueue, ReadConnection, CreateSession,
         ReadSession, CreateClient, StartConnection, CreateText, AllSent, TryFails,
         CloseConnection, CloseSession, CloseClient, CloseFails, historyVars

(* The table that a lone call put its URL into is the one it reads back.   *)
LEMMA LoneTableKept ==
  ASSUME JmsTypeOK, ActiveBeside, LoneTable, NEW c \in Calls, JmsStep(c)
  PROVE  LoneTable'
<1> SUFFICES ASSUME NEW d \in Calls, Alone(d)',
                    pc'[d] \in {"url", "putUrl", "queue", "context", "connect"}
             PROVE  /\ pc'[d] \in {"url", "putUrl", "queue", "context"}
                         => field'.properties.by = d
                    /\ pc'[d] = "putUrl" => receiver'[d] = d
                    /\ pc'[d] \in {"queue", "context"}
                         => field'.properties.user = request'[d].user
                    /\ pc'[d] = "connect" => context'[d].user = request'[d].user
  BY DEF LoneTable
<1>1. d = c
  BY StepFrame, LoneCallSteps DEF Active
<1>2. request' = request
  BY StepFrame
<1>3. Alone(c)
  BY <1>1, AloneBefore
<1>4. CASE NewProperties(c)
  BY <1>1, <1>4 DEF NewProperties, NewTable, Goto, JmsTypeOK
<1>5. CASE ReadUrl(c)
  BY <1>1, <1>3, <1>5 DEF LoneTable, ReadUrl, Goto, JmsTypeOK, objectVars
<1>6. CASE PutUrl(c)
  BY <1>1, <1>2, <1>3, <1>6 DEF LoneTable, PutUrl, Goto, JmsTypeOK, Tables
<1>7. CASE PutQueue(c)
  BY <1>1, <1>2, <1>3, <1>7 DEF LoneTable, PutQueue, Goto, JmsTypeOK, Tables
<1>8. CASE MakeContext(c)
  BY <1>1, <1>2, <1>3, <1>8 DEF LoneTable, MakeContext, Goto, JmsTypeOK
<1>9. QED
  BY <1>1, <1>4, <1>5, <1>6, <1>7, <1>8
     DEF JmsStep, GetQueueStep, TryStep, FinallyStep, Begin, Connect, LookupQueue,
         ReadConnection, CreateSession, ReadSession, CreateClient, StartConnection,
         CreateText, SendOne, AllSent, Browse, TryFails, LeaveTry, CloseConnection,
         CloseSession, CloseClient, CloseFails, Goto, JmsTypeOK

(* So is every object that a lone call made, and nobody closed it.         *)
LEMMA LoneConnectionKept ==
  ASSUME JmsTypeOK, ActiveBeside, LoneTable, LoneConnection, NEW c \in Calls, JmsStep(c)
  PROVE  LoneConnection'
<1> SUFFICES ASSUME NEW d \in Calls, Alone(d)', pc'[d] \in Connected
             PROVE  /\ field'.connection = d /\ connection'[d] = request'[d].user
                    /\ pc'[d] \in {"makeSession", "makeClient"} => receiver'[d] = d
                    /\ pc'[d] \in WithSession => field'.session = d /\ session'[d] = d
                    /\ pc'[d] \in {"start", "text", "work"}
                         => ClientField(d)' = d /\ client'[d] = d
  BY DEF LoneConnection
<1>1. d = c
  BY StepFrame, LoneCallSteps DEF Active
<1>2. request' = request
  BY StepFrame
<1>3. Alone(c)
  BY <1>1, AloneBefore
<1> USE DEF Goto, JmsTypeOK
<1>4. CASE Connect(c)
  BY <1>1, <1>2, <1>3, <1>4 DEF LoneTable, Connect
<1>5. CASE LookupQueue(c)
  BY <1>1, <1>2, <1>3, <1>5 DEF LoneConnection, LookupQueue, objectVars
<1>6. CASE CreateSession(c)
  BY <1>1, <1>2, <1>3, <1>6 DEF LoneConnection, CreateSession
<1>7. CASE CreateClient(c)
  BY <1>1, <1>2, <1>3, <1>7 DEF LoneConnection, CreateClient, SetClientField, ClientField
<1>8. CASE ReadConnection(c) \/ ReadSession(c) \/ StartConnection(c) \/ CreateText(c)
  BY <1>1, <1>2, <1>3, <1>8
     DEF LoneConnection, ReadConnection, ReadSession, StartConnection, CreateText,
         ClientField, objectVars
<1>9. CASE SendOne(c)
  BY <1>1, <1>2, <1>3, <1>9 DEF LoneConnection, SendOne, ClientField, objectVars
<1>10. QED
  BY <1>1, <1>4, <1>5, <1>6, <1>7, <1>8, <1>9
     DEF JmsStep, GetQueueStep, TryStep, FinallyStep, Begin, NewProperties, ReadUrl, PutUrl,
         PutQueue, MakeContext, AllSent, Browse, TryFails, LeaveTry, CloseConnection,
         CloseSession, CloseClient, CloseFails

(* A lone call serves through its own sender, session and connection.      *)
LEMMA LoneServiceKept ==
  ASSUME JmsTypeOK, LoneConnection, LoneCallServesCaller, NEW c \in Calls, JmsStep(c)
  PROVE  LoneCallServesCaller'
<1>1. request' = request
  BY StepFrame
<1>2. \A d \in Calls : Alone(d)' => Alone(d)
  BY AloneBefore
<1>3. ASSUME pc[c] = "work", Serve(c, ClientField(c))
      PROVE  LoneCallServesCaller'
  <2> SUFFICES ASSUME NEW s \in served', Alone(s.by)'
               PROVE  s.queue = request[s.by].queue /\ s.user = request[s.by].user
    BY <1>1 DEF LoneCallServesCaller
  <2>1. CASE s \in served
    BY <2>1, <1>2 DEF LoneCallServesCaller, JmsTypeOK
  <2>2. CASE s \notin served
    <3>1. s = [by |-> c, queue |-> request[ClientField(c)].queue,
               user |-> connection[session[client[ClientField(c)]]]]
      BY <1>3, <2>2 DEF Serve
    <3>2. Alone(c)
      BY <3>1, <1>2
    <3>3. /\ connection[c] = request[c].user
          /\ session[c] = c
          /\ ClientField(c) = c
          /\ client[c] = c
      BY <3>2, <1>3 DEF LoneConnection
    <3>4. QED
      BY <3>1, <3>3
  <2>3. QED
    BY <2>1, <2>2
<1>4. CASE SendOne(c)
  BY <1>3, <1>4 DEF SendOne, ClientField
<1>5. CASE Browse(c)
  BY <1>3, <1>5 DEF Browse, ClientField
<1>6. CASE served' = served
  BY <1>1, <1>2, <1>6 DEF LoneCallServesCaller, JmsTypeOK
<1>7. QED
  BY <1>4, <1>5, <1>6
     DEF JmsStep, GetQueueStep, TryStep, FinallyStep, Begin, NewProperties, ReadUrl, PutUrl,
         PutQueue, MakeContext, Connect, LookupQueue, ReadConnection, CreateSession,
         ReadSession, CreateClient, StartConnection, CreateText, AllSent, TryFails,
         CloseConnection, CloseSession, CloseClient, CloseFails, historyVars

(* A lone call closes the connection it opened, since the field still      *)
(* holds that one.                                                         *)
LEMMA ConnectionEndsKept ==
  ASSUME JmsTypeOK, ActiveBeside, LoneConnection, ConnectionEnds, NEW c \in Calls, JmsStep(c)
  PROVE  ConnectionEnds'
<1> DEFINE Early == {"idle"} \union (Getting \ {"lookup"})
           Late == {"closeSession", "closeClient", "done"}
<1>1. ASSUME NEW d \in Calls, pc'[d] \in Early
      PROVE  connection'[d] = NoUser
  <2>1. CASE d # c
    BY <1>1, <2>1, StepFrame DEF ConnectionEnds
  <2>2. CASE d = c
    BY <1>1, <2>2
       DEF ConnectionEnds, JmsStep, GetQueueStep, TryStep, FinallyStep, Begin,
           NewProperties, ReadUrl, PutUrl, PutQueue, MakeContext, Connect, LookupQueue,
           ReadConnection, CreateSession, ReadSession, CreateClient, StartConnection,
           CreateText, SendOne, AllSent, Browse, TryFails, LeaveTry, CloseConnection,
           CloseSession, CloseClient, CloseFails, Goto, JmsTypeOK, objectVars
  <2>3. QED
    BY <2>1, <2>2
<1>2. ASSUME NEW d \in Calls, Alone(d)', pc'[d] = "closeConnection"
      PROVE  connection'[d] = NoUser \/ field'.connection = d
  <2>1. d = c
    BY <1>2, StepFrame, LoneCallSteps DEF Active
  <2>2. Alone(c)
    BY <1>2, <2>1, AloneBefore
  <2>3. /\ AllSent(c) \/ Browse(c) \/ TryFails(c)
        /\ field' = field /\ connection' = connection
    BY <1>2, <2>1
       DEF JmsStep, GetQueueStep, TryStep, FinallyStep, Begin, NewProperties, ReadUrl,
           PutUrl, PutQueue, MakeContext, Connect, LookupQueue, ReadConnection,
           CreateSession, ReadSession, CreateClient, StartConnection, CreateText, SendOne,
           AllSent, Browse, TryFails, LeaveTry, CloseConnection, CloseSession, CloseClient,
           CloseFails, Goto, JmsTypeOK, objectVars
  <2>4. pc[c] \in Early \union Connected
    BY <2>3 DEF AllSent, Browse, TryFails
  <2>5. QED
    BY <2>1, <2>2, <2>3, <2>4 DEF ConnectionEnds, LoneConnection
<1>3. ASSUME NEW d \in Calls, Alone(d)', pc'[d] \in Late, d \notin unclosed'
      PROVE  connection'[d] = NoUser
  <2>1. Alone(d) /\ d \notin unclosed
    BY <1>3, AloneBefore, StepFrame
  <2>2. CASE d # c
    BY <1>3, <2>1, <2>2, StepFrame DEF ConnectionEnds
  <2>3. CASE d = c /\ CloseConnection(c)
    BY <2>1, <2>3 DEF ConnectionEnds, CloseConnection, CloseConnections
  <2>4. CASE d = c /\ ~CloseConnection(c)
    <3>1. pc[c] \in Late /\ connection' = connection
      BY <1>3, <2>4
         DEF JmsStep, GetQueueStep, TryStep, FinallyStep, Begin, NewProperties, ReadUrl,
             PutUrl, PutQueue, MakeContext, Connect, LookupQueue, ReadConnection,
             CreateSession, ReadSession, CreateClient, StartConnection, CreateText, SendOne,
             AllSent, Browse, TryFails, LeaveTry, CloseSession, CloseClient, CloseFails,
             Goto, JmsTypeOK, objectVars
    <3>2. QED
      BY <2>1, <2>4, <3>1 DEF ConnectionEnds
  <2>5. QED
    BY <2>2, <2>3, <2>4
<1>4. QED
  BY <1>1, <1>2, <1>3 DEF ConnectionEnds

(* The last to assign queueConnection closes it unless another one did.    *)
LEMMA LastConnectionKept ==
  ASSUME JmsTypeOK, LastConnection, NEW c \in Calls, JmsStep(c)
  PROVE  LastConnection'
<1>1. CASE Connect(c)
  BY <1>1 DEF Connect, LastConnection, Goto, JmsTypeOK
<1>2. CASE ~Connect(c)
  <2> DEFINE k == field.connection
  <2> SUFFICES ASSUME ConnectionOpen(field.connection)'
               PROVE  \/ pc'[field'.connection] \in Connected \union {"closeConnection"}
                      \/ field'.connection \in unclosed'
    BY DEF LastConnection
  <2>1. /\ field'.connection = k
        /\ connection' = connection \/ CloseConnection(c)
    BY <1>2
       DEF JmsStep, GetQueueStep, TryStep, FinallyStep, Begin, NewProperties, ReadUrl,
           PutUrl, PutQueue, MakeContext, LookupQueue, ReadConnection, CreateSession,
           ReadSession, CreateClient, SetClientField, StartConnection, CreateText, SendOne,
           AllSent, Browse, TryFails, LeaveTry, CloseConnection, CloseSession, CloseClient,
           CloseFails, JmsTypeOK, objectVars
  <2>2. k \in Calls
    BY <2>1 DEF ConnectionOpen, JmsTypeOK
  <2>3. ~CloseConnection(c)
    BY <2>1, <2>2 DEF CloseConnection, CloseConnections, ConnectionOpen
  <2>4. ConnectionOpen(k)
    BY <2>1, <2>3 DEF ConnectionOpen
  <2>5. CASE k \in unclosed
    BY <2>1, <2>5, StepFrame
  <2>6. CASE pc[k] \in Connected \union {"closeConnection"} /\ k # c
    BY <2>1, <2>2, <2>6, StepFrame
  <2>7. CASE pc[k] \in Connected \union {"closeConnection"} /\ k = c
    BY <1>2, <2>1, <2>3, <2>7
       DEF JmsStep, GetQueueStep, TryStep, FinallyStep, Begin, NewProperties, ReadUrl,
           PutUrl, PutQueue, MakeContext, LookupQueue, ReadConnection, CreateSession,
           ReadSession, CreateClient, StartConnection, CreateText, SendOne, AllSent, Browse,
           TryFails, LeaveTry, CloseSession, CloseClient, CloseFails, Goto, JmsTypeOK
  <2>8. QED
    BY <2>4, <2>5, <2>6, <2>7 DEF LastConnection
<1>3. QED
  BY <1>1, <1>2

(* The try block answers true only when the loop over the messages ended.  *)
LEMMA SentKept ==
  ASSUME JmsTypeOK, Sent, NEW c \in Calls, JmsStep(c)
  PROVE  Sent'
<1> SUFFICES ASSUME NEW d \in Calls
             PROVE  /\ progress'[d] <= request[d].count
                    /\ outcome'[d] = "ok" => pc'[d] \in Closing \union {"done"}
                    /\ outcome'[d] = "ok" /\ request[d].op = "send"
                         => progress'[d] = request[d].count
  BY StepFrame DEF Sent
<1>1. progress[d] \in Nat /\ request[d].count \in Nat
  BY JmsAssumption DEF JmsTypeOK, Requests
<1>2. CASE d # c
  BY <1>2, StepFrame DEF Sent
<1>3. CASE d = c
  <2> USE <1>1, <1>3 DEF Sent, JmsTypeOK, Goto, LeaveTry
  <2>1. CASE SendOne(c)
    BY <2>1 DEF SendOne
  <2>2. CASE AllSent(c)
    <3> DEFINE sent == progress[c]
               count == request[c].count
    <3>1. sent >= count /\ sent <= count /\ sent \in Nat /\ count \in Nat
      BY <2>2 DEF AllSent
    <3> HIDE DEF sent, count
    <3>2. sent = count
      BY <3>1
    <3> USE DEF sent, count
    <3>3. pc'[c] = "closeConnection" /\ progress' = progress
      BY <2>2 DEF AllSent
    <3>4. QED
      BY <3>2, <3>3
  <2>3. CASE Browse(c)
    BY <2>3 DEF Browse
  <2>4. CASE TryFails(c)
    BY <2>4 DEF TryFails
  <2>5. CASE FinallyStep(c)
    BY <2>5 DEF FinallyStep, CloseConnection, CloseSession, CloseClient, CloseFails
  <2>6. CASE Begin(c) \/ GetQueueStep(c)
    BY <2>6 DEF GetQueueStep, Begin, NewProperties, ReadUrl, PutUrl, PutQueue, MakeContext,
                Connect, LookupQueue
  <2>7. CASE \/ ReadConnection(c) \/ CreateSession(c) \/ ReadSession(c) \/ CreateClient(c)
             \/ StartConnection(c) \/ CreateText(c)
    BY <2>7 DEF ReadConnection, CreateSession, ReadSession, CreateClient, StartConnection,
                CreateText
  <2>8. QED
    BY <2>1, <2>2, <2>3, <2>4, <2>5, <2>6, <2>7 DEF JmsStep, TryStep
<1>4. QED
  BY <1>2, <1>3

-----------------------------------------------------------------------------
(* The inductive invariant and what follows from it.                       *)

(* The invariant holds before any call has begun.                          *)
LEMMA JmsInitInv == JmsInit => JmsInv
<1> SUFFICES ASSUME JmsInit
             PROVE  JmsInv
  OBVIOUS
<1> DEFINE Count(c) == request[c].count
<1>1. \A c \in Calls : Count(c) \in Nat
  <2>1. request \in [Calls -> Requests]
    BY DEF JmsInit
  <2>2. QED
    BY <2>1, JmsAssumption DEF Requests
<1>2. JmsTypeOK
  BY DEF JmsInit, JmsTypeOK, NewTable, Tables
<1>3. ObjectsChained /\ LastConnection
  BY DEF JmsInit, ObjectsChained, LastConnection, ConnectionOpen, SessionOpen, ClientOpen
<1>4. ActiveBeside /\ ClientFieldBeside
  BY JmsAssumption DEF JmsInit, ActiveBeside, Active, ClientFieldBeside
<1>5. LoneTable /\ LoneConnection /\ ConnectionEnds
  BY DEF JmsInit, LoneTable, LoneConnection, ConnectionEnds
<1>6. StraysStayBeside /\ LoneCallServesCaller
  BY DEF JmsInit, StraysStayBeside, LoneCallServesCaller
<1>7. Sent
  <2>1. \A c \in Calls : progress[c] = 0 /\ outcome[c] = "none"
    BY DEF JmsInit
  <2>2. \A c \in Calls : progress[c] <= Count(c)
    <3> SUFFICES ASSUME NEW c \in Calls
                 PROVE  progress[c] <= Count(c)
      OBVIOUS
    <3>1. progress[c] = 0 /\ Count(c) \in Nat
      BY <1>1, <2>1
    <3>2. 0 <= Count(c)
      BY <3>1
    <3>3. QED
      BY <3>1, <3>2
  <2>3. QED
    BY <2>1, <2>2 DEF Sent, Count
<1>8. QED
  BY <1>2, <1>3, <1>4, <1>5, <1>6, <1>7 DEF JmsInv

(* Every step keeps the invariant.                                         *)
LEMMA JmsStepInv == JmsInv /\ [JmsNext]_jmsVars => JmsInv'
<1> SUFFICES ASSUME JmsInv, [JmsNext]_jmsVars
             PROVE  JmsInv'
  OBVIOUS
<1>1. ASSUME NEW c \in Calls, JmsStep(c)
      PROVE  JmsInv'
  <2>1. JmsTypeOK'
    BY <1>1, GetQueueTypes, TryTypes, FinallyTypes DEF JmsInv, JmsStep
  <2>2. ObjectsChained'
    BY <1>1, <2>1, ObjectsChainedKept DEF JmsInv
  <2>3. ActiveBeside' /\ ClientFieldBeside' /\ StraysStayBeside'
    BY <1>1, ActiveBesideKept, ClientFieldBesideKept, StraysKept DEF JmsInv
  <2>4. LoneTable' /\ LoneConnection' /\ LoneCallServesCaller'
    BY <1>1, LoneTableKept, LoneConnectionKept, LoneServiceKept DEF JmsInv
  <2>5. ConnectionEnds' /\ LastConnection' /\ Sent'
    BY <1>1, ConnectionEndsKept, LastConnectionKept, SentKept DEF JmsInv
  <2>6. QED
    BY <2>1, <2>2, <2>3, <2>4, <2>5 DEF JmsInv
<1>2. CASE UNCHANGED jmsVars
  <2> USE <1>2 DEF jmsVars, callVars, objectVars, historyVars, JmsInv
  <2>1. JmsTypeOK'
    BY DEF JmsTypeOK
  <2>2. ObjectsChained' /\ ActiveBeside' /\ LastConnection'
    BY DEF ObjectsChained, ActiveBeside, Active, LastConnection, ConnectionOpen, SessionOpen,
           ClientOpen
  <2>3. ClientFieldBeside' /\ StraysStayBeside'
    BY DEF ClientFieldBeside, ClientField, StraysStayBeside
  <2>4. LoneTable' /\ LoneConnection' /\ ConnectionEnds'
    BY DEF LoneTable, LoneConnection, ClientField, ConnectionEnds, Alone
  <2>5. LoneCallServesCaller' /\ Sent'
    BY DEF LoneCallServesCaller, Sent, Alone
  <2>6. QED
    BY <2>1, <2>2, <2>3, <2>4, <2>5
<1>3. QED
  BY <1>1, <1>2 DEF JmsNext, JmsStep

(* The inductive invariant holds throughout, for all constants.            *)
THEOREM JmsInvariant == JmsSpec => []JmsInv
  BY JmsInitInv, JmsStepInv, PTL DEF JmsSpec

(* The variables of the send and browse model keep their types.            *)
THEOREM JmsTyping == JmsSpec => []JmsTypeOK
<1>1. JmsInv => JmsTypeOK
  BY DEF JmsInv
<1>2. QED
  BY <1>1, JmsInvariant, PTL

(* However many calls share the fields, what sendMessage and browseQueue   *)
(* reach is the queue of a call of the same kind under way beside them.    *)
THEOREM StraysBounded == JmsSpec => []StraysStayBeside
<1>1. JmsInv => StraysStayBeside
  BY DEF JmsInv
<1>2. QED
  BY <1>1, JmsInvariant, PTL

(* A call that overlaps no other serves its caller, and only its caller,   *)
(* whatever earlier calls left in the fields.                              *)
THEOREM LoneCallsServed == JmsSpec => []LoneCallServesCaller
<1>1. JmsInv => LoneCallServesCaller
  BY DEF JmsInv
<1>2. QED
  BY <1>1, JmsInvariant, PTL

(* sendMessage answers true only after sending every message.              *)
THEOREM SuccessIsComplete == JmsSpec => []SuccessMeansSent
<1>1. JmsInv => SuccessMeansSent
  BY DEF JmsInv, Sent, SuccessMeansSent, Ended
<1>2. QED
  BY <1>1, JmsInvariant, PTL

(* A connection is left open only by an overlap or a close that threw.     *)
THEOREM LoneCallsClose == JmsSpec => []LoneCallClosesConnection
<1>1. JmsInv => LoneCallClosesConnection
  BY DEF JmsInv, ConnectionEnds, LoneCallClosesConnection, Ended, ConnectionOpen
<1>2. QED
  BY <1>1, JmsInvariant, PTL

(* With no call under way, the connection in the field is closed.          *)
THEOREM IdleIsClosed == JmsSpec => []IdleConnectionClosed
<1>1. JmsInv => IdleConnectionClosed
  BY DEF JmsInv, LastConnection, IdleConnectionClosed, Active, ConnectionOpen, JmsTypeOK
<1>2. QED
  BY <1>1, JmsInvariant, PTL
=============================================================================
