---------------------------- MODULE TopicClient -----------------------------
(***************************************************************************)
(* Publish/subscribe end to end: the topic server of TopicServer and the   *)
(* client processes that use it (TopicManager in source/client/            *)
(* RpcTopic.hpp, TopicClient in source/client/RpcClient.hpp).              *)
(*                                                                         *)
(* A client has one connection, the thread of its IO loop, which handles   *)
(* what arrives in order, and user threads whose calls wait for their      *)
(* answer.  The callback of a topic is stored before Subscribe asks, and   *)
(* deleted before Cancel asks: the two ends change at different times.     *)
(***************************************************************************)
EXTENDS TopicServer

CONSTANTS
  Thread,  \* user threads; the one open request of a thread has it as Rid
  ClientOf \* the connection of the process a thread runs in

ASSUME TopicClientAssumption ==
  /\ Thread \subseteq Rid
  /\ ClientOf \in [Thread -> Conn]

VARIABLES
  callbacks, \* keys of the client's _topic_callbacks
  pc,        \* where a thread is in its call
  request,   \* the request of that call
  rcode      \* what its future holds

Process == {ClientOf[t] : t \in Thread}

threadVars == <<pc, request, rcode>>
clientVars == <<callbacks, threadVars>>
allVars    == <<vars, clientVars>>

NoRequest == [optype |-> "none"]
-----------------------------------------------------------------------------
(* The constructor of TopicClient returns once it is connected.            *)
Construct(c) ==
  /\ OnConnected(c)
  /\ \A t \in Thread : ClientOf[t] = c => pc[t] = "new"
  /\ pc' = [t \in Thread |-> IF ClientOf[t] = c THEN "idle" ELSE pc[t]]
  /\ UNCHANGED <<callbacks, request, rcode>>

(* __AddSubscribe, __DelSubscribe. emplace keeps a callback already there. *)
AddSubscribe(c, k) == callbacks' = [callbacks EXCEPT ![c] = @ \cup {k}]
DelSubscribe(c, k) == callbacks' = [callbacks EXCEPT ![c] = @ \ {k}]

(* Create, Remove, Subscribe, Cancel, Publish, up to the request they send.*)
(* On a lost connection _conn is null: no request is sent any more.        *)
CommonRequest(t, o, k) ==
  /\ pc[t] = "idle"
  /\ ClientOf[t] \in connected
  /\ pc' = [pc EXCEPT ![t] = "asked"]
  /\ request' = [request EXCEPT ![t] = [rid |-> t, optype |-> o, key |-> k]]
  /\ UNCHANGED <<vars, rcode>>

Subscribe(t, k) ==
  /\ CommonRequest(t, "TOPIC_SUBSCRIBE", k)
  /\ AddSubscribe(ClientOf[t], k)

Cancel(t, k) ==
  /\ CommonRequest(t, "TOPIC_CANCEL", k)
  /\ DelSubscribe(ClientOf[t], k)

CreateOrRemove(t, k) ==
  /\ \E o \in {"TOPIC_CREATE", "TOPIC_REMOVE"} : CommonRequest(t, o, k)
  /\ UNCHANGED callbacks

(* Bound of the model: nobody starts a publication while a queue is full.  *)
Publish(t, k) ==
  /\ Room
  /\ CommonRequest(t, "TOPIC_PUBLISH", k)
  /\ UNCHANGED callbacks

(* The server reads the request.                                           *)
HandleRequest(t) ==
  /\ pc[t] = "asked"
  /\ OnTopicRequest(ClientOf[t], request[t])
  /\ pc' = [pc EXCEPT ![t] = "waiting"]
  /\ UNCHANGED <<callbacks, request, rcode>>

(* The IO thread takes the next message: an answer wakes its thread, and   *)
(* a publication goes to the callback of its topic, if there is one.       *)
OnResponse(c) ==
  /\ Receive(c)
  /\ LET msg == Head(toClient[c]) IN
       /\ msg.kind = "response"
       /\ pc' = [pc EXCEPT ![msg.rid] = "answered"]
       /\ rcode' = [rcode EXCEPT ![msg.rid] = msg.rcode]
  /\ UNCHANGED <<callbacks, request>>

OnPublish(c) ==
  /\ Receive(c)
  /\ Head(toClient[c]).kind = "publish"
  /\ UNCHANGED clientVars

(* The call returns. A Subscribe that was refused deletes the callback.    *)
ReturnAnyCode(t) ==  \* faulty: Subscribe deletes the callback whatever the answer
  /\ pc[t] = "answered"
  /\ pc' = [pc EXCEPT ![t] = "idle"]
  /\ request' = [request EXCEPT ![t] = NoRequest]
  /\ rcode' = [rcode EXCEPT ![t] = "none"]
  /\ IF request[t].optype = "TOPIC_SUBSCRIBE"
     THEN DelSubscribe(ClientOf[t], request[t].key) ELSE UNCHANGED callbacks
  /\ UNCHANGED vars

Return(t) ==
  /\ pc[t] = "answered"
  /\ pc' = [pc EXCEPT ![t] = "idle"]
  /\ request' = [request EXCEPT ![t] = NoRequest]
  /\ rcode' = [rcode EXCEPT ![t] = "none"]
  /\ IF request[t].optype = "TOPIC_SUBSCRIBE" /\ rcode[t] # "RCODE_OK"
     THEN DelSubscribe(ClientOf[t], request[t].key) ELSE UNCHANGED callbacks
  /\ UNCHANGED vars

(* The connection closes; nothing reconnects it, and _topic_callbacks stays*)
LoseConnection(c) == OnShutDown(c) /\ UNCHANGED clientVars
-----------------------------------------------------------------------------
(* A peer that is no TopicClient of this library sends what it likes.      *)
OtherPeer(c) ==
  /\ \/ OnConnected(c)
     \/ OnShutDown(c)
     \/ Receive(c)
     \/ \E msg \in TopicRequest : msg.rid \notin Thread /\ Room /\ OnTopicRequest(c, msg)
  /\ UNCHANGED clientVars

ClientInit ==
  /\ connected = {}
  /\ topics = {}
  /\ subscribers = [k \in Topic |-> {}]
  /\ hasObject = {}
  /\ subscribedTo = [c \in Conn |-> {}]
  /\ toClient = [c \in Conn |-> <<>>]
  /\ callbacks = [c \in Conn |-> {}]
  /\ pc = [t \in Thread |-> "new"]
  /\ request = [t \in Thread |-> NoRequest]
  /\ rcode = [t \in Thread |-> "none"]

IOThread(c) == OnResponse(c) \/ OnPublish(c)

ClientNext ==
  \/ \E t \in Thread : \/ \E k \in Topic : \/ Subscribe(t, k)
                                           \/ Cancel(t, k)
                                           \/ CreateOrRemove(t, k)
                                           \/ Publish(t, k)
                       \/ HandleRequest(t)
                       \/ Return(t)
  \/ \E c \in Process : Construct(c) \/ IOThread(c) \/ LoseConnection(c)
  \/ \E c \in Conn \ Process : OtherPeer(c)

(* The loops of the server and of a client poll, and the system runs every *)
(* thread that can run. Nobody has to call, and no connection to close.    *)
ClientFairness ==
  /\ \A t \in Thread : WF_allVars(HandleRequest(t)) /\ WF_allVars(Return(t))
  /\ \A c \in Process : WF_allVars(IOThread(c))

ClientSpec == ClientInit /\ [][ClientNext]_allVars /\ ClientFairness
-----------------------------------------------------------------------------
AnswersTo(t) == {i \in 1..Len(toClient[ClientOf[t]]) :
                   LET msg == toClient[ClientOf[t]][i] IN msg.kind = "response" /\ msg.rid = t}

(* Types; exactly the calls the server has handled have an answer on its   *)
(* way, and only one: no answer meets a call it does not belong to.        *)
ClientTypeOK ==
  /\ TopicTypeOK
  /\ callbacks \in [Conn -> SUBSET Topic]
  /\ pc \in [Thread -> {"new", "idle", "asked", "waiting", "answered"}]
  /\ \A t \in Thread :
       /\ request[t] \in (IF pc[t] \in {"new", "idle"} THEN {NoRequest} ELSE TopicRequest)
       /\ rcode[t] # "none" <=> pc[t] = "answered"
       /\ IF pc[t] = "waiting" /\ ClientOf[t] \in connected
          THEN \E i \in AnswersTo(t) : AnswersTo(t) = {i}
          ELSE AnswersTo(t) = {}

(* A thread of the client is in Cancel, not answered yet.                  *)
Cancelling(c, k, stages) ==
  \E t \in Thread : /\ ClientOf[t] = c
                    /\ pc[t] \in stages
                    /\ request[t].optype = "TOPIC_CANCEL"
                    /\ request[t].key = k

(* In a process with one user thread, whoever is subscribed at the server  *)
(* has a callback at the client, or is about to be unsubscribed: topics    *)
(* that are removed, created anew or refused, and closed connections       *)
(* included.                                                               *)
SubscribedHaveCallback ==
  \A c \in Process, k \in Topic :
    c \in subscribers[k] => (k \in callbacks[c] \/ Cancelling(c, k, {"asked"}))

(* A publication on its way to such a process finds the callback of its    *)
(* topic unless it arrives while the topic is being cancelled: "no callback*)
(* for this message" (RpcTopic.hpp:50) is said at no other time, and when  *)
(* Cancel has returned nothing of the topic is to come.                    *)
PublicationsFindCallback ==
  \A c \in Process : \A i \in 1..Len(toClient[c]) :
    LET msg == toClient[c][i]
    IN  msg.kind = "publish" =>
          (msg.topic \in callbacks[c] \/ Cancelling(c, msg.topic, {"asked", "waiting"}))

(* Every call returns while its connection stays up.                       *)
CallsReturn ==
  \A t \in Thread : pc[t] = "asked" ~> (pc[t] = "idle" \/ ClientOf[t] \notin connected)

=============================================================================
