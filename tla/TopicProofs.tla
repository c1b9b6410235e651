----------------------------- MODULE TopicProofs ------------------------------
(***************************************************************************)
(* Proofs about TopicServer and TopicClient for any number of connections, *)
(* topics, client processes and requests, and any bound: types, the        *)
(* agreement of Topics and Subscribers, that the server implements         *)
(* publish/subscribe, that answers meet the calls they belong to, and that *)
(* in a process with one user thread publications find their callback.     *)
(***************************************************************************)
EXTENDS TopicClient, TLAPS

IInv ==
  /\ TopicTypeOK
  /\ SubscriptionsAgree
  /\ SubscriptionsAreLive

(* What the server does, with and without clients of this library.         *)
ServerStep ==
  \E c \in Conn :
    \/ OnConnected(c)
    \/ \E msg \in TopicRequest : OnTopicRequest(c, msg)
    \/ OnShutDown(c)
    \/ Receive(c)
-----------------------------------------------------------------------------
(* A response is put into the stream of the connection that asked.         *)
LEMMA RespondType ==
  ASSUME NEW net \in [Conn -> Seq(Message)], NEW c \in Conn, NEW msg \in TopicRequest,
         NEW code \in {"RCODE_OK", "RCODE_NOT_FOUND_TOPIC", "RCODE_INVALID_OPTYPE"}
  PROVE  Respond(net, c, msg, code) \in [Conn -> Seq(Message)]
<1> DEFINE rsp == [kind |-> "response", rid |-> msg.rid, rcode |-> code]
<1>1. rsp \in Message
  BY DEF Message, TopicRequest
<1>2. Append(net[c], rsp) \in Seq(Message)
  BY <1>1
<1> QED
  BY <1>2 DEF Respond

(* A broadcast puts a publication into the streams of the subscribers.     *)
LEMMA PushMessageType ==
  ASSUME toClient \in [Conn -> Seq(Message)], NEW msg \in TopicRequest
  PROVE  PushMessage(msg) \in [Conn -> Seq(Message)]
<1> DEFINE pub == [kind |-> "publish", rid |-> msg.rid, topic |-> msg.key]
<1>1. pub \in Message
  BY DEF Message, TopicRequest
<1>2. \A c \in Conn : Append(toClient[c], pub) \in Seq(Message)
  BY <1>1
<1> QED
  BY <1>2 DEF PushMessage

(* Without connections there are no topics and no Subscribers.             *)
LEMMA InitInvariant == Init => IInv
BY DEF Init, IInv, TopicTypeOK, SubscriptionsAgree, SubscriptionsAreLive

(* Each handler of the topic server keeps both sides of every              *)
(* subscription together.                                                  *)
LEMMA StepPreserves ==
  ASSUME IInv, ServerStep \/ UNCHANGED vars
  PROVE  IInv'
<1> USE DEF IInv
<1>1. ASSUME NEW c \in Conn, OnConnected(c) PROVE IInv'
  BY <1>1 DEF OnConnected, subVars, TopicTypeOK, SubscriptionsAgree, SubscriptionsAreLive
<1>2. ASSUME NEW c \in Conn, NEW msg \in TopicRequest, OnTopicRequest(c, msg) PROVE IInv'
  <2>0. /\ c \in connected /\ msg.key \in Topic /\ msg.rid \in Rid
        /\ toClient \in [Conn -> Seq(Message)]
    BY <1>2 DEF OnTopicRequest, TopicRequest, TopicTypeOK
  <2>1. toClient' \in [Conn -> Seq(Message)]
    <3> DEFINE Code == {"RCODE_OK", "RCODE_NOT_FOUND_TOPIC", "RCODE_INVALID_OPTYPE"}
    <3>1. ASSUME NEW code \in Code, toClient' = Respond(toClient, c, msg, code)
          PROVE  toClient' \in [Conn -> Seq(Message)]
      BY <2>0, <3>1, RespondType
    <3>2. CASE \E code \in Code : toClient' = Respond(toClient, c, msg, code)
      BY <3>1, <3>2
    <3>3. CASE toClient' = Respond(PushMessage(msg), c, msg, "RCODE_OK")
      <4>1. PushMessage(msg) \in [Conn -> Seq(Message)]
        BY <2>0, PushMessageType
      <4> HIDE DEF IInv
      <4> QED
        BY <3>3, <4>1, RespondType
    <3> QED
      BY <1>2, <3>2, <3>3 DEF OnTopicRequest, TopicCreate, TopicRemove, TopicSubscribe,
                              TopicCancel, TopicPublish, InvalidOperation
  <2>2. CASE TopicCreate(c, msg)
    BY <2>0, <2>1, <2>2 DEF TopicCreate, subVars, TopicTypeOK, SubscriptionsAgree,
                            SubscriptionsAreLive
  <2>3. CASE TopicRemove(c, msg)
    <3>1. CASE msg.key \in topics
      <4>1. TopicTypeOK'
          <5>1. subscribers' \in [Topic -> SUBSET Conn]
          BY <2>0, <2>3, <3>1 DEF TopicRemove, TopicTypeOK
        <5>2. \A d \in Conn : subscribedTo[d] \subseteq Topic /\ subscribedTo[d] \ {msg.key} \subseteq Topic
          BY DEF TopicTypeOK
        <5>3. subscribedTo' \in [Conn -> SUBSET Topic]
          BY <2>3, <3>1, <5>2 DEF TopicRemove, RemoveTopic
        <5>4. connected' \subseteq Conn /\ topics' \subseteq Topic /\ hasObject' \subseteq connected'
          BY <2>3, <3>1 DEF TopicRemove, TopicTypeOK
        <5> QED
          BY <2>1, <5>1, <5>3, <5>4 DEF TopicTypeOK
      <4>2. ASSUME NEW d \in Conn, NEW k \in Topic
            PROVE  /\ d \in subscribers'[k] <=> (d \in subscribers[k] /\ k # msg.key)
                   /\ k \in subscribedTo'[d] <=>
                        (k \in subscribedTo[d] /\ (k # msg.key \/ d \notin subscribers[k]))
        BY <2>0, <2>3, <3>1 DEF TopicRemove, RemoveTopic, TopicTypeOK
      <4> QED
        BY <2>3, <3>1, <4>1, <4>2 DEF TopicRemove, SubscriptionsAgree, SubscriptionsAreLive
    <3>2. CASE msg.key \notin topics
      BY <2>1, <2>3, <3>2 DEF TopicRemove, TopicTypeOK, SubscriptionsAgree,
                              SubscriptionsAreLive
    <3> QED
      BY <3>1, <3>2
  <2>4. CASE TopicSubscribe(c, msg)
    <3>1. CASE msg.key \in topics
      <4>1. /\ hasObject' = hasObject \cup {c}
            /\ subscribers' = [subscribers EXCEPT ![msg.key] = @ \cup {c}]
            /\ subscribedTo' = [subscribedTo EXCEPT ![c] = @ \cup {msg.key}]
            /\ UNCHANGED <<connected, topics>>
        BY <2>4, <3>1 DEF TopicSubscribe
      <4>2. TopicTypeOK'
        BY <2>0, <2>1, <4>1 DEF TopicTypeOK
      <4>3. ASSUME NEW d \in Conn, NEW k \in Topic
            PROVE  /\ d \in subscribers'[k] <=> (d \in subscribers[k] \/ (d = c /\ k = msg.key))
                   /\ k \in subscribedTo'[d] <=> (k \in subscribedTo[d] \/ (d = c /\ k = msg.key))
        BY <2>0, <4>1 DEF TopicTypeOK
      <4> QED
        BY <2>0, <3>1, <4>1, <4>2, <4>3 DEF SubscriptionsAgree, SubscriptionsAreLive
    <3>2. CASE msg.key \notin topics
      BY <2>1, <2>4, <3>2 DEF TopicSubscribe, subVars, TopicTypeOK, SubscriptionsAgree,
                              SubscriptionsAreLive
    <3> QED
      BY <3>1, <3>2
  <2>5. CASE TopicCancel(c, msg)
    <3>1. TopicTypeOK'
      <4>1. /\ subscribers' \in [Topic -> SUBSET Conn]
            /\ subscribedTo' \in [Conn -> SUBSET Topic]
        <5>0. /\ subscribers \in [Topic -> SUBSET Conn] /\ subscribers[msg.key] \ {c} \in SUBSET Conn
              /\ subscribedTo \in [Conn -> SUBSET Topic] /\ subscribedTo[c] \ {msg.key} \in SUBSET Topic
          BY <2>0 DEF TopicTypeOK
        <5>1. CASE c \in hasObject /\ msg.key \in topics
          BY <2>5, <5>0, <5>1 DEF TopicCancel
        <5>2. CASE c \in hasObject /\ msg.key \notin topics
          BY <2>5, <5>0, <5>2 DEF TopicCancel
        <5>3. CASE c \notin hasObject
          BY <2>5, <5>3 DEF TopicCancel, TopicTypeOK
        <5> QED
          BY <5>1, <5>2, <5>3
      <4> QED
        BY <2>1, <2>5, <4>1 DEF TopicCancel, TopicTypeOK
    <3>2. ASSUME NEW d \in Conn, NEW k \in Topic
          PROVE  /\ d \in subscribers'[k] <=> (d \in subscribers[k] /\ ~ (d = c /\ k = msg.key))
                 /\ k \in subscribedTo'[d] <=> (k \in subscribedTo[d] /\ ~ (d = c /\ k = msg.key))
      <4>1. CASE c \in hasObject
        BY <2>0, <2>5, <4>1 DEF TopicCancel, TopicTypeOK, SubscriptionsAreLive
      <4>2. CASE c \notin hasObject
        BY <2>5, <4>2 DEF TopicCancel, SubscriptionsAreLive, SubscriptionsAgree
      <4> QED
        BY <4>1, <4>2
    <3> QED
      BY <2>5, <3>1, <3>2 DEF TopicCancel, SubscriptionsAgree, SubscriptionsAreLive
  <2>6. CASE TopicPublish(c, msg) \/ InvalidOperation(c, msg)
    BY <2>1, <2>6 DEF TopicPublish, InvalidOperation, subVars, TopicTypeOK, SubscriptionsAgree,
                      SubscriptionsAreLive
  <2> QED
    BY <1>2, <2>2, <2>3, <2>4, <2>5, <2>6 DEF OnTopicRequest
<1>3. ASSUME NEW c \in Conn, OnShutDown(c) PROVE IInv'
  <2>1. ASSUME NEW d \in Conn, NEW k \in Topic
        PROVE  /\ d \in subscribers'[k] <=> (d \in subscribers[k] /\ d # c)
               /\ k \in subscribedTo'[d] <=> (k \in subscribedTo[d] /\ d # c)
    <3>1. CASE c \in hasObject
      BY <1>3, <3>1 DEF OnShutDown, TopicTypeOK, SubscriptionsAgree, SubscriptionsAreLive
    <3>2. CASE c \notin hasObject
      BY <1>3, <3>2 DEF OnShutDown, subVars, SubscriptionsAgree, SubscriptionsAreLive
    <3> QED
      BY <3>1, <3>2
  <2>2. hasObject' = hasObject \ {c} /\ connected' = connected \ {c} /\ topics' = topics
    BY <1>3 DEF OnShutDown, subVars
  <2>3. TopicTypeOK'
    <3>1. toClient' \in [Conn -> Seq(Message)]
      BY <1>3 DEF OnShutDown, TopicTypeOK
    <3>2. subscribers' \in [Topic -> SUBSET Conn] /\ subscribedTo' \in [Conn -> SUBSET Topic]
      <4>0. /\ subscribedTo \in [Conn -> SUBSET Topic]
            /\ \A k \in Topic : subscribers[k] \in SUBSET Conn /\ subscribers[k] \ {c} \in SUBSET Conn
        BY DEF TopicTypeOK
      <4>1. CASE c \in hasObject
        BY <1>3, <4>0, <4>1 DEF OnShutDown
      <4>2. CASE c \notin hasObject
        BY <1>3, <4>2 DEF OnShutDown, TopicTypeOK, subVars
      <4> QED
        BY <4>1, <4>2
    <3> QED
      BY <2>2, <3>1, <3>2 DEF TopicTypeOK
  <2> QED
    BY <2>1, <2>2, <2>3 DEF SubscriptionsAgree, SubscriptionsAreLive
<1>4. ASSUME NEW c \in Conn, Receive(c) PROVE IInv'
  <2>1. toClient' \in [Conn -> Seq(Message)]
    BY <1>4 DEF Receive, TopicTypeOK
  <2> QED
    BY <1>4, <2>1 DEF Receive, subVars, TopicTypeOK, SubscriptionsAgree, SubscriptionsAreLive
<1>5. CASE UNCHANGED vars
  BY <1>5 DEF vars, subVars, TopicTypeOK, SubscriptionsAgree, SubscriptionsAreLive
<1> QED
  BY <1>1, <1>2, <1>3, <1>4, <1>5 DEF ServerStep

(* Every step of the topic server keeps the invariant.                     *)
LEMMA NextInvariant == IInv /\ [Next]_vars => IInv'
BY StepPreserves DEF Next, ServerStep
-----------------------------------------------------------------------------
(* Every reachable state of the topic server satisfies the invariant ...   *)
THEOREM InvariantHolds == Spec => []IInv
<1> QED
  BY InitInvariant, NextInvariant, PTL DEF Spec

(* ... so every variable keeps its type, the queued messages included,     *)
THEOREM TypeCorrect == Spec => []TopicTypeOK
<1>1. IInv => TopicTypeOK
  BY DEF IInv
<1> QED
  BY <1>1, InvariantHolds, PTL

(* Topics and Subscribers agree,                                           *)
THEOREM SubscriptionsAlwaysAgree == Spec => []SubscriptionsAgree
<1>1. IInv => SubscriptionsAgree
  BY DEF IInv
<1> QED
  BY <1>1, InvariantHolds, PTL

(* and nothing is ever pushed to a closed connection or kept for a topic   *)
(* that was removed.                                                       *)
THEOREM SubscriptionsStayLive == Spec => []SubscriptionsAreLive
<1>1. IInv => SubscriptionsAreLive
  BY DEF IInv
<1> QED
  BY <1>1, InvariantHolds, PTL
-----------------------------------------------------------------------------
(* Refinement: each handler is one step of the abstract service.           *)

(* The server's response is the reply of the publish/subscribe service.    *)
LEMMA ResponseIsReply ==
  ASSUME NEW net, NEW c \in Conn, NEW msg \in TopicRequest, NEW code
  PROVE  Respond(net, c, msg, code) = Service!Reply(net, c, code, msg.rid)
BY DEF Respond, Service!Reply

(* Whoever is subscribed gets the publication, and only those.             *)
LEMMA PushReachesInterest ==
  ASSUME NEW msg \in TopicRequest
  PROVE  PushMessage(msg) =
           [q \in Conn |-> IF <<q, msg.key>> \in Interest
                           THEN Append(toClient[q],
                                       [kind |-> "publish", rid |-> msg.rid, topic |-> msg.key])
                           ELSE toClient[q]]
<1>1. msg.key \in Topic
  BY DEF TopicRequest
<1>2. \A q \in Conn : <<q, msg.key>> \in Interest <=> q \in subscribers[msg.key]
  BY <1>1 DEF Interest
<1> QED
  BY <1>2 DEF PushMessage

(* Each operation of OnTopicRequest is one operation of the service, with  *)
(* the messages it sends.                                                  *)
LEMMA RequestIsAsk ==
  ASSUME IInv, NEW c \in Conn, NEW msg \in TopicRequest, OnTopicRequest(c, msg)
  PROVE  Service!Ask(c, msg.key, msg.rid)
<1>0. /\ c \in connected /\ msg.key \in Topic /\ msg.rid \in Rid
      /\ TopicTypeOK /\ SubscriptionsAgree /\ SubscriptionsAreLive
  BY DEF OnTopicRequest, TopicRequest, IInv
<1>1. UNCHANGED subscribers => UNCHANGED Interest
  BY DEF Interest
<1>2. CASE TopicCreate(c, msg)
  <2>1. Service!Open(c, msg.key, msg.rid)
    BY <1>1, <1>2, ResponseIsReply DEF TopicCreate, Service!Open
  <2> QED
    BY <1>0, <2>1 DEF Service!Ask
<1>3. CASE TopicRemove(c, msg)
  <2>1. topics' = topics \ {msg.key} /\ UNCHANGED connected
    BY <1>3 DEF TopicRemove
  <2>2. \A d \in Conn, k \in Topic : d \in subscribers'[k] <=> (d \in subscribers[k] /\ k # msg.key)
    BY <1>0, <1>3 DEF TopicRemove, TopicTypeOK, SubscriptionsAreLive
  <2>3. Interest' = {x \in Interest : x[2] # msg.key}
    BY <2>2 DEF Interest
  <2>4. Service!Close(c, msg.key, msg.rid)
    BY <1>3, <2>1, <2>3, ResponseIsReply DEF TopicRemove, Service!Close
  <2> QED
    BY <1>0, <2>4 DEF Service!Ask
<1>4. CASE TopicSubscribe(c, msg)
  <2>1. ASSUME msg.key \in topics PROVE Service!Subscribe(c, msg.key, msg.rid)
    <3>1. subscribers' = [subscribers EXCEPT ![msg.key] = @ \cup {c}]
      BY <1>4, <2>1 DEF TopicSubscribe
    <3>2. Interest' = Interest \cup {<<c, msg.key>>}
      BY <1>0, <3>1 DEF Interest, TopicTypeOK
    <3>3. toClient' = Service!Reply(toClient, c, "RCODE_OK", msg.rid)
      BY <1>4, <2>1, ResponseIsReply DEF TopicSubscribe
    <3> QED
      BY <1>4, <2>1, <3>2, <3>3 DEF TopicSubscribe, Service!Subscribe
  <2>2. ASSUME msg.key \notin topics PROVE Service!Subscribe(c, msg.key, msg.rid)
    <3>1. toClient' = Service!Reply(toClient, c, "RCODE_NOT_FOUND_TOPIC", msg.rid)
      BY <1>4, <2>2, ResponseIsReply DEF TopicSubscribe
    <3> QED
      BY <1>1, <1>4, <2>2, <3>1 DEF TopicSubscribe, Service!Subscribe
  <2> QED
    BY <1>0, <2>1, <2>2 DEF Service!Ask
<1>5. CASE TopicCancel(c, msg)
  <2>1. \A d \in Conn, k \in Topic :
          d \in subscribers'[k] <=> (d \in subscribers[k] /\ ~ (d = c /\ k = msg.key))
    <3>1. CASE c \in hasObject /\ msg.key \in topics
      BY <1>0, <1>5, <3>1 DEF TopicCancel, TopicTypeOK
    <3>2. CASE c \notin hasObject \/ msg.key \notin topics
      BY <1>0, <1>5, <3>2 DEF TopicCancel, SubscriptionsAreLive
    <3> QED
      BY <3>1, <3>2
  <2>2. Interest' = Interest \ {<<c, msg.key>>}
    BY <2>1 DEF Interest
  <2>3. Service!Unsubscribe(c, msg.key, msg.rid)
    BY <1>5, <2>2, ResponseIsReply DEF TopicCancel, Service!Unsubscribe
  <2> QED
    BY <1>0, <2>3 DEF Service!Ask
<1>6. CASE TopicPublish(c, msg)
  <2> DEFINE pub == [kind |-> "publish", rid |-> msg.rid, topic |-> msg.key]
             box == [q \in Conn |-> IF <<q, msg.key>> \in Interest
                                    THEN Append(toClient[q], pub) ELSE toClient[q]]
             code == IF msg.key \in topics THEN "RCODE_OK" ELSE "RCODE_NOT_FOUND_TOPIC"
  <2>1. toClient' = Service!Reply(box, c, code, msg.rid)
    <3>1. CASE msg.key \in topics
      <4>1. PushMessage(msg) = box
        BY PushReachesInterest
      <4>2. toClient' = Respond(PushMessage(msg), c, msg, code)
        BY <1>6, <3>1 DEF TopicPublish
      <4> HIDE DEF box, code
      <4> QED
        BY <4>1, <4>2, ResponseIsReply
    <3>2. CASE msg.key \notin topics
      <4>1. \A q \in Conn : <<q, msg.key>> \notin Interest
        BY <1>0, <3>2 DEF Interest, SubscriptionsAreLive
      <4>2. toClient = [q \in Conn |-> toClient[q]]
        BY <1>0 DEF TopicTypeOK
      <4>3. toClient = box
        BY <4>1, <4>2
      <4>4. toClient' = Respond(toClient, c, msg, code)
        BY <1>6, <3>2 DEF TopicPublish
      <4> HIDE DEF box, code
      <4> QED
        BY <4>3, <4>4, ResponseIsReply
    <3> QED
      BY <3>1, <3>2
  <2>2. UNCHANGED <<connected, topics, Interest>>
    BY <1>1, <1>6 DEF TopicPublish
  <2>3. Service!Publish(c, msg.key, msg.rid)
    BY <2>1, <2>2 DEF Service!Publish
  <2> QED
    BY <1>0, <2>3 DEF Service!Ask
<1>7. CASE InvalidOperation(c, msg)
  <2>1. Service!Refuse(c, msg.rid)
    BY <1>1, <1>7, ResponseIsReply DEF InvalidOperation, Service!Refuse
  <2> QED
    BY <1>0, <2>1 DEF Service!Ask
<1> QED
  BY <1>2, <1>3, <1>4, <1>5, <1>6, <1>7 DEF OnTopicRequest

(* OnShutDown is a member leaving with all its subscriptions.              *)
LEMMA ShutDownIsLeave ==
  ASSUME IInv, NEW c \in Conn, OnShutDown(c)
  PROVE  Service!Leave(c)
<1>1. TopicTypeOK /\ SubscriptionsAgree /\ SubscriptionsAreLive
  BY DEF IInv
<1>2. \A d \in Conn, k \in Topic : d \in subscribers'[k] <=> (d \in subscribers[k] /\ d # c)
  <2>1. CASE c \in hasObject
    <3>1. subscribers' = [k \in Topic |-> IF k \in topics /\ k \in subscribedTo[c]
                                         THEN subscribers[k] \ {c} ELSE subscribers[k]]
      BY <2>1 DEF OnShutDown
    <3> QED
      BY <1>1, <3>1 DEF SubscriptionsAgree, SubscriptionsAreLive
  <2>2. CASE c \notin hasObject
    BY <1>1, <2>2 DEF OnShutDown, SubscriptionsAreLive
  <2> QED
    BY <2>1, <2>2
<1>3. Interest' = {x \in Interest : x[1] # c}
  BY <1>2 DEF Interest
<1> QED
  BY <1>3 DEF OnShutDown, Service!Leave

(* Every step of the topic server is one of the service or changes         *)
(* nothing it shows.                                                       *)
LEMMA StepRefines ==
  ASSUME IInv, ServerStep \/ UNCHANGED vars
  PROVE  [Service!PubSubNext]_(Service!pubSubVars)
<1>1. UNCHANGED subscribers => UNCHANGED Interest
  BY DEF Interest
<1>2. ASSUME NEW c \in Conn, OnConnected(c) PROVE Service!Join(c)
  BY <1>1, <1>2 DEF OnConnected, Service!Join
<1>3. ASSUME NEW c \in Conn, NEW msg \in TopicRequest, OnTopicRequest(c, msg)
      PROVE  \E s \in Topic, r \in Rid : Service!Ask(c, s, r)
  BY <1>3, RequestIsAsk DEF TopicRequest
<1>4. ASSUME NEW c \in Conn, OnShutDown(c) PROVE Service!Leave(c)
  BY <1>4, ShutDownIsLeave
<1>5. ASSUME NEW c \in Conn, Receive(c) PROVE Service!Read(c)
  BY <1>1, <1>5 DEF Receive, Service!Read
<1>6. CASE UNCHANGED vars
  BY <1>1, <1>6 DEF vars, Service!pubSubVars
<1> QED
  BY <1>2, <1>3, <1>4, <1>5, <1>6 DEF ServerStep, Service!PubSubNext

(* TopicManager's maps implement publish/subscribe, whatever is requested  *)
(* and whenever connections close.                                         *)
THEOREM TopicServerRefinesPubSub == Spec => ImplementsPubSub
<1>1. Init => Service!PubSubInit
  BY DEF Init, Service!PubSubInit, Interest
<1>2. IInv /\ [Next]_vars => [Service!PubSubNext]_(Service!pubSubVars)
  BY StepRefines DEF Next, ServerStep
<1> QED
  BY <1>1, <1>2, InvariantHolds, PTL DEF Spec, ImplementsPubSub, Service!PubSubSpec

-----------------------------------------------------------------------------
(* The client processes.  What follows is the invariant of calls and       *)
(* answers: a thread that waits has its one answer on its way, and nobody  *)
(* else has one.                                                           *)

Codes  == {"RCODE_OK", "RCODE_NOT_FOUND_TOPIC", "RCODE_INVALID_OPTYPE"}
Stages == {"new", "idle", "asked", "waiting", "answered"}

Pub(msg)       == [kind |-> "publish", rid |-> msg.rid, topic |-> msg.key]
Rsp(msg, code) == [kind |-> "response", rid |-> msg.rid, rcode |-> code]

(* The places of the answers to t in a queue, and how many there are to be.*)
Answers(q, t) == {i \in 1..Len(q) : q[i].kind = "response" /\ q[i].rid = t}

AnswerDue(t, up, p, q) ==
  IF p = "waiting" /\ up
  THEN \E i \in Answers(q, t) : Answers(q, t) = {i}
  ELSE Answers(q, t) = {}

(* Answers reach the process that asked.                                   *)
OwnAnswers(c, q) ==
  \A i \in 1..Len(q) : q[i].kind = "response" => (q[i].rid \in Thread /\ ClientOf[q[i].rid] = c)

CallTypes ==
  /\ callbacks \in [Conn -> SUBSET Topic]
  /\ pc \in [Thread -> Stages]
  /\ request \in [Thread -> TopicRequest \cup {NoRequest}]
  /\ rcode \in [Thread -> {"none"} \cup Codes]

CallStages ==
  \A t \in Thread :
    /\ pc[t] \in {"new", "idle"} => request[t] = NoRequest
    /\ pc[t] \notin {"new", "idle"} => (request[t] \in TopicRequest /\ request[t].rid = t)
    /\ rcode[t] # "none" <=> pc[t] = "answered"

CInv ==
  /\ IInv
  /\ CallTypes
  /\ CallStages
  /\ \A c \in Process : OwnAnswers(c, toClient[c])
  /\ \A t \in Thread : AnswerDue(t, ClientOf[t] \in connected, pc[t], toClient[ClientOf[t]])
-----------------------------------------------------------------------------
(* A process has a connection, which is that of each of its threads.       *)
LEMMA ProcessIsConn == /\ Process \subseteq Conn
                       /\ \A t \in Thread : ClientOf[t] \in Process /\ ClientOf[t] \in Conn
BY TopicClientAssumption DEF Process

(* What a queue holds after a message is added or taken.                   *)
LEMMA AppendAt ==
  ASSUME NEW q \in Seq(Message), NEW m \in Message
  PROVE  /\ Append(q, m) \in Seq(Message)
         /\ Len(Append(q, m)) = Len(q) + 1
         /\ Len(q) \in Nat
         /\ \A i \in 1..Len(q) : Append(q, m)[i] = q[i]
         /\ Append(q, m)[Len(q) + 1] = m
OBVIOUS

(* The first message of a queue, and the others.                           *)
LEMMA TailAt ==
  ASSUME NEW q \in Seq(Message), q # <<>>
  PROVE  /\ Tail(q) \in Seq(Message)
         /\ Len(q) \in Nat /\ Len(q) >= 1
         /\ Len(Tail(q)) = Len(q) - 1
         /\ \A i \in 1..Len(Tail(q)) : Tail(q)[i] = q[i + 1]
         /\ Head(q) = q[1]
OBVIOUS

(* Where the answers to a thread are once a message was appended.          *)
LEMMA AnswersAppend ==
  ASSUME NEW q \in Seq(Message), NEW m \in Message, NEW t
  PROVE  /\ ~ (m.kind = "response" /\ m.rid = t) => Answers(Append(q, m), t) = Answers(q, t)
         /\ m.kind = "response" /\ m.rid = t =>
              Answers(Append(q, m), t) = Answers(q, t) \cup {Len(q) + 1}
<1>1. 1..Len(Append(q, m)) = 1..Len(q) \cup {Len(q) + 1}
  BY AppendAt
<1> QED
  BY <1>1, AppendAt DEF Answers

(* Where the answers to a thread are once the first message was taken.     *)
LEMMA AnswersTail ==
  ASSUME NEW q \in Seq(Message), q # <<>>, NEW t
  PROVE  /\ \A i : i \in Answers(Tail(q), t) <=> (i \in 1..(Len(q) - 1) /\ i + 1 \in Answers(q, t))
         /\ 1 \in Answers(q, t) <=> (Head(q).kind = "response" /\ Head(q).rid = t)
<1>1. ASSUME NEW i
      PROVE  i \in Answers(Tail(q), t) <=> (i \in 1..(Len(q) - 1) /\ i + 1 \in Answers(q, t))
  <2>1. \A j \in 1..(Len(q) - 1) : j + 1 \in 1..Len(q) /\ Tail(q)[j] = q[j + 1]
    BY TailAt
  <2>2. Answers(Tail(q), t) = {j \in 1..(Len(q) - 1) : Tail(q)[j].kind = "response" /\ Tail(q)[j].rid = t}
    BY TailAt DEF Answers
  <2> QED
    BY <2>1, <2>2 DEF Answers
<1>2. 1 \in Answers(q, t) <=> (Head(q).kind = "response" /\ Head(q).rid = t)
  BY TailAt DEF Answers
<1> QED
  BY <1>1, <1>2

(* An answer due stays the only one whatever else is sent.                 *)
LEMMA DueAfterAppend ==
  ASSUME NEW q \in Seq(Message), NEW m \in Message, NEW t, NEW up, NEW p,
         ~ (m.kind = "response" /\ m.rid = t), AnswerDue(t, up, p, q)
  PROVE  AnswerDue(t, up, p, Append(q, m))
BY AnswersAppend DEF AnswerDue

(* An answer due stays due when another message is taken.                  *)
LEMMA DueAfterTail ==
  ASSUME NEW q \in Seq(Message), q # <<>>, NEW t, NEW up, NEW p,
         ~ (Head(q).kind = "response" /\ Head(q).rid = t), AnswerDue(t, up, p, q)
  PROVE  AnswerDue(t, up, p, Tail(q))
<1>1. 1 \notin Answers(q, t) /\ Answers(q, t) \subseteq 1..Len(q) /\ Len(q) \in Nat
  BY AnswersTail, TailAt DEF Answers
<1>2. CASE ~ (p = "waiting" /\ up)
  BY <1>2, AnswersTail DEF AnswerDue
<1>3. CASE p = "waiting" /\ up
  <2>1. PICK i \in Answers(q, t) : Answers(q, t) = {i}
    BY <1>3 DEF AnswerDue
  <2>2. i \in 2..Len(q) /\ i - 1 \in 1..(Len(q) - 1) /\ (i - 1) + 1 = i
    BY <1>1, <2>1
  <2>3. i - 1 \in Answers(Tail(q), t)
    BY <2>1, <2>2, AnswersTail
  <2>4. ASSUME NEW j \in Answers(Tail(q), t) PROVE j = i - 1
    <3>1. j + 1 = i /\ j \in 1..(Len(q) - 1)
      BY <2>1, AnswersTail
    <3> QED
      BY <1>1, <3>1
  <2>5. Answers(Tail(q), t) = {i - 1}
    BY <2>3, <2>4
  <2> QED
    BY <1>3, <2>3, <2>5 DEF AnswerDue
<1> QED
  BY <1>2, <1>3

(* A queue has only its own threads' answers if the message appended is    *)
(* one of theirs, or none.                                                 *)
LEMMA OwnAfterAppend ==
  ASSUME NEW c, NEW q \in Seq(Message), NEW m \in Message, OwnAnswers(c, q),
         m.kind = "response" => (m.rid \in Thread /\ ClientOf[m.rid] = c)
  PROVE  OwnAnswers(c, Append(q, m))
<1>1. 1..Len(Append(q, m)) = 1..Len(q) \cup {Len(q) + 1}
  BY AppendAt
<1> QED
  BY <1>1, AppendAt DEF OwnAnswers

(* Taking a message leaves a queue that has only its own threads'          *)
(* answers.                                                                *)
LEMMA OwnAfterTail ==
  ASSUME NEW c, NEW q \in Seq(Message), q # <<>>, OwnAnswers(c, q)
  PROVE  OwnAnswers(c, Tail(q))
<1>1. \A i \in 1..Len(Tail(q)) : i + 1 \in 1..Len(q) /\ Tail(q)[i] = q[i + 1]
  BY TailAt
<1> QED
  BY <1>1 DEF OwnAnswers
-----------------------------------------------------------------------------
(* What a request does to the queues: everyone keeps what he had, a        *)
(* subscriber may get one publication, and then the asker gets one answer. *)
(* A Subscribe is refused only if nobody is subscribed.                    *)
LEMMA RequestQueues ==
  ASSUME IInv, NEW d \in Conn, NEW msg \in TopicRequest, OnTopicRequest(d, msg)
  PROVE  \E mid \in [Conn -> Seq(Message)], code \in Codes :
           /\ toClient' = [mid EXCEPT ![d] = Append(@, Rsp(msg, code))]
           /\ \A c \in Conn : \/ mid[c] = toClient[c]
                              \/ /\ msg.optype = "TOPIC_PUBLISH"
                                 /\ c \in subscribers[msg.key]
                                 /\ mid[c] = Append(toClient[c], Pub(msg))
           /\ (msg.optype = "TOPIC_SUBSCRIBE" /\ code # "RCODE_OK") => d \notin subscribers'[msg.key]
<1>0. /\ toClient \in [Conn -> Seq(Message)] /\ msg.key \in Topic
      /\ \A c \in Conn, k \in Topic : c \in subscribers[k] => k \in topics
  BY DEF IInv, TopicTypeOK, SubscriptionsAreLive, TopicRequest
<1>1. CASE \E code \in Codes : /\ toClient' = Respond(toClient, d, msg, code)
                               /\ (msg.optype = "TOPIC_SUBSCRIBE" /\ code # "RCODE_OK")
                                    => d \notin subscribers'[msg.key]
  BY <1>0, <1>1 DEF Respond, Rsp
<1>2. CASE msg.optype = "TOPIC_PUBLISH" /\ toClient' = Respond(PushMessage(msg), d, msg, "RCODE_OK")
  <2>1. PushMessage(msg) \in [Conn -> Seq(Message)]
    BY <1>0, PushMessageType
  <2>2. \A c \in Conn : \/ PushMessage(msg)[c] = toClient[c]
                        \/ /\ c \in subscribers[msg.key]
                           /\ PushMessage(msg)[c] = Append(toClient[c], Pub(msg))
    BY DEF PushMessage, Pub
  <2>3. toClient' = [PushMessage(msg) EXCEPT ![d] = Append(@, Rsp(msg, "RCODE_OK"))]
    BY <1>2 DEF Respond, Rsp
  <2>4. "RCODE_OK" \in Codes
    BY DEF Codes
  <2> QED
    BY <1>2, <2>1, <2>2, <2>3, <2>4
<1>3. ASSUME TopicSubscribe(d, msg)
      PROVE  \E code \in Codes : /\ toClient' = Respond(toClient, d, msg, code)
                                 /\ code # "RCODE_OK" => d \notin subscribers'[msg.key]
  BY <1>0, <1>3 DEF TopicSubscribe, Codes
<1>4. ASSUME TopicPublish(d, msg)
      PROVE  \/ /\ msg.optype = "TOPIC_PUBLISH"
                /\ toClient' = Respond(PushMessage(msg), d, msg, "RCODE_OK")
             \/ /\ msg.optype = "TOPIC_PUBLISH"
                /\ toClient' = Respond(toClient, d, msg, "RCODE_NOT_FOUND_TOPIC")
  BY <1>4 DEF TopicPublish
<1> QED
  BY <1>1, <1>2, <1>3, <1>4
     DEF OnTopicRequest, TopicCreate, TopicRemove, TopicCancel, InvalidOperation, Codes

(* What a request does to the subscriptions: only the asker can gain one,  *)
(* by Subscribe, and Cancel takes his away.                                *)
LEMMA RequestSubscriptions ==
  ASSUME IInv, NEW d \in Conn, NEW msg \in TopicRequest, OnTopicRequest(d, msg)
  PROVE  /\ \A c \in Conn, k \in Topic :
              c \in subscribers'[k] =>
                \/ c \in subscribers[k]
                \/ c = d /\ k = msg.key /\ msg.optype = "TOPIC_SUBSCRIBE"
         /\ msg.optype = "TOPIC_CANCEL" => d \notin subscribers'[msg.key]
         /\ msg.optype = "TOPIC_PUBLISH" => subscribers' = subscribers
         /\ UNCHANGED connected
<1>0. /\ subscribers \in [Topic -> SUBSET Conn] /\ msg.key \in Topic
      /\ \A c \in Conn, k \in Topic : c \in subscribers[k] => (k \in topics /\ c \in hasObject)
  BY DEF IInv, TopicTypeOK, SubscriptionsAreLive, TopicRequest
<1>1. CASE TopicCreate(d, msg) \/ TopicPublish(d, msg) \/ InvalidOperation(d, msg)
  BY <1>1 DEF TopicCreate, TopicPublish, InvalidOperation
<1>2. CASE TopicRemove(d, msg)
  BY <1>0, <1>2 DEF TopicRemove
<1>3. CASE TopicSubscribe(d, msg)
  BY <1>0, <1>3 DEF TopicSubscribe
<1>4. CASE TopicCancel(d, msg)
  BY <1>0, <1>4 DEF TopicCancel
<1> QED
  BY <1>1, <1>2, <1>3, <1>4 DEF OnTopicRequest

-----------------------------------------------------------------------------
(* Before the processes connect no call is under way.                      *)
LEMMA ClientInitInvariant == ClientInit => CInv
<1> SUFFICES ASSUME ClientInit PROVE CInv
  OBVIOUS
<1>1. IInv
  BY InitInvariant DEF ClientInit, Init
<1>2. CallTypes /\ CallStages
  BY DEF ClientInit, CallTypes, CallStages, Stages
<1>3. \A c \in Conn : toClient[c] = <<>>
  BY DEF ClientInit
<1> QED
  BY <1>1, <1>2, <1>3, ProcessIsConn DEF ClientInit, CInv, OwnAnswers, AnswerDue, Answers

(* Every step of the system is one of the server, or none for it.          *)
LEMMA ClientStepIsServerStep ==
  ASSUME CInv, ClientNext \/ UNCHANGED allVars
  PROVE  ServerStep \/ UNCHANGED vars
<1>1. ASSUME NEW t \in Thread, NEW k \in Topic,
             Subscribe(t, k) \/ Cancel(t, k) \/ CreateOrRemove(t, k) \/ Publish(t, k)
      PROVE  UNCHANGED vars
  BY <1>1 DEF Subscribe, Cancel, CreateOrRemove, Publish, CommonRequest
<1>2. ASSUME NEW t \in Thread, HandleRequest(t) PROVE ServerStep
  <2>1. request[t] \in TopicRequest
    BY <1>2 DEF HandleRequest, CInv, CallStages
  <2> QED
    BY <1>2, <2>1, ProcessIsConn DEF HandleRequest, ServerStep
<1>3. ASSUME NEW t \in Thread, Return(t) PROVE UNCHANGED vars
  BY <1>3 DEF Return
<1>4. ASSUME NEW c \in Process, Construct(c) \/ IOThread(c) \/ LoseConnection(c) PROVE ServerStep
  BY <1>4, ProcessIsConn
     DEF Construct, IOThread, OnResponse, OnPublish, LoseConnection, ServerStep
<1>5. ASSUME NEW c \in Conn \ Process, OtherPeer(c) PROVE ServerStep
  BY <1>5 DEF OtherPeer, ServerStep
<1>6. CASE UNCHANGED allVars
  BY <1>6 DEF allVars
<1> QED
  BY <1>1, <1>2, <1>3, <1>4, <1>5, <1>6 DEF ClientNext

(* With clients the server does nothing it would not do by itself.         *)
LEMMA ClientStepPreservesIInv ==
  ASSUME CInv, ClientNext \/ UNCHANGED allVars
  PROVE  IInv'
BY ClientStepIsServerStep, StepPreserves DEF CInv

(* One lemma for each kind of step.  A call begins:                        *)
LEMMA AskPreservesCalls ==
  ASSUME CInv, IInv', NEW t \in Thread, NEW o \in OpTypes, NEW k \in Topic,
         CommonRequest(t, o, k), callbacks' \in [Conn -> SUBSET Topic]
  PROVE  CInv'
<1> DEFINE req == [rid |-> t, optype |-> o, key |-> k]
<1>1. req \in TopicRequest
  BY TopicClientAssumption DEF TopicRequest
<1>2. /\ pc[t] = "idle" /\ UNCHANGED <<vars, rcode>>
      /\ pc' = [pc EXCEPT ![t] = "asked"] /\ request' = [request EXCEPT ![t] = req]
  BY DEF CommonRequest
<1>3. CallTypes'
  BY <1>1, <1>2 DEF CInv, CallTypes, Stages
<1>4. CallStages'
  BY <1>1, <1>2 DEF CInv, CallTypes, CallStages
<1>5. connected' = connected /\ toClient' = toClient
  BY <1>2 DEF vars
<1>6. \A u \in Thread : AnswerDue(u, ClientOf[u] \in connected', pc'[u], toClient'[ClientOf[u]])
  BY <1>2, <1>5 DEF CInv, CallTypes, AnswerDue
<1> QED
  BY <1>3, <1>4, <1>5, <1>6 DEF CInv

(* ... and returns.                                                        *)
LEMMA ReturnPreservesCalls ==
  ASSUME CInv, IInv', NEW t \in Thread, Return(t)
  PROVE  CInv'
<1>1. /\ pc[t] = "answered" /\ UNCHANGED vars
      /\ pc' = [pc EXCEPT ![t] = "idle"] /\ request' = [request EXCEPT ![t] = NoRequest]
      /\ rcode' = [rcode EXCEPT ![t] = "none"]
  BY DEF Return
<1>2. callbacks' \in [Conn -> SUBSET Topic]
  <2>1. callbacks[ClientOf[t]] \ {request[t].key} \in SUBSET Topic
    BY ProcessIsConn DEF CInv, CallTypes
  <2> QED
    BY <2>1 DEF Return, DelSubscribe, CInv, CallTypes
<1>3. CallTypes'
  BY <1>1, <1>2 DEF CInv, CallTypes, Stages
<1>4. CallStages'
  BY <1>1 DEF CInv, CallTypes, CallStages
<1>5. connected' = connected /\ toClient' = toClient
  BY <1>1 DEF vars
<1>6. \A u \in Thread : AnswerDue(u, ClientOf[u] \in connected', pc'[u], toClient'[ClientOf[u]])
  BY <1>1, <1>5 DEF CInv, CallTypes, AnswerDue
<1> QED
  BY <1>3, <1>4, <1>5, <1>6 DEF CInv

(* The server answers a request of a thread of this library.               *)
LEMMA HandlePreservesCalls ==
  ASSUME CInv, IInv', NEW t \in Thread, HandleRequest(t)
  PROVE  CInv'
<1> DEFINE d == ClientOf[t]
           msg == request[t]
<1>0. /\ pc[t] = "asked" /\ pc' = [pc EXCEPT ![t] = "waiting"]
      /\ UNCHANGED <<callbacks, request, rcode>> /\ OnTopicRequest(d, msg)
      /\ d \in Process /\ d \in Conn
  BY ProcessIsConn DEF HandleRequest
<1>1. msg \in TopicRequest /\ msg.rid = t
  BY <1>0 DEF CInv, CallStages
<1>2. PICK mid \in [Conn -> Seq(Message)], code \in Codes :
        /\ toClient' = [mid EXCEPT ![d] = Append(@, Rsp(msg, code))]
        /\ \A c \in Conn : \/ mid[c] = toClient[c]
                           \/ /\ msg.optype = "TOPIC_PUBLISH"
                              /\ c \in subscribers[msg.key]
                              /\ mid[c] = Append(toClient[c], Pub(msg))
        /\ (msg.optype = "TOPIC_SUBSCRIBE" /\ code # "RCODE_OK") => d \notin subscribers'[msg.key]
  <2>1. OnTopicRequest(d, msg) /\ IInv
    BY <1>0 DEF CInv
  <2> HIDE DEF msg, d
  <2> QED
    BY <1>0, <1>1, <2>1, RequestQueues
<1>3. connected' = connected /\ d \in connected
  BY <1>0, <1>1, RequestSubscriptions DEF CInv, OnTopicRequest
<1>4. /\ Pub(msg) \in Message /\ Pub(msg).kind = "publish"
      /\ Rsp(msg, code) \in Message /\ Rsp(msg, code).kind = "response" /\ Rsp(msg, code).rid = t
  BY <1>1 DEF Pub, Rsp, Message, TopicRequest, Codes
<1>9. \A c \in Conn : mid[c] = toClient[c] \/ mid[c] = Append(toClient[c], Pub(msg))
  BY <1>2
<1>5. toClient \in [Conn -> Seq(Message)]
  BY DEF CInv, IInv, TopicTypeOK
<1>6. ASSUME NEW c \in Process PROVE OwnAnswers(c, toClient'[c])
  <2>1. OwnAnswers(c, mid[c]) /\ c \in Conn
    BY <1>4, <1>5, <1>9, ProcessIsConn, OwnAfterAppend DEF CInv
  <2> QED
    BY <1>2, <1>4, <2>1, OwnAfterAppend
<1>7. ASSUME NEW u \in Thread
      PROVE  AnswerDue(u, ClientOf[u] \in connected', pc'[u], toClient'[ClientOf[u]])
  <2>0. ClientOf[u] \in Conn
    BY ProcessIsConn
  <2>1. AnswerDue(u, ClientOf[u] \in connected, pc[u], mid[ClientOf[u]])
    <3>1. AnswerDue(u, ClientOf[u] \in connected, pc[u], toClient[ClientOf[u]])
      BY DEF CInv
    <3> QED
      BY <1>4, <1>5, <1>9, <2>0, <3>1, DueAfterAppend
  <2>2. CASE u = t
    <3>1. Answers(mid[d], t) = {}
      BY <1>0, <2>1, <2>2 DEF AnswerDue
    <3>2. Answers(toClient'[d], t) = {Len(mid[d]) + 1}
      <4>1. toClient'[d] = Append(mid[d], Rsp(msg, code)) /\ mid[d] \in Seq(Message)
        BY <1>0, <1>2
      <4>2. Answers(Append(mid[d], Rsp(msg, code)), t) = Answers(mid[d], t) \cup {Len(mid[d]) + 1}
        BY <1>4, <4>1, AnswersAppend
      <4> QED
        BY <3>1, <4>1, <4>2
    <3>3. pc'[t] = "waiting"
      BY <1>0 DEF CInv, CallTypes
    <3> QED
      BY <1>3, <2>2, <3>2, <3>3 DEF AnswerDue
  <2>3. CASE u # t
    <3>1. pc'[u] = pc[u]
      BY <1>0, <2>3 DEF CInv, CallTypes
    <3>2. \/ toClient'[ClientOf[u]] = mid[ClientOf[u]]
          \/ toClient'[ClientOf[u]] = Append(mid[ClientOf[u]], Rsp(msg, code))
      BY <1>2, <2>0
    <3> QED
      BY <1>2, <1>3, <1>4, <2>0, <2>1, <2>3, <3>1, <3>2, DueAfterAppend
  <2> QED
    BY <2>2, <2>3
<1>8. CallTypes' /\ CallStages'
  BY <1>0 DEF CInv, CallTypes, CallStages, Stages
<1> QED
  BY <1>6, <1>7, <1>8 DEF CInv

(* A client that connects had no call.                                     *)
LEMMA ConstructPreservesCalls ==
  ASSUME CInv, IInv', NEW c \in Process, Construct(c)
  PROVE  CInv'
<1>1. /\ connected' = connected \cup {c} /\ toClient' = toClient
      /\ \A t \in Thread : ClientOf[t] = c => pc[t] = "new"
      /\ pc' = [t \in Thread |-> IF ClientOf[t] = c THEN "idle" ELSE pc[t]]
      /\ UNCHANGED <<callbacks, request, rcode>>
  BY DEF Construct, OnConnected
<1>2. CallTypes' /\ CallStages'
  BY <1>1 DEF CInv, CallTypes, CallStages, Stages
<1>3. ASSUME NEW u \in Thread
      PROVE  AnswerDue(u, ClientOf[u] \in connected', pc'[u], toClient'[ClientOf[u]])
  <2>1. AnswerDue(u, ClientOf[u] \in connected, pc[u], toClient[ClientOf[u]])
    BY DEF CInv
  <2> QED
    BY <1>1, <2>1 DEF AnswerDue
<1> QED
  BY <1>1, <1>2, <1>3 DEF CInv

(* An answer that arrives is the one of a thread that waits.               *)
LEMMA ResponseMeetsItsCall ==
  ASSUME CInv, NEW c \in Process, Receive(c), Head(toClient[c]).kind = "response"
  PROVE  LET r == Head(toClient[c]).rid
         IN  /\ r \in Thread /\ ClientOf[r] = c /\ pc[r] = "waiting"
             /\ Answers(toClient[c], r) = {1}
<1> DEFINE r == Head(toClient[c]).rid
<1>1. toClient[c] \in Seq(Message) /\ toClient[c] # <<>>
  BY ProcessIsConn DEF CInv, IInv, TopicTypeOK, Receive
<1>2. 1 \in Answers(toClient[c], r)
  BY <1>1, AnswersTail
<1>3. r \in Thread /\ ClientOf[r] = c
  <2>1. 1 \in 1..Len(toClient[c]) /\ Head(toClient[c]) = toClient[c][1]
    BY <1>1, TailAt
  <2> QED
    BY <2>1 DEF CInv, OwnAnswers
<1>4. AnswerDue(r, c \in connected, pc[r], toClient[c])
  BY <1>3 DEF CInv
<1> QED
  BY <1>2, <1>3, <1>4 DEF AnswerDue

(* OnResponse takes the answer at the head to the one thread that waits    *)
(* for it.                                                                 *)
LEMMA ResponsePreservesCalls ==
  ASSUME CInv, IInv', NEW c \in Process, OnResponse(c)
  PROVE  CInv'
<1> DEFINE msg == Head(toClient[c])
           q == toClient[c]
<1>0. /\ Receive(c) /\ msg.kind = "response"
      /\ pc' = [pc EXCEPT ![msg.rid] = "answered"]
      /\ rcode' = [rcode EXCEPT ![msg.rid] = msg.rcode]
      /\ UNCHANGED <<callbacks, request>>
  BY DEF OnResponse
<1>1. msg.rid \in Thread /\ ClientOf[msg.rid] = c /\ pc[msg.rid] = "waiting" /\ Answers(q, msg.rid) = {1}
  BY <1>0, ResponseMeetsItsCall
<1>2. /\ c \in Conn /\ toClient \in [Conn -> Seq(Message)] /\ q \in Seq(Message) /\ q # <<>>
      /\ connected' = connected /\ toClient' = [toClient EXCEPT ![c] = Tail(q)]
  BY <1>0, ProcessIsConn DEF CInv, IInv, TopicTypeOK, Receive
<1>3. msg.rcode \in Codes
  <2>1. msg \in Message
    BY <1>2
  <2> QED
    BY <1>0, <2>1 DEF Message, Codes
<1>4. CallTypes' /\ CallStages'
  <2>1. "none" \notin Codes
    BY DEF Codes
  <2> QED
    BY <1>0, <1>1, <1>3, <2>1 DEF CInv, CallTypes, CallStages, Stages
<1>5. ASSUME NEW d \in Process PROVE OwnAnswers(d, toClient'[d])
  <2>1. OwnAnswers(d, toClient[d]) /\ d \in Conn
    BY ProcessIsConn DEF CInv
  <2> QED
    BY <1>2, <2>1, OwnAfterTail
<1>6. ASSUME NEW u \in Thread
      PROVE  AnswerDue(u, ClientOf[u] \in connected', pc'[u], toClient'[ClientOf[u]])
  <2>0. ClientOf[u] \in Conn /\ AnswerDue(u, ClientOf[u] \in connected, pc[u], toClient[ClientOf[u]])
    BY ProcessIsConn DEF CInv
  <2>1. CASE u = msg.rid
    <3>1. pc'[u] = "answered"
      BY <1>0, <1>1, <2>1 DEF CInv, CallTypes
    <3>2. Answers(Tail(q), u) = {}
      BY <1>1, <1>2, <2>1, AnswersTail
    <3> QED
      BY <1>1, <1>2, <2>1, <3>1, <3>2 DEF AnswerDue
  <2>2. CASE u # msg.rid /\ ClientOf[u] = c
    <3>1. pc'[u] = pc[u]
      BY <1>0, <2>2 DEF CInv, CallTypes
    <3> QED
      BY <1>2, <2>0, <2>2, <3>1, DueAfterTail
  <2>3. CASE u # msg.rid /\ ClientOf[u] # c
    <3>1. pc'[u] = pc[u]
      BY <1>0, <2>3 DEF CInv, CallTypes
    <3> QED
      BY <1>2, <2>0, <2>3, <3>1
  <2> QED
    BY <2>1, <2>2, <2>3
<1> QED
  BY <1>4, <1>5, <1>6 DEF CInv

(* The queue of a client loses a publication, or everything with the       *)
(* connection.                                                             *)
LEMMA QueuePreservesCalls ==
  ASSUME CInv, IInv', NEW c \in Process, OnPublish(c) \/ LoseConnection(c)
  PROVE  CInv'
<1>1. UNCHANGED clientVars
  BY DEF OnPublish, LoseConnection
<1>2. CallTypes' /\ CallStages'
  BY <1>1 DEF CInv, CallTypes, CallStages, clientVars, threadVars
<1>3. c \in Conn /\ toClient \in [Conn -> Seq(Message)] /\ pc' = pc
  BY <1>1, ProcessIsConn DEF CInv, IInv, TopicTypeOK, clientVars, threadVars
<1>4. CASE OnPublish(c)
  <2>1. /\ toClient[c] # <<>> /\ connected' = connected /\ Head(toClient[c]).kind = "publish"
        /\ toClient' = [toClient EXCEPT ![c] = Tail(toClient[c])]
    BY <1>4 DEF OnPublish, Receive
  <2>2. ASSUME NEW d \in Process PROVE OwnAnswers(d, toClient'[d])
    BY <1>3, <2>1, ProcessIsConn, OwnAfterTail DEF CInv
  <2>3. ASSUME NEW u \in Thread
        PROVE  AnswerDue(u, ClientOf[u] \in connected', pc'[u], toClient'[ClientOf[u]])
    <3>1. ClientOf[u] \in Conn /\ AnswerDue(u, ClientOf[u] \in connected, pc[u], toClient[ClientOf[u]])
      BY ProcessIsConn DEF CInv
    <3>2. CASE ClientOf[u] = c
      BY <1>3, <2>1, <3>1, <3>2, DueAfterTail
    <3>3. CASE ClientOf[u] # c
      BY <1>3, <2>1, <3>1, <3>3
    <3> QED
      BY <3>2, <3>3
  <2> QED
    BY <1>2, <2>2, <2>3 DEF CInv
<1>5. CASE LoseConnection(c)
  <2>1. connected' = connected \ {c} /\ toClient' = [toClient EXCEPT ![c] = <<>>]
    BY <1>5 DEF LoseConnection, OnShutDown
  <2>2. ASSUME NEW d \in Process PROVE OwnAnswers(d, toClient'[d])
    <3>1. OwnAnswers(d, <<>>)
      BY DEF OwnAnswers
    <3> QED
      BY <1>3, <2>1, <3>1, ProcessIsConn DEF CInv
  <2>3. ASSUME NEW u \in Thread
        PROVE  AnswerDue(u, ClientOf[u] \in connected', pc'[u], toClient'[ClientOf[u]])
    <3>1. ClientOf[u] \in Conn /\ AnswerDue(u, ClientOf[u] \in connected, pc[u], toClient[ClientOf[u]])
      BY ProcessIsConn DEF CInv
    <3>2. CASE ClientOf[u] = c
      BY <1>3, <2>1, <3>2 DEF AnswerDue, Answers
    <3>3. CASE ClientOf[u] # c
      BY <1>3, <2>1, <3>1, <3>3 DEF AnswerDue
    <3> QED
      BY <3>2, <3>3
  <2> QED
    BY <1>2, <2>2, <2>3 DEF CInv
<1> QED
  BY <1>4, <1>5

(* Another peer can at most publish to a client.                           *)
LEMMA OtherPeerQueues ==
  ASSUME CInv, NEW e \in Conn \ Process, OtherPeer(e), NEW c \in Process
  PROVE  /\ c \in connected' <=> c \in connected
         /\ \/ toClient'[c] = toClient[c]
            \/ \E msg \in TopicRequest : /\ c \in subscribers[msg.key]
                                         /\ subscribers' = subscribers
                                         /\ toClient'[c] = Append(toClient[c], Pub(msg))
         /\ \A k \in Topic : c \in subscribers'[k] => c \in subscribers[k]
<1>0. /\ c \in Conn /\ c # e /\ IInv /\ toClient \in [Conn -> Seq(Message)]
      /\ subscribers \in [Topic -> SUBSET Conn]
  BY ProcessIsConn DEF CInv, IInv, TopicTypeOK
<1>1. CASE OnConnected(e)
  BY <1>0, <1>1 DEF OnConnected
<1>2. CASE OnShutDown(e)
  <2>1. connected' = connected \ {e} /\ toClient' = [toClient EXCEPT ![e] = <<>>]
    BY <1>2 DEF OnShutDown
  <2>2. \A k \in Topic : c \in subscribers'[k] => c \in subscribers[k]
    BY <1>0, <1>2 DEF OnShutDown
  <2> QED
    BY <1>0, <2>1, <2>2
<1>3. CASE Receive(e)
  BY <1>0, <1>3 DEF Receive
<1>4. ASSUME NEW msg \in TopicRequest, OnTopicRequest(e, msg)
      PROVE  /\ c \in connected' <=> c \in connected
             /\ \/ toClient'[c] = toClient[c]
                \/ /\ c \in subscribers[msg.key]
                   /\ subscribers' = subscribers
                   /\ toClient'[c] = Append(toClient[c], Pub(msg))
             /\ \A k \in Topic : c \in subscribers'[k] => c \in subscribers[k]
  <2>1. PICK mid \in [Conn -> Seq(Message)], code \in Codes :
          /\ toClient' = [mid EXCEPT ![e] = Append(@, Rsp(msg, code))]
          /\ \A d \in Conn : \/ mid[d] = toClient[d]
                             \/ /\ msg.optype = "TOPIC_PUBLISH"
                                /\ d \in subscribers[msg.key]
                                /\ mid[d] = Append(toClient[d], Pub(msg))
          /\ (msg.optype = "TOPIC_SUBSCRIBE" /\ code # "RCODE_OK") => e \notin subscribers'[msg.key]
    BY <1>0, <1>4, RequestQueues
  <2>2. toClient'[c] = mid[c]
    BY <1>0, <2>1
  <2> QED
    BY <1>0, <1>4, <2>1, <2>2, RequestSubscriptions
<1> QED
  BY <1>1, <1>2, <1>3, <1>4 DEF OtherPeer

(* Whatever another peer sends, a process gets no answers it did not ask   *)
(* for.                                                                    *)
LEMMA OtherPeerPreservesCalls ==
  ASSUME CInv, IInv', NEW e \in Conn \ Process, OtherPeer(e)
  PROVE  CInv'
<1>1. UNCHANGED clientVars
  BY DEF OtherPeer
<1>2. CallTypes' /\ CallStages' /\ pc' = pc
  BY <1>1 DEF CInv, CallTypes, CallStages, clientVars, threadVars
<1>3. ASSUME NEW c \in Process
      PROVE  \/ toClient'[c] = toClient[c]
             \/ \E m \in Message : m.kind = "publish" /\ toClient'[c] = Append(toClient[c], m)
  <2>1. \A msg \in TopicRequest : Pub(msg) \in Message /\ Pub(msg).kind = "publish"
    BY DEF Pub, Message, TopicRequest
  <2> QED
    BY <2>1, OtherPeerQueues
<1>4. \A c \in Process : toClient[c] \in Seq(Message)
  BY ProcessIsConn DEF CInv, IInv, TopicTypeOK
<1>5. ASSUME NEW c \in Process PROVE OwnAnswers(c, toClient'[c])
  BY <1>3, <1>4, OwnAfterAppend DEF CInv
<1>6. ASSUME NEW u \in Thread
      PROVE  AnswerDue(u, ClientOf[u] \in connected', pc'[u], toClient'[ClientOf[u]])
  <2>1. ClientOf[u] \in Process /\ AnswerDue(u, ClientOf[u] \in connected, pc[u], toClient[ClientOf[u]])
    BY ProcessIsConn DEF CInv
  <2>2. (ClientOf[u] \in connected') = (ClientOf[u] \in connected)
    BY <2>1, OtherPeerQueues
  <2>3. AnswerDue(u, ClientOf[u] \in connected, pc[u], toClient'[ClientOf[u]])
    BY <1>3, <1>4, <2>1, DueAfterAppend
  <2> QED
    BY <1>2, <2>2, <2>3
<1> QED
  BY <1>2, <1>5, <1>6 DEF CInv

(* Every step of clients and server keeps the invariant of the calls.      *)
LEMMA ClientStepPreserves ==
  ASSUME CInv, ClientNext \/ UNCHANGED allVars
  PROVE  CInv'
<1>0. IInv'
  BY ClientStepPreservesIInv
<1>1. ASSUME NEW t \in Thread, NEW k \in Topic,
             Subscribe(t, k) \/ Cancel(t, k) \/ CreateOrRemove(t, k) \/ Publish(t, k)
      PROVE  CInv'
  <2>1. callbacks' \in [Conn -> SUBSET Topic]
    BY <1>1, ProcessIsConn
       DEF Subscribe, Cancel, CreateOrRemove, Publish, AddSubscribe, DelSubscribe, CInv, CallTypes
  <2>2. PICK o \in OpTypes : CommonRequest(t, o, k)
    BY <1>1 DEF Subscribe, Cancel, CreateOrRemove, Publish, OpTypes
  <2> QED
    BY <1>0, <2>1, <2>2, AskPreservesCalls
<1>2. ASSUME UNCHANGED allVars PROVE CInv'
  BY <1>0, <1>2 DEF allVars, vars, clientVars, threadVars, CInv, CallTypes, CallStages
<1> QED
  BY <1>0, <1>1, <1>2, ReturnPreservesCalls, HandlePreservesCalls, ConstructPreservesCalls,
     ResponsePreservesCalls, QueuePreservesCalls, OtherPeerPreservesCalls
     DEF ClientNext, IOThread
-----------------------------------------------------------------------------
(* Clients and server together keep the invariant, for any number of user  *)
(* threads in a process,                                                   *)
THEOREM ClientInvariantHolds == ClientSpec => []CInv
<1>1. CInv /\ [ClientNext]_allVars => CInv'
  BY ClientStepPreserves
<1> QED
  BY <1>1, ClientInitInvariant, PTL DEF ClientSpec

(* so every call that waits has one answer coming, and no answer meets a   *)
(* call it does not belong to,                                             *)
THEOREM AnswersMeetTheirCalls == ClientSpec => []ClientTypeOK
<1>1. CInv => ClientTypeOK
  <2> SUFFICES ASSUME CInv PROVE ClientTypeOK
    OBVIOUS
  <2>1. \A t \in Thread : AnswersTo(t) = Answers(toClient[ClientOf[t]], t)
    BY DEF AnswersTo, Answers
  <2>2. \A t \in Thread : IF pc[t] = "waiting" /\ ClientOf[t] \in connected
                          THEN \E i \in AnswersTo(t) : AnswersTo(t) = {i}
                          ELSE AnswersTo(t) = {}
    BY <2>1 DEF CInv, AnswerDue
  <2>3. TopicTypeOK /\ CallTypes /\ CallStages
    BY DEF CInv, IInv
  <2> QED
    BY <2>2, <2>3 DEF ClientTypeOK, CallTypes, CallStages, Stages
<1> QED
  BY <1>1, ClientInvariantHolds, PTL

(* and Topics and Subscribers agree under these clients, too:              *)
THEOREM SubscriptionsAgreeWithClients == ClientSpec => [](SubscriptionsAgree /\ SubscriptionsAreLive)
<1>1. CInv => SubscriptionsAgree /\ SubscriptionsAreLive
  BY DEF CInv, IInv
<1> QED
  BY <1>1, ClientInvariantHolds, PTL

(* the server goes on implementing publish/subscribe for them.             *)
THEOREM ClientsRefinePubSub == ClientSpec => ImplementsPubSub
<1>1. ClientInit => Service!PubSubInit
  BY DEF ClientInit, Service!PubSubInit, Interest
<1>2. CInv /\ [ClientNext]_allVars => [Service!PubSubNext]_(Service!pubSubVars)
  BY ClientStepIsServerStep, StepRefines DEF CInv
<1> QED
  BY <1>1, <1>2, ClientInvariantHolds, PTL DEF ClientSpec, ImplementsPubSub, Service!PubSubSpec
-----------------------------------------------------------------------------
(* Callbacks and publications.  If a thread is the only one of its process,*)
(* its process can be described by what concerns it alone: the topics S it *)
(* is subscribed to, its callbacks cb, the stage p, request req and answer *)
(* code of the thread's call, and its queue q.                             *)

SingleThreads == {t \in Thread : \A u \in Thread : ClientOf[u] = ClientOf[t] => u = t}

CancelOf(req, k) == req.optype = "TOPIC_CANCEL" /\ req.key = k

HasCallback(S, cb, p, req) == \A k \in S : k \in cb \/ (p = "asked" /\ CancelOf(req, k))

FindsCallback(cb, p, req, q) ==
  \A i \in 1..Len(q) :
    q[i].kind = "publish" =>
      (q[i].topic \in cb \/ (p \in {"asked", "waiting"} /\ CancelOf(req, q[i].topic)))

KeepsCallback(cb, p, req) ==
  (p \in {"asked", "waiting", "answered"} /\ req.optype = "TOPIC_SUBSCRIBE") => req.key \in cb

(* A call that ends a subscription, or did not begin one: then the server  *)
(* sends nothing of the topic after the answer.                            *)
Ends(req, code) ==
  \/ req.optype = "TOPIC_CANCEL"
  \/ req.optype = "TOPIC_SUBSCRIBE" /\ code # "RCODE_OK"

Gone(S, req, q, n) ==
  /\ req.key \notin S
  /\ \A j \in 1..Len(q) : (j > n /\ q[j].kind = "publish") => q[j].topic # req.key

EndsForGood(t, S, p, req, code, q) ==
  /\ p = "waiting" => \A i \in Answers(q, t) : Ends(req, q[i].rcode) => Gone(S, req, q, i)
  /\ (p = "answered" /\ Ends(req, code)) => Gone(S, req, q, 0)

InStep(t, S, cb, p, req, code, q) ==
  /\ HasCallback(S, cb, p, req)
  /\ FindsCallback(cb, p, req, q)
  /\ KeepsCallback(cb, p, req)
  /\ EndsForGood(t, S, p, req, code, q)

SubscribedTopics(c) == {k \in Topic : c \in subscribers[k]}

ThreadInStep(t) ==
  InStep(t, SubscribedTopics(ClientOf[t]), callbacks[ClientOf[t]], pc[t], request[t], rcode[t],
         toClient[ClientOf[t]])

OInv == CInv /\ \A t \in SingleThreads : ThreadInStep(t)
-----------------------------------------------------------------------------
(* What others do: subscriptions end, the queue is lost, a publication is  *)
(* pushed to a subscriber.                                                 *)
LEMMA FewerSubscriptions ==
  ASSUME NEW t, NEW S, NEW R, R \subseteq S, NEW cb, NEW p, NEW req, NEW code, NEW q,
         InStep(t, S, cb, p, req, code, q)
  PROVE  InStep(t, R, cb, p, req, code, q)
BY DEF InStep, HasCallback, EndsForGood, Gone

(* With the connection go the subscriptions and what was on its way:       *)
(* nothing is left to find a callback.                                     *)
LEMMA QueueLost ==
  ASSUME NEW t, NEW S, NEW cb, NEW p, NEW req, NEW code, NEW q,
         InStep(t, S, cb, p, req, code, q)
  PROVE  InStep(t, {}, cb, p, req, code, <<>>)
BY DEF InStep, HasCallback, FindsCallback, EndsForGood, Gone, Answers

(* A publication to a subscriber finds the callback the subscription has.  *)
LEMMA Pushed ==
  ASSUME NEW t, NEW S, NEW cb, NEW p, NEW req, NEW code, NEW q \in Seq(Message),
         NEW m \in Message, m.kind = "publish", m.topic \in S,
         InStep(t, S, cb, p, req, code, q)
  PROVE  InStep(t, S, cb, p, req, code, Append(q, m))
<1>1. 1..Len(Append(q, m)) = 1..Len(q) \cup {Len(q) + 1}
  BY AppendAt
<1>2. FindsCallback(cb, p, req, Append(q, m))
  <2>1. FindsCallback(cb, p, req, q) /\ HasCallback(S, cb, p, req)
    BY DEF InStep
  <2> QED
    BY <1>1, <2>1, AppendAt DEF FindsCallback, HasCallback
<1>3. ASSUME NEW n, Gone(S, req, q, n) PROVE Gone(S, req, Append(q, m), n)
  BY <1>1, <1>3, AppendAt DEF Gone
<1>4. Answers(Append(q, m), t) = Answers(q, t)
  BY AnswersAppend
<1>5. \A i \in Answers(q, t) : Append(q, m)[i] = q[i]
  BY AppendAt DEF Answers
<1> QED
  BY <1>2, <1>3, <1>4, <1>5 DEF InStep, EndsForGood

(* What the IO thread does: it takes a publication, ...                    *)
LEMMA Taken ==
  ASSUME NEW t, NEW S, NEW cb, NEW p, NEW req, NEW code, NEW q \in Seq(Message),
         q # <<>>, Head(q).kind = "publish",
         InStep(t, S, cb, p, req, code, q)
  PROVE  InStep(t, S, cb, p, req, code, Tail(q))
<1>1. \A i \in 1..Len(Tail(q)) : i + 1 \in 1..Len(q) /\ Tail(q)[i] = q[i + 1]
  BY TailAt
<1>2. FindsCallback(cb, p, req, Tail(q))
  BY <1>1 DEF InStep, FindsCallback
<1>3. ASSUME NEW n \in Nat, Gone(S, req, q, n + 1) \/ Gone(S, req, q, n)
      PROVE  Gone(S, req, Tail(q), n)
  <2>1. \A i \in 1..Len(Tail(q)) : i > n => (i + 1 > n + 1 /\ i + 1 > n)
    BY <1>3, TailAt
  <2> QED
    BY <1>1, <1>3, <2>1 DEF Gone
<1>4. \A i \in Answers(Tail(q), t) : i \in Nat /\ i + 1 \in Answers(q, t) /\ Tail(q)[i] = q[i + 1]
  BY <1>1, TailAt, AnswersTail DEF Answers
<1> QED
  BY <1>2, <1>3, <1>4 DEF InStep, EndsForGood

(* ... or the answer of the call.                                          *)
LEMMA Woken ==
  ASSUME NEW t, NEW S, NEW cb, NEW req, NEW code, NEW q \in Seq(Message), q # <<>>,
         1 \in Answers(q, t),
         InStep(t, S, cb, "waiting", req, code, q)
  PROVE  InStep(t, S, cb, "answered", req, Head(q).rcode, Tail(q))
<1>1. \A i \in 1..Len(Tail(q)) : i + 1 \in 1..Len(q) /\ i + 1 > 1 /\ i > 0 /\ Tail(q)[i] = q[i + 1]
  BY TailAt
<1>2. ASSUME Ends(req, Head(q).rcode) PROVE Gone(S, req, q, 1)
  BY <1>2, TailAt DEF InStep, EndsForGood
<1>3. Ends(req, Head(q).rcode) => Gone(S, req, Tail(q), 0)
  BY <1>1, <1>2 DEF Gone
<1>4. ASSUME NEW i \in 1..Len(Tail(q)), Tail(q)[i].kind = "publish"
      PROVE  Tail(q)[i].topic \in cb
  <2>1. q[i + 1].topic \in cb \/ CancelOf(req, q[i + 1].topic)
    BY <1>1, <1>4 DEF InStep, FindsCallback
  <2>2. ~ CancelOf(req, q[i + 1].topic)
    <3>1. CancelOf(req, q[i + 1].topic) => Gone(S, req, q, 1)
      BY <1>2 DEF Ends, CancelOf
    <3> QED
      BY <1>1, <1>4, <3>1 DEF Gone, CancelOf
  <2> QED
    BY <1>1, <2>1, <2>2
<1>5. FindsCallback(cb, "answered", req, Tail(q))
  BY <1>4 DEF FindsCallback
<1>6. HasCallback(S, cb, "answered", req) /\ KeepsCallback(cb, "answered", req)
  BY DEF InStep, HasCallback, KeepsCallback
<1> QED
  BY <1>3, <1>5, <1>6 DEF InStep, EndsForGood

(* What the thread does: it connects, calls and returns.                   *)
LEMMA Connects ==
  ASSUME NEW t, NEW S, NEW cb, NEW code, NEW q, InStep(t, S, cb, "new", NoRequest, code, q)
  PROVE  InStep(t, S, cb, "idle", NoRequest, code, q)
BY DEF InStep, HasCallback, FindsCallback, KeepsCallback, EndsForGood

(* A call stores its callback before it asks to subscribe and deletes it   *)
(* before it asks to cancel.                                               *)
LEMMA Asks ==
  ASSUME NEW t, NEW S, NEW cb, NEW code, NEW q,
         InStep(t, S, cb, "idle", NoRequest, code, q),
         NEW req, NEW ca,
         ca = cb \/ ca = cb \cup {req.key} \/ (ca = cb \ {req.key} /\ req.optype = "TOPIC_CANCEL"),
         req.optype = "TOPIC_SUBSCRIBE" => ca = cb \cup {req.key}
  PROVE  InStep(t, S, ca, "asked", req, code, q)
<1>1. \A k : k \in cb => (k \in ca \/ CancelOf(req, k))
  BY DEF CancelOf
<1>2. HasCallback(S, ca, "asked", req)
  BY <1>1 DEF InStep, HasCallback
<1>3. FindsCallback(ca, "asked", req, q)
  BY <1>1 DEF InStep, FindsCallback
<1> QED
  BY <1>2, <1>3 DEF InStep, KeepsCallback, EndsForGood

(* A call that has its answer deletes the callback of a refused            *)
(* Subscribe, and only that.                                               *)
LEMMA Returns ==
  ASSUME NEW t, NEW S, NEW cb, NEW req, NEW code, NEW q,
         InStep(t, S, cb, "answered", req, code, q),
         NEW ca,
         ca = IF req.optype = "TOPIC_SUBSCRIBE" /\ code # "RCODE_OK" THEN cb \ {req.key} ELSE cb
  PROVE  InStep(t, S, ca, "idle", NoRequest, "none", q)
<1>1. CASE ca = cb
  BY <1>1 DEF InStep, HasCallback, FindsCallback, KeepsCallback, EndsForGood
<1>2. CASE ca = cb \ {req.key} /\ Ends(req, code)
  <2>1. Gone(S, req, q, 0)
    BY <1>2 DEF InStep, EndsForGood
  <2>2. \A j \in 1..Len(q) : j > 0
    OBVIOUS
  <2>3. HasCallback(S, ca, "idle", NoRequest)
    BY <1>2, <2>1 DEF InStep, HasCallback, Gone
  <2>4. FindsCallback(ca, "idle", NoRequest, q)
    BY <1>2, <2>1, <2>2 DEF InStep, FindsCallback, Gone
  <2> QED
    BY <2>3, <2>4 DEF InStep, KeepsCallback, EndsForGood
<1> QED
  BY <1>1, <1>2 DEF Ends

(* What the server does with its request.                                  *)
LEMMA Handled ==
  ASSUME NEW t, NEW S, NEW R, NEW cb, NEW req, NEW code, NEW old, NEW q \in Seq(Message),
         InStep(t, S, cb, "asked", req, old, q),
         Answers(q, t) = {},
         NEW rsp \in Message, rsp.kind = "response", rsp.rid = t, rsp.rcode = code,
         \A k \in R : k \in S \/ (k = req.key /\ req.optype = "TOPIC_SUBSCRIBE"),
         Ends(req, code) => req.key \notin R
  PROVE  InStep(t, R, cb, "waiting", req, old, Append(q, rsp))
<1>1. 1..Len(Append(q, rsp)) = 1..Len(q) \cup {Len(q) + 1}
  BY AppendAt
<1>2. HasCallback(R, cb, "waiting", req)
  <2>1. \A k \in R : ~ CancelOf(req, k)
    BY DEF CancelOf, Ends
  <2> QED
    BY <2>1 DEF InStep, HasCallback, KeepsCallback
<1>3. FindsCallback(cb, "waiting", req, Append(q, rsp))
  BY <1>1, AppendAt DEF InStep, FindsCallback
<1>4. Answers(Append(q, rsp), t) = {Len(q) + 1}
  BY AnswersAppend, SMTT(30)
<1>5. Ends(req, code) => Gone(R, req, Append(q, rsp), Len(q) + 1)
  <2>1. \A j \in 1..Len(Append(q, rsp)) : ~ (j > Len(q) + 1)
    BY AppendAt
  <2> QED
    BY <2>1 DEF Gone
<1>6. Append(q, rsp)[Len(q) + 1].rcode = code
  BY AppendAt
<1>7. EndsForGood(t, R, "waiting", req, old, Append(q, rsp))
  BY <1>4, <1>5, <1>6 DEF EndsForGood
<1>8. KeepsCallback(cb, "waiting", req)
  BY DEF InStep, KeepsCallback
<1> QED
  BY <1>2, <1>3, <1>7, <1>8 DEF InStep
-----------------------------------------------------------------------------
(* Before the processes connect there are neither subscriptions nor        *)
(* callbacks.                                                              *)
LEMMA ClientInitInStep == ClientInit => OInv
<1> SUFFICES ASSUME ClientInit PROVE OInv
  OBVIOUS
<1>1. \A t \in Thread : /\ pc[t] = "new" /\ toClient[ClientOf[t]] = <<>>
                        /\ SubscribedTopics(ClientOf[t]) = {}
  BY ProcessIsConn DEF ClientInit, SubscribedTopics
<1>2. \A t \in Thread : ThreadInStep(t)
  BY <1>1 DEF ThreadInStep, InStep, HasCallback, FindsCallback, KeepsCallback, EndsForGood
<1> QED
  BY <1>2, ClientInitInvariant DEF OInv, SingleThreads

(* A single thread is kept in step by whatever leaves its process alone.   *)
LEMMA AloneInStep ==
  ASSUME OInv, NEW u \in SingleThreads, toClient \in [Conn -> Seq(Message)],
         callbacks'[ClientOf[u]] = callbacks[ClientOf[u]],
         pc'[u] = pc[u], request'[u] = request[u], rcode'[u] = rcode[u],
         \A k \in Topic : ClientOf[u] \in subscribers'[k] => ClientOf[u] \in subscribers[k],
         \/ toClient'[ClientOf[u]] = toClient[ClientOf[u]]
         \/ \E msg \in TopicRequest : /\ ClientOf[u] \in subscribers[msg.key]
                                      /\ subscribers' = subscribers
                                      /\ toClient'[ClientOf[u]] = Append(toClient[ClientOf[u]], Pub(msg))
  PROVE  ThreadInStep(u)'
<1> DEFINE c == ClientOf[u]
<1>1. ThreadInStep(u) /\ u \in Thread /\ c \in Conn /\ toClient[c] \in Seq(Message)
  BY ProcessIsConn DEF OInv, SingleThreads
<1>2. SubscribedTopics(c)' \subseteq SubscribedTopics(c)
  BY DEF SubscribedTopics
<1>3. CASE toClient'[c] = toClient[c]
  BY <1>1, <1>2, <1>3, FewerSubscriptions DEF ThreadInStep
<1>4. ASSUME NEW msg \in TopicRequest, c \in subscribers[msg.key], subscribers' = subscribers,
             toClient'[c] = Append(toClient[c], Pub(msg))
      PROVE  ThreadInStep(u)'
  <2>1. /\ Pub(msg) \in Message /\ Pub(msg).kind = "publish"
        /\ Pub(msg).topic \in SubscribedTopics(c) /\ SubscribedTopics(c)' = SubscribedTopics(c)
    BY <1>4 DEF Pub, Message, TopicRequest, SubscribedTopics
  <2> QED
    BY <1>1, <1>4, <2>1, Pushed DEF ThreadInStep
<1> QED
  BY <1>3, <1>4

(* A thread that begins a call leaves every single thread's callbacks in   *)
(* step.                                                                   *)
LEMMA AskInStep ==
  ASSUME OInv, NEW t \in Thread, NEW k \in Topic,
         Subscribe(t, k) \/ Cancel(t, k) \/ CreateOrRemove(t, k) \/ Publish(t, k),
         NEW u \in SingleThreads
  PROVE  ThreadInStep(u)'
<1>0. /\ u \in Thread /\ ClientOf[u] \in Conn /\ ClientOf[t] \in Conn
      /\ CallTypes /\ CallStages /\ toClient \in [Conn -> Seq(Message)]
  BY ProcessIsConn DEF SingleThreads, OInv, CInv, IInv, TopicTypeOK
<1>1. PICK o \in OpTypes :
        /\ CommonRequest(t, o, k)
        /\ \/ callbacks' = callbacks /\ o # "TOPIC_SUBSCRIBE"
           \/ callbacks' = [callbacks EXCEPT ![ClientOf[t]] = @ \cup {k}] /\ o = "TOPIC_SUBSCRIBE"
           \/ callbacks' = [callbacks EXCEPT ![ClientOf[t]] = @ \ {k}] /\ o = "TOPIC_CANCEL"
  BY DEF Subscribe, Cancel, CreateOrRemove, Publish, AddSubscribe, DelSubscribe, OpTypes
<1> DEFINE req == [rid |-> t, optype |-> o, key |-> k]
<1>2. /\ pc[t] = "idle" /\ pc' = [pc EXCEPT ![t] = "asked"]
      /\ request' = [request EXCEPT ![t] = req] /\ UNCHANGED <<vars, rcode>>
  BY <1>1 DEF CommonRequest
<1>3. subscribers' = subscribers /\ toClient' = toClient
  BY <1>2 DEF vars
<1>4. CASE u = t
  <2>1. request[u] = NoRequest /\ pc'[u] = "asked" /\ request'[u] = req
    BY <1>0, <1>2, <1>4 DEF CallTypes, CallStages
  <2>2. InStep(u, SubscribedTopics(ClientOf[u]), callbacks[ClientOf[u]], "idle", NoRequest, rcode[u],
               toClient[ClientOf[u]])
    BY <1>2, <1>4, <2>1 DEF OInv, ThreadInStep
  <2>3. LET cb == callbacks[ClientOf[u]]
            ca == callbacks'[ClientOf[u]]
        IN  /\ ca = cb \/ ca = cb \cup {req.key} \/ (ca = cb \ {req.key} /\ req.optype = "TOPIC_CANCEL")
            /\ req.optype = "TOPIC_SUBSCRIBE" => ca = cb \cup {req.key}
    BY <1>0, <1>1, <1>4 DEF CallTypes
  <2>4. InStep(u, SubscribedTopics(ClientOf[u]), callbacks'[ClientOf[u]], "asked", req, rcode[u],
               toClient[ClientOf[u]])
    <3> HIDE DEF req
    <3> QED
      BY <2>2, <2>3, Asks
  <2> QED
    BY <1>2, <1>3, <2>1, <2>4 DEF ThreadInStep, SubscribedTopics
<1>5. CASE u # t
  <2>1. ClientOf[u] # ClientOf[t]
    BY <1>5 DEF SingleThreads
  <2>2. /\ callbacks'[ClientOf[u]] = callbacks[ClientOf[u]]
        /\ pc'[u] = pc[u] /\ request'[u] = request[u] /\ rcode'[u] = rcode[u]
    BY <1>0, <1>1, <1>2, <1>5, <2>1 DEF CallTypes
  <2> QED
    BY <1>0, <1>3, <2>2, AloneInStep
<1> QED
  BY <1>4, <1>5

(* A call that returns leaves every single thread's callbacks in step.     *)
LEMMA ReturnInStep ==
  ASSUME OInv, NEW t \in Thread, Return(t), NEW u \in SingleThreads
  PROVE  ThreadInStep(u)'
<1>0. /\ u \in Thread /\ ClientOf[u] \in Conn /\ ClientOf[t] \in Conn
      /\ CallTypes /\ CallStages /\ toClient \in [Conn -> Seq(Message)]
  BY ProcessIsConn DEF SingleThreads, OInv, CInv, IInv, TopicTypeOK
<1>1. /\ pc[t] = "answered" /\ pc' = [pc EXCEPT ![t] = "idle"]
      /\ request' = [request EXCEPT ![t] = NoRequest] /\ rcode' = [rcode EXCEPT ![t] = "none"]
      /\ subscribers' = subscribers /\ toClient' = toClient
  BY DEF Return, vars
<1>2. IF request[t].optype = "TOPIC_SUBSCRIBE" /\ rcode[t] # "RCODE_OK"
      THEN callbacks' = [callbacks EXCEPT ![ClientOf[t]] = @ \ {request[t].key}]
      ELSE callbacks' = callbacks
  BY DEF Return, DelSubscribe
<1>3. CASE u = t
  <2>1. InStep(u, SubscribedTopics(ClientOf[u]), callbacks[ClientOf[u]], "answered", request[u],
               rcode[u], toClient[ClientOf[u]])
    BY <1>1, <1>3 DEF OInv, ThreadInStep
  <2>2. callbacks'[ClientOf[u]] = IF request[u].optype = "TOPIC_SUBSCRIBE" /\ rcode[u] # "RCODE_OK"
                                  THEN callbacks[ClientOf[u]] \ {request[u].key}
                                  ELSE callbacks[ClientOf[u]]
    BY <1>0, <1>2, <1>3 DEF CallTypes
  <2>3. InStep(u, SubscribedTopics(ClientOf[u]), callbacks'[ClientOf[u]], "idle", NoRequest, "none",
               toClient[ClientOf[u]])
    BY <2>1, <2>2, Returns
  <2>4. pc'[u] = "idle" /\ request'[u] = NoRequest /\ rcode'[u] = "none"
    BY <1>0, <1>1, <1>3 DEF CallTypes
  <2> QED
    BY <1>1, <2>3, <2>4 DEF ThreadInStep, SubscribedTopics
<1>4. CASE u # t
  <2>1. ClientOf[u] # ClientOf[t]
    BY <1>4 DEF SingleThreads
  <2>2. /\ callbacks'[ClientOf[u]] = callbacks[ClientOf[u]]
        /\ pc'[u] = pc[u] /\ request'[u] = request[u] /\ rcode'[u] = rcode[u]
    BY <1>0, <1>1, <1>2, <1>4, <2>1 DEF CallTypes
  <2> QED
    BY <1>0, <1>1, <2>2, AloneInStep
<1> QED
  BY <1>3, <1>4

(* The server handling a request leaves every single thread's callbacks    *)
(* in step: the broadcast and the answer come in this order.               *)
LEMMA HandleInStep ==
  ASSUME OInv, NEW t \in Thread, HandleRequest(t), NEW u \in SingleThreads
  PROVE  ThreadInStep(u)'
<1> DEFINE d == ClientOf[t]
           msg == request[t]
<1>0. /\ u \in Thread /\ ClientOf[u] \in Conn /\ d \in Conn /\ IInv
      /\ CallTypes /\ CallStages /\ toClient \in [Conn -> Seq(Message)]
  BY ProcessIsConn DEF SingleThreads, OInv, CInv, IInv, TopicTypeOK
<1>1. /\ pc[t] = "asked" /\ pc' = [pc EXCEPT ![t] = "waiting"]
      /\ UNCHANGED <<callbacks, request, rcode>> /\ OnTopicRequest(d, msg)
  BY DEF HandleRequest
<1>2. msg \in TopicRequest /\ msg.rid = t /\ msg.key \in Topic
  BY <1>0, <1>1 DEF CallStages, TopicRequest
<1> HIDE DEF d, msg
<1>3. PICK mid \in [Conn -> Seq(Message)], code \in Codes :
        /\ toClient' = [mid EXCEPT ![d] = Append(@, Rsp(msg, code))]
        /\ \A c \in Conn : \/ mid[c] = toClient[c]
                           \/ /\ msg.optype = "TOPIC_PUBLISH"
                              /\ c \in subscribers[msg.key]
                              /\ mid[c] = Append(toClient[c], Pub(msg))
        /\ (msg.optype = "TOPIC_SUBSCRIBE" /\ code # "RCODE_OK") => d \notin subscribers'[msg.key]
  BY <1>0, <1>1, <1>2, RequestQueues
<1>4. /\ \A c \in Conn, k \in Topic :
           c \in subscribers'[k] =>
             \/ c \in subscribers[k]
             \/ c = d /\ k = msg.key /\ msg.optype = "TOPIC_SUBSCRIBE"
      /\ msg.optype = "TOPIC_CANCEL" => d \notin subscribers'[msg.key]
      /\ msg.optype = "TOPIC_PUBLISH" => subscribers' = subscribers
  BY <1>0, <1>1, <1>2, RequestSubscriptions
<1>5. CASE u = t
  <2> DEFINE S == SubscribedTopics(d)
             R == SubscribedTopics(d)'
  <2>0. d = ClientOf[u] /\ msg = request[u]
    BY <1>5 DEF d, msg
  <2>1. InStep(u, S, callbacks[d], "asked", msg, rcode[u], toClient[d])
    BY <1>1, <1>5, <2>0 DEF OInv, ThreadInStep
  <2>2. Answers(toClient[d], u) = {}
    BY <1>0, <1>1, <1>5, <2>0 DEF OInv, CInv, AnswerDue
  <2>3. /\ Pub(msg) \in Message /\ Pub(msg).kind = "publish" /\ Pub(msg).topic = msg.key
        /\ Rsp(msg, code) \in Message /\ Rsp(msg, code).kind = "response"
        /\ Rsp(msg, code).rid = u /\ Rsp(msg, code).rcode = code
    BY <1>2, <1>5 DEF Pub, Rsp, Message, TopicRequest, Codes
  <2>4. toClient[d] \in Seq(Message) /\ mid[d] \in Seq(Message)
    BY <1>0
  <2>5. InStep(u, S, callbacks[d], "asked", msg, rcode[u], mid[d]) /\ Answers(mid[d], u) = {}
    <3>1. CASE mid[d] = toClient[d]
      BY <2>1, <2>2, <3>1
    <3>2. CASE d \in subscribers[msg.key] /\ mid[d] = Append(toClient[d], Pub(msg))
      <4>1. Pub(msg).topic \in S
        BY <1>2, <2>3, <3>2 DEF SubscribedTopics
      <4> HIDE DEF S
      <4> QED
        BY <2>1, <2>2, <2>3, <2>4, <3>2, <4>1, Pushed, AnswersAppend
    <3> QED
      BY <1>0, <1>3, <3>1, <3>2
  <2>6. /\ \A k \in R : k \in S \/ (k = msg.key /\ msg.optype = "TOPIC_SUBSCRIBE")
        /\ Ends(msg, code) => msg.key \notin R
    BY <1>0, <1>3, <1>4 DEF SubscribedTopics, Ends
  <2>7. InStep(u, R, callbacks[d], "waiting", msg, rcode[u], Append(mid[d], Rsp(msg, code)))
    <3> HIDE DEF S, R
    <3> QED
      BY <2>3, <2>4, <2>5, <2>6, Handled
  <2>8. pc'[u] = "waiting" /\ toClient'[d] = Append(mid[d], Rsp(msg, code))
    BY <1>0, <1>1, <1>3, <1>5 DEF CallTypes
  <2>9. d' = d
    BY DEF d
  <2> QED
    BY <1>1, <2>0, <2>7, <2>8, <2>9 DEF ThreadInStep, SubscribedTopics
<1>6. CASE u # t
  <2>1. ClientOf[u] # d
    BY <1>6 DEF SingleThreads, d
  <2>2. pc'[u] = pc[u] /\ toClient'[ClientOf[u]] = mid[ClientOf[u]]
    BY <1>0, <1>1, <1>3, <1>6, <2>1 DEF CallTypes
  <2>3. \A k \in Topic : ClientOf[u] \in subscribers'[k] => ClientOf[u] \in subscribers[k]
    BY <1>0, <1>4, <2>1
  <2>4. \/ toClient'[ClientOf[u]] = toClient[ClientOf[u]]
        \/ /\ ClientOf[u] \in subscribers[msg.key] /\ subscribers' = subscribers
           /\ toClient'[ClientOf[u]] = Append(toClient[ClientOf[u]], Pub(msg))
    BY <1>0, <1>3, <1>4, <2>2
  <2> QED
    BY <1>0, <1>1, <1>2, <2>2, <2>3, <2>4, AloneInStep
<1> QED
  BY <1>5, <1>6

(* A process that connects, receives or loses its connection stays in      *)
(* step.                                                                   *)
LEMMA ProcessInStep ==
  ASSUME OInv, NEW c \in Process, Construct(c) \/ IOThread(c) \/ LoseConnection(c),
         NEW u \in SingleThreads
  PROVE  ThreadInStep(u)'
<1>0. /\ u \in Thread /\ ClientOf[u] \in Conn /\ c \in Conn /\ IInv /\ CInv
      /\ CallTypes /\ CallStages /\ toClient \in [Conn -> Seq(Message)]
      /\ subscribers \in [Topic -> SUBSET Conn]
  BY ProcessIsConn DEF SingleThreads, OInv, CInv, IInv, TopicTypeOK
<1> DEFINE S == SubscribedTopics(ClientOf[u])
           cb == callbacks[ClientOf[u]]
<1>1. InStep(u, S, cb, pc[u], request[u], rcode[u], toClient[ClientOf[u]])
  BY DEF OInv, ThreadInStep
<1>2. CASE Construct(c)
  <2>1. /\ subscribers' = subscribers /\ toClient' = toClient
        /\ \A t \in Thread : ClientOf[t] = c => pc[t] = "new"
        /\ pc' = [t \in Thread |-> IF ClientOf[t] = c THEN "idle" ELSE pc[t]]
        /\ UNCHANGED <<callbacks, request, rcode>>
    BY <1>2 DEF Construct, OnConnected
  <2>2. CASE ClientOf[u] = c
    <3>1. pc[u] = "new" /\ pc'[u] = "idle" /\ request[u] = NoRequest
      BY <1>0, <2>1, <2>2 DEF CallStages
    <3>2. InStep(u, S, cb, "idle", NoRequest, rcode[u], toClient[ClientOf[u]])
      BY <1>1, <3>1, Connects
    <3> QED
      BY <2>1, <3>1, <3>2 DEF ThreadInStep, SubscribedTopics
  <2>3. CASE ClientOf[u] # c
    BY <1>0, <2>1, <2>3, AloneInStep
  <2> QED
    BY <2>2, <2>3
<1>3. CASE OnResponse(c) \/ OnPublish(c)
  <2>1. /\ toClient[c] # <<>> /\ toClient[c] \in Seq(Message) /\ Receive(c)
        /\ toClient' = [toClient EXCEPT ![c] = Tail(toClient[c])] /\ subscribers' = subscribers
        /\ callbacks' = callbacks /\ request' = request
    BY <1>0, <1>3 DEF OnResponse, OnPublish, Receive, clientVars, threadVars
  <2>2. CASE ClientOf[u] = c /\ OnPublish(c)
    <3>1. pc' = pc /\ rcode' = rcode /\ Head(toClient[c]).kind = "publish"
      BY <2>2 DEF OnPublish, clientVars, threadVars
    <3>2. InStep(u, S, cb, pc[u], request[u], rcode[u], Tail(toClient[c]))
      BY <1>1, <2>1, <2>2, <3>1, Taken
    <3>3. toClient'[c] = Tail(toClient[c])
      BY <1>0, <2>1
    <3> QED
      BY <2>1, <2>2, <3>1, <3>2, <3>3 DEF ThreadInStep, SubscribedTopics
  <2>3. CASE ClientOf[u] = c /\ OnResponse(c)
    <3> DEFINE r == Head(toClient[c]).rid
    <3>1. /\ Head(toClient[c]).kind = "response" /\ pc' = [pc EXCEPT ![r] = "answered"]
          /\ rcode' = [rcode EXCEPT ![r] = Head(toClient[c]).rcode]
      BY <2>3 DEF OnResponse
    <3>2. r \in Thread /\ ClientOf[r] = c /\ pc[r] = "waiting" /\ Answers(toClient[c], r) = {1}
      BY <1>0, <2>1, <3>1, ResponseMeetsItsCall
    <3>3. r = u
      BY <2>3, <3>2 DEF SingleThreads
    <3>4. InStep(u, S, cb, "answered", request[u], Head(toClient[c]).rcode, Tail(toClient[c]))
      BY <1>1, <2>1, <2>3, <3>2, <3>3, Woken
    <3>5. /\ pc'[u] = "answered" /\ rcode'[u] = Head(toClient[c]).rcode
          /\ toClient'[c] = Tail(toClient[c])
      BY <1>0, <2>1, <3>1, <3>3 DEF CallTypes
    <3> QED
      BY <2>1, <2>3, <3>4, <3>5 DEF ThreadInStep, SubscribedTopics
  <2>4. CASE ClientOf[u] # c
    <3>1. toClient'[ClientOf[u]] = toClient[ClientOf[u]]
      BY <1>0, <2>1, <2>4
    <3>2. pc'[u] = pc[u] /\ rcode'[u] = rcode[u]
      <4>1. CASE OnPublish(c)
        BY <4>1 DEF OnPublish, clientVars, threadVars
      <4>2. CASE OnResponse(c)
        <5> DEFINE r == Head(toClient[c]).rid
        <5>1. /\ Head(toClient[c]).kind = "response" /\ pc' = [pc EXCEPT ![r] = "answered"]
              /\ rcode' = [rcode EXCEPT ![r] = Head(toClient[c]).rcode]
          BY <4>2 DEF OnResponse
        <5>2. ClientOf[r] = c
          BY <1>0, <2>1, <5>1, ResponseMeetsItsCall
        <5> HIDE DEF r
        <5> QED
          BY <1>0, <2>4, <5>1, <5>2 DEF CallTypes
      <4> QED
        BY <1>3, <4>1, <4>2
    <3> QED
      BY <1>0, <2>1, <3>1, <3>2, AloneInStep
  <2> QED
    BY <1>3, <2>2, <2>3, <2>4
<1>4. CASE LoseConnection(c)
  <2>1. /\ toClient' = [toClient EXCEPT ![c] = <<>>]
        /\ UNCHANGED clientVars /\ OnShutDown(c)
    BY <1>4 DEF LoseConnection, OnShutDown
  <2>2. \A d \in Conn, k \in Topic :
          d \in subscribers'[k] <=> (d \in subscribers[k] /\ d # c)
    <3>1. SubscriptionsAgree /\ SubscriptionsAreLive /\ TopicTypeOK
      BY <1>0 DEF IInv
    <3>2. CASE c \in hasObject
      BY <2>1, <3>1, <3>2 DEF OnShutDown, TopicTypeOK, SubscriptionsAgree, SubscriptionsAreLive
    <3>3. CASE c \notin hasObject
      BY <2>1, <3>1, <3>3 DEF OnShutDown, SubscriptionsAreLive
    <3> QED
      BY <3>2, <3>3
  <2>3. CASE ClientOf[u] = c
    <3>1. SubscribedTopics(c)' = {} /\ toClient'[c] = <<>>
      BY <1>0, <2>1, <2>2 DEF SubscribedTopics
    <3>2. InStep(u, {}, cb, pc[u], request[u], rcode[u], <<>>)
      BY <1>1, QueueLost
    <3> QED
      BY <2>1, <2>3, <3>1, <3>2 DEF ThreadInStep, clientVars, threadVars
  <2>4. CASE ClientOf[u] # c
    <3>1. toClient'[ClientOf[u]] = toClient[ClientOf[u]]
      BY <1>0, <2>1, <2>4
    <3>2. callbacks' = callbacks /\ pc' = pc /\ request' = request /\ rcode' = rcode
      BY <2>1 DEF clientVars, threadVars
    <3>3. \A k \in Topic : ClientOf[u] \in subscribers'[k] => ClientOf[u] \in subscribers[k]
      BY <1>0, <2>2
    <3> QED
      BY <1>0, <3>1, <3>2, <3>3, AloneInStep
  <2> QED
    BY <2>3, <2>4
<1> QED
  BY <1>2, <1>3, <1>4 DEF IOThread

(* Another peer's publications, and topics it removes or creates, leave    *)
(* every single thread's callbacks in step.                                *)
LEMMA OtherPeerInStep ==
  ASSUME OInv, NEW e \in Conn \ Process, OtherPeer(e), NEW u \in SingleThreads
  PROVE  ThreadInStep(u)'
<1>1. /\ ClientOf[u] \in Process /\ CInv /\ toClient \in [Conn -> Seq(Message)]
  BY ProcessIsConn DEF SingleThreads, OInv, CInv, IInv, TopicTypeOK
<1>2. callbacks' = callbacks /\ pc' = pc /\ request' = request /\ rcode' = rcode
  BY DEF OtherPeer, clientVars, threadVars
<1>3. /\ \/ toClient'[ClientOf[u]] = toClient[ClientOf[u]]
         \/ \E msg \in TopicRequest : /\ ClientOf[u] \in subscribers[msg.key]
                                      /\ subscribers' = subscribers
                                      /\ toClient'[ClientOf[u]] = Append(toClient[ClientOf[u]], Pub(msg))
      /\ \A k \in Topic : ClientOf[u] \in subscribers'[k] => ClientOf[u] \in subscribers[k]
  BY <1>1, OtherPeerQueues
<1> QED
  BY <1>1, <1>2, <1>3, AloneInStep

(* Every step of clients and server keeps callbacks and subscriptions in   *)
(* step.                                                                   *)
LEMMA StepKeepsInStep ==
  ASSUME OInv, ClientNext \/ UNCHANGED allVars
  PROVE  OInv'
<1>1. CInv'
  BY ClientStepPreserves DEF OInv
<1>2. ASSUME NEW u \in SingleThreads PROVE ThreadInStep(u)'
  <2>1. CASE UNCHANGED allVars
    BY <2>1 DEF allVars, vars, clientVars, threadVars, OInv, ThreadInStep, SubscribedTopics
  <2> QED
    BY <2>1, AskInStep, ReturnInStep, HandleInStep, ProcessInStep, OtherPeerInStep DEF ClientNext
<1> QED
  BY <1>1, <1>2 DEF OInv, SingleThreads
-----------------------------------------------------------------------------
(* A process with one user thread keeps its callbacks in step with its     *)
(* subscriptions, whatever the other processes and peers do, ...           *)
THEOREM SingleThreadsStayInStep == ClientSpec => []OInv
<1>1. OInv /\ [ClientNext]_allVars => OInv'
  BY StepKeepsInStep
<1> QED
  BY <1>1, ClientInitInStep, PTL DEF ClientSpec

OneThreadEach == \A t, u \in Thread : ClientOf[t] = ClientOf[u] => t = u

(* so, where every process has one user thread, whoever is subscribed has  *)
(* a callback or is about to be unsubscribed,                              *)
THEOREM SubscribedAlwaysHaveCallback == OneThreadEach => (ClientSpec => []SubscribedHaveCallback)
<1> SUFFICES ASSUME OneThreadEach PROVE ClientSpec => []SubscribedHaveCallback
  OBVIOUS
<1>1. ASSUME OInv PROVE SubscribedHaveCallback
  <2>1. ASSUME NEW c \in Process, NEW k \in Topic, c \in subscribers[k]
        PROVE  k \in callbacks[c] \/ Cancelling(c, k, {"asked"})
    <3>1. PICK t \in Thread : ClientOf[t] = c
      BY DEF Process
    <3>2. ThreadInStep(t)
      BY <1>1 DEF OInv, SingleThreads, OneThreadEach
    <3> QED
      BY <2>1, <3>1, <3>2
         DEF ThreadInStep, InStep, HasCallback, SubscribedTopics, CancelOf, Cancelling
  <2> QED
    BY <2>1 DEF SubscribedHaveCallback
<1>2. OInv => SubscribedHaveCallback
  BY <1>1
<1> QED
  BY <1>2, SingleThreadsStayInStep, PTL

(* and a publication finds the callback of its topic unless the topic is   *)
(* being cancelled.                                                        *)
THEOREM PublicationsAlwaysFindCallback == OneThreadEach => (ClientSpec => []PublicationsFindCallback)
<1> SUFFICES ASSUME OneThreadEach PROVE ClientSpec => []PublicationsFindCallback
  OBVIOUS
<1>1. ASSUME OInv PROVE PublicationsFindCallback
  <2>1. ASSUME NEW c \in Process, NEW i \in 1..Len(toClient[c]), toClient[c][i].kind = "publish"
        PROVE  \/ toClient[c][i].topic \in callbacks[c]
               \/ Cancelling(c, toClient[c][i].topic, {"asked", "waiting"})
    <3>1. PICK t \in Thread : ClientOf[t] = c
      BY DEF Process
    <3>2. ThreadInStep(t)
      BY <1>1 DEF OInv, SingleThreads, OneThreadEach
    <3> QED
      BY <2>1, <3>1, <3>2 DEF ThreadInStep, InStep, FindsCallback, CancelOf, Cancelling
  <2> QED
    BY <2>1 DEF PublicationsFindCallback
<1>2. OInv => PublicationsFindCallback
  BY <1>1
<1> QED
  BY <1>2, SingleThreadsStayInStep, PTL

=============================================================================
