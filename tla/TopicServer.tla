---------------------------- MODULE TopicServer -----------------------------
(***************************************************************************)
(* The topic server: TopicManager with its Topic and Subscriber objects    *)
(* (source/server/RpcTopic.hpp), fed by MuduoServer through TopicServer    *)
(* (source/server/RpcServer.hpp).  All callbacks run in the one loop       *)
(* thread, so a whole handler is one step, with every Send it makes.       *)
(*                                                                         *)
(* A Subscriber object belongs to one connection, which stands for it; a   *)
(* Topic object is reached only through _topics, so its name does.         *)
(***************************************************************************)
EXTENDS Naturals, Sequences

CONSTANTS
  Conn,     \* connections clients may open
  Topic,    \* topic names
  Rid,      \* request identifiers (Uuid)
  MaxQueue  \* bound: messages waiting on one connection

ASSUME TopicAssumption == MaxQueue \in Nat

VARIABLES
  connected,    \* keys of MuduoServer::_conns
  topics,       \* keys of TopicManager::_topics
  subscribers,  \* Topic::subscribers; {} for a name without a Topic
  hasObject,    \* keys of TopicManager::_subscribers
  subscribedTo, \* Subscriber::topics; {} for a connection without a Subscriber
  toClient      \* messages sent and not yet received, FIFO per connection

subVars == <<hasObject, subscribedTo>>
vars    == <<connected, topics, subscribers, subVars, toClient>>
-----------------------------------------------------------------------------
OpTypes == {"TOPIC_CREATE", "TOPIC_REMOVE", "TOPIC_SUBSCRIBE", "TOPIC_CANCEL",
            "TOPIC_PUBLISH", "TOPIC_UNKNOWN"}

TopicRequest == [rid : Rid, optype : OpTypes, key : Topic]

Message == [kind : {"response"}, rid : Rid,
            rcode : {"RCODE_OK", "RCODE_NOT_FOUND_TOPIC", "RCODE_INVALID_OPTYPE"}]
             \cup [kind : {"publish"}, rid : Rid, topic : Topic]

(* __TopicResponse and __ErrorResponse.                                    *)
Respond(net, c, msg, code) ==
  [net EXCEPT ![c] = Append(@, [kind |-> "response", rid |-> msg.rid, rcode |-> code])]

(* PushMessage passes the request itself on to every subscriber.           *)
PushMessage(msg) ==
  [c \in Conn |-> IF c \in subscribers[msg.key]
                  THEN Append(toClient[c], [kind |-> "publish", rid |-> msg.rid, topic |-> msg.key])
                  ELSE toClient[c]]

RemoveTopic(conns, key) ==
  [c \in Conn |-> IF c \in conns THEN subscribedTo[c] \ {key} ELSE subscribedTo[c]]
-----------------------------------------------------------------------------
(* OnTopicRequest, one action per operation.  emplace keeps a Topic that   *)
(* is there already.                                                       *)
TopicCreate(c, msg) ==
  /\ msg.optype = "TOPIC_CREATE"
  /\ topics' = topics \cup {msg.key}
  /\ toClient' = Respond(toClient, c, msg, "RCODE_OK")
  /\ UNCHANGED <<connected, subscribers, subVars>>

TopicRemoveOneSided(c, msg) ==  \* faulty: the subscribers' lists keep the topic
  /\ msg.optype = "TOPIC_REMOVE"
  /\ topics' = topics \ {msg.key}
  /\ subscribers' = [subscribers EXCEPT ![msg.key] = {}]
  /\ toClient' = Respond(toClient, c, msg, "RCODE_OK")
  /\ UNCHANGED <<connected, subVars>>

(* Removing a topic that is not there is answered with RCODE_OK, too.      *)
TopicRemove(c, msg) ==
  /\ msg.optype = "TOPIC_REMOVE"
  /\ IF msg.key \in topics
     THEN /\ topics' = topics \ {msg.key}
          /\ subscribers' = [subscribers EXCEPT ![msg.key] = {}]
          /\ subscribedTo' = RemoveTopic(subscribers[msg.key], msg.key)
     ELSE UNCHANGED <<topics, subscribers, subscribedTo>>
  /\ toClient' = Respond(toClient, c, msg, "RCODE_OK")
  /\ UNCHANGED <<connected, hasObject>>

TopicSubscribeNew(c, msg) ==  \* faulty: a connection's first Subscriber is not kept
  /\ msg.optype = "TOPIC_SUBSCRIBE"
  /\ msg.key \in topics
  /\ subscribers' = [subscribers EXCEPT ![msg.key] = @ \cup {c}]
  /\ subscribedTo' = [subscribedTo EXCEPT ![c] = @ \cup {msg.key}]
  /\ toClient' = Respond(toClient, c, msg, "RCODE_OK")
  /\ UNCHANGED <<connected, topics, hasObject>>

TopicSubscribe(c, msg) ==
  /\ msg.optype = "TOPIC_SUBSCRIBE"
  /\ IF msg.key \in topics
     THEN /\ hasObject' = hasObject \cup {c}
          /\ subscribers' = [subscribers EXCEPT ![msg.key] = @ \cup {c}]
          /\ subscribedTo' = [subscribedTo EXCEPT ![c] = @ \cup {msg.key}]
          /\ toClient' = Respond(toClient, c, msg, "RCODE_OK")
     ELSE /\ toClient' = Respond(toClient, c, msg, "RCODE_NOT_FOUND_TOPIC")
          /\ UNCHANGED <<subscribers, subVars>>
  /\ UNCHANGED <<connected, topics>>

TopicCancelOneSided(c, msg) ==  \* faulty: the Topic keeps the Subscriber
  /\ msg.optype = "TOPIC_CANCEL"
  /\ subscribedTo' = [subscribedTo EXCEPT ![c] = @ \ {msg.key}]
  /\ toClient' = Respond(toClient, c, msg, "RCODE_OK")
  /\ UNCHANGED <<connected, topics, subscribers, hasObject>>

(* Only a connection with a Subscriber has anything to cancel.             *)
TopicCancel(c, msg) ==
  /\ msg.optype = "TOPIC_CANCEL"
  /\ IF c \in hasObject
     THEN /\ subscribedTo' = [subscribedTo EXCEPT ![c] = @ \ {msg.key}]
          /\ subscribers' = IF msg.key \in topics
                            THEN [subscribers EXCEPT ![msg.key] = @ \ {c}] ELSE subscribers
     ELSE UNCHANGED <<subscribers, subscribedTo>>
  /\ toClient' = Respond(toClient, c, msg, "RCODE_OK")
  /\ UNCHANGED <<connected, topics, hasObject>>

TopicPublishSilent(c, msg) ==  \* faulty: no __ErrorResponse for a topic that is not there
  /\ msg.optype = "TOPIC_PUBLISH"
  /\ toClient' = IF msg.key \in topics
                 THEN Respond(PushMessage(msg), c, msg, "RCODE_OK") ELSE toClient
  /\ UNCHANGED <<connected, topics, subscribers, subVars>>

TopicPublishBoth(c, msg) ==  \* faulty: no return after __ErrorResponse
  /\ msg.optype = "TOPIC_PUBLISH"
  /\ toClient' = IF msg.key \in topics
                 THEN Respond(PushMessage(msg), c, msg, "RCODE_OK")
                 ELSE Respond(Respond(toClient, c, msg, "RCODE_NOT_FOUND_TOPIC"), c, msg, "RCODE_OK")
  /\ UNCHANGED <<connected, topics, subscribers, subVars>>

TopicPublish(c, msg) ==
  /\ msg.optype = "TOPIC_PUBLISH"
  /\ toClient' = IF msg.key \in topics
                 THEN Respond(PushMessage(msg), c, msg, "RCODE_OK")
                 ELSE Respond(toClient, c, msg, "RCODE_NOT_FOUND_TOPIC")
  /\ UNCHANGED <<connected, topics, subscribers, subVars>>

InvalidOperation(c, msg) ==
  /\ msg.optype = "TOPIC_UNKNOWN"
  /\ toClient' = Respond(toClient, c, msg, "RCODE_INVALID_OPTYPE")
  /\ UNCHANGED <<connected, topics, subscribers, subVars>>

OnTopicRequest(c, msg) ==
  /\ c \in connected
  /\ \/ TopicCreate(c, msg)
     \/ TopicRemove(c, msg)
     \/ TopicSubscribe(c, msg)
     \/ TopicCancel(c, msg)
     \/ TopicPublish(c, msg)
     \/ InvalidOperation(c, msg)

(* MuduoServer::OnConnection, and the close callback.  What was sent on a  *)
(* closed connection is lost with it.                                      *)
OnConnected(c) ==
  /\ c \notin connected
  /\ connected' = connected \cup {c}
  /\ UNCHANGED <<topics, subscribers, subVars, toClient>>

OnShutDownOneTopic(c) ==  \* faulty: leaves the loop after the first topic
  /\ c \in connected
  /\ connected' = connected \ {c}
  /\ toClient' = [toClient EXCEPT ![c] = <<>>]
  /\ IF subscribedTo[c] # {}
     THEN \E k \in subscribedTo[c] : subscribers' = [subscribers EXCEPT ![k] = @ \ {c}]
     ELSE UNCHANGED subscribers
  /\ hasObject' = hasObject \ {c}
  /\ subscribedTo' = [subscribedTo EXCEPT ![c] = {}]
  /\ UNCHANGED topics

OnShutDown(c) ==
  /\ c \in connected
  /\ connected' = connected \ {c}
  /\ toClient' = [toClient EXCEPT ![c] = <<>>]
  /\ IF c \in hasObject
     THEN /\ hasObject' = hasObject \ {c}
          /\ subscribers' = [k \in Topic |-> IF k \in topics /\ k \in subscribedTo[c]
                                             THEN subscribers[k] \ {c} ELSE subscribers[k]]
          /\ subscribedTo' = [subscribedTo EXCEPT ![c] = {}]
     ELSE UNCHANGED <<subscribers, subVars>>
  /\ UNCHANGED topics
-----------------------------------------------------------------------------
(* Bound of the model: no queue grows for ever.                            *)
Room == \A d \in Conn : Len(toClient[d]) < MaxQueue

Receive(c) ==
  /\ toClient[c] # <<>>
  /\ toClient' = [toClient EXCEPT ![c] = Tail(@)]
  /\ UNCHANGED <<connected, topics, subscribers, subVars>>

Init ==
  /\ connected = {}
  /\ topics = {}
  /\ subscribers = [k \in Topic |-> {}]
  /\ hasObject = {}
  /\ subscribedTo = [c \in Conn |-> {}]
  /\ toClient = [c \in Conn |-> <<>>]

Next ==
  \E c \in Conn :
    \/ OnConnected(c)
    \/ \E msg \in TopicRequest : Room /\ OnTopicRequest(c, msg)
    \/ OnShutDown(c)
    \/ Receive(c)

Spec == Init /\ [][Next]_vars
-----------------------------------------------------------------------------
(* Types; only an open connection has a Subscriber, so a new connection    *)
(* never finds one of an earlier one.                                      *)
TopicTypeOK ==
  /\ connected \subseteq Conn
  /\ topics \subseteq Topic
  /\ subscribers \in [Topic -> SUBSET Conn]
  /\ hasObject \subseteq connected
  /\ subscribedTo \in [Conn -> SUBSET Topic]
  /\ toClient \in [Conn -> Seq(Message)]

(* Topics and Subscribers always tell the same of each other: Remove finds *)
(* its subscribers, and OnShutDown its topics, only through the other side.*)
SubscriptionsAgree ==
  \A c \in Conn, k \in Topic : c \in subscribers[k] <=> k \in subscribedTo[c]

(* Only topics that exist have subscribers, so a topic that is created     *)
(* anew starts without any; and only connections with a Subscriber do, so  *)
(* Cancel and OnShutDown find it and nothing is pushed to a closed one.    *)
SubscriptionsAreLive ==
  \A c \in Conn, k \in Topic :
    c \in subscribers[k] => (k \in topics /\ c \in hasObject)

(* The server as a publish/subscribe service.                              *)
Interest == {x \in Conn \X Topic : x[1] \in subscribers[x[2]]}

Service == INSTANCE PubSub WITH
  Peer <- Conn, Subject <- Topic, Ticket <- Rid, Ok <- "RCODE_OK",
  NoSuchSubject <- "RCODE_NOT_FOUND_TOPIC", BadRequest <- "RCODE_INVALID_OPTYPE",
  members <- connected, subjects <- topics,
  interest <- Interest, inbox <- toClient

(* TopicManager implements publish/subscribe: every message and answer is  *)
(* sent to whom, and in the order, the subscriptions of that moment say.   *)
ImplementsPubSub == Service!PubSubSpec

=============================================================================
