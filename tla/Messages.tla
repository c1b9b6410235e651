------------------------------- MODULE Messages -------------------------------
(***************************************************************************)
(* The messages the program sends, from the setters of the sender to the   *)
(* getters of the receiver (common/Message.hpp, Fileds.hpp, JsonComm.hpp,  *)
(* Uuid.hpp).  A body is a JSON object; a missing member reads as null,    *)
(* and null reads as the empty string, as 0, as no elements.  Reading a    *)
(* member that is missing adds it with the value null.                     *)
(***************************************************************************)
EXTENDS NetworkInt, FiniteSets

CONSTANTS
  Names,     \* strings that are not empty
  PortLimit, \* ports run from 0 below it, 2^16
  IdBytes,   \* bytes of the sequence number in an id, 8
  MaxIds,    \* bound: ids made
  MaxHosts   \* bound: hosts of an answer

ASSUME MessagesAssumption ==
  /\ "" \notin Names
  /\ PortLimit \in Nat \ {0}
  /\ IdBytes \in Nat
  /\ MaxIds \in Nat /\ MaxIds < Power(IdBytes)
  /\ MaxHosts \in Nat

Hosts == [ip : Names, port : 0 .. PortLimit - 1]

ResCodes == <<"OK", "RARSE_FAILED", "INVALID_MSG", "DISCONNECTED", "INVAILED_PARAMS",
  "NOT_FOUND_SERVICE", "INVALID_OPTYPE", "NOT_FOUND_TOPIC", "INTERNAL_ERROR">>
TopicOperTypes == <<"CREATE", "REMOVE", "SUBSCRIBE", "CANCEL", "PUBLISH">>
ServiceOperTypes == <<"REGISRY", "DISCOVERY", "ONLINE", "OFFLINE", "UNKNOW">>

VARIABLES
  stage,   \* "idle", "composed", "sent", "read" or "refused"
  mtype,   \* type of the message
  body,    \* _body, of the sender's object and then of the receiver's
  text,    \* what goes over the connection
  meant,   \* history: what the getters are meant to return
  seq,     \* Uuid's counter
  ids      \* history: the ids made

messagesVars == <<stage, mtype, body, text, meant, seq, ids>>

-----------------------------------------------------------------------------
(* JSON values *)

Null          == [kind |-> "null",   val |-> "", items |-> <<>>]
Str(s)        == [kind |-> "string", val |-> s,  items |-> <<>>]
Number(name)  == [kind |-> "int",    val |-> name, items |-> <<>>]
Object(s)     == [kind |-> "object", val |-> s,  items |-> <<>>]
HostObject(h) == [kind |-> "object", val |-> "", items |-> <<h>>]
Array(s)      == [kind |-> "array",  val |-> "", items |-> s]

Empty     == <<>>
At(b, k)  == IF k \in DOMAIN b THEN b[k] ELSE Null
Put(b, k, v) == [x \in DOMAIN b \cup {k} |-> IF x = k THEN v ELSE b[x]]
Touch(b, ks) == [x \in DOMAIN b \cup ks |-> At(b, x)]

(* asString and asInt throw on the kinds they do not convert. *)
AsString(v) == IF v.kind \in {"null", "string"} THEN v.val ELSE "throws"
AsEnum(v, enum) == IF v.kind = "null" THEN enum[1] ELSE IF v.kind = "int" THEN v.val ELSE "throws"

(* Address::second is an int16_t: a port above its range is negative in    *)
(* the message, and an uint16_t again where the client connects to it.     *)
ToInt16(p)  == IF p < PortLimit \div 2 THEN p ELSE p - PortLimit
ToUint16(n) == n % PortLimit

Address(h)  == [ip |-> h.ip, port |-> ToInt16(h.port)]
Endpoint(a) == [ip |-> a.ip, port |-> ToUint16(a.port)]

-----------------------------------------------------------------------------
(* Setters and getters *)

SetMethod(b, m)            == Put(b, "method", Str(m))
SetParams(b, p)            == Put(b, "parameters", p)
SetRcode(b, c)             == Put(b, "rcode", Number(c))
SetResult(b, r)            == Put(b, "result", r)
SetTopicKey(b, k)          == Put(b, "topic_key", Str(k))
SetTopicMeassage(b, m)     == Put(b, "topic_message", Str(m))
SetTopicOperType(b, op)    == Put(b, "optype", Number(op))
SetServiceOperType(b, op)  == Put(b, "optype", Number(op))

SetHostMeassage(b, h)      == Put(b, "host", HostObject(Address(h)))

(* faulty: each host replaces the one before. *)
SetHostsLast(b, hs) ==
  IF hs = <<>> THEN b ELSE Put(b, "host", Array(<<Address(hs[Len(hs)])>>))

(* Each host is appended; without one the member stays as it is. *)
SetHosts(b, hs) ==
  IF hs = <<>> THEN b
  ELSE Put(b, "host", Array(At(b, "host").items \o [i \in DOMAIN hs |-> Address(hs[i])]))

Method(b)          == AsString(At(b, "method"))
Params(b)          == At(b, "parameters")
Rcode(b)           == AsEnum(At(b, "rcode"), ResCodes)
Result(b)          == At(b, "result")
TopicKey(b)        == AsString(At(b, "topic_key"))
TopicMeassage(b)   == AsString(At(b, "topic_message"))
TopicOperType(b)   == AsEnum(At(b, "optype"), TopicOperTypes)
ServiceOperType(b) == AsEnum(At(b, "optype"), ServiceOperTypes)
Hosts_(b) == LET items == At(b, "host").items IN [i \in DOMAIN items |-> Endpoint(items[i])]
HostMeassage(b) == IF At(b, "host").items = <<>> THEN [ip |-> "", port |-> 0] ELSE Hosts_(b)[1]

(* What a receiver reads of a message of type t. *)
Reads(t, b) ==
  CASE t = "REQUEST_RPC"      -> <<Method(b), Params(b)>>
    [] t = "RESPONSE_RPC"     -> <<Rcode(b), Result(b)>>
    [] t = "REQUEST_TOPIC"    -> <<TopicOperType(b), TopicKey(b), TopicMeassage(b)>>
    [] t = "RESPONSE_TOPIC"   -> <<Rcode(b)>>
    [] t = "REQUEST_SERVICE"  -> <<ServiceOperType(b), Method(b), HostMeassage(b)>>
    [] t = "RESPONSE_SERVICE" -> <<Rcode(b), ServiceOperType(b), Method(b), Hosts_(b)>>

(* The members the receiver's getters go to. *)
Members(t) ==
  CASE t = "REQUEST_RPC"      -> {"method", "parameters"}
    [] t = "RESPONSE_RPC"     -> {"rcode", "result"}
    [] t = "REQUEST_TOPIC"    -> {"optype", "topic_key", "topic_message"}
    [] t = "RESPONSE_TOPIC"   -> {"rcode"}
    [] t = "REQUEST_SERVICE"  -> {"optype", "method", "host"}
    [] t = "RESPONSE_SERVICE" -> {"rcode", "optype", "method", "host"}

(* MessageFactory::Create(mtype) *)
MessTypes == {"REQUEST_RPC", "RESPONSE_RPC", "REQUEST_TOPIC", "RESPONSE_TOPIC",
              "REQUEST_SERVICE", "RESPONSE_SERVICE"}

-----------------------------------------------------------------------------
(* Check, for every type *)

IsString(b, k) == At(b, k).kind = "string"
IsInt(b, k)    == At(b, k).kind = "int"

JsonResponseCheck(b) == IsInt(b, "rcode")

RpcRequestCheck(b)  == IsString(b, "method") /\ At(b, "parameters").kind = "object"
RpcResponseCheck(b) == IsInt(b, "rcode") /\ At(b, "result").kind # "null"

TopicRequestCheck(b) ==
  /\ IsString(b, "topic_key")
  /\ IsInt(b, "optype")
  /\ TopicOperType(b) = "PUBLISH" => IsString(b, "topic_message")

ServiceRequestCheck(b) ==
  /\ IsString(b, "method")
  /\ IsInt(b, "optype")
  /\ ServiceOperType(b) # "DISCOVERY" => At(b, "host").kind = "object"

ServiceResponseCheck(b) ==
  /\ IsInt(b, "rcode")
  /\ IsInt(b, "optype")
  /\ ServiceOperType(b) = "DISCOVERY" => IsString(b, "method") /\ At(b, "host").kind = "array"

Check(t, b) ==
  CASE t = "REQUEST_RPC"      -> RpcRequestCheck(b)
    [] t = "RESPONSE_RPC"     -> RpcResponseCheck(b)
    [] t = "REQUEST_TOPIC"    -> TopicRequestCheck(b)
    [] t = "RESPONSE_TOPIC"   -> JsonResponseCheck(b)
    [] t = "REQUEST_SERVICE"  -> ServiceRequestCheck(b)
    [] t = "RESPONSE_SERVICE" -> ServiceResponseCheck(b)

-----------------------------------------------------------------------------

MessagesInit ==
  /\ stage = "idle"
  /\ mtype \in MessTypes
  /\ body = Empty
  /\ text = <<>>
  /\ meant = <<>>
  /\ seq = 1
  /\ ids = {}

(* faulty: only the lowest byte of the counter is written. *)
UuidShort(cur) == [i \in 1 .. IdBytes |-> cur % Base]

(* Uuid::GetUuid: the counter byte by byte, highest first, behind random   *)
(* bytes that nothing relies on.                                           *)
Uuid(cur) == HostToNetwork(cur, IdBytes)

NewId ==
  /\ seq <= MaxIds
  /\ ids' = ids \cup {Uuid(seq)}
  /\ seq' = seq + 1

(* A message of type t with body b is made, that is to be read as r. *)
Compose(t, b, r) ==
  /\ stage = "idle"
  /\ stage' = "composed"
  /\ mtype' = t
  /\ body' = b
  /\ meant' = r
  /\ UNCHANGED text

Request(t, b, r)  == Compose(t, b, r) /\ NewId
Response(t, b, r) == Compose(t, b, r) /\ UNCHANGED <<seq, ids>>

(* RpcCaller::Call *)
ComposeCall ==
  \E m \in Names, p \in {Null, Object("p")} :
    Request("REQUEST_RPC", SetParams(SetMethod(Empty, m), p), <<m, p>>)

(* RpcRouter::Response: null unless OK, and then never null, which is of   *)
(* no return type.                                                         *)
ComposeResult ==
  \E c \in {"OK", "NOT_FOUND_SERVICE", "INVAILED_PARAMS", "INTERNAL_ERROR"},
     r \in {Null, Number("33"), Object("r")} :
    /\ c = "OK" <=> r # Null
    /\ Response("RESPONSE_RPC", SetResult(SetRcode(Empty, c), r), <<c, r>>)

(* TopicManager::__CommonRequest *)
ComposeTopicRequest ==
  \E i \in DOMAIN TopicOperTypes, k \in Names, m \in Names \cup {""} :
    LET op == TopicOperTypes[i]
        b  == SetTopicKey(SetTopicOperType(Empty, op), k)
    IN  IF op = "PUBLISH"
        THEN Request("REQUEST_TOPIC", SetTopicMeassage(b, m), <<op, k, m>>)
        ELSE Request("REQUEST_TOPIC", b, <<op, k, "">>)

(* TopicManager::__TopicResponse and __ErrorResponse *)
ComposeTopicResponse ==
  \E c \in {"OK", "NOT_FOUND_TOPIC", "INVALID_OPTYPE"} :
    Response("RESPONSE_TOPIC", SetRcode(Empty, c), <<c>>)

(* Provider::RegistryMethod and DiscovererManager::__Notify *)
ComposeHostRequest ==
  \E op \in {"REGISRY", "ONLINE", "OFFLINE"}, m \in Names, h \in Hosts :
    Request("REQUEST_SERVICE",
            SetServiceOperType(SetHostMeassage(SetMethod(Empty, m), h), op), <<op, m, h>>)

(* Discoverer::ServiceDiscovery *)
ComposeDiscovery ==
  \E m \in Names :
    Request("REQUEST_SERVICE", SetServiceOperType(SetMethod(Empty, m), "DISCOVERY"),
            <<"DISCOVERY", m, [ip |-> "", port |-> 0]>>)

(* PDManager::__RegistryResponse and __ErrorResponse *)
ComposeRegistryResponse ==
  \E c \in {"OK", "INVALID_OPTYPE"} :
    LET op == IF c = "OK" THEN "REGISRY" ELSE "UNKNOW" IN
    Response("RESPONSE_SERVICE", SetServiceOperType(SetRcode(Empty, c), op), <<c, op, "", <<>>>>)

(* PDManager::__DiscoveryResponse *)
ComposeDiscoveryResponse ==
  \E hs \in UNION {[1 .. n -> Hosts] : n \in 0 .. MaxHosts}, m \in Names :
    LET b == SetServiceOperType(Empty, "DISCOVERY") IN
    IF hs = <<>>
    THEN Response("RESPONSE_SERVICE", SetRcode(b, "NOT_FOUND_SERVICE"),
                  <<"NOT_FOUND_SERVICE", "DISCOVERY", "", <<>>>>)
    ELSE Response("RESPONSE_SERVICE", SetHosts(SetMethod(SetRcode(b, "OK"), m), hs),
                  <<"OK", "DISCOVERY", m, hs>>)

-----------------------------------------------------------------------------

(* JsonMessage::Serialize: the text of the body, or nothing if the writer  *)
(* fails.                                                                  *)
Serialize ==
  /\ stage = "composed"
  /\ stage' = "sent"
  /\ text' \in {<<>>, <<body>>}
  /\ UNCHANGED <<mtype, body, meant, seq, ids>>

(* LVProtocol::OnMessage: an object of the type is created and parses the  *)
(* text.                                                                   *)
Unserialize ==
  /\ stage = "sent"
  /\ IF text = <<>> THEN stage' = "refused" /\ body' = Empty
                    ELSE stage' = "read" /\ body' = text[1]
  /\ UNCHANGED <<mtype, text, meant, seq, ids>>

(* The topic server sends a publication that it has read on as it is. *)
Forward ==
  /\ stage = "read"
  /\ mtype = "REQUEST_TOPIC" /\ TopicOperType(body) = "PUBLISH"
  /\ body' = Touch(body, Members(mtype))
  /\ stage' = "composed"
  /\ UNCHANGED <<mtype, text, meant, seq, ids>>

Done ==
  /\ stage \in {"read", "refused"}
  /\ stage' = "idle"
  /\ text' = <<>>
  /\ body' = Empty
  /\ meant' = <<>>
  /\ UNCHANGED <<mtype, seq, ids>>

MessagesNext ==
  \/ ComposeCall \/ ComposeResult
  \/ ComposeTopicRequest \/ ComposeTopicResponse
  \/ ComposeHostRequest \/ ComposeDiscovery
  \/ ComposeRegistryResponse \/ ComposeDiscoveryResponse
  \/ Serialize \/ Unserialize \/ Forward \/ Done

MessagesSpec == MessagesInit /\ [][MessagesNext]_messagesVars

-----------------------------------------------------------------------------

Codes == {ResCodes[i] : i \in DOMAIN ResCodes}

MessagesTypeOK ==
  /\ stage \in {"idle", "composed", "sent", "read", "refused"}
  /\ mtype \in MessTypes
  /\ DOMAIN body \subseteq UNION {Members(t) : t \in MessTypes}
  /\ Len(text) <= 1
  /\ seq \in 1 .. MaxIds + 1
  /\ stage # "idle" => DOMAIN body \subseteq Members(mtype)

(* Check, which no handler calls, accepts every topic and service request  *)
(* the program makes, every call with parameters, and every answer that    *)
(* reports success and has a result.                                       *)
CheckAccepts ==
  \/ Check(mtype, body)
  \/ mtype = "REQUEST_RPC" /\ Params(body) = Null
  \/ mtype = "RESPONSE_RPC" /\ Result(body) = Null
  \/ mtype = "RESPONSE_SERVICE" /\ Rcode(body) # "OK"

(* Types; a receiver reads what the sender set, with the defaults for what *)
(* it did not set, and no getter throws; a publication reads the same      *)
(* after the server has read it and sent it on, and a port comes out as it *)
(* went in, although the message holds it with a sign.  A well-formed      *)
(* message passes its Check.                                               *)
ReadsBack ==
  /\ MessagesTypeOK
  /\ stage = "read" => Reads(mtype, body) = meant /\ CheckAccepts

(* No two requests have the same id, even if the random bytes before the   *)
(* counter are the same: an answer is never taken for another request's.   *)
IdsAreNew == Cardinality(ids) = seq - 1

=============================================================================
