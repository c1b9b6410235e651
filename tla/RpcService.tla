------------------------------ MODULE RpcService ------------------------------
(***************************************************************************)
(* An RPC server and its callers: describing methods with the builder,     *)
(* registering them (RpcServer::RegistryMethod: first with the registry,   *)
(* then with the router), listening, and answering requests                *)
(* (server/RpcRouter.hpp, server/RpcServer.hpp).                           *)
(*                                                                         *)
(* The main thread registers its methods and calls Start, which does not   *)
(* return.  ServiceManger has a lock, so other threads may register theirs *)
(* while the loop runs.  Requests are handled in the loop thread, one      *)
(* after the other.                                                        *)
(***************************************************************************)
EXTENDS Naturals, Sequences, FiniteSets

CONSTANTS
  Callers,    \* client threads
  Registrars, \* threads of the server program that register methods
  Main,       \* the one that calls Start
  Plan,       \* [Registrars -> Seq(declaration)], what each registers in turn
  Unknown,    \* a method nobody registers
  ParamSets,  \* params of requests: functions from parameter names to kinds
  Idle        \* no request, no answer yet

(* The kinds of JSON values that the type tests tell apart; "whole" is a   *)
(* whole number stored as a real.                                          *)
Kinds == {"null", "int", "whole", "real", "string", "array", "object", "bool"}

ValueTypes == {"INTERGRAL", "NUMERIC", "STRING", "ARRAY", "OBJECT", "BOOL"}

Codes == {"OK", "INVAILED_PARAMS", "NOT_FOUND_SERVICE", "INTERNAL_ERROR"}

Elements(s) == {s[i] : i \in DOMAIN s}

(* A declaration: name, params as pairs of a name and a type, the type of  *)
(* the result, and the callback, known by the kinds its result may have.   *)
Declarations == UNION {Elements(Plan[r]) : r \in Registrars}
Methods == {d.name : d \in Declarations}

ASSUME PlanAssumption ==
  /\ Main \in Registrars
  /\ Unknown \notin Methods
  /\ \A r \in Registrars : Plan[r] \in Seq(Elements(Plan[r]))
  /\ Plan = [r \in Registrars |-> Plan[r]]
  /\ \A d \in Declarations :
       /\ d = [name |-> d.name, params |-> d.params, type |-> d.type, callback |-> d.callback]
       /\ d.params \in Seq(Elements(d.params))
       /\ d.type \in ValueTypes
       /\ d.callback \in SUBSET Kinds \ {{}}

VARIABLES
  enabled,    \* _enable_registry
  builder,    \* the ServiceDiscribeFactory of each registering thread
  built,      \* the ServiceDiscribe it has built
  todo,       \* the declarations it has still to register
  pc,         \* where it is
  advertised, \* methods the registry lists for this server
  services,   \* ServiceManger::_services
  listening,  \* Start has been called
  request,    \* what a caller waits for
  reply       \* what it was answered last

vars == <<enabled, builder, built, todo, pc, advertised, services, listening, request, reply>>
serverVars == <<enabled, builder, built, todo, pc, advertised, services, listening>>

-----------------------------------------------------------------------------
(* ServiceDiscribe *)

(* What jsoncpp's tests accept. *)
KindsOf(type) ==
  CASE type = "BOOL"      -> {"bool"}
    [] type = "INTERGRAL" -> {"int", "whole"}
    [] type = "NUMERIC"   -> {"int", "whole", "real"}
    [] type = "STRING"    -> {"string"}
    [] type = "ARRAY"     -> {"array"}
    [] type = "OBJECT"    -> {"object"}

Check(type, kind) == kind \in KindsOf(type)

(* faulty: the first parameter that fits ends the loop. *)
ParamCheckFirst(service, params) ==
  \/ service.params = <<>>
  \/ \E p \in Elements(service.params) :
       p[1] \in DOMAIN params /\ Check(p[2], params[p[1]])

(* Every parameter described is there and has its type; others are let     *)
(* pass.  params is an object, or null, which has no members; of anything  *)
(* else isMember throws, which is not modelled.                            *)
ParamCheck(service, params) ==
  \A p \in Elements(service.params) :
    p[1] \in DOMAIN params /\ Check(p[2], params[p[1]])

ReturnTypeCheck(service, kind) == Check(service.type, kind)

(* ServiceDiscribeFactory *)
SetMethodName(b, name)   == [b EXCEPT !.name = name]
SetParamsDesc(b, params) == [b EXCEPT !.params = @ \o params]
SetReturnType(b, type)   == [b EXCEPT !.type = type]
SetCallback(b, callback) == [b EXCEPT !.callback = callback]

(* What Build leaves: name, params and callback are moved out. *)
MovedFrom(b) == [name |-> "", params |-> <<>>, type |-> b.type, callback |-> {}]

(* ServiceManger *)
With(table, service) ==
  [m \in DOMAIN table \cup {service.name} |->
     IF m = service.name THEN service ELSE table[m]]

(* emplace keeps the description a name was first inserted with. *)
Insert(table, service) ==
  IF service.name \in DOMAIN table THEN table ELSE With(table, service)

-----------------------------------------------------------------------------

Init ==
  /\ enabled \in BOOLEAN
  /\ \E type \in ValueTypes :  \* not initialized
       builder = [r \in Registrars |->
                    [name |-> "", params |-> <<>>, type |-> type, callback |-> {}]]
  /\ built = builder
  /\ todo = Plan
  /\ pc = [r \in Registrars |-> "describe"]
  /\ advertised = {}
  /\ services = <<>>
  /\ listening = FALSE
  /\ request = [c \in Callers |-> Idle]
  /\ reply = [c \in Callers |-> Idle]

(* The program describes its next method, with the builder it used before. *)
Describe(r) ==
  /\ pc[r] = "describe"
  /\ todo[r] # <<>>
  /\ LET d == Head(todo[r]) IN
     builder' = [builder EXCEPT ![r] =
       SetCallback(SetReturnType(SetParamsDesc(SetMethodName(@, d.name), d.params), d.type), d.callback)]
  /\ pc' = [pc EXCEPT ![r] = "build"]
  /\ UNCHANGED <<enabled, built, todo, advertised, services, listening, request, reply>>

(* faulty: the parts are copied and stay in the builder. *)
BuildCopying(r) ==
  /\ pc[r] = "build"
  /\ built' = [built EXCEPT ![r] = builder[r]]
  /\ pc' = [pc EXCEPT ![r] = "registry"]
  /\ UNCHANGED <<enabled, builder, todo, advertised, services, listening, request, reply>>

Build(r) ==
  /\ pc[r] = "build"
  /\ built' = [built EXCEPT ![r] = builder[r]]
  /\ builder' = [builder EXCEPT ![r] = MovedFrom(@)]
  /\ pc' = [pc EXCEPT ![r] = "registry"]
  /\ UNCHANGED <<enabled, todo, advertised, services, listening, request, reply>>

(* faulty: when the registry is used the router is forgotten. *)
AdvertiseOnly(r) ==
  /\ pc[r] = "registry"
  /\ advertised' = IF enabled THEN advertised \cup {built[r].name} ELSE advertised
  /\ todo' = [todo EXCEPT ![r] = Tail(@)]
  /\ pc' = [pc EXCEPT ![r] = "describe"]
  /\ UNCHANGED <<enabled, builder, built, services, listening, request, reply>>

(* RegistryMethod, its first half: the registry lists the method, and the  *)
(* thread waits for the answer.                                            *)
Advertise(r) ==
  /\ pc[r] = "registry"
  /\ advertised' = IF enabled THEN advertised \cup {built[r].name} ELSE advertised
  /\ pc' = [pc EXCEPT ![r] = "router"]
  /\ UNCHANGED <<enabled, builder, built, todo, services, listening, request, reply>>

(* Its second half: the router gets the method. *)
RegisterMethod(r) ==
  /\ pc[r] = "router"
  /\ services' = Insert(services, built[r])
  /\ todo' = [todo EXCEPT ![r] = Tail(@)]
  /\ pc' = [pc EXCEPT ![r] = "describe"]
  /\ UNCHANGED <<enabled, builder, built, advertised, listening, request, reply>>

Start ==
  /\ pc[Main] = "describe"
  /\ todo[Main] = <<>>
  /\ ~ listening
  /\ listening' = TRUE
  /\ UNCHANGED <<enabled, builder, built, todo, pc, advertised, services, request, reply>>

(* A client calls a method, which it has discovered if the server is       *)
(* listed for it; until the server listens its connector retries.          *)
Call(c, m, params) ==
  /\ request[c] = Idle
  /\ request' = [request EXCEPT ![c] =
       [method |-> m, params |-> params, discovered |-> m \in advertised]]
  /\ UNCHANGED <<serverVars, reply>>

-----------------------------------------------------------------------------
(* RpcRouter::OnRpcRequest *)

Response(c, code, result) ==
  /\ reply' = [reply EXCEPT ![c] = [code |-> code, result |-> result, to |-> request[c]]]
  /\ request' = [request EXCEPT ![c] = Idle]
  /\ UNCHANGED serverVars

(* Select *)
Missing(c) ==
  listening /\ request[c] # Idle /\ request[c].method \notin DOMAIN services

Found(c) ==
  listening /\ request[c] # Idle /\ request[c].method \in DOMAIN services

Service(c) == services[request[c].method]

NotFound(c) == Missing(c) /\ Response(c, "NOT_FOUND_SERVICE", "null")

InvalidParams(c) ==
  /\ Found(c)
  /\ ~ ParamCheck(Service(c), request[c].params)
  /\ Response(c, "INVAILED_PARAMS", "null")

InternalError(c) ==
  /\ Found(c)
  /\ ParamCheck(Service(c), request[c].params)
  /\ \E result \in Service(c).callback :
       ~ ReturnTypeCheck(Service(c), result) /\ Response(c, "INTERNAL_ERROR", "null")

Answer(c) ==
  /\ Found(c)
  /\ ParamCheck(Service(c), request[c].params)
  /\ \E result \in Service(c).callback :
       ReturnTypeCheck(Service(c), result) /\ Response(c, "OK", result)

OnRpcRequest(c) == NotFound(c) \/ InvalidParams(c) \/ InternalError(c) \/ Answer(c)

-----------------------------------------------------------------------------

Register(r) == Describe(r) \/ Build(r) \/ Advertise(r) \/ RegisterMethod(r)

Next ==
  \/ \E r \in Registrars : Register(r)
  \/ Start
  \/ \E c \in Callers, m \in Methods \cup {Unknown}, params \in ParamSets : Call(c, m, params)
  \/ \E c \in Callers : OnRpcRequest(c)

Spec == Init /\ [][Next]_vars

-----------------------------------------------------------------------------

Request == [method : Methods \cup {Unknown}, params : ParamSets, discovered : BOOLEAN]

ServiceTypeOK ==
  /\ enabled \in BOOLEAN
  /\ \A r \in Registrars :
       /\ builder[r].name \in Methods \cup {""}
       /\ builder[r].type \in ValueTypes
       /\ pc[r] \in {"describe", "build", "registry", "router"}
       /\ pc[r] \in {"registry", "router"} => built[r].name \in Methods
       /\ pc[r] # "describe" => todo[r] # <<>>
  /\ advertised \subseteq Methods
  /\ DOMAIN services \subseteq Methods
  /\ listening \in BOOLEAN
  /\ \A c \in Callers :
       /\ request[c] \in Request \cup {Idle}
       /\ reply[c] = Idle \/ reply[c] \in [code : Codes, result : Kinds, to : Request]

(* Types; one builder serves for many methods: what the router holds under *)
(* a name is exactly what one declaration of that name says, with nothing  *)
(* left over from another method.                                          *)
DescribedAsDeclared ==
  /\ ServiceTypeOK
  /\ \A m \in DOMAIN services : services[m].name = m /\ services[m] \in Declarations

(* Every answer is right by a declaration of the method: OK only for the   *)
(* declared parameters and a result of the declared type, INVAILED_PARAMS  *)
(* only if one is missing or of another type, INTERNAL_ERROR only if the   *)
(* callback breaks its word; and an error has no result.                   *)
AnswersByContract ==
  \A c \in Callers :
    reply[c] # Idle /\ reply[c].code # "NOT_FOUND_SERVICE" =>
      \E d \in Declarations :
        LET a    == reply[c]
            fits == \A i \in DOMAIN d.params :
                      \E x \in DOMAIN a.to.params :
                        x = d.params[i][1] /\ a.to.params[x] \in KindsOf(d.params[i][2])
        IN  /\ d.name = a.to.method
            /\ a.code = "OK" => fits /\ a.result \in d.callback \cap KindsOf(d.type)
            /\ a.code = "INVAILED_PARAMS" => ~ fits /\ a.result = "null"
            /\ a.code = "INTERNAL_ERROR" =>
                 fits /\ ~ d.callback \subseteq KindsOf(d.type) /\ a.result = "null"

(* The registry lists a method before the router has it.  A client that    *)
(* discovered it is told that it does not exist only while the thread that *)
(* registers it is between the two.                                        *)
NotFoundOnlyWhileRegistering ==
  [][\A c \in Callers :
       request[c] # Idle /\ request'[c] = Idle
       /\ request[c].discovered /\ reply'[c].code = "NOT_FOUND_SERVICE" =>
         \E r \in Registrars : pc[r] = "router" /\ built[r].name = request[c].method]_vars

=============================================================================
