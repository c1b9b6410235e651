--------------------------- MODULE RpcServiceProofs ---------------------------
(***************************************************************************)
(* Proofs about RpcService for any methods, registering threads and        *)
(* callers: the router holds what was declared, every answer is right by a *)
(* declaration, and a discovered method is missing only while the thread   *)
(* that registers it is between the registry and the router.               *)
(***************************************************************************)
EXTENDS RpcService, TLAPS

(* A builder between two methods. *)
Blank == {[name |-> "", params |-> <<>>, type |-> type, callback |-> {}] : type \in ValueTypes}

AnswerType == [code : Codes, result : Kinds, to : Request]

Typed ==
  /\ enabled \in BOOLEAN /\ listening \in BOOLEAN
  /\ builder \in [Registrars -> Declarations \cup Blank]
  /\ built \in [Registrars -> Declarations \cup Blank]
  /\ todo \in [Registrars -> Seq(Declarations)]
  /\ pc \in [Registrars -> {"describe", "build", "registry", "router"}]
  /\ request \in [Callers -> Request \cup {Idle}]
  /\ reply \in [Callers -> AnswerType \cup {Idle}]

(* The builder has one method's description or none, and what is built is  *)
(* the declaration that the thread is about to register.                   *)
Building ==
  \A r \in Registrars :
    /\ pc[r] # "describe" => todo[r] # <<>>
    /\ IF pc[r] = "build" THEN builder[r] = Head(todo[r]) ELSE builder[r] \in Blank
    /\ pc[r] \in {"registry", "router"} => built[r] = Head(todo[r])

(* A method that the registry lists is in the router, or about to be; and  *)
(* whoever has discovered a method, it was listed.                         *)
Listed ==
  /\ \A m \in advertised :
       /\ m \in Methods
       /\ m \in DOMAIN services \/ \E r \in Registrars : pc[r] = "router" /\ built[r].name = m
  /\ \A c \in Callers :
       request[c] # Idle /\ request[c].discovered => request[c].method \in advertised

Served == \A m \in DOMAIN services : services[m].name = m /\ services[m] \in Declarations

IInv == Typed /\ Building /\ Listed /\ Served /\ AnswersByContract

-----------------------------------------------------------------------------

(* The parts of a builder, and its setters. *)
Parts(n, p, t, f) == [name |-> n, params |-> p, type |-> t, callback |-> f]

(* Each setter of the builder writes one of its parts.                     *)
LEMMA Setters ==
  ASSUME NEW n, NEW p, NEW t, NEW f, NEW x
  PROVE  /\ SetMethodName(Parts(n, p, t, f), x) = Parts(x, p, t, f)
         /\ SetReturnType(Parts(n, p, t, f), x) = Parts(n, p, x, f)
         /\ SetCallback(Parts(n, p, t, f), x) = Parts(n, p, t, x)
<1>1. SetMethodName(Parts(n, p, t, f), x) = Parts(x, p, t, f)
  BY DEF SetMethodName, Parts
<1>2. SetReturnType(Parts(n, p, t, f), x) = Parts(n, p, x, f)
  BY DEF SetReturnType, Parts
<1>3. SetCallback(Parts(n, p, t, f), x) = Parts(n, p, t, x)
  BY DEF SetCallback, Parts
<1> QED
  BY <1>1, <1>2, <1>3

(* SetParamsDesc appends: the description it yields is right if the        *)
(* builder had none left.                                                  *)
LEMMA ParamsSetter ==
  ASSUME NEW n, NEW p, NEW t, NEW f, NEW x, NEW y, p \o x = y
  PROVE  SetParamsDesc(Parts(n, p, t, f), x) = Parts(n, y, t, f)
BY DEF SetParamsDesc, Parts

(* A declaration is what the builder makes of its parts.                   *)
LEMMA Declared ==
  ASSUME NEW d \in Declarations
  PROVE  /\ d.name \in Methods /\ d.type \in ValueTypes /\ d.callback \subseteq Kinds
         /\ \A b \in Blank :
              SetCallback(SetReturnType(SetParamsDesc(SetMethodName(b, d.name), d.params), d.type),
                          d.callback) = d
         /\ MovedFrom(d) \in Blank
<1>1. /\ d = [name |-> d.name, params |-> d.params, type |-> d.type, callback |-> d.callback]
      /\ d.params \in Seq(Elements(d.params)) /\ d.type \in ValueTypes /\ d.callback \subseteq Kinds
  BY PlanAssumption
<1>2. d.name \in Methods
  BY DEF Methods
<1>3. MovedFrom(d) \in Blank
  BY <1>1 DEF MovedFrom, Blank
<1>4. ASSUME NEW b \in Blank
      PROVE  SetCallback(SetReturnType(SetParamsDesc(SetMethodName(b, d.name), d.params), d.type),
                         d.callback) = d
  <2>1. PICK n, p, t, f : b = Parts(n, p, t, f) /\ p = <<>>
    BY DEF Blank, Parts
  <2>2. p \o d.params = d.params
    BY <1>1, <2>1
  <2>3. SetMethodName(b, d.name) = Parts(d.name, p, t, f)
    BY <2>1, Setters
  <2>4. SetParamsDesc(Parts(d.name, p, t, f), d.params) = Parts(d.name, d.params, t, f)
    BY <2>2, ParamsSetter
  <2>5. SetReturnType(Parts(d.name, d.params, t, f), d.type) = Parts(d.name, d.params, d.type, f)
    BY Setters
  <2>6. SetCallback(Parts(d.name, d.params, d.type, f), d.callback)
          = Parts(d.name, d.params, d.type, d.callback)
    BY Setters
  <2>7. Parts(d.name, d.params, d.type, d.callback) = d
    BY <1>1 DEF Parts
  <2> QED
    BY <2>3, <2>4, <2>5, <2>6, <2>7
<1> QED
  BY <1>1, <1>2, <1>3, <1>4

(* The declarations of a plan are declarations.                            *)
LEMMA PlanTyped == Plan \in [Registrars -> Seq(Declarations)]
<1>1. \A r \in Registrars : Elements(Plan[r]) \subseteq Declarations
  BY DEF Declarations
<1>2. ASSUME NEW r \in Registrars
      PROVE  Plan[r] \in Seq(Declarations)
  <2>1. Plan[r] \in Seq(Elements(Plan[r]))
    BY PlanAssumption
  <2> QED
    BY <1>1, <2>1
<1> QED
  BY <1>2, PlanAssumption

(* The first declaration of a sequence, and the others.                    *)
LEMMA Taken ==
  ASSUME NEW S, NEW s \in Seq(S), s # <<>>
  PROVE  Tail(s) \in Seq(S) /\ Head(s) \in S
OBVIOUS

(* The loop of ParamCheck goes through every parameter described.          *)
LEMMA Fits ==
  ASSUME NEW d, NEW params
  PROVE  ParamCheck(d, params) <=>
           \A i \in DOMAIN d.params :
             \E x \in DOMAIN params : x = d.params[i][1] /\ params[x] \in KindsOf(d.params[i][2])
BY DEF ParamCheck, Elements, Check

(* An answer is right by a declaration. *)
RightBy(a, d) ==
  /\ d.name = a.to.method
  /\ a.code = "OK" => ParamCheck(d, a.to.params) /\ a.result \in d.callback \cap KindsOf(d.type)
  /\ a.code = "INVAILED_PARAMS" => ~ ParamCheck(d, a.to.params) /\ a.result = "null"
  /\ a.code = "INTERNAL_ERROR" =>
       ParamCheck(d, a.to.params) /\ ~ d.callback \subseteq KindsOf(d.type) /\ a.result = "null"

Answered ==
  \A c \in Callers :
    reply[c] # Idle /\ reply[c].code # "NOT_FOUND_SERVICE" =>
      \E d \in Declarations : RightBy(reply[c], d)

(* AnswersByContract, said answer by answer.                               *)
LEMMA AnsweredIsByContract == AnswersByContract <=> Answered
BY Fits, ZenonT(60) DEF AnswersByContract, Answered, RightBy

(* Before the first method the builders are blank and nothing is listed.   *)
LEMMA InitInvariant == Init => IInv
<1> SUFFICES ASSUME Init PROVE IInv
  OBVIOUS
<1>1. Typed /\ \A r \in Registrars : builder[r] \in Blank
  BY PlanTyped DEF Init, Typed, Blank
<1>2. Building
  BY <1>1 DEF Init, Building
<1>3. DOMAIN services = {}
  <2>1. DOMAIN <<>> = {}
    OBVIOUS
  <2> QED
    BY <2>1 DEF Init
<1>4. Listed /\ Served /\ AnswersByContract
  BY <1>3 DEF Init, Listed, Served, AnswersByContract
<1> QED
  BY <1>1, <1>2, <1>4 DEF IInv

(* Nothing that callers see has changed.                                   *)
LEMMA AnswersKept ==
  ASSUME AnswersByContract, UNCHANGED reply
  PROVE  AnswersByContract'
BY DEF AnswersByContract

(* A blank builder is filled with the next declaration, whole.             *)
LEMMA DescribePreserves ==
  ASSUME IInv, NEW r \in Registrars, Describe(r)
  PROVE  IInv'
<1>i. Typed /\ Building /\ Listed /\ Served /\ AnswersByContract
  BY DEF IInv
<1> DEFINE d == Head(todo[r])
<1>1. d \in Declarations /\ builder[r] \in Blank
  BY <1>i, Taken DEF Describe, Typed, Building
<1>2. builder' = [builder EXCEPT ![r] = d]
  BY <1>1, Declared DEF Describe
<1>3. /\ pc[r] = "describe" /\ todo[r] # <<>> /\ pc' = [pc EXCEPT ![r] = "build"]
      /\ UNCHANGED <<enabled, built, todo, advertised, services, listening, request, reply>>
  BY DEF Describe
<1> HIDE DEF d
<1>4. Typed'
  BY <1>i, <1>1, <1>2, <1>3 DEF Typed
<1>5. Building'
  BY <1>i, <1>2, <1>3 DEF Typed, Building, d
<1>6. Listed'
  BY <1>i, <1>3 DEF Typed, Listed
<1> QED
  BY <1>i, <1>3, <1>4, <1>5, <1>6, AnswersKept DEF IInv, Served

(* Build moves the description out of the builder, which is blank again.   *)
LEMMA BuildPreserves ==
  ASSUME IInv, NEW r \in Registrars, Build(r)
  PROVE  IInv'
<1>i. Typed /\ Building /\ Listed /\ Served /\ AnswersByContract
  BY DEF IInv
<1>1. /\ pc[r] = "build" /\ pc' = [pc EXCEPT ![r] = "registry"]
      /\ built' = [built EXCEPT ![r] = builder[r]]
      /\ builder' = [builder EXCEPT ![r] = MovedFrom(builder[r])]
      /\ UNCHANGED <<enabled, todo, advertised, services, listening, request, reply>>
  BY DEF Build
<1>2. builder[r] = Head(todo[r]) /\ Head(todo[r]) \in Declarations
  BY <1>i, <1>1, Taken DEF Typed, Building
<1>3. MovedFrom(builder[r]) \in Blank
  BY <1>2, Declared
<1>4. Typed'
  BY <1>i, <1>1, <1>2, <1>3 DEF Typed
<1>5. Building'
  BY <1>i, <1>1, <1>2, <1>3 DEF Typed, Building
<1>6. Listed'
  BY <1>i, <1>1 DEF Typed, Listed
<1> QED
  BY <1>i, <1>1, <1>4, <1>5, <1>6, AnswersKept DEF IInv, Served

(* The registry lists a method that its thread is about to give to the     *)
(* router.                                                                 *)
LEMMA AdvertisePreserves ==
  ASSUME IInv, NEW r \in Registrars, Advertise(r)
  PROVE  IInv'
<1>i. Typed /\ Building /\ Listed /\ Served /\ AnswersByContract
  BY DEF IInv
<1>1. /\ pc[r] = "registry" /\ pc' = [pc EXCEPT ![r] = "router"]
      /\ advertised' \in {advertised, advertised \cup {built[r].name}}
      /\ UNCHANGED <<enabled, builder, built, todo, services, listening, request, reply>>
  BY DEF Advertise
<1>2. built[r].name \in Methods
  BY <1>i, <1>1, Taken, Declared DEF Typed, Building
<1>3. Typed' /\ Building'
  BY <1>i, <1>1 DEF Typed, Building
<1>4. Listed'
  BY <1>i, <1>1, <1>2 DEF Typed, Listed
<1> QED
  BY <1>i, <1>1, <1>3, <1>4, AnswersKept DEF IInv, Served

(* The router gets what was declared; a method that was listed is in it    *)
(* now.                                                                    *)
LEMMA RegisterMethodPreserves ==
  ASSUME IInv, NEW r \in Registrars, RegisterMethod(r)
  PROVE  IInv'
<1>i. Typed /\ Building /\ Listed /\ Served /\ AnswersByContract
  BY DEF IInv
<1>1. /\ pc[r] = "router" /\ pc' = [pc EXCEPT ![r] = "describe"]
      /\ services' = Insert(services, built[r])
      /\ todo' = [todo EXCEPT ![r] = Tail(todo[r])]
      /\ UNCHANGED <<enabled, builder, built, advertised, listening, request, reply>>
  BY DEF RegisterMethod
<1>2. /\ built[r] \in Declarations /\ Tail(todo[r]) \in Seq(Declarations)
  BY <1>i, <1>1, Taken DEF Typed, Building
<1>3. /\ DOMAIN services' = DOMAIN services \cup {built[r].name}
      /\ \A m \in DOMAIN services' : \/ services'[m] = built[r] /\ m = built[r].name
                                     \/ m \in DOMAIN services /\ services'[m] = services[m]
  <2>1. CASE built[r].name \in DOMAIN services
    BY <1>1, <2>1 DEF Insert
  <2>2. CASE built[r].name \notin DOMAIN services
    <3>1. services' = [m \in DOMAIN services \cup {built[r].name} |->
                         IF m = built[r].name THEN built[r] ELSE services[m]]
      BY <1>1, <2>2 DEF Insert, With
    <3> QED
      BY <3>1
  <2> QED
    BY <2>1, <2>2
<1>4. Typed'
  BY <1>i, <1>1, <1>2 DEF Typed
<1>5. Building'
  BY <1>i, <1>1 DEF Typed, Building
<1>6. Listed'
  <2>1. ASSUME NEW m \in advertised'
        PROVE  m \in Methods /\ (m \in DOMAIN services' \/
                                  \E q \in Registrars : pc'[q] = "router" /\ built'[q].name = m)
    <3>1. CASE m \in DOMAIN services'
      BY <1>i, <1>1, <2>1, <3>1 DEF Listed
    <3>2. CASE m \notin DOMAIN services'
      <4>1. m \in Methods /\ \E q \in Registrars : pc[q] = "router" /\ built[q].name = m
        BY <1>i, <1>1, <1>3, <2>1, <3>2 DEF Listed
      <4>2. m # built[r].name
        BY <1>3, <3>2
      <4> QED
        BY <1>i, <1>1, <4>1, <4>2 DEF Typed
    <3> QED
      BY <3>1, <3>2
  <2> QED
    BY <1>i, <1>1, <2>1 DEF Listed
<1>7. Served'
  BY <1>i, <1>2, <1>3 DEF Served
<1> QED
  BY <1>i, <1>1, <1>4, <1>5, <1>6, <1>7, AnswersKept DEF IInv

(* A caller that discovered its method found it in the registry's list.    *)
LEMMA CallPreserves ==
  ASSUME IInv, NEW c \in Callers, NEW m \in Methods \cup {Unknown}, NEW params \in ParamSets,
         Call(c, m, params)
  PROVE  IInv'
<1>i. Typed /\ Building /\ Listed /\ Served /\ AnswersByContract
  BY DEF IInv
<1> DEFINE req == [method |-> m, params |-> params, discovered |-> m \in advertised]
<1>1. req \in Request /\ req.method = m /\ (req.discovered => m \in advertised)
  <2>1. (m \in advertised) \in BOOLEAN
    OBVIOUS
  <2> QED
    BY <2>1 DEF Request
<1>2. request' = [request EXCEPT ![c] = req] /\ UNCHANGED <<serverVars, reply>>
  BY DEF Call
<1> HIDE DEF req
<1>3. Typed' /\ Building'
  BY <1>i, <1>1, <1>2 DEF Typed, Building, serverVars
<1>4. Listed'
  BY <1>i, <1>1, <1>2 DEF Typed, Listed, serverVars
<1> QED
  BY <1>i, <1>2, <1>3, <1>4, AnswersKept DEF IInv, Served, serverVars

(* A step that answers changes nothing else, and what it answers decides.  *)
LEMMA ResponsePreserves ==
  ASSUME IInv, NEW c \in Callers, request[c] # Idle, NEW code \in Codes, NEW result \in Kinds,
         Response(c, code, result),
         code # "NOT_FOUND_SERVICE" =>
           \E d \in Declarations :
             /\ d.name = request[c].method
             /\ code = "OK" => ParamCheck(d, request[c].params)
                               /\ result \in d.callback /\ ReturnTypeCheck(d, result)
             /\ code = "INVAILED_PARAMS" => ~ ParamCheck(d, request[c].params) /\ result = "null"
             /\ code = "INTERNAL_ERROR" =>
                  /\ ParamCheck(d, request[c].params) /\ result = "null"
                  /\ ~ d.callback \subseteq KindsOf(d.type)
  PROVE  IInv'
<1>i. Typed /\ Building /\ Listed /\ Served /\ AnswersByContract
  BY DEF IInv
<1> DEFINE a == [code |-> code, result |-> result, to |-> request[c]]
<1>1. /\ reply' = [reply EXCEPT ![c] = a] /\ request' = [request EXCEPT ![c] = Idle]
      /\ UNCHANGED serverVars
  BY DEF Response
<1>2. a \in AnswerType /\ a.code = code /\ a.result = result /\ a.to = request[c]
  BY <1>i DEF Typed, AnswerType
<1> HIDE DEF a
<1>3. Typed' /\ Building' /\ Listed' /\ Served'
  BY <1>i, <1>1, <1>2 DEF Typed, Building, Listed, Served, serverVars
<1>4. Answered'
  <2>1. \A x \in Callers : reply'[x] = IF x = c THEN a ELSE reply[x]
    BY <1>i, <1>1 DEF Typed
  <2>2. code # "NOT_FOUND_SERVICE" => \E d \in Declarations : RightBy(a, d)
    BY <1>2 DEF RightBy, ReturnTypeCheck, Check
  <2>3. Answered
    BY <1>i, AnsweredIsByContract
  <2> QED
    BY <1>2, <2>1, <2>2, <2>3 DEF Answered
<1>5. AnswersByContract'
  BY <1>4, AnsweredIsByContract, PTL
<1> QED
  BY <1>3, <1>5 DEF IInv

(* The answer to a request is right by the declaration the router has.     *)
LEMMA OnRpcRequestPreserves ==
  ASSUME IInv, NEW c \in Callers, OnRpcRequest(c)
  PROVE  IInv'
<1>i. Served
  BY DEF IInv
<1>1. Found(c) => /\ request[c] # Idle /\ Service(c) \in Declarations
                  /\ Service(c).name = request[c].method /\ Service(c).callback \subseteq Kinds
  BY <1>i, Declared DEF Found, Service, Served
<1>2. {"OK", "INVAILED_PARAMS", "NOT_FOUND_SERVICE", "INTERNAL_ERROR"} = Codes /\ "null" \in Kinds
  BY DEF Codes, Kinds
<1>3. CASE NotFound(c)
  BY <1>2, <1>3, ResponsePreserves DEF NotFound, Missing
<1>4. CASE InvalidParams(c)
  BY <1>1, <1>2, <1>4, ResponsePreserves DEF InvalidParams
<1>5. CASE InternalError(c)
  BY <1>1, <1>2, <1>5, ResponsePreserves DEF InternalError, ReturnTypeCheck, Check
<1>6. CASE Answer(c)
  BY <1>1, <1>2, <1>6, ResponsePreserves DEF Answer
<1> QED
  BY <1>3, <1>4, <1>5, <1>6 DEF OnRpcRequest

(* Every step of the server, its registering threads and its callers       *)
(* keeps the invariant.                                                    *)
LEMMA NextPreserves ==
  ASSUME IInv, [Next]_vars
  PROVE  IInv'
<1>1. CASE UNCHANGED vars
  BY <1>1, AnswersKept DEF vars, IInv, Typed, Building, Listed, Served
<1>2. ASSUME NEW r \in Registrars, Register(r)
      PROVE  IInv'
  BY <1>2, DescribePreserves, BuildPreserves, AdvertisePreserves, RegisterMethodPreserves
     DEF Register
<1>3. CASE Start
  BY <1>3, AnswersKept DEF Start, IInv, Typed, Building, Listed, Served
<1> QED
  BY <1>1, <1>2, <1>3, CallPreserves, OnRpcRequestPreserves DEF Next

-----------------------------------------------------------------------------

(* The invariant: a builder has one description or none, what is listed is *)
(* or will be in the router, and the router has only declarations.         *)
THEOREM InvariantHolds == Spec => []IInv
<1>1. IInv /\ [Next]_vars => IInv'
  BY NextPreserves
<1> QED
  BY <1>1, InitInvariant, PTL DEF Spec

(* What the router holds under a name is one declaration of that name.     *)
THEOREM DescribedAsDeclaredAlways == Spec => []DescribedAsDeclared
<1>1. ASSUME IInv PROVE DescribedAsDeclared
  <2>1. \A d \in Declarations : d.name \in Methods /\ d.type \in ValueTypes
    BY Declared
  <2>2. \A b \in Blank : b.name = "" /\ b.type \in ValueTypes
    <3>1. ASSUME NEW b \in Blank PROVE b.name = "" /\ b.type \in ValueTypes
      <4>1. PICK type \in ValueTypes :
              b = [name |-> "", params |-> <<>>, type |-> type, callback |-> {}]
        BY DEF Blank
      <4> QED
        BY <4>1
    <3> QED
      BY <3>1
  <2>3. ASSUME NEW r \in Registrars
        PROVE  /\ builder[r].name \in Methods \cup {""}
               /\ builder[r].type \in ValueTypes
               /\ pc[r] \in {"describe", "build", "registry", "router"}
               /\ pc[r] \in {"registry", "router"} => built[r].name \in Methods
               /\ pc[r] # "describe" => todo[r] # <<>>
    BY <1>1, <2>1, <2>2, Taken DEF IInv, Typed, Building
  <2>4. advertised \subseteq Methods /\ DOMAIN services \subseteq Methods
    BY <1>1, <2>1 DEF IInv, Listed, Served
  <2>5. ServiceTypeOK
    BY <1>1, <2>3, <2>4 DEF IInv, Typed, AnswerType, ServiceTypeOK
  <2> QED
    BY <1>1, <2>5 DEF IInv, Served, DescribedAsDeclared
<1> QED
  BY <1>1, InvariantHolds, PTL

(* Every answer is right by a declaration of the method it was asked for.  *)
THEOREM AnswersByContractAlways == Spec => []AnswersByContract
<1>1. IInv => AnswersByContract
  BY DEF IInv
<1> QED
  BY <1>1, InvariantHolds, PTL

(* Who has discovered a method is told that it does not exist only while   *)
(* the thread that registers it is between the registry and the router.    *)
THEOREM NotFoundOnlyWhileRegisteringAlways == Spec => NotFoundOnlyWhileRegistering
<1>1. ASSUME IInv, [Next]_vars, NEW c \in Callers,
             request[c] # Idle, request'[c] = Idle,
             request[c].discovered, reply'[c].code = "NOT_FOUND_SERVICE"
      PROVE  \E r \in Registrars : pc[r] = "router" /\ built[r].name = request[c].method
  <2>i. Typed /\ Listed
    BY <1>1 DEF IInv
  <2>1. OnRpcRequest(c)
    <3>1. ~ UNCHANGED request
      BY <1>1
    <3>2. \A x \in Callers, m \in Methods \cup {Unknown}, params \in ParamSets : ~ Call(x, m, params)
      BY <1>1, <2>i DEF Call, Typed
    <3>3. \A x \in Callers : OnRpcRequest(x) => x = c
      BY <1>1, <2>i DEF OnRpcRequest, NotFound, InvalidParams, InternalError, Answer, Response, Typed
    <3> QED
      BY <1>1, <3>1, <3>2, <3>3 DEF Next, Register, Describe, Build, Advertise, RegisterMethod,
         Start, vars
  <2>2. NotFound(c)
    <3>1. \A code, result : Response(c, code, result) => reply'[c].code = code
      BY <2>i DEF Response, Typed
    <3> QED
      BY <1>1, <2>1, <3>1 DEF OnRpcRequest, InvalidParams, InternalError, Answer
  <2>3. request[c].method \in advertised /\ request[c].method \notin DOMAIN services
    BY <1>1, <2>i, <2>2 DEF Listed, NotFound, Missing
  <2> QED
    BY <2>i, <2>3 DEF Listed
<1>2. IInv /\ [Next]_vars =>
        [\A c \in Callers :
           request[c] # Idle /\ request'[c] = Idle
           /\ request[c].discovered /\ reply'[c].code = "NOT_FOUND_SERVICE" =>
             \E r \in Registrars : pc[r] = "router" /\ built[r].name = request[c].method]_vars
  BY <1>1
<1> QED
  BY <1>2, InvariantHolds, PTL DEF Spec, NotFoundOnlyWhileRegistering

=============================================================================
