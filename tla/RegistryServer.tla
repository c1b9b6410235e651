--------------------------- MODULE RegistryServer ---------------------------
(***************************************************************************)
(* The registry centre: PDManager with its ProviderManager and             *)
(* DiscovererManager (source/server/RpcRegistry.hpp), fed by the events    *)
(* MuduoServer hands to RegistryServer (source/common/Net.hpp,             *)
(* source/server/RpcServer.hpp).                                           *)
(*                                                                         *)
(* MuduoServer never calls setThreadNum, so connection, message and close  *)
(* callbacks of all connections run one after the other in the thread of   *)
(* _baseloop: a whole handler is one step here, with every Send it makes.  *)
(* A Provider (Discoverer) object belongs to one connection for life, so   *)
(* the connection stands for it in the per-method sets.                    *)
(***************************************************************************)
EXTENDS Naturals, Sequences, FiniteSets

CONSTANTS
  Conn,        \* connections a peer may open to the registry
  Method,      \* names of RPC methods
  Host,        \* addresses of RPC servers
  NoHost,      \* no address: a request without one, a connection with no Provider
  Rid,         \* request identifiers (Uuid)
  HostsOf,     \* the addresses the peer of a connection registers
  MaxQueue,    \* bound: messages waiting on one connection
  MaxMethods   \* bound: registrations over one connection

ASSUME RegistryAssumption ==
  /\ NoHost \notin Host
  /\ IsFiniteSet(Conn)
  /\ HostsOf \in [Conn -> SUBSET Host]
  /\ MaxQueue \in Nat
  /\ MaxMethods \in Nat

VARIABLES
  connected,         \* keys of MuduoServer::_conns
  providerHost,      \* Provider::host, NoHost when ProviderManager::_conns has no entry
  providerMethods,   \* Provider::methods, a vector: repeated registrations repeat
  providers,         \* ProviderManager::_providers, method -> set
  discovererMethods, \* Discoverer::methods, as a set: only DelDiscoverer reads it
  discoverers,       \* DiscovererManager::_discoverers, method -> set
  toClient           \* messages sent and not yet received, FIFO per connection

providerVars   == <<providerHost, providerMethods, providers>>
discovererVars == <<discovererMethods, discoverers>>
serverVars     == <<connected, providerVars, discovererVars, toClient>>
-----------------------------------------------------------------------------
(* Messages. A list of hosts is a bag: std::set orders it by pointer.      *)

HostBag == [Host -> Nat]
NoHosts == [h \in Host |-> 0]

ServiceRequest ==
  [kind : {"request"}, rid : Rid,
   optype : {"SERVICE_REGISTRY", "SERVICE_DISCOVERY", "SERVICE_UNKNOWN"},
   method : Method, host : Host \cup {NoHost}]

Request(op, r, m, h) ==
  [kind |-> "request", rid |-> r, optype |-> op, method |-> m, host |-> h]

(* The method an answer with hosts repeats is left out: nobody reads it.   *)
ServiceResponse(op, r, code, hosts) ==
  [kind |-> "response", rid |-> r, optype |-> op, rcode |-> code, hosts |-> hosts]

NotifyMsg(op, m, h) == [kind |-> "notify", optype |-> op, method |-> m, host |-> h]

(* An RCODE_OK answer to a discovery carries at least one host, every      *)
(* other answer carries none.                                              *)
Responses ==
  {r \in [kind : {"response"}, rid : Rid,
          optype : {"SERVICE_REGISTRY", "SERVICE_DISCOVERY", "SERVICE_UNKNOWN"},
          hosts : HostBag,
          rcode : {"RCODE_OK", "RCODE_NOT_FOUND_SERVICE", "RCODE_INVALID_OPTYPE"}] :
     (r.hosts # NoHosts) <=> (r.optype = "SERVICE_DISCOVERY" /\ r.rcode = "RCODE_OK")}

Notifications ==
  [kind : {"notify"}, optype : {"SERVICE_ONLINE", "SERVICE_OFFLINE"},
   method : Method, host : Host]
-----------------------------------------------------------------------------
(* conn->Send: appended to the connection's byte stream.                   *)
Send(net, c, msg) == [net EXCEPT ![c] = Append(@, msg)]

(* __Notify: one message to every discoverer of the method.                *)
Notify(net, m, h, op) ==
  [c \in Conn |-> IF c \in discoverers[m]
                  THEN Append(net[c], NotifyMsg(op, m, h)) ELSE net[c]]

(* GetMethodHosts: the host of every provider of the method.               *)
GetMethodHosts(m) ==
  [h \in Host |-> Cardinality({p \in providers[m] : providerHost[p] = h})]

RegistryResponse(r) == ServiceResponse("SERVICE_REGISTRY", r, "RCODE_OK", NoHosts)

DiscoveryResponseUnchecked(r, m) ==  \* faulty: without the hosts.empty() return
  ServiceResponse("SERVICE_DISCOVERY", r, "RCODE_OK", GetMethodHosts(m))

DiscoveryResponse(r, m) ==
  LET hosts == GetMethodHosts(m)
      code  == IF hosts = NoHosts THEN "RCODE_NOT_FOUND_SERVICE" ELSE "RCODE_OK"
  IN  ServiceResponse("SERVICE_DISCOVERY", r, code, hosts)

ErrorResponse(r) ==
  ServiceResponse("SERVICE_UNKNOWN", r, "RCODE_INVALID_OPTYPE", NoHosts)

(* provider->methods holds m.                                              *)
Offers(c, m) == \E i \in 1..Len(providerMethods[c]) : providerMethods[c][i] = m
-----------------------------------------------------------------------------
(* ProviderManager and DiscovererManager.                                  *)

AddProviderUnlisted(c, h, m) ==  \* faulty: appends the method for a new Provider only
  /\ providerHost' = [providerHost EXCEPT ![c] = IF @ = NoHost THEN h ELSE @]
  /\ providers' = [providers EXCEPT ![m] = @ \cup {c}]
  /\ providerMethods' = [providerMethods EXCEPT ![c] = IF @ = <<>> THEN <<m>> ELSE @]

AddProviderLatest(c, h, m) ==  \* faulty: a later registration replaces the address
  /\ providerHost' = [providerHost EXCEPT ![c] = h]
  /\ providers' = [providers EXCEPT ![m] = @ \cup {c}]
  /\ providerMethods' = [providerMethods EXCEPT ![c] = Append(@, m)]

(* The address is kept from the first registration of the connection.      *)
AddProvider(c, h, m) ==
  /\ providerHost' = [providerHost EXCEPT ![c] = IF @ = NoHost THEN h ELSE @]
  /\ providers' = [providers EXCEPT ![m] = @ \cup {c}]
  /\ providerMethods' = [providerMethods EXCEPT ![c] = Append(@, m)]

DelProvider(c) ==
  /\ providers' = [m \in Method |-> IF Offers(c, m) THEN providers[m] \ {c} ELSE providers[m]]
  /\ providerHost' = [providerHost EXCEPT ![c] = NoHost]
  /\ providerMethods' = [providerMethods EXCEPT ![c] = <<>>]

AddDiscoverer(c, m) ==
  /\ discoverers' = [discoverers EXCEPT ![m] = @ \cup {c}]
  /\ discovererMethods' = [discovererMethods EXCEPT ![c] = @ \cup {m}]

DelDiscovererConn(c) ==  \* faulty: erases the _conns entry only
  discovererMethods' = [discovererMethods EXCEPT ![c] = {}] /\ UNCHANGED discoverers

DelDiscoverer(c) ==
  /\ discoverers' = [m \in Method |->
                       IF m \in discovererMethods[c] THEN discoverers[m] \ {c} ELSE discoverers[m]]
  /\ discovererMethods' = [discovererMethods EXCEPT ![c] = {}]

OfflineNoticesFirst(c, d) ==  \* faulty: notifies for the first method only
  IF providerMethods[c] # <<>> /\ d \in discoverers[providerMethods[c][1]]
  THEN <<NotifyMsg("SERVICE_OFFLINE", providerMethods[c][1], providerHost[c])>> ELSE <<>>

(* Where provider->methods holds a method d is listed for, and the k-th    *)
(* such place.                                                             *)
Heard(c, d) == {i \in DOMAIN providerMethods[c] : d \in discoverers[providerMethods[c][i]]}
Nth(places, k) == CHOOSE i \in places : Cardinality({j \in places : j <= i}) = k

(* The OFFLINE messages the loop over provider->methods sends to d.        *)
OfflineNotices(c, d) ==
  [k \in 1..Cardinality(Heard(c, d)) |->
     NotifyMsg("SERVICE_OFFLINE", providerMethods[c][Nth(Heard(c, d), k)], providerHost[c])]
-----------------------------------------------------------------------------
(* PDManager::OnServiceRequest, one action per operation type.             *)

OnRegistry(c, msg) ==
  /\ msg.optype = "SERVICE_REGISTRY"
  /\ AddProvider(c, msg.host, msg.method)
  /\ toClient' = Send(Notify(toClient, msg.method, msg.host, "SERVICE_ONLINE"),
                      c, RegistryResponse(msg.rid))
  /\ UNCHANGED <<connected, discovererVars>>

OnDiscoverySilent(c, msg) ==  \* faulty: returns without an answer when there is no host
  /\ msg.optype = "SERVICE_DISCOVERY"
  /\ AddDiscoverer(c, msg.method)
  /\ toClient' = IF GetMethodHosts(msg.method) = NoHosts THEN toClient
                 ELSE Send(toClient, c, DiscoveryResponse(msg.rid, msg.method))
  /\ UNCHANGED <<connected, providerVars>>

OnDiscovery(c, msg) ==
  /\ msg.optype = "SERVICE_DISCOVERY"
  /\ AddDiscoverer(c, msg.method)
  /\ toClient' = Send(toClient, c, DiscoveryResponse(msg.rid, msg.method))
  /\ UNCHANGED <<connected, providerVars>>

OnUnknownOperation(c, msg) ==
  /\ msg.optype \notin {"SERVICE_REGISTRY", "SERVICE_DISCOVERY"}
  /\ toClient' = Send(toClient, c, ErrorResponse(msg.rid))
  /\ UNCHANGED <<connected, providerVars, discovererVars>>

OnServiceRequest(c, msg) ==
  /\ c \in connected
  /\ \/ OnRegistry(c, msg)
     \/ OnDiscovery(c, msg)
     \/ OnUnknownOperation(c, msg)

(* MuduoServer::OnConnection and the close callback. What was sent on a    *)
(* closed connection is lost with it.                                      *)
OnConnected(c) ==
  /\ c \notin connected
  /\ connected' = connected \cup {c}
  /\ UNCHANGED <<providerVars, discovererVars, toClient>>

OnConnShutdownOneRole(c) ==  \* faulty: a provider is not looked up as a discoverer
  /\ c \in connected
  /\ connected' = connected \ {c}
  /\ toClient' = [d \in Conn |-> IF d = c THEN <<>> ELSE toClient[d] \o OfflineNotices(c, d)]
  /\ IF providerHost[c] # NoHost
     THEN DelProvider(c) /\ UNCHANGED discovererVars
     ELSE DelDiscoverer(c) /\ UNCHANGED providerVars

OnConnShutdown(c) ==
  /\ c \in connected
  /\ connected' = connected \ {c}
  /\ toClient' = [d \in Conn |-> IF d = c THEN <<>> ELSE toClient[d] \o OfflineNotices(c, d)]
  /\ IF providerHost[c] # NoHost THEN DelProvider(c) ELSE UNCHANGED providerVars
  /\ DelDiscoverer(c)
-----------------------------------------------------------------------------
(* The peers: any request of the client library, and reading what came.    *)

RequestsOf(c) ==
  {Request("SERVICE_REGISTRY", r, m, h) : r \in Rid, m \in Method, h \in HostsOf[c]}
  \cup {Request("SERVICE_DISCOVERY", r, m, NoHost) : r \in Rid, m \in Method}
  \cup {Request("SERVICE_UNKNOWN", r, m, NoHost) : r \in Rid, m \in Method}

(* Bounds of the model: no queue and no methods vector grows for ever.     *)
Room(c, msg) ==
  /\ \A d \in Conn : Len(toClient[d]) < MaxQueue
  /\ msg.optype = "SERVICE_REGISTRY" => Len(providerMethods[c]) < MaxMethods

(* Bound of ServerNext: a peer asks when it has read everything, and while *)
(* at most one other peer has not.                                         *)
OneUnread(c) ==
  /\ toClient[c] = <<>>
  /\ \E d \in Conn : \A e \in Conn \ {d} : toClient[e] = <<>>

Receive(c) ==
  /\ toClient[c] # <<>>
  /\ toClient' = [toClient EXCEPT ![c] = Tail(@)]
  /\ UNCHANGED <<connected, providerVars, discovererVars>>

ServerInit ==
  /\ connected = {}
  /\ providerHost = [c \in Conn |-> NoHost]
  /\ providerMethods = [c \in Conn |-> <<>>]
  /\ providers = [m \in Method |-> {}]
  /\ discovererMethods = [c \in Conn |-> {}]
  /\ discoverers = [m \in Method |-> {}]
  /\ toClient = [c \in Conn |-> <<>>]

ServerNext ==
  \E c \in Conn :
    \/ OnConnected(c)
    \/ \E msg \in RequestsOf(c) : Room(c, msg) /\ OneUnread(c) /\ OnServiceRequest(c, msg)
    \/ OnConnShutdown(c)
    \/ Receive(c)

ServerSpec == ServerInit /\ [][ServerNext]_serverVars
-----------------------------------------------------------------------------
(* The maps of the two managers.                                           *)
MapsTypeOK ==
  /\ connected \subseteq Conn
  /\ providerHost \in [Conn -> Host \cup {NoHost}]
  /\ providerMethods \in [Conn -> Seq(Method)]
  /\ providers \in [Method -> SUBSET Conn]
  /\ discovererMethods \in [Conn -> SUBSET Method]
  /\ discoverers \in [Method -> SUBSET Conn]

(* Every variable keeps its type; in particular an answer with RCODE_OK to *)
(* a discovery is never an empty list (__DiscoveryResponse's early return).*)
RegistryTypeOK ==
  /\ MapsTypeOK
  /\ DOMAIN toClient = Conn
  /\ \A c \in Conn : \A i \in 1..Len(toClient[c]) :
       toClient[c][i] \in Responses \cup Notifications

(* The per-method sets and the per-connection lists of each manager always *)
(* tell the same: DelProvider and DelDiscoverer find what to erase only    *)
(* through the lists, so a one-sided entry would outlive its connection.   *)
IndexesAgree ==
  \A c \in Conn, m \in Method :
    /\ c \in providers[m] <=> Offers(c, m)
    /\ c \in discoverers[m] <=> m \in discovererMethods[c]

(* A connection that was closed is listed nowhere: no discovery answer     *)
(* names its host, no notification is sent to it, and nothing of it is     *)
(* left for the next connection.                                           *)
ListedAreConnected ==
  \A c \in Conn :
    /\ c \notin connected =>
         /\ providerHost[c] = NoHost
         /\ providerMethods[c] = <<>>
         /\ discovererMethods[c] = {}
         /\ \A m \in Method : c \notin providers[m] /\ c \notin discoverers[m]
    /\ \A m \in Method : c \in providers[m] => providerHost[c] \in Host

(* When a provider's connection closes, every other discoverer of each of  *)
(* its methods is sent OFFLINE with the address the provider was listed    *)
(* under: OnConnShutdown reads the Provider before DelProvider erases it.  *)
ShutdownNotified ==
  [][\A c \in connected \ connected' : \A m \in Method : \A d \in discoverers[m] \ {c} :
       c \in providers[m] =>
         \E i \in Len(toClient[d]) + 1 .. Len(toClient'[d]) :
           toClient'[d][i] = NotifyMsg("SERVICE_OFFLINE", m, providerHost[c])]_serverVars

(* What a discovery answers is not left standing: an address in an answer  *)
(* that d has yet to read is still listed for a method d is told about, or *)
(* its OFFLINE follows on the same connection.  A connection that          *)
(* registers a second time may announce another address; what is listed,   *)
(* and named by the OFFLINE of OnConnShutdown, stays the first one, which  *)
(* discoveries were answered with (AddProvider).                           *)
ListedFor(m, h)   == \E p \in providers[m] : providerHost[p] = h
TakenBack(q, i, m, h) ==
  \E j \in i + 1 .. Len(q) : q[j] = NotifyMsg("SERVICE_OFFLINE", m, h)

AnswersAreTakenBack ==
  \A d \in Conn : \A i \in 1..Len(toClient[d]) : \A h \in Host :
    (toClient[d][i].kind = "response" /\ toClient[d][i].hosts[h] > 0) =>
      \E m \in Method : /\ d \in discoverers[m]
                        /\ ListedFor(m, h) \/ TakenBack(toClient[d], i, m, h)

(* The registry as a directory of offers and interests.                    *)
Listings ==
  {[peer |-> x[1], address |-> providerHost[x[1]], service |-> x[2]] :
     x \in {y \in Conn \X Method : y[1] \in providers[y[2]]}}
Seekers  == {x \in Conn \X Method : x[1] \in discoverers[x[2]]}

Directory == INSTANCE ServiceDirectory WITH
  Peer <- Conn, Address <- Host, Service <- Method,
  members <- connected, offers <- Listings, seekers <- Seekers

(* The managers implement the directory: each handler is one directory     *)
(* operation, and a closed connection takes every listing of it along.     *)
ImplementsDirectory == Directory!DirectorySpec

=============================================================================
