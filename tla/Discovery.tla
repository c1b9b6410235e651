----------------------------- MODULE Discovery ------------------------------
(***************************************************************************)
(* Service discovery end to end: the registry centre of RegistryServer,    *)
(* the RPC servers that register with it, and client processes whose       *)
(* Discoverer caches the hosts of each method (source/client/              *)
(* RpcRegistry.hpp, DiscoveryClient in source/client/RpcClient.hpp).       *)
(*                                                                         *)
(* A client has one connection to the registry, the thread of its IO loop, *)
(* which handles what arrives in order, and user threads in                *)
(* ServiceDiscovery.  Discoverer::_mutex is not held while a user thread   *)
(* waits for its answer: the IO thread may apply notifications between     *)
(* the arrival of the answer and its installation in the cache.            *)
(***************************************************************************)
EXTENDS RegistryServer

CONSTANTS
  Thread,  \* user threads that discover; the one open request of a thread has it as Rid
  ClientOf \* the connection of the process a thread runs in

Client == {ClientOf[t] : t \in Thread}

ASSUME DiscoveryAssumption ==
  /\ Thread \subseteq Rid
  /\ ClientOf \in [Thread -> Conn]
  /\ \A t \in Thread : HostsOf[ClientOf[t]] = {}

VARIABLES
  cache,  \* Discoverer::_method_hosts; no entry and an empty one are not told apart
  pc,     \* where a thread is in ServiceDiscovery
  want,   \* its argument method
  answer, \* what its future holds
  host,   \* the host it returned with
  stale,  \* auxiliary: threads whose answer is older than a handled notification
  raced   \* auxiliary: methods of a client whose cache was last set from such an answer

threadVars == <<pc, want, answer, host>>
auxVars    == <<stale, raced>>
clientVars == <<cache, threadVars, auxVars>>
vars       == <<serverVars, clientVars>>

NoAnswer == [kind |-> "none"]
-----------------------------------------------------------------------------
RemoveHostOfCopy(hosts, h) == hosts                  \* faulty: erases from a copy
RemoveHostAll(hosts, h) == [hosts EXCEPT ![h] = 0]   \* faulty: the loop has no break

(* MethodHost: AppendHost, and RemoveHost, which erases one entry if any.  *)
AppendHost(hosts, h) == [hosts EXCEPT ![h] = @ + 1]
RemoveHost(hosts, h) == [hosts EXCEPT ![h] = IF @ = 0 THEN 0 ELSE @ - 1]

(* ChooseHost takes the hosts in turn: any of them may be next.            *)
Usable(hosts) == {h \in Host : hosts[h] > 0}

(* OnserviceRequest on the entry of method m.                              *)
Noted(hosts, msg, m) ==
  CASE msg.kind # "notify" \/ msg.method # m -> hosts
    [] OTHER -> IF msg.optype = "SERVICE_ONLINE"
                THEN AppendHost(hosts, msg.host) ELSE RemoveHost(hosts, msg.host)
-----------------------------------------------------------------------------
(* ServiceDiscovery: under _mutex, a host of the cache if there is one ... *)
ReturnCached(t, m) ==
  /\ pc[t] = "idle"
  /\ \E h \in Usable(cache[ClientOf[t]][m]) : host' = [host EXCEPT ![t] = h]
  /\ want' = [want EXCEPT ![t] = m]
  /\ pc' = [pc EXCEPT ![t] = "returned"]
  /\ UNCHANGED <<serverVars, cache, answer, auxVars>>

(* ... else unlock and send a request through the Requestor.  After the    *)
(* registry connection is lost _conn is null: no Send succeeds any more.   *)
SendDiscovery(t, m) ==
  /\ pc[t] = "idle"
  /\ Usable(cache[ClientOf[t]][m]) = {}
  /\ ClientOf[t] \in connected
  /\ want' = [want EXCEPT ![t] = m]
  /\ pc' = [pc EXCEPT ![t] = "sent"]
  /\ UNCHANGED <<serverVars, cache, answer, host, auxVars>>

(* The registry reads the request.                                         *)
HandleDiscovery(t) ==
  /\ pc[t] = "sent"
  /\ OnServiceRequest(ClientOf[t], Request("SERVICE_DISCOVERY", t, want[t], NoHost))
  /\ pc' = [pc EXCEPT ![t] = "waiting"]
  /\ UNCHANGED <<cache, want, answer, host, auxVars>>

(* The client's IO loop takes the next message: Requestor::OnResponse hands*)
(* an answer to the thread that waits for its rid,                         *)
OnResponse(c) ==
  /\ Receive(c)
  /\ LET msg == Head(toClient[c]) IN
       /\ msg.kind = "response"
       /\ answer' = [answer EXCEPT ![msg.rid] = msg]
       /\ pc' = [pc EXCEPT ![msg.rid] = "answered"]
  /\ UNCHANGED <<cache, want, host, auxVars>>

(* and Discoverer::OnserviceRequest changes the cached hosts.              *)
OnNotification(c) ==
  /\ Receive(c)
  /\ LET msg == Head(toClient[c]) IN
       /\ msg.kind = "notify"
       /\ cache' = [cache EXCEPT ![c][msg.method] = Noted(@, msg, msg.method)]
       /\ stale' = stale \cup {t \in Thread : ClientOf[t] = c /\ pc[t] = "answered"
                                                /\ want[t] = msg.method}
  /\ UNCHANGED <<threadVars, raced>>

(* The thread wakes with its answer: an error ends the call, hosts replace *)
(* what the cache holds by now, under _mutex, and one of them is returned. *)
(* The code also gives up on an empty list, which no RCODE_OK answer has   *)
(* (DiscoveryTypeOK).                                                      *)
Discovered(t) ==
  /\ pc[t] = "answered"
  /\ LET c == ClientOf[t]
         m == want[t]
     IN  IF answer[t].rcode # "RCODE_OK"
         THEN /\ pc' = [pc EXCEPT ![t] = "idle"]
              /\ UNCHANGED <<cache, host, raced>>
         ELSE /\ cache' = [cache EXCEPT ![c][m] = answer[t].hosts]
              /\ \E h \in Usable(answer[t].hosts) : host' = [host EXCEPT ![t] = h]
              /\ raced' = [raced EXCEPT ![c] = IF t \in stale THEN @ \cup {m} ELSE @ \ {m}]
              /\ pc' = [pc EXCEPT ![t] = "returned"]
  /\ stale' = stale \ {t}
  /\ answer' = [answer EXCEPT ![t] = NoAnswer]
  /\ UNCHANGED <<serverVars, want>>

(* The caller goes on with the host it got.                                *)
Resume(t) ==
  /\ pc[t] = "returned"
  /\ pc' = [pc EXCEPT ![t] = "idle"]
  /\ host' = [host EXCEPT ![t] = NoHost]
  /\ UNCHANGED <<serverVars, cache, want, answer, auxVars>>

(* The connection to the registry closes; nothing reconnects it.           *)
LoseRegistry(c) == OnConnShutdown(c) /\ UNCHANGED clientVars
-----------------------------------------------------------------------------
(* An RPC server: connects, registers its methods and waits for each       *)
(* answer, and goes away; or a new one takes its place.                    *)
ProviderStep(p) ==
  /\ \/ OnConnected(p)
     \/ \E msg \in RequestsOf(p) : /\ msg.optype = "SERVICE_REGISTRY"
                                   /\ Room(p, msg)
                                   /\ OnServiceRequest(p, msg)
     \/ Receive(p)
     \/ OnConnShutdown(p)
  /\ UNCHANGED clientVars

(* The constructor of DiscoveryClient returns once it is connected.        *)
DiscoveryInit ==
  /\ connected = Client
  /\ providerHost = [c \in Conn |-> NoHost]
  /\ providerMethods = [c \in Conn |-> <<>>]
  /\ providers = [m \in Method |-> {}]
  /\ discovererMethods = [c \in Conn |-> {}]
  /\ discoverers = [m \in Method |-> {}]
  /\ toClient = [c \in Conn |-> <<>>]
  /\ cache = [c \in Client |-> [m \in Method |-> NoHosts]]
  /\ pc = [t \in Thread |-> "idle"]
  /\ want \in [Thread -> Method]
  /\ answer = [t \in Thread |-> NoAnswer]
  /\ host = [t \in Thread |-> NoHost]
  /\ stale = {}
  /\ raced = [c \in Client |-> {}]

IOThread(c) == OnResponse(c) \/ OnNotification(c)

DiscoveryNext ==
  \/ \E t \in Thread : \/ \E m \in Method : ReturnCached(t, m) \/ SendDiscovery(t, m)
                       \/ HandleDiscovery(t)
                       \/ Discovered(t)
                       \/ Resume(t)
  \/ \E c \in Client : IOThread(c) \/ LoseRegistry(c)
  \/ \E p \in Conn \ Client : ProviderStep(p)

(* The loops of the registry and of a client poll, and the system runs     *)
(* every thread that can run.  Nobody has to register, call or go away.    *)
DiscoveryFairness ==
  /\ \A t \in Thread : WF_vars(HandleDiscovery(t)) /\ WF_vars(Discovered(t))
  /\ \A c \in Client : WF_vars(IOThread(c))

DiscoverySpec == DiscoveryInit /\ [][DiscoveryNext]_vars /\ DiscoveryFairness
-----------------------------------------------------------------------------
(* Types; an answer is there exactly while its thread has not read it, so  *)
(* no answer ever reaches a thread that does not wait for it.              *)
DiscoveryTypeOK ==
  /\ RegistryTypeOK
  /\ cache \in [Client -> [Method -> HostBag]]
  /\ want \in [Thread -> Method]
  /\ \A t \in Thread :
       /\ pc[t] \in {"idle", "sent", "waiting", "answered", "returned"}
       /\ host[t] \in (IF pc[t] = "returned" THEN Host ELSE {NoHost})
       /\ answer[t] \in (IF pc[t] = "answered" THEN Responses ELSE {NoAnswer})
  /\ stale \subseteq {t \in Thread : pc[t] = "answered"}
  /\ raced \in [Client -> SUBSET Method]

(* The hosts the client will have once it has handled what is on its way.  *)
CacheToCome(c, m) ==
  LET q == toClient[c]
      hosts[i \in 0 .. Len(q)] ==
        IF i = 0 THEN cache[c][m] ELSE Noted(hosts[i - 1], q[i], m)
  IN  hosts[Len(q)]

(* No discovery of m was answered by the registry and not yet installed.   *)
Settled(c, m) ==
  \A t \in Thread : (ClientOf[t] = c /\ want[t] = m) => pc[t] \notin {"waiting", "answered"}

(* Whoever has discovered a method is kept up to date by notifications     *)
(* alone: what is cached and what is on its way amount to the hosts the    *)
(* registry lists, unless an answer was installed over a newer             *)
(* notification.                                                           *)
CacheFollowsRegistry ==
  \A c \in Client \cap connected, m \in Method :
    (c \in discoverers[m] /\ Settled(c, m) /\ m \notin raced[c]) =>
      Usable(CacheToCome(c, m)) = Usable(GetMethodHosts(m))

(* A call returns with host h, and no notification about m is on its way.  *)
Returns(t) == pc[t] # "returned" /\ pc'[t] = "returned"

Quiet(c, m) ==
  /\ c \in connected
  /\ \A i \in 1..Len(toClient[c]) :
       toClient[c][i].kind = "notify" => toClient[c][i].method # m

Serves(h, m) == \E p \in providers[m] : providerHost[p] = h

(* ServiceDiscovery hands out no host that has gone, once its OFFLINE was  *)
(* handled, even from a cache that only notifications have filled so far;  *)
(* again unless an outdated answer was installed.                          *)
ReturnedHostServes ==
  [][\A t \in Thread :
       (Returns(t) /\ Quiet(ClientOf[t], want'[t]) /\ want'[t] \notin raced'[ClientOf[t]]) =>
         Serves(host'[t], want'[t])]_vars

(* What the doc says without that exception: "returns a host that can      *)
(* support the service" (RpcClient.hpp:69).                                *)
DiscoveredHostServes ==
  [][\A t \in Thread :
       (Returns(t) /\ Quiet(ClientOf[t], want'[t])) => Serves(host'[t], want'[t])]_vars

(* A call that asked the registry returns, with or without a host, while   *)
(* the connection to the registry stays up.                                *)
CallsReturn ==
  \A t \in Thread :
    pc[t] = "sent" ~> (pc[t] \in {"idle", "returned"} \/ ClientOf[t] \notin connected)

=============================================================================
