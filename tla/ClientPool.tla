------------------------------ MODULE ClientPool ------------------------------
(***************************************************************************)
(* RpcClient (client/RpcClient.hpp): user threads call a method, each over *)
(* a connected MuduoClient that the pool _rpc_clients keeps for the host;  *)
(* the IO thread of the DiscoveryClient follows the registry and deletes   *)
(* the client of a host that went offline; every MuduoClient has an IO     *)
(* thread of its own, which connects, answers and sees the connection go.  *)
(*                                                                         *)
(* One method is called, and it has been discovered once: from then on the *)
(* registry notifies this client of every host that comes and goes, in     *)
(* order (module Discovery has the discovery itself and its outdated       *)
(* answers).  A thread that finds the cache empty asks the registry, whose *)
(* answer comes behind the notifications and brings no other host.         *)
(***************************************************************************)
EXTENDS Naturals, Sequences, FiniteSets

CONSTANTS
  Hosts,    \* RPC servers, by address
  Threads,  \* user threads
  Clients,  \* bound: MuduoClient objects that exist at a time
  MaxNotes, \* bound: notifications on their way
  None

ASSUME NoneAssumption == None \notin Hosts /\ None \notin Clients
ASSUME ThreadsAssumption == IsFiniteSet(Threads) /\ Threads # {}

VARIABLES
  up,       \* hosts whose server runs; the registry lists these
  notes,    \* notifications from the registry to this client
  cached,   \* Discoverer::_method_hosts of the method
  pool,     \* _rpc_clients
  fixed,    \* _rpc_client, the only client when discovery is not enabled
  obj,      \* the MuduoClient objects
  pc,       \* where a user thread is
  host,     \* the host it discovered
  client,   \* its BaseClient::Ptr
  orphaned, \* history: how the clients were kept whose answers were discarded
  overtaken, \* history: threads on their way from Discover to the pool whose host
             \*   went from the cache meanwhile
  crashed   \* a null connection was used

vars == <<up, notes, cached, pool, fixed, obj, pc, host, client, orphaned, overtaken, crashed>>
registryVars == <<up, notes, cached>>
threadVars == <<pc, host, client>>
historyVars == <<orphaned, overtaken>>

(* conn is "connecting", then "latched" once OnConnection has counted the  *)
(* latch down, "set" once _conn is assigned, "lost" once it is reset.      *)
(* alive: the TCP connection exists.  pending: an asynchronous call waits  *)
(* for its answer.  kept: whether the pool ever held it.  late: an         *)
(* overtaken thread put it there.                                          *)
NoClient == [host |-> None, conn |-> "none", alive |-> FALSE, pending |-> FALSE,
             kept |-> "own", late |-> FALSE]

NewClient(h) == [NoClient EXCEPT !.host = h, !.conn = "connecting"]

Exists(c) == obj[c] # NoClient

(* shared_ptr: the pool, _rpc_client and the threads' locals hold a client. *)
Held(c) ==
  \/ \E h \in Hosts : pool[h] = c
  \/ fixed = c
  \/ \E t \in Threads : client[t] = c

(* The objects after a step that leaves new, those that nobody holds any   *)
(* more destroyed with their connections.                                  *)
Release(new) ==
  /\ obj' = [c \in Clients |-> IF Held(c)' THEN new[c] ELSE NoClient]
  /\ orphaned' = orphaned \cup
       {new[c].kept : c \in {d \in Clients : ~ Held(d)' /\ new[d].alive /\ new[d].pending}}

-----------------------------------------------------------------------------

(* RpcClient's constructor has returned: with discovery the pool is empty, *)
(* without it the only client is past the latch.                           *)
Init ==
  /\ up \in SUBSET Hosts
  /\ notes = <<>>
  /\ cached = up
  /\ pool = [h \in Hosts |-> None]
  /\ \/ fixed = None /\ obj = [c \in Clients |-> NoClient]
     \/ \E c \in Clients, h \in up :
          /\ fixed = c
          /\ obj = [d \in Clients |->
               IF d = c THEN [NewClient(h) EXCEPT !.conn = "latched", !.alive = TRUE] ELSE NoClient]
  /\ pc = [t \in Threads |-> "idle"]
  /\ host = [t \in Threads |-> None]
  /\ client = [t \in Threads |-> None]
  /\ orphaned = {}
  /\ overtaken = {}
  /\ crashed = FALSE

(* A server starts and registers, or goes with its connections.            *)
ComesUp(h) ==
  /\ h \notin up
  /\ Len(notes) < MaxNotes
  /\ up' = up \cup {h}
  /\ notes' = Append(notes, [op |-> "ONLINE", host |-> h])
  /\ UNCHANGED <<cached, pool, fixed, obj, threadVars, historyVars, crashed>>

GoesDown(h) ==
  /\ h \in up
  /\ Len(notes) < MaxNotes
  /\ up' = up \ {h}
  /\ notes' = Append(notes, [op |-> "OFFLINE", host |-> h])
  /\ obj' = [c \in Clients |-> IF obj[c].host = h THEN [obj[c] EXCEPT !.alive = FALSE] ELSE obj[c]]
  /\ UNCHANGED <<cached, pool, fixed, threadVars, historyVars, crashed>>

-----------------------------------------------------------------------------
(* IO thread of the DiscoveryClient: Discoverer::OnserviceRequest *)

Online ==
  /\ notes # <<>> /\ Head(notes).op = "ONLINE"
  /\ cached' = cached \cup {Head(notes).host}
  /\ notes' = Tail(notes)
  /\ UNCHANGED <<up, pool, fixed, obj, threadVars, historyVars, crashed>>

(* The threads between the discovery of the host and the pool.             *)
Bound(h) == {t \in Threads : host[t] = h /\ pc[t] \in {"get", "connect"}}

(* faulty: the client stays in the pool. *)
OfflineNoCallback ==
  /\ notes # <<>> /\ Head(notes).op = "OFFLINE"
  /\ cached' = cached \ {Head(notes).host}
  /\ overtaken' = overtaken \cup Bound(Head(notes).host)
  /\ notes' = Tail(notes)
  /\ UNCHANGED <<up, pool, fixed, obj, threadVars, orphaned, crashed>>

(* The host leaves the cache and, under the same lock, __DelClient erases  *)
(* its client from the pool.                                               *)
Offline ==
  /\ notes # <<>> /\ Head(notes).op = "OFFLINE"
  /\ LET h == Head(notes).host IN
     /\ cached' = cached \ {h}
     /\ pool' = [pool EXCEPT ![h] = None]
     /\ UNCHANGED client
     /\ UNCHANGED fixed
     /\ Release([c \in Clients |->
                   IF pool[h] = c THEN [obj[c] EXCEPT !.kept = "deleted", !.late = FALSE]
                   ELSE obj[c]])
     /\ overtaken' = overtaken \cup Bound(h)
  /\ notes' = Tail(notes)
  /\ UNCHANGED <<up, pc, host, crashed>>

-----------------------------------------------------------------------------
(* IO thread of a MuduoClient: OnConnection, and answers *)

(* faulty: the latch is not counted down. *)
ConnectedUncounted(c) ==
  /\ obj[c].conn = "connecting"
  /\ obj[c].host \in up
  /\ obj' = [obj EXCEPT ![c].alive = TRUE]
  /\ UNCHANGED <<registryVars, pool, fixed, threadVars, historyVars, crashed>>

(* The connector retries until the server accepts; OnConnection first      *)
(* counts the latch down.                                                  *)
Connected(c) ==
  /\ obj[c].conn = "connecting"
  /\ obj[c].host \in up
  /\ obj' = [obj EXCEPT ![c].conn = "latched", ![c].alive = TRUE]
  /\ UNCHANGED <<registryVars, pool, fixed, threadVars, historyVars, crashed>>

(* ... and then assigns _conn. *)
SetConnection(c) ==
  /\ obj[c].conn = "latched"
  /\ obj' = [obj EXCEPT ![c].conn = "set"]
  /\ UNCHANGED <<registryVars, pool, fixed, threadVars, historyVars, crashed>>

Disconnected(c) ==
  /\ obj[c].conn = "set"
  /\ ~ obj[c].alive
  /\ obj' = [obj EXCEPT ![c].conn = "lost"]
  /\ UNCHANGED <<registryVars, pool, fixed, threadVars, historyVars, crashed>>

(* The answer to an asynchronous call. *)
AnswerAsync(c) ==
  /\ obj[c].conn = "set"
  /\ obj[c].alive /\ obj[c].pending
  /\ obj' = [obj EXCEPT ![c].pending = FALSE]
  /\ UNCHANGED <<registryVars, pool, fixed, threadVars, historyVars, crashed>>

(* The answer to a synchronous call: the call returns and lets go of the   *)
(* client.                                                                 *)
AnswerSync(t) ==
  /\ pc[t] = "wait"
  /\ obj[client[t]].conn = "set"
  /\ obj[client[t]].alive
  /\ pc' = [pc EXCEPT ![t] = "idle"]
  /\ host' = [host EXCEPT ![t] = None]
  /\ client' = [client EXCEPT ![t] = None]
  /\ UNCHANGED pool
  /\ UNCHANGED fixed
  /\ Release(obj)
  /\ UNCHANGED <<registryVars, overtaken, crashed>>

-----------------------------------------------------------------------------
(* User threads: Call and _GetUsefulClient *)

UseFixed(t) ==
  /\ pc[t] = "idle"
  /\ fixed # None
  /\ pc' = [pc EXCEPT ![t] = "send"]
  /\ client' = [client EXCEPT ![t] = fixed]
  /\ UNCHANGED <<registryVars, pool, fixed, obj, host, historyVars, crashed>>

(* ServiceDiscovery: MethodHost::ChooseHost. *)
Discover(t, h) ==
  /\ pc[t] = "idle"
  /\ fixed = None
  /\ h \in cached
  /\ pc' = [pc EXCEPT ![t] = "get"]
  /\ host' = [host EXCEPT ![t] = h]
  /\ UNCHANGED <<registryVars, pool, fixed, obj, client, historyVars, crashed>>

(* __GetClient finds a client. *)
GetClient(t) ==
  /\ pc[t] = "get"
  /\ pool[host[t]] # None
  /\ pc' = [pc EXCEPT ![t] = "send"]
  /\ client' = [client EXCEPT ![t] = pool[host[t]]]
  /\ overtaken' = overtaken \ {t}
  /\ UNCHANGED <<registryVars, pool, fixed, obj, host, orphaned, crashed>>

(* faulty: the pool is not looked at. *)
CreateClientAlways(t) ==
  /\ pc[t] = "get"
  /\ \E c \in Clients :
       /\ ~ Exists(c)
       /\ obj' = [obj EXCEPT ![c] = NewClient(host[t])]
       /\ client' = [client EXCEPT ![t] = c]
  /\ pc' = [pc EXCEPT ![t] = "connect"]
  /\ UNCHANGED <<registryVars, pool, fixed, host, historyVars, crashed>>

(* __GetClient finds nothing: __NewClient creates a client and waits for   *)
(* its latch.                                                              *)
CreateClient(t) ==
  /\ pc[t] = "get"
  /\ pool[host[t]] = None
  /\ \E c \in Clients :
       /\ ~ Exists(c)
       /\ obj' = [obj EXCEPT ![c] = NewClient(host[t])]
       /\ client' = [client EXCEPT ![t] = c]
  /\ pc' = [pc EXCEPT ![t] = "connect"]
  /\ UNCHANGED <<registryVars, pool, fixed, host, historyVars, crashed>>

(* faulty: the last client put replaces the one in the pool. *)
PutClientReplacing(t) ==
  /\ pc[t] = "connect"
  /\ obj[client[t]].conn # "connecting"
  /\ pool' = [pool EXCEPT ![host[t]] = client[t]]
  /\ pc' = [pc EXCEPT ![t] = "send"]
  /\ UNCHANGED client
  /\ UNCHANGED fixed
  /\ Release([obj EXCEPT ![client[t]].kept = "pooled", ![client[t]].late = t \in overtaken])
  /\ overtaken' = overtaken \ {t}
  /\ UNCHANGED <<registryVars, host, crashed>>

(* The latch has opened: __PutClient, whose emplace keeps a client that is *)
(* already there.                                                          *)
PutClient(t) ==
  /\ pc[t] = "connect"
  /\ obj[client[t]].conn # "connecting"
  /\ IF pool[host[t]] = None
     THEN /\ pool' = [pool EXCEPT ![host[t]] = client[t]]
          /\ obj' = [obj EXCEPT ![client[t]].kept = "pooled", ![client[t]].late = t \in overtaken]
     ELSE UNCHANGED <<pool, obj>>
  /\ pc' = [pc EXCEPT ![t] = "send"]
  /\ overtaken' = overtaken \ {t}
  /\ UNCHANGED <<registryVars, fixed, host, client, orphaned, crashed>>

(* GetConnection has not been given _conn yet, or no longer, and           *)
(* Requestor::Send uses it unchecked.                                      *)
NullConnection(t) ==
  /\ pc[t] = "send"
  /\ obj[client[t]].conn # "set"
  /\ crashed' = TRUE
  /\ UNCHANGED <<registryVars, pool, fixed, obj, threadVars, historyVars>>

CallSync(t) ==
  /\ pc[t] = "send"
  /\ obj[client[t]].conn = "set"
  /\ pc' = [pc EXCEPT ![t] = "wait"]
  /\ UNCHANGED <<registryVars, pool, fixed, obj, host, client, historyVars, crashed>>

(* An asynchronous call, or one with a callback, returns when it has sent  *)
(* the request.                                                            *)
CallAsync(t) ==
  /\ pc[t] = "send"
  /\ obj[client[t]].conn = "set"
  /\ pc' = [pc EXCEPT ![t] = "idle"]
  /\ host' = [host EXCEPT ![t] = None]
  /\ client' = [client EXCEPT ![t] = None]
  /\ UNCHANGED pool
  /\ UNCHANGED fixed
  /\ Release([obj EXCEPT ![client[t]].pending = TRUE])
  /\ UNCHANGED <<registryVars, overtaken, crashed>>

-----------------------------------------------------------------------------

Notified == Online \/ Offline

ClientIO(c) == Connected(c) \/ SetConnection(c) \/ Disconnected(c) \/ AnswerAsync(c)

UserStep(t) ==
  \/ GetClient(t) \/ CreateClient(t) \/ PutClient(t)
  \/ NullConnection(t) \/ CallSync(t) \/ CallAsync(t)
  \/ AnswerSync(t)

Next ==
  /\ ~ crashed
  /\ \/ \E h \in Hosts : ComesUp(h) \/ GoesDown(h)
     \/ Notified
     \/ \E c \in Clients : ClientIO(c)
     \/ \E t \in Threads : UserStep(t) \/ UseFixed(t) \/ (\E h \in Hosts : Discover(t, h))

(* Threads that can run do, the connector retries and servers answer.      *)
Fairness ==
  /\ WF_vars(~ crashed /\ Notified)
  /\ \A c \in Clients : WF_vars(~ crashed /\ ClientIO(c))
  /\ \A t \in Threads : WF_vars(~ crashed /\ UserStep(t))

Spec == Init /\ [][Next]_vars /\ Fairness

-----------------------------------------------------------------------------

Client == [host : Hosts \cup {None},
           conn : {"none", "connecting", "latched", "set", "lost"},
           alive : BOOLEAN, pending : BOOLEAN,
           kept : {"own", "pooled", "deleted"}, late : BOOLEAN]

PoolTypeOK ==
  /\ up \subseteq Hosts
  /\ notes \in Seq([op : {"ONLINE", "OFFLINE"}, host : Hosts])
  /\ cached \subseteq Hosts
  /\ pool \in [Hosts -> Clients \cup {None}]
  /\ fixed \in Clients \cup {None}
  /\ obj \in [Clients -> Client]
  /\ pc \in [Threads -> {"idle", "get", "connect", "send", "wait"}]
  /\ host \in [Threads -> Hosts \cup {None}]
  /\ client \in [Threads -> Clients \cup {None}]
  /\ \A t \in Threads : client[t] = None <=> pc[t] \in {"idle", "get"}
  /\ orphaned \subseteq {"own", "pooled", "deleted"}
  /\ overtaken \subseteq Threads
  /\ crashed \in BOOLEAN

(* Types; however threads race for the pool and hosts come and go, there   *)
(* are never more clients of one host, each with a thread and a socket,    *)
(* than user threads.                                                      *)
ClientsBounded ==
  /\ PoolTypeOK
  /\ \A h \in Hosts :
       Cardinality({c \in Clients : obj[c].host = h}) <= Cardinality(Threads)

(* A client that the pool holds is not destroyed under a call that waits   *)
(* for its answer while its server would still give one: the only clients  *)
(* that are were never in the pool, or were deleted from it because their  *)
(* host went offline.                                                      *)
LostForAReason == "pooled" \notin orphaned

OfflineComing(h) == \E i \in 1..Len(notes) : notes[i] = [op |-> "OFFLINE", host |-> h]

(* A client in the pool whose connection is gone is there for one of two   *)
(* reasons: the OFFLINE of its host is still on its way and will delete    *)
(* it; or a thread put it there that had discovered the host before its    *)
(* OFFLINE was handled, and then nothing is left to delete it until the    *)
(* host comes and goes again.                                              *)
DeadForAReason ==
  \A h \in Hosts :
    (pool[h] # None /\ ~ obj[pool[h]].alive) => OfflineComing(h) \/ obj[pool[h]].late

(* A thread that waits in Connect for a host that stays up goes on, and a  *)
(* synchronous call on a connection that stays up returns.                 *)
CallsProgress ==
  \A t \in Threads :
    /\ pc[t] = "connect" ~> pc[t] # "connect" \/ host[t] \notin up \/ crashed
    /\ pc[t] = "wait" ~> pc[t] # "wait" \/ ~ obj[client[t]].alive \/ crashed

=============================================================================
