---------------------------- MODULE ClientThreads ----------------------------
(***************************************************************************)
(* Who waits for whom in a program with an RpcClient that discovers its    *)
(* servers: the user threads, the IO thread of the DiscoveryClient, the IO *)
(* thread of every pooled MuduoClient; their locks, the answers they wait  *)
(* for, and the IO threads that a destroyed MuduoClient joins              *)
(* (common/Dispatcher.hpp, client/RpcClient.hpp, client/RpcRegistry.hpp).  *)
(*                                                                         *)
(* Three locks are held across something that waits: Discoverer::_mutex    *)
(* ("hosts") and RpcClient::_mutex ("pool") while the offline callback     *)
(* erases a client, and the Dispatcher::_mutex that the pooled clients     *)
(* share ("dispatch") while a handler runs.  The DiscoveryClient has a     *)
(* dispatcher of its own, which only its IO thread locks; the locks of     *)
(* Requestor and MethodHost are let go before anything waits.              *)
(*                                                                         *)
(* One method, one server, connections that last (Requestor and ClientPool *)
(* have the others).  A user's callback may itself make calls.             *)
(***************************************************************************)
EXTENDS Naturals, Sequences, FiniteSets

CONSTANTS
  Users,          \* user threads
  Clients,        \* MuduoClient objects, each named as its IO thread
  D,              \* the IO thread of the DiscoveryClient
  CallbacksCall,  \* user callbacks make calls
  MaxNotes,       \* bound: messages on their way from the registry
  MaxAnswers,     \* bound: answers on their way to a client
  None

Threads == Users \cup Clients \cup {D}
Locks   == {"hosts", "pool", "dispatch"}

ASSUME ThreadsAssumption ==
  /\ CallbacksCall \in BOOLEAN
  /\ None \notin Threads
  /\ Users \cap Clients = {} /\ D \notin Users \cup Clients
  /\ MaxNotes \in Nat /\ MaxAnswers \in Nat

VARIABLES
  lock,    \* who holds each lock
  pc,      \* what each thread is about to do
  client,  \* the client it holds, or is destroying
  calling, \* IO threads whose handler is in a callback that calls
  cached,  \* the method has a host in _method_hosts
  pool,    \* the client in _rpc_clients
  obj,     \* "none", "connecting", "up"
  notes,   \* from the registry
  inbox    \* answers for each client

vars == <<lock, pc, client, calling, cached, pool, obj, notes, inbox>>
dataVars == <<cached, pool, obj, notes, inbox>>

Free(l) == lock[l] = None
Go(t, where) == pc' = [pc EXCEPT ![t] = where]

Init ==
  /\ lock = [l \in Locks |-> None]
  /\ pc = [t \in Threads |-> "idle"]
  /\ client = [t \in Threads |-> None]
  /\ calling = {}
  /\ cached = FALSE
  /\ pool = None
  /\ obj = [c \in Clients |-> "none"]
  /\ notes = <<>>
  /\ inbox = [c \in Clients |-> <<>>]

-----------------------------------------------------------------------------
(* A call, made by a user thread or by a callback in an IO thread.         *)

StartCall(t) ==
  /\ t \in Users
  /\ pc[t] = "idle"
  /\ Go(t, "discover")
  /\ UNCHANGED <<lock, client, calling, dataVars>>

(* ServiceDiscovery: the cache under Discoverer::_mutex, which is released *)
(* before the registry is asked.                                           *)
FromCache(t) ==
  /\ pc[t] = "discover"
  /\ Free("hosts")
  /\ cached
  /\ Go(t, "get")
  /\ UNCHANGED <<lock, client, calling, dataVars>>

(* faulty: the lock is held while the thread waits for the answer. *)
AskRegistryLocked(t) ==
  /\ pc[t] = "discover"
  /\ Free("hosts")
  /\ ~ cached
  /\ Len(notes) < MaxNotes
  /\ notes' = Append(notes, [kind |-> "answer", to |-> t])
  /\ lock' = [lock EXCEPT !["hosts"] = t]
  /\ Go(t, "registry")
  /\ UNCHANGED <<client, calling, cached, pool, obj, inbox>>

AskRegistry(t) ==
  /\ pc[t] = "discover"
  /\ Free("hosts")
  /\ ~ cached
  /\ Len(notes) < MaxNotes
  /\ notes' = Append(notes, [kind |-> "answer", to |-> t])
  /\ Go(t, "registry")
  /\ UNCHANGED <<lock, client, calling, cached, pool, obj, inbox>>

(* The answer has a host, which is put in the cache; or none, and the call *)
(* fails.                                                                  *)
Install(t) ==
  /\ pc[t] = "install"
  /\ Free("hosts")
  /\ cached' = TRUE
  /\ Go(t, "get")
  /\ UNCHANGED <<lock, client, calling, pool, obj, notes, inbox>>

NothingFound(t) ==
  /\ pc[t] = "install"
  /\ Go(t, "return")
  /\ UNCHANGED <<lock, client, calling, dataVars>>

GetClient(t) ==
  /\ pc[t] = "get"
  /\ Free("pool")
  /\ pool # None
  /\ client' = [client EXCEPT ![t] = pool]
  /\ Go(t, "send")
  /\ UNCHANGED <<lock, calling, dataVars>>

CreateClient(t) ==
  /\ pc[t] = "get"
  /\ Free("pool")
  /\ pool = None
  /\ \E c \in Clients :
       /\ obj[c] = "none"
       /\ obj' = [obj EXCEPT ![c] = "connecting"]
       /\ client' = [client EXCEPT ![t] = c]
  /\ Go(t, "connect")
  /\ UNCHANGED <<lock, calling, cached, pool, notes, inbox>>

PutClient(t) ==
  /\ pc[t] = "connect"
  /\ obj[client[t]] = "up"
  /\ Free("pool")
  /\ pool' = IF pool = None THEN client[t] ELSE pool
  /\ Go(t, "send")
  /\ UNCHANGED <<lock, client, calling, cached, obj, notes, inbox>>

(* The request is sent, and the server answers: a synchronous call waits,  *)
(* one with a callback returns.                                            *)
Send(t) ==
  /\ pc[t] = "send"
  /\ Len(inbox[client[t]]) < MaxAnswers
  /\ \E kind \in {"sync", "callback"} :
       /\ inbox' = [inbox EXCEPT ![client[t]] = Append(@, [kind |-> kind, to |-> t])]
       /\ Go(t, IF kind = "sync" THEN "answer" ELSE "return")
  /\ UNCHANGED <<lock, client, calling, cached, pool, obj, notes>>

(* A thread that has done with its handler or call lets go of its locks.   *)
Finish(t) ==
  /\ lock' = [l \in Locks |-> IF lock[l] = t THEN None ELSE lock[l]]
  /\ calling' = calling \ {t}
  /\ Go(t, "idle")

LastHolder(t) ==
  client[t] # None /\ pool # client[t] /\ \A u \in Threads \ {t} : client[u] # client[t]

(* The call returns and its client pointer goes; the last one destroys the *)
(* client.                                                                 *)
Return(t) ==
  /\ pc[t] = "return"
  /\ IF LastHolder(t)
     THEN Go(t, "join") /\ UNCHANGED <<lock, calling, client>>
     ELSE Finish(t) /\ client' = [client EXCEPT ![t] = None]
  /\ UNCHANGED dataVars

(* ~EventLoopThread: the loop of the client quits, after the handler it is *)
(* in, and is joined.                                                      *)
Join(t) ==
  /\ pc[t] = "join"
  /\ pc[client[t]] = "idle"
  /\ obj' = [obj EXCEPT ![client[t]] = "none"]
  /\ inbox' = [inbox EXCEPT ![client[t]] = <<>>]
  /\ client' = [client EXCEPT ![t] = None]
  /\ Finish(t)
  /\ UNCHANGED <<cached, pool, notes>>

-----------------------------------------------------------------------------
(* The IO thread of the DiscoveryClient *)

(* A server comes or goes. *)
Registry ==
  /\ Len(notes) < MaxNotes
  /\ \E kind \in {"online", "offline"} : notes' = Append(notes, [kind |-> kind, to |-> None])
  /\ UNCHANGED <<lock, pc, client, calling, cached, pool, obj, inbox>>

(* Requestor::OnResponse completes the future that the thread waits for.   *)
OnDiscovered ==
  /\ pc[D] = "idle"
  /\ notes # <<>> /\ Head(notes).kind = "answer"
  /\ Go(Head(notes).to, "install")
  /\ notes' = Tail(notes)
  /\ UNCHANGED <<lock, client, calling, cached, pool, obj, inbox>>

(* Discoverer::OnserviceRequest *)
OnNote ==
  /\ pc[D] = "idle"
  /\ notes # <<>> /\ Head(notes).kind # "answer"
  /\ Go(D, Head(notes).kind)
  /\ notes' = Tail(notes)
  /\ UNCHANGED <<lock, client, calling, cached, pool, obj, inbox>>

Online ==
  /\ pc[D] = "online"
  /\ Free("hosts")
  /\ cached' = TRUE
  /\ Go(D, "idle")
  /\ UNCHANGED <<lock, client, calling, pool, obj, notes, inbox>>

Offline ==
  /\ pc[D] = "offline"
  /\ Free("hosts")
  /\ lock' = [lock EXCEPT !["hosts"] = D]
  /\ cached' = FALSE
  /\ Go(D, "delete")
  /\ UNCHANGED <<client, calling, pool, obj, notes, inbox>>

(* faulty: the pool owns its clients alone, and erase destroys. *)
DelClientAlways ==
  /\ pc[D] = "delete"
  /\ Free("pool")
  /\ pool' = None
  /\ IF pool # None
     THEN /\ lock' = [lock EXCEPT !["pool"] = D]
          /\ client' = [client EXCEPT ![D] = pool]
          /\ Go(D, "join")
          /\ UNCHANGED calling
     ELSE Finish(D) /\ UNCHANGED client
  /\ UNCHANGED <<cached, obj, notes, inbox>>

(* RpcClient::__DelClient, still under Discoverer::_mutex: erase destroys  *)
(* the client if nobody else holds it.                                     *)
DelClient ==
  /\ pc[D] = "delete"
  /\ Free("pool")
  /\ pool' = None
  /\ IF pool # None /\ \A t \in Threads : client[t] # pool
     THEN /\ lock' = [lock EXCEPT !["pool"] = D]
          /\ client' = [client EXCEPT ![D] = pool]
          /\ Go(D, "join")
          /\ UNCHANGED calling
     ELSE Finish(D) /\ UNCHANGED client
  /\ UNCHANGED <<cached, obj, notes, inbox>>

-----------------------------------------------------------------------------
(* The IO thread of a MuduoClient *)

Connected(c) ==
  /\ obj[c] = "connecting"
  /\ obj' = [obj EXCEPT ![c] = "up"]
  /\ UNCHANGED <<lock, pc, client, calling, cached, pool, notes, inbox>>

OnMessage(c) ==
  /\ pc[c] = "idle"
  /\ obj[c] = "up"
  /\ inbox[c] # <<>>
  /\ Go(c, "dispatch")
  /\ UNCHANGED <<lock, client, calling, dataVars>>

(* Dispatcher::OnMessage *)
Dispatch(c) ==
  /\ pc[c] = "dispatch"
  /\ Free("dispatch")
  /\ lock' = [lock EXCEPT !["dispatch"] = c]
  /\ Go(c, "handle")
  /\ UNCHANGED <<client, calling, dataVars>>

Take(c) == inbox' = [inbox EXCEPT ![c] = Tail(@)]

(* Requestor::OnResponse: the future of a synchronous call is completed.   *)
AnswerSync(c) ==
  /\ pc[c] = "handle"
  /\ Head(inbox[c]).kind = "sync"
  /\ Take(c)
  /\ lock' = [lock EXCEPT !["dispatch"] = None]
  /\ pc' = [pc EXCEPT ![c] = "idle", ![Head(inbox[c]).to] = "return"]
  /\ UNCHANGED <<calling, client, cached, pool, obj, notes>>

(* The user's callback runs, and returns. *)
RunCallback(c) ==
  /\ pc[c] = "handle"
  /\ Head(inbox[c]).kind = "callback"
  /\ Take(c)
  /\ Finish(c)
  /\ UNCHANGED <<client, cached, pool, obj, notes>>

(* The user's callback makes a call. *)
CallbackCalls(c) ==
  /\ CallbacksCall
  /\ pc[c] = "handle"
  /\ Head(inbox[c]).kind = "callback"
  /\ Take(c)
  /\ calling' = calling \cup {c}
  /\ Go(c, "discover")
  /\ UNCHANGED <<lock, client, cached, pool, obj, notes>>

-----------------------------------------------------------------------------

CallStep(t) ==
  \/ FromCache(t) \/ AskRegistry(t) \/ Install(t) \/ NothingFound(t)
  \/ GetClient(t) \/ CreateClient(t) \/ PutClient(t)
  \/ Send(t) \/ Return(t) \/ Join(t)

DiscoveryIO == OnDiscovered \/ OnNote \/ Online \/ Offline \/ DelClient

ClientIO(c) ==
  Connected(c) \/ OnMessage(c) \/ Dispatch(c) \/ AnswerSync(c) \/ RunCallback(c) \/ CallbackCalls(c)

Next ==
  \/ Registry
  \/ DiscoveryIO
  \/ \E c \in Clients : ClientIO(c)
  \/ \E t \in Threads : StartCall(t) \/ CallStep(t)

Spec == Init /\ [][Next]_vars

-----------------------------------------------------------------------------

ThreadsTypeOK ==
  /\ lock \in [Locks -> Threads \cup {None}]
  /\ pc \in [Threads -> {"idle", "discover", "registry", "install", "get", "connect", "send",
                         "answer", "return", "join", "online", "offline", "delete",
                         "dispatch", "handle"}]
  /\ client \in [Threads -> Clients \cup {None}]
  /\ \A t \in Threads : pc[t] \in {"connect", "send", "answer", "join"} => client[t] \in Clients
  /\ calling \subseteq Clients
  /\ cached \in BOOLEAN
  /\ pool \in Clients \cup {None}
  /\ obj \in [Clients -> {"none", "connecting", "up"}]
  /\ Len(notes) <= MaxNotes
  /\ \A c \in Clients : Len(inbox[c]) <= MaxAnswers

(* The thread that t waits for, if it waits. *)
WaitsFor(t) ==
  CASE pc[t] \in {"discover", "online", "offline"} -> lock["hosts"]
    [] pc[t] = "install"  -> lock["hosts"]
    [] pc[t] \in {"get", "delete"} -> lock["pool"]
    [] pc[t] = "connect"  -> IF obj[client[t]] = "up" THEN lock["pool"] ELSE client[t]
    [] pc[t] = "dispatch" -> lock["dispatch"]
    [] pc[t] = "registry" -> D
    [] pc[t] = "answer"   -> client[t]
    [] pc[t] = "join"     -> client[t]
    [] OTHER -> None

(* Threads that wait for each other in a circle. *)
Stuck(S) == S # {} /\ \A t \in S : WaitsFor(t) \in S

(* Whatever the threads do, a circle of waiting threads goes through a     *)
(* user's callback that makes a call: the library's own locks, joins and   *)
(* waits, the offline callback that destroys a client under two of them    *)
(* included, never block each other.                                       *)
StuckOnlyInCallback == \A S \in SUBSET Threads : Stuck(S) => S \cap calling # {}

(* Types; a client that exists is held by somebody, and a client that      *)
(* somebody holds exists: none is joined twice, or under a call that uses  *)
(* it.                                                                     *)
HeldClientsExist ==
  /\ ThreadsTypeOK
  /\ \A c \in Clients :
       /\ obj[c] # "none" <=> pool = c \/ \E t \in Threads : client[t] = c
       /\ (\E t \in Threads : pc[t] = "join" /\ client[t] = c) =>
            pool # c /\ Cardinality({t \in Threads : client[t] = c}) = 1

=============================================================================
