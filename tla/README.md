# RpcJsonix in TLA+

RpcJsonix is a C++ RPC library over muduo and JSON: remote calls, service
registration and discovery through a registry centre, and publish/subscribe
through a topic server. This directory models it in TLA+, model-checks the
models with TLC and proves the properties that matter most with TLAPS.
Paths below are under `src/source/` unless they start with `muduo/`, which
stands for `src/thirds/include/muduo/`.

## 1. The system

| Component | Code | State | Operations | Modules |
|---|---|---|---|---|
| Registry centre | `server/RpcRegistry.hpp` (`PDManager`, `ProviderManager`, `DiscovererManager`), `server/RpcServer.hpp` (`RegistryServer`) | per manager: connection -> object with a list of methods, method -> set of objects | register, discover, unknown operation, close; ONLINE and OFFLINE notifications | `ServiceDirectory`, `RegistryServer`, `RegistryProofs` |
| Client discovery | `client/RpcRegistry.hpp` (`Discoverer`, `MethodHost`), `DiscoveryClient` | method -> list of hosts, round robin index | `ServiceDiscovery`, `OnserviceRequest` | `Discovery`, `ClientThreads`, `RegistryProofs`, `ClientThreadsProofs` |
| Client registration | `client/RpcRegistry.hpp` (`Provider`), `RegistryClient` | none of its own | `RegistryMethod` | the requests of `RegistryServer` and `Discovery` |
| Request and answer | `client/Requestor.hpp`, `client/RpcCaller.hpp` | request id -> describe (promise or callback) | three forms of `Call`, `OnResponse` | `Requestor`, `RequestorProofs` |
| Router | `server/RpcRouter.hpp` | method -> description; the builder's members | `OnRpcRequest`, `RegisterMethod`, `Build` | `RpcService`, `RpcServiceProofs` |
| RPC server | `server/RpcServer.hpp` (`RpcServer`) | router, registry client | `RegistryMethod`, `Start` | `RpcService`, `RpcServiceProofs` |
| RPC client | `client/RpcClient.hpp` (`RpcClient`) | host -> pooled `MuduoClient` | `Call`, `_GetUsefulClient`, `__DelClient` | `ClientPool`, `ClientPoolProofs`, `ClientThreads`, `ClientThreadsProofs` |
| Topic server | `server/RpcTopic.hpp`, `TopicServer` | topic -> subscribers, connection -> topics | create, remove, subscribe, cancel, publish, close | `PubSub`, `TopicServer`, `TopicProofs` |
| Topic client | `client/RpcTopic.hpp`, `TopicClient` | topic -> callback | the same five, `OnPublish` | `TopicClient`, `TopicProofs` |
| Dispatcher | `common/Dispatcher.hpp` | message type -> handler, a mutex held while a handler runs | `OnMessage` | `ClientThreads`, `ClientThreadsProofs` |
| Network | `common/Net.hpp` (`MuduoServer`, `MuduoClient`, `MuduoConnection`) | connection maps, `_conn`, latch, loop thread | connection and message callbacks, `Connect`, `GetConnection`, destruction | `Framing`, `ClientStart`, and the connection actions of every module |
| Framing | `common/Net.hpp` (`LVProtocol`, `MuduoBuffer`) | the buffer | `CanProcessed`, `OnMessage`, `Serialize` | `Framing`, `WireProofs` |
| Messages | `common/Message.hpp`, `common/Fileds.hpp`, `common/JsonComm.hpp` | a JSON body | setters, getters, `Check`, `Serialize`, `Unserialize` | `Messages`, `WireProofs` |
| Identifiers | `common/Uuid.hpp` | a counter | `GetUuid` | `Messages`, `WireProofs` |
| muduo's buffer | `muduo/net/Buffer.h`, `muduo/net/Endian.h` | a vector and two indexes | append, prepend, retrieve, unwrite, shrink | `NetworkInt`, `BufferOps`, `Buffer`, `ByteQueue`, `WireProofs` |
| muduo's locks | `muduo/base/Mutex.h`, `Condition.h`, `CountDownLatch.h`, `muduo/net/EventLoopThread.h` | mutex and `holder_`, count | lock, unlock, wait, notify | `ClientStart`, `Gate`, `ClientStartProofs` |

### How they interact

* A client has one TCP connection to each server it talks to and one IO thread
  per connection. User threads build requests, store a describe in the
  `Requestor` and send; the IO thread hands every message to `Dispatcher`,
  which calls `Requestor::OnResponse`, `Discoverer::OnserviceRequest` or
  `TopicManager::OnPublish`.
* A server runs all connection, message and close callbacks in one loop
  thread (nobody calls `setThreadNum`), so server handlers are atomic with
  respect to each other, and the mutexes of the managers are never contended.
  The exception is `ServiceManger`, whose `Insert` may run in the thread that
  registers a method.
* An `RpcServer` registers its methods with the registry centre; an
  `RpcClient` discovers hosts there, caches them, and is told of changes by
  notifications over the same connection that carries the answers. It keeps
  one connected `MuduoClient` for each host it calls and deletes it when the
  host goes offline, from inside the handler of the notification.
* All `MuduoClient`s of one `RpcClient` share its `Dispatcher`, and with it
  the mutex that is held while a handler, and a user's callback, runs.

### What is hard

* User threads against the IO thread: `Discoverer::_mutex` and
  `Requestor::_mutex` are released while a request is under way, so the state
  read before is stale when the answer is used.
* Two-way indexes in the servers: each operation finds what it must change
  through the other side, so a one-sided entry would survive its connection.
* Connections that close between any two steps; nothing reconnects.
* Synchronous waits without a timeout, handlers that run under the
  dispatcher's lock, and clients whose destruction joins a thread.
* A pool whose lookup and insertion are two lock regions with a wait for a
  connection between them.
* A byte stream cut anywhere, with signed lengths compared to unsigned sizes.
* A builder whose parts are moved out on every use.

What makes each component correct:

* *Registry*: the maps of each manager agree; a closed connection is listed
  nowhere; whoever discovered a method hears of every host that comes or goes,
  and hears the truth.
* *Discovery*: the cache, once notifications on their way are applied, holds
  what the registry lists; a host that has gone is not handed out; a call
  returns.
* *Requestor*: an answer finds its describe; no describe is kept for nothing;
  a call that fails does so because the server said so; every call is settled.
* *Topics*: both sides of a subscription agree, no subscription outlives its
  topic or connection, a publication reaches exactly the subscribers, and at
  the client it finds its callback.
* *RPC client*: the number of clients is bounded; a client is not destroyed
  under a call unless its host went or it was never pooled; the pool keeps no
  client whose connection is gone without a reason; no circle of threads waits
  for itself unless a callback makes a call.
* *Network*: a message is handled as it was sent, once and in order; a
  connection is given up for a reason; the loop thread and the latch of a
  `MuduoClient` are destroyed when nobody uses them.
* *Router and RPC server*: a method is served as it was declared, and a method
  that is advertised can be called.
* *Messages*: what a receiver reads is what the sender set.

## 2. The modules

**`ServiceDirectory`** is the abstract registry: members, offers (member,
address, service) and seekers. `Leave` takes everything of a member along.

**`RegistryServer`** is the registry centre. One action per branch of
`PDManager::OnServiceRequest` (`OnRegistry`, `OnDiscovery`,
`OnUnknownOperation`), plus `OnConnected` and `OnConnShutdown`; each is a
whole handler with every `Send` it makes, in order. `providers` and
`discoverers` are the per-method sets, `providerHost`, `providerMethods` and
`discovererMethods` the per-connection objects; an object belongs to one
connection for life, so the connection stands for it. `providerMethods` is a
sequence because repeated registrations repeat entries, and each repeated
entry is one more OFFLINE message. A list of hosts is a bag: the code iterates
a `std::set` ordered by pointer. `toClient` is the FIFO stream of each
connection. The refinement mapping reads the offers off `providers` and
`providerHost`, the seekers off `discoverers`.

**`Discovery`** composes `RegistryServer` with client processes and RPC
servers. A user thread in `ServiceDiscovery` is in one of the stages
`idle` (`ReturnCached` or `SendDiscovery`), `sent`, `waiting` (the registry
has handled it), `answered` (its future is set) and `returned`. The IO thread
takes messages in order: `OnResponse`, `OnNotification`. `Discovered` is the
thread waking up and installing the answer under the lock, as a separate step
from the arrival of the answer - notifications may be applied in between, as
the code allows. `ChooseHost`'s round robin is abstracted to any cached host.
`stale` and `raced` are auxiliary: they note that an answer was installed
over a newer notification. They constrain nothing.

**`Requestor`** is a client process against an RPC server: `NewDescribe` and
`Send` in a user thread; `GetDescribe`, `Complete`, `DelDescribe` as the three
lock regions of `OnResponse` in the IO thread; `OnRpcRequest` answers each
request once, with success or an error; `OnDisconnected` loses whatever is on
its way. `Outcome` is what the caller sees: `pending`, `ready`, a broken
promise (its last holder is gone), a callback that will never be called.

**`PubSub`** and **`TopicServer`**: the abstract publish/subscribe service and
`TopicManager` with its `Topic` and `Subscriber` objects, one action per
operation and one for `OnShutDown`. The refinement includes what each peer is
sent and in which order.

**`TopicClient`** composes `TopicServer` with client processes and with peers
that send the server whatever they like (`OtherPeer`). `Construct` is the
constructor, which returns connected. A call stores (`Subscribe`) or deletes
(`Cancel`) the callback and sends its request in one step - sending has no
other effect, so it can be moved next to it - and is then `asked`, `waiting`
(the server has handled the request) and `answered` until `Return`, which
deletes the callback of a refused `Subscribe`. The IO thread takes answers and
publications in the order the server sent them.

**`ClientPool`** is the pool of an `RpcClient`. A user thread goes through
`Discover`, `GetClient` or `CreateClient`, `PutClient`, and `CallSync` or
`CallAsync`; each step is one lock region of the code or the wait for the
latch. `Offline` is the notification that erases the host from the cache and,
under the same lock, its client from the pool. `obj` are the `MuduoClient`
objects: a client that nobody holds any more (`Release`, the last
`shared_ptr`) is destroyed in the same step, with the answer an asynchronous
call still waited for, if any; the history variable `orphaned` notes how such
a client had been kept. `overtaken` notes the threads whose host left the cache
between its discovery and the pool; a client that such a thread puts into the
pool is `late`. Neither constrains a step. `NullConnection` is the dereference of a null `_conn`
in `Requestor::Send`: undefined behaviour, after which the model stops.

**`ClientThreads`** is the same `RpcClient` seen as threads and locks: user
threads, the IO thread of the `DiscoveryClient`, one IO thread per client;
`Discoverer::_mutex`, `RpcClient::_mutex`, `Dispatcher::_mutex`; the waits for
the registry, for the latch and for an answer; and `Join`, the destruction of
a client, in whichever thread drops the last reference. A user's callback may
make calls of its own when `CallbacksCall` is set.

**`Gate`** and **`ClientStart`**: what `Connect` promises, and the life of one
`MuduoClient` down to `MutexLock` (the pthread mutex and `holder_` as two
steps), `Condition` (with spurious wake-ups), `CountDownLatch` and
`EventLoopThread`, `OnConnection`, `GetConnection` and destruction, in the
reverse order of the members: `DestroyTcpClient` while the loop still runs and
may lose the connection, then `Quit` and `Join`. The locks are those of
`EventLoopThread` and `CountDownLatch`; a `TcpClient` has one of its own, which
is not modelled. The bodies of the latch and of `EventLoopThread` are in muduo's
binary library; their actions are marked external in the map.

**`NetworkInt`**, **`BufferOps`**, **`Buffer`**, **`ByteQueue`**: integers in
network byte order, muduo's `Buffer` as a value (vector, reader index, writer
index) with its member functions, the specification of every call on one
buffer, and the queue of bytes it implements. `makeSpace` grows the vector or
moves the content, as the code does. `NetworkInt` knows the base, 256 in the
code, and the width as parameters: a number is its digits, and one that does
not fit counts around to negative.

**`Framing`** is one direction of a connection: `Send` frames a message,
`Receive(n)` is a callback that finds `n` more bytes, and the receive loop
takes frames out until one is incomplete (`Incomplete`), is no message
(`BadMessage`) or is handed on (`ServerHandles`, `ClientHandles`). Lengths wrap
as the 32-bit ones of the code do, in a smaller base. The buffer is the queue
`Buffer` is shown to implement.

**`RpcService`** is an RPC server: each thread that registers methods has one
builder (`Describe`, `Build`, which moves its parts out), then `Advertise`
with the registry and `RegisterMethod` with the router; `Start`; requests, and
the answers `OnRpcRequest` gives to each. JSON values are their kinds.

**`Messages`** are the JSON bodies: the setters of each message class as its
senders use them, the getters as the receivers do, what `Unserialize` yields,
`Forward` for the topic server sending a publication on, and the identifiers
of `Uuid`.

**`RegistryProofs`** (of `RegistryServer` and `Discovery`), **`TopicProofs`** (of
`TopicServer` and `TopicClient`), **`RequestorProofs`**, **`ClientPoolProofs`**,
**`ClientThreadsProofs`**, **`ClientStartProofs`**, **`RpcServiceProofs`** and
**`WireProofs`** (of `Buffer`, `NetworkInt`, `Framing` and `Messages`) hold the
theorems. The `MC` modules only give values to constants that are functions or
sets of strings.

Operators marked `faulty:` are variants of the definition that follows them
with one mistake in it. No specification uses them; putting one in the place
of the definition it varies makes the property listed in `PROJECT.json` fail,
which shows that the property watches that code.

## 3. The runs

| Run | Shows | Instance |
|---|---|---|
| `registry` | `IndexesAgree`, `ListedAreConnected`, `AnswersAreTakenBack`, `ShutdownNotified`, implements `ServiceDirectory` | 3 connections, one with two addresses and one that shares the first of them, 2 methods, a handler runs while queues hold less than 2, 2 registrations per connection; 462,036 states up to symmetry |
| `discovery` | types, `CacheFollowsRegistry`, `ReturnedHostServes`, `CallsReturn` | 1 client with 2 user threads, 2 RPC servers behind one address or two, 1 method, queues of 2; 453,568 states |
| `discovery_stale` | *violation* of `DiscoveredHostServes` | as `discovery` |
| `requestor` | `AnswerFindsDescribe`, `NoIdleDescribe`, `FailsOnlyOnError`, `CallsAreSettled` | 2 user threads, 3 calls of any form; 67,864 states |
| `topic_client` | types with one answer per call, `SubscribedHaveCallback`, `PublicationsFindCallback`, `CallsReturn`; at the server `SubscriptionsAgree`, `SubscriptionsAreLive`, implements `PubSub` | a process with one thread and a peer that sends anything, 2 topics, broadcasts start while queues hold less than 2; 236,076 states |
| `client_pool` | `ClientsBounded`, `LostForAReason`, `DeadForAReason`, `CallsProgress` | 2 user threads, 1 host, 3 clients, 2 notifications on their way; 386,565 states |
| `client_threads` | `StuckOnlyInCallback`, `HeldClientsExist` | 2 user threads, 2 clients, callbacks that call, 2 notifications, 1 answer on its way per client; 731,624 states up to symmetry |
| `client_start` | `HolderOwns`, `DestroyedUnused`, `NullForAReason`, implements `Gate` | one client, whole; 133 states |
| `rpc_service` | `DescribedAsDeclared`, `AnswersByContract`, `NotFoundOnlyWhileRegistering` | 2 threads registering 4 declarations of 3 methods, 1 caller, 4 sets of parameters; 27,188 states |
| `framing` | `DecodesWhatWasSent`, `RefusedForAReason`, `AcceptableAreHandled` | 3 messages, fields of 2 digits in base 5, limit of 8 bytes, any segmentation, both receive loops; 19,490 states |
| `buffer` | `SizeBounded`, implements `ByteQueue` | bytes 0 and 1, at most 5 of content, 2 per call; 38,952 states |
| `messages` | `ReadsBack`, `IdsAreNew` | every composing function with 2 names, 4 ports and lists of at most 2 hosts; 4,162 states |

### Bounds

* `MaxQueue` bounds the messages waiting on one connection. A handler runs
  only when every queue has room; it may then append several messages. Both
  `registry` and `discovery` have two, so that an answer and a notification, in
  either order, or two notifications, are on their way to the same client.
* `OneUnread` (in `registry`): a peer asks when it has read what it was sent, and
  while at most one other peer has not. The registry reads no queue, so no
  handler depends on it; `AnswersAreTakenBack` relates one queue to the maps, and
  that queue may hold an answer and what the other peers do after it.
* `MaxMethods` bounds the registrations over one connection: in `registry` two
  make a connection with two methods, a method registered twice, and one
  registered at two addresses; in
  `discovery` one makes a connection keep to one address, as `RpcServer` does.
* Three connections give a provider, another provider of the same method and
  a discoverer, or any mixture of the roles, since any connection may take any.
* Two user threads of one process are needed for two answers to race; a second
  process would share no state with the first but the registry.
* In `topic_client` the peer without a model of its own takes every step a
  second process could take, and more: repeated and unknown requests, and
  requests before the last answer. A third connection could do only what these
  two do, at another time; the theorems cover any number.
* `Rid` in `Requestor` bounds the calls ever made: three give two concurrent
  calls and one more after either has finished.
* In `client_pool` three clients are one in the pool and one per thread, which
  is what `ClientsBounded` allows and one more; two notifications are a host
  that goes and comes back before the client hears of it.
* In `client_threads` a second client lets a callback run by the first call
  through the other. One answer on its way per client is enough for a handler
  to be busy while another thread waits.
* `framing`: lengths run from -12 to 12, so there are frames below, at and
  above the limit, and one whose length is negative when it is read; three
  messages put a refused one before, between and after acceptable ones.
* `buffer`: two bytes per call against a vector of three make every call meet
  both branches of `makeSpace`.
* `messages`: ports on both sides of the sign; a counter of two binary digits;
  `MaxHosts` of two makes lists of no host, of one and of two in either order.

The bounds appear as named constants in guards, so the theorems below hold
for every value of them.

`SubscribedHaveCallback` and `PublicationsFindCallback` are stated for
processes with one user thread, and the run has no other. Two threads of one
process that subscribe to the same topic can break both: the first is refused
because the topic does not exist yet, the second succeeds once it was created,
and then the first wakes up and deletes the callback both share.

### Fairness

`DiscoverySpec`, `Requestor!Spec`, `ClientSpec` (in `TopicClient`),
`ClientPool!Spec` and `FramingSpec` assume weak fairness of the steps of
threads that run by themselves: the servers' loops and the client's IO loop
poll without end, TCP delivers what was sent while the connection is up, and
the operating system runs a thread that has work. `ClientStart!Spec` assumes
strong fairness, because a `std::mutex` is not fair: a thread gets a mutex
that is free again and again. No fairness is assumed of callers, of
registrations, of servers that come and go, or of a connection opening or
closing. `CallsReturn`, `CallsAreSettled` and `CallsProgress` therefore carry
"or the connection is lost": the code has no timeout, and a synchronous call
whose connection goes while it waits waits for ever.

`CHECK_DEADLOCK FALSE` is set where the system may rightly stop: clients whose
connection is gone or that have made their last call (`discovery`,
`requestor`, `topic_client`, `framing`), a client that was destroyed
(`client_start`), a program whose undefined behaviour ends the model
(`client_pool`), the last identifier (`messages`). In `client_threads` stopping
is the question itself, and `StuckOnlyInCallback` says when it may.

### What the violation says

`discovery_stale`. `ServiceDiscovery` replaces the cached hosts by an answer
older than an OFFLINE already applied. The gone host is cached for good: its
OFFLINE has been used up.

### What else the models show

These are behaviours of the code that a reader may not expect. The properties
above are worded so that they hold with them.

* *Two addresses over one connection.* `AddProvider` keeps the address of a
  connection's first registration, `OnServiceRequest` announces the address of
  the current one (`server/RpcRegistry.hpp:38`, `:210-216`).
  `RegistryClient::RegistryMethod(method, host)` lets callers register
  different addresses; `RpcServer` never does. What is listed, what answers
  name and what OFFLINEs name is the first address: `AnswersAreTakenBack` says
  that an address in an answer stays listed or its OFFLINE follows, with several
  addresses too. An address that only an ONLINE named has no such promise: it is
  listed nowhere, and a client that cached it never hears that it is gone.
* *Describes of lost connections.* A describe is erased by `OnResponse` only
  (`client/Requestor.hpp:46`); the loss of the connection leaves it, and its
  promise, for ever. `NoIdleDescribe` is stated while the connection is up.
* *Registered twice, discovered in between.* `RpcServer::RegistryMethod`
  (`server/RpcServer.hpp:75`) does not refuse a method it has registered
  already. `AddProvider` then lists the connection once and its method twice
  (`server/RpcRegistry.hpp:48`, `:52`): a discovery counts it once, and its two
  OFFLINEs remove two entries. With another provider behind the same address, a
  host that still serves disappears from the cache. TLC finds this with
  `MaxMethods = 2` in the instance of `discovery`; `CacheAlwaysFollowsRegistry`
  excludes it by `RegistersOnce`, and `ReturnedHostAlwaysServes` does not need
  to.
* *A client for a gone host.* A host may go offline between `ServiceDiscovery`
  (`client/RpcClient.hpp:162`) and `__PutClient` (`:155`): its `__DelClient` has
  run, and the client stays pooled until the host comes and goes once more.
  `DeadForAReason` says that this, and the time until an OFFLINE arrives, are the
  only reasons for a client in the pool whose connection is gone.
* *Two clients for one host.* Two threads that miss `__GetClient` both connect;
  `emplace` keeps the first, and the second lives as long as the call that made
  it. An asynchronous call through it loses its answer with it. `LostForAReason`
  says that this, and the host's OFFLINE, are the only ways to lose one.
* *Connect returns early.* `OnConnection` counts the latch down before it sets
  `_conn` (`common/Net.hpp:298`), so a call right after `Connect` may find a
  null connection, which `Requestor::Send` does not test. `NullForAReason`.
* *Calls from callbacks.* A callback runs under the dispatcher's lock, which all
  clients share. If it makes a synchronous call it may wait for an answer only
  its own thread could deliver; if it makes a call of any form, an asynchronous
  one included, it may wait for a connection whose IO thread, or for an answer
  of the registry whose IO thread, waits for one of its locks.
  `StuckOnlyInCallback` says that no circle of threads forms without a callback
  that makes a call.
* *Responses and Check.* No handler calls `Check`. If one did, error answers of
  `RpcRouter` (null result) and empty discovery answers would be refused;
  `ReadsBack` says which messages pass.
* *Large frames.* `common/Net.hpp:208` tests the size only while a frame is
  incomplete: a frame above the limit that arrives in one piece is handled.

## 4. The proofs

Every safety property that a passing run checks is also a theorem, and so is
the safety part of every refinement. A theorem holds for all values of the
constants that satisfy the named assumptions of the modules. The assumptions
say what a constant is (bounds are numbers, `NoHost` and `None` are no elements
of the sets they stand beside) and what the code gives: `Conn` and the user
threads are finite sets, a process has at least one thread, a thread's calls
carry its own identifier; the limit and the types of a frame fit the signed
fields, and the strings of one frame are shorter than the 4 GB at which its
length would come around to positive (`FramingAssumption`; a frame above 2 GB,
whose length is negative, is allowed); the counter of identifiers does not wrap
(`MessagesAssumption`: `MaxIds` is below 2^64). Some theorems have a hypothesis
of their own, which they state: `OneAddressEach` (a connection registers at
one address, as `RpcServer`'s does: its peer has one only, or it registers
once, as in `discovery`), `RegistersOnce` (no
connection registers a method twice, as in `discovery`), `OneThreadEach` (a
process has one user thread, as in `topic_client`), and `~ CallbacksCall` (a
user's callbacks make no calls, synchronous or not).

Three things that are defined by recursion are written as recursive functions
(digits, the list a cache becomes, the concatenation of frames), and what they
compute is proved by induction. The library's induction theorems take a
predicate as a parameter, which the provers cannot instantiate; `SetInduction`
is their consequence for a set, *S contains 0 and with n also n + 1, so
it contains every number*, and takes the set of the numbers for which the
statement holds.

### RegistryProofs

*The registry by itself* (`ServerSpec`).

* `IInv` = map types, `IndexesAgree`, `ListedAreConnected`,
  `ProviderHasMethods`. `IndexesAgree` and `ListedAreConnected` need each
  other: `DelProvider` erases through the list only, so a closed connection is
  out of the sets because the indexes agreed, and the next use of the
  connection starts from empty lists because it was unlisted.
  `ProviderHasMethods` (a connection with an address has registered something)
  is needed for the refinement: the directory lets a member choose its address
  only while it has no offer.
* `MapsTypeCorrect`, `IndexesAlwaysAgree`, `ClosedAreUnlisted` follow;
  `RegistryRefinesDirectory` maps each handler to one directory operation or a
  stutter.
* `RegistryTypeCorrect` adds what the queues hold (`QueuesTyped`). The notices of
  a close are the places of `providerMethods` whose method the discoverer is
  listed for, in order; `ShutdownAlwaysNotified` finds in them the place of
  each method.
* `AnswersAlwaysTakenBack`, by cases on the handlers: a new answer names what is
  listed (`IndexesAgree` makes its reader a discoverer of the method), a
  registration changes no address that is stored, so what was listed stays, and
  a close sends the OFFLINE of what it takes off to every discoverer
  (`RequestTakenBack`, `CloseTakenBack`).

*With clients* (`DiscoverySpec`).

* `DInv` = `IInv`, `QueuesTyped`, the stages of each discovery, and two facts about
  each client's queue: its answers belong to its own waiting threads (`Own`),
  and to each thread that waits over an open connection exactly one is due
  (`Due`). `AnswersMeetTheirDiscoveries` follows, and so do the server's
  properties in this composition (`ListingsAgreeWithClients`,
  `ClientsHearOfShutdowns`).
* `ReturnedHostAlwaysServes` is a counting argument. `BInv` says of every list of
  hosts a client has or will have - the cache, the hosts of an answer on its
  way, those of an answer its thread has yet to install - that a host is in
  it no more often than it will be registered once the notifications behind
  it are handled: *entries + ONLINEs to come <= registrations + OFFLINEs to
  come* (`Covered`). It must hold from every place of the queue on
  (`NotesCovered`), because `RemoveHost` on a list without the host drops an
  OFFLINE. A cache that an outdated answer was installed over (`raced`), and
  such an answer itself (`stale`), are excepted: that is the run
  `discovery_stale`. The theorem needs `OneAddressEach`, for the ONLINE and the OFFLINE
  of a registration must name the same host. The registration of a method over one connection counts
  as often as it was made, so the theorem covers repeated registrations and
  several providers behind one address. When no notification about the
  method is on its way, a cached host is registered by someone, and
  `IndexesAgree` says that someone serves.
* The inequality has one direction. `CacheAlwaysFollowsRegistry` needs the
  other, that no live host leaves the cache, and so the balance itself:
  *entries + ONLINEs to come = registrations + OFFLINEs to come* (`Balanced`).
  `EInv` says it of every answer that is on its way or not yet installed, and
  of the cache unless such an answer with hosts is still to be installed over
  it (`Exact`); `ServerTells` shows once, for all handlers of the registry,
  that what a step sends a client makes up exactly for the registrations it
  changes (`Told`). An answer is exact because it lists a connection once
  (`AnswerIsExact`), which is where `RegistersOnce` enters: without it, the
  statement is false (section 3). `ToCome` then applies the queue to the cache,
  one notification after another, by induction; that `RemoveHost` never meets a
  list without the host, and so loses no OFFLINE, is the invariant of the
  inequality again.

### TopicProofs

*The topic server by itself* (`Spec`).

* `IInv` = types, `SubscriptionsAgree`, `SubscriptionsAreLive`. Again inductive
  only together: `TopicCancel` does nothing for a connection without a
  Subscriber, which is right because only those with one are subscribed.
* `TypeCorrect`, `SubscriptionsAlwaysAgree`, `SubscriptionsStayLive`,
  `TopicServerRefinesPubSub` (queues included).

*With clients* (`ClientSpec`), any number of threads per process.

* `CInv` = `IInv`, the stages of each call, answers that belong to the process
  they are sent to, one answer due to each waiting thread. It gives
  `AnswersMeetTheirCalls` (that an answer due stays one, whatever is broadcast in
  between, is what needs the order of broadcast and answer),
  `SubscriptionsAgreeWithClients` and `ClientsRefinePubSub`.
* `OInv` is `CInv` with, for each thread that is alone in its process, the
  agreement of its callbacks with its subscriptions (`HasCallback`), with the
  publications in its queue (`FindsCallback`), of a `Subscribe` under way with
  the callback it stored (`KeepsCallback`), and `EndsForGood`: once a `Cancel` or a
  refused `Subscribe` is answered, no publication of that topic follows the
  answer, so the callback may go. `SingleThreadsStayInStep` needs no hypothesis
  about the other processes; `SubscribedAlwaysHaveCallback` and
  `PublicationsAlwaysFindCallback` are the run's invariants under
  `OneThreadEach`.

### RequestorProofs

* `IInv` ties a thread's program counter to its call, a call to its describe
  and to its request or answer on the wire, and the IO thread's position to the
  describe it has in hand. `AnswerFindsDescribe` and `NoIdleDescribe` are two
  directions of one statement - a describe exists exactly while its answer is to
  come - and neither is inductive without where the IO thread is between its
  three lock regions.
* `TypeCorrect`, `AnswersFindDescribes`, `DescribesAreNeeded`, `OnlyErrorsFail`.

### ClientPoolProofs

* `IInv` = types, `Lives` (a client exists exactly while somebody holds it),
  `Owners` (it is of the host its holder wants), `Kept` (what was pooled and not
  deleted is in the pool), `Room` and `LostForAReason`.
* `ClientsBoundedAlways`: the clients of a host go one to one into the threads.
  A client in a thread's hands goes to that thread; one that only the pool
  holds needs a thread without another client of that host. `Room` says that
  there is one: a thread creates a client of a host only when the pool has
  none, and the thread that wins the race holds the pool's. The bound is
  therefore the number of threads, not one more.
* `LostForAReasonAlways`.
* `DeadForAReasonAlways`: a connection is lost when the host goes, its OFFLINE
  is handled later, and meanwhile a thread may be on its way to the pool with
  such a client. The property is inductive with two more facts (`Reasons`): a
  client in the pool is past its latch; and one that a thread waits for in
  `Connect` is connecting or connected, or the OFFLINE of its host is on its way,
  or the thread was overtaken.

### ClientThreadsProofs

* `IInv` says where each kind of thread may be (`Places`), who has each lock as a
  function of that (`Owners`), who holds which client (`Holders`, `Held`) and for
  whom each message on its way is (`NotesWait`, `InboxWait`).
* `HeldClientsExistAlways`: the counting of `HeldClientsExist` reduced to
  `Held`, its form without counting.
* `StuckOnlyInCallbackAlways`: suppose threads wait for each other and none is in
  a callback that calls. A client's IO thread among them waits for the
  dispatcher's lock, whose owner would be in such a callback or not waiting.
  So only users and the `DiscoveryClient`'s IO thread are left; a user waits for
  that thread, which alone keeps the other locks while it waits; and that
  thread waits only for a client's IO thread. No circle closes.
* `NeverStuckWithoutCalls`: with `CallbacksCall` false no such callback exists,
  and nothing ever waits in a circle.

### ClientStartProofs

* `IInv` = types, where a thread may be (`Places`), who has and holds each mutex
  as a function of where the threads are (`Mutexes`), and the order of
  connection, count and `_conn` (`Stages`).
* `HolderAlwaysOwns`, `LoopAndLatchAreUnused`, `NullOnlyForAReason`, and
  `ConnectPassesOpenGate`, the safety part of the refinement of `Gate`.

### RpcServiceProofs

* `IInv` = types, `Building` (a builder has one description or, between two
  methods, moved-from members, and what was built is the declaration the
  thread is about to register), `Listed` (what the registry lists is in the
  router or about to be), `Served`, `AnswersByContract`.
* `DescribedAsDeclaredAlways`, `AnswersByContractAlways`,
  `NotFoundOnlyWhileRegisteringAlways`. `PlanAssumption` says that a plan is a
  sequence of declarations for each thread.

### WireProofs

*The buffer* (`Spec` of `Buffer`).

* The invariant is `WellFormed` with the header kept free and the size bound;
  each member function is a lemma (what it returns, that it keeps the buffer
  well-formed, what it does to the content), and each action cites one or two.
* `BufferIsWellFormed`, `AssertionsHold` (the `assert`s of `makeSpace` and
  `ensureWritableBytes`), `VectorIsBounded`, `GrowthIsNeeded`,
  `BufferImplementsByteQueue`.

*Integers* (`NetworkInt`).

* `NetworkOrderReadsBack`: for every base and width, reading back what was
  written gives the number modulo the base's power, with its sign; a number that
  fits is read as it was. By induction on the digits (`UnsignedOfInt`), with
  `DivDiv`, that dividing by a product is dividing twice.

*Framing* (`FramingSpec`).

* `FramingInv`: some number n of messages has been decoded (`Decoded`): what was
  handled are the acceptable ones of the first n, and while the connection is
  up the buffer and the wire together are the frames of the others. It also says
  where the loop may be, and `RefusedForAReason`.
* `DecodeFrame`: on a buffer that begins with a whole frame, `Decode` returns its
  message and leaves what follows. `WhenProcessed` says when `CanProcessed` is
  true of a buffer that begins a frame, negative lengths included; with
  `CommonPrefix` (two strings that agree from the beginning of a stream) this
  tells each step of the loop which message it has met. The `Flatten` lemmas
  take one frame off, or put one on, the concatenation.
* `FramingDecodesWhatWasSent`, `ConnectionsAreRefusedForAReason`.

*Messages* (`MessagesSpec`).

* `MessagesInv`: from the sender's last setter to the receiver's getters a body
  has no members but its type's, reads as it was meant to, and passes `Check` if
  it should (`Sound`); the identifiers made are those of the numbers counted, as
  many as there are numbers. Each composing function is a lemma, and `Forward`
  shows that a publication keeps its meaning when the server reads it and sends
  it on.
* `ReceiversReadWhatWasSet`, `IdentifiersAreNew`. The second rests on
  `UuidInjective`, which follows from `UnsignedOfInt`: the bytes of a counter
  tell it.

### Only model-checked

Liveness: `CallsReturn`, `CallsAreSettled`, `CallsProgress`,
`AcceptableAreHandled`, the liveness of `Gate`. The prover has no rule for
fairness with `ENABLED`. Nothing else.

## 5. Not modelled

* Logging, `GetErrorReason` (its text is only logged), and the random half of an
  identifier: `Requestor` takes identifiers as distinct, which `IdsAreNew` shows
  of the half that counts.
* Wrong message types: no client of this library sends a message its receiver
  has no handler for (`Dispatcher` would shut the connection down).
* The position of `ChooseHost`'s round robin: any cached host may be next.
* `~RpcClient`: the order in which its members are destroyed leaves the pool
  dead while the discovery client's IO thread may still deliver an OFFLINE.
* Exceptions: one thrown by a service's callback, or by `isMember` when a caller's
  `params` is neither an object nor null (`server/RpcRouter.hpp:34`; nothing calls
  `RpcRequest::Check`, which would refuse it). What follows is decided in
  muduo's binary library. So are the bodies of `EventLoop`, `TcpClient` and
  `TcpConnection`; they appear as the callbacks and streams the code uses.
* The mutex of a `TcpClient` and the callbacks bound to it
  (`muduo/net/TcpClient.h`): whether a `_client` may be destroyed while the loop
  runs is a question about muduo.
* Frames that no sender of this library makes, such as one with a negative or
  oversized length of its identifier (`common/Net.hpp:73`).
* jsoncpp and spdlog (third-party), demos and tests.
* Half-open connections: a connection closes at both ends in one step, and
  what was on its way over it is lost. That loses no behaviour of a server,
  which never reads its own queue, nor of a client, which may read all it was
  sent before the step.

## 6. Plan

Done: everything in section 2, and the theorems of section 4. What would come
next:

1. `ClientThreads` model-checked with three clients.
2. `TopicClient` with two user threads in one process, once it is settled what
   such a process may rely on.
3. `Discovery` with repeated registrations, once the registry either refuses
   them or sends one OFFLINE for each entry it lists.
4. `~RpcClient`: the order in which its members are destroyed, against the
   discovery client's IO thread.
