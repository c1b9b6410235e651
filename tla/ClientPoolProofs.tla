--------------------------- MODULE ClientPoolProofs ---------------------------
(***************************************************************************)
(* Proofs about ClientPool for any hosts, any finite set of user threads,  *)
(* any number of clients and notifications: no host ever has more clients  *)
(* than there are user threads, the pool loses no call of its own, and it  *)
(* has a reason for every client it keeps whose connection is gone.        *)
(***************************************************************************)
EXTENDS ClientPool, FiniteSetTheorems, TLAPS

USE DEF historyVars

(* Exactly the clients that are held exist.                                *)
Lives ==
  \A c \in Clients :
    /\ Held(c) => obj[c].host \in Hosts
    /\ ~ Held(c) => obj[c] = NoClient

(* With the one client of an RpcClient without discovery there is no pool; *)
(* with discovery, a thread's client and the pool's are of the right host. *)
Owners ==
  /\ fixed # None =>
       /\ \A h \in Hosts : pool[h] = None
       /\ \A t \in Threads : pc[t] \in {"idle", "send", "wait"} /\ client[t] \in {None, fixed}
  /\ fixed = None =>
       \A t \in Threads :
         /\ pc[t] # "idle" => host[t] \in Hosts
         /\ client[t] # None => obj[client[t]].host = host[t]
  /\ \A h \in Hosts : pool[h] # None => obj[pool[h]].host = h

(* A client that was put into the pool and not deleted is in it.           *)
Kept ==
  \A c \in Clients :
    obj[c].kept = "pooled" => obj[c].host \in Hosts /\ pool[obj[c].host] = c

(* While the pool has a client of a host, some thread holds no client of   *)
(* that host beside it: the thread that put it there, and whatever it does *)
(* next, for it creates one of that host only when the pool has none.      *)
Room ==
  \A h \in Hosts : pool[h] # None =>
    \E t \in Threads : client[t] \in {None, pool[h]} \/ host[t] # h

IInv == PoolTypeOK /\ Lives /\ Owners /\ Kept /\ Room /\ LostForAReason

-----------------------------------------------------------------------------

(* A step that lets go of clients: those still held are as the step leaves *)
(* them, the others are gone.                                              *)
LEMMA Released ==
  ASSUME IInv, NEW new \in [Clients -> Client], Release(new),
         pool' \in [Hosts -> Clients \cup {None}],
         \A c \in Clients : Held(c)' => new[c].host \in Hosts,
         \A c \in Clients : new[c].kept = "pooled" => new[c].host \in Hosts /\ pool'[new[c].host] = c
  PROVE  /\ obj' \in [Clients -> Client] /\ orphaned' \subseteq {"own", "pooled", "deleted"}
         /\ \A c \in Clients : Held(c)' => obj'[c] = new[c]
         /\ Lives' /\ Kept' /\ LostForAReason'
<1>1. NoClient \in Client /\ NoClient.kept = "own"
  BY DEF NoClient, Client
<1>2. /\ \A c \in Clients : obj'[c] = IF Held(c)' THEN new[c] ELSE NoClient
      /\ obj' \in [Clients -> Client]
  BY <1>1 DEF Release
<1>3. Lives'
  BY <1>2 DEF Lives
<1>4. Kept'
  BY <1>1, <1>2 DEF Kept
<1>5. orphaned' \subseteq {"own", "pooled", "deleted"}
  <2>1. orphaned \subseteq {"own", "pooled", "deleted"}
    BY DEF IInv, PoolTypeOK
  <2>2. \A c \in Clients : new[c].kept \in {"own", "pooled", "deleted"}
    BY DEF Client
  <2> QED
    BY <2>1, <2>2 DEF Release
<1>6. LostForAReason'
  <2>1. \A c \in Clients : new[c].kept = "pooled" => Held(c)'
    BY DEF Held
  <2> QED
    BY <2>1 DEF Release, IInv, LostForAReason
<1> QED
  BY <1>2, <1>3, <1>4, <1>5, <1>6

(* A step that tells a client something: its host and its place stay.      *)
LEMMA Told ==
  ASSUME IInv, UNCHANGED <<pool, fixed, threadVars, orphaned>>,
         obj' \in [Clients -> Client],
         \A c \in Clients : obj'[c].host = obj[c].host /\ obj'[c].kept = obj[c].kept,
         \A c \in Clients : obj[c] = NoClient => obj'[c] = NoClient
  PROVE  Lives' /\ Owners' /\ Kept' /\ Room' /\ LostForAReason'
<1> USE DEF IInv, threadVars
<1>1. \A c \in Clients : Held(c)' <=> Held(c)
  BY DEF Held
<1>2. Lives'
  BY <1>1 DEF Lives
<1>3. Owners'
  BY DEF Owners, PoolTypeOK
<1>4. Kept' /\ Room' /\ LostForAReason'
  BY DEF Kept, Room, LostForAReason
<1> QED
  BY <1>2, <1>3, <1>4

(* The clients, as records.                                                *)
LEMMA Records ==
  /\ NoClient \in Client /\ NoClient.host = None /\ NoClient.kept = "own" /\ NoClient.conn = "none"
  /\ ~ NoClient.alive /\ ~ NoClient.pending
  /\ \A h \in Hosts : /\ NewClient(h) \in Client /\ NewClient(h) # NoClient
                      /\ NewClient(h).host = h /\ NewClient(h).kept = "own"
BY NoneAssumption DEF NoClient, NewClient, Client

(* A client whose connection changes is a client of the same host.         *)
LEMMA ConnUpdated ==
  ASSUME NEW x \in Client, NEW v \in {"none", "connecting", "latched", "set", "lost"}
  PROVE  LET y == [x EXCEPT !.conn = v] IN y \in Client /\ y.host = x.host /\ y.kept = x.kept
BY DEF Client

(* So is one whose server goes,                                            *)
LEMMA AliveUpdated ==
  ASSUME NEW x \in Client, NEW v \in BOOLEAN
  PROVE  LET y == [x EXCEPT !.alive = v] IN y \in Client /\ y.host = x.host /\ y.kept = x.kept
BY DEF Client

(* one that waits for an answer,                                           *)
LEMMA PendingUpdated ==
  ASSUME NEW x \in Client, NEW v \in BOOLEAN
  PROVE  LET y == [x EXCEPT !.pending = v] IN y \in Client /\ y.host = x.host /\ y.kept = x.kept
BY DEF Client

(* one that is put into the pool or taken out,                             *)
LEMMA KeptUpdated ==
  ASSUME NEW x \in Client, NEW v \in {"own", "pooled", "deleted"}, NEW l \in BOOLEAN
  PROVE  LET y == [x EXCEPT !.kept = v, !.late = l]
         IN  /\ y \in Client /\ y.host = x.host /\ y.kept = v /\ y.late = l
             /\ y.conn = x.conn /\ y.alive = x.alive
BY DEF Client

(* and one that has just been connected.                                   *)
LEMMA LatchUpdated ==
  ASSUME NEW x \in Client
  PROVE  LET y == [x EXCEPT !.conn = "latched", !.alive = TRUE]
         IN  y \in Client /\ y.host = x.host /\ y.kept = x.kept
BY DEF Client

(* No notification is on its way at the beginning.                         *)
LEMMA EmptyQueue == ASSUME NEW S PROVE <<>> \in Seq(S)
OBVIOUS

(* The first notification, and the others.                                 *)
LEMMA Taken ==
  ASSUME notes \in Seq([op : {"ONLINE", "OFFLINE"}, host : Hosts]), notes # <<>>
  PROVE  /\ Tail(notes) \in Seq([op : {"ONLINE", "OFFLINE"}, host : Hosts])
         /\ Head(notes).host \in Hosts
<1> DEFINE N == [op : {"ONLINE", "OFFLINE"}, host : Hosts]
<1>1. \A n \in N : n.host \in Hosts
  OBVIOUS
<1>2. notes \in Seq(N)
  OBVIOUS
<1> HIDE DEF N
<1>3. Tail(notes) \in Seq(N) /\ Head(notes) \in N
  BY <1>2
<1>4. Head(notes).host \in Hosts
  BY <1>1, <1>3
<1> QED
  BY <1>3, <1>4 DEF N

(* At the beginning there is at most the one client of an RpcClient        *)
(* without discovery.                                                      *)
LEMMA InitInvariant == Init => IInv
<1> SUFFICES ASSUME Init PROVE IInv
  OBVIOUS
<1> USE NoneAssumption
<1>1. /\ \/ fixed = None /\ obj = [c \in Clients |-> NoClient]
         \/ \E c \in Clients, h \in Hosts : \E new \in Client :
              /\ fixed = c /\ new.host = h /\ new.kept = "own"
              /\ obj = [d \in Clients |-> IF d = c THEN new ELSE NoClient]
      /\ obj \in [Clients -> Client]
      /\ pool = [h \in Hosts |-> None] /\ client = [t \in Threads |-> None]
      /\ pc = [t \in Threads |-> "idle"] /\ host = [t \in Threads |-> None]
      /\ orphaned = {} /\ overtaken = {}
  <2>1. CASE fixed = None /\ obj = [c \in Clients |-> NoClient]
    BY <2>1, Records DEF Init
  <2>2. ASSUME NEW c \in Clients, NEW h \in up, fixed = c,
               obj = [d \in Clients |->
                 IF d = c THEN [NewClient(h) EXCEPT !.conn = "latched", !.alive = TRUE] ELSE NoClient]
        PROVE  <1>1
    <3> DEFINE new == [NewClient(h) EXCEPT !.conn = "latched", !.alive = TRUE]
    <3>1. h \in Hosts
      BY DEF Init
    <3>2. new \in Client /\ new.host = h /\ new.kept = "own"
      <4>1. NewClient(h) \in Client /\ NewClient(h).host = h /\ NewClient(h).kept = "own"
        BY <3>1, Records
      <4> QED
        BY <4>1, LatchUpdated
    <3>3. obj = [d \in Clients |-> IF d = c THEN new ELSE NoClient]
      BY <2>2
    <3>4. /\ pool = [g \in Hosts |-> None] /\ client = [t \in Threads |-> None]
          /\ pc = [t \in Threads |-> "idle"] /\ host = [t \in Threads |-> None]
          /\ orphaned = {} /\ overtaken = {}
      BY DEF Init
    <3> HIDE DEF new
    <3>5. obj \in [Clients -> Client]
      BY <3>2, <3>3, Records
    <3> QED
      BY <2>2, <3>1, <3>2, <3>3, <3>4, <3>5
  <2> QED
    BY <2>1, <2>2 DEF Init
<1>2. PoolTypeOK
  <2>1. /\ up \subseteq Hosts /\ notes \in Seq([op : {"ONLINE", "OFFLINE"}, host : Hosts])
        /\ cached \subseteq Hosts /\ crashed \in BOOLEAN
    <3>1. up \in SUBSET Hosts /\ cached = up /\ crashed = FALSE /\ notes = <<>>
      BY DEF Init
    <3> QED
      BY <3>1, EmptyQueue
  <2> QED
    BY <1>1, <2>1 DEF PoolTypeOK
<1>3. Lives
  BY <1>1, Records DEF Lives, Held
<1>4. Owners /\ Room
  BY <1>1 DEF Owners, Room
<1>5. Kept /\ LostForAReason
  BY <1>1, Records DEF Kept, LostForAReason
<1> QED
  BY <1>2, <1>3, <1>4, <1>5 DEF IInv

(* A host that comes sends its ONLINE.                                     *)
LEMMA ComesUpPreserves ==
  ASSUME IInv, NEW h \in Hosts, ComesUp(h)
  PROVE  IInv'
<1> USE NoneAssumption DEF ComesUp, threadVars, IInv
<1>1. PoolTypeOK'
  BY DEF PoolTypeOK
<1>2. Lives'
  BY DEF PoolTypeOK, Lives, Held
<1>3. Owners'
  BY DEF Owners
<1>4. Kept'
  BY DEF Kept
<1>5. Room'
  BY DEF Room
<1>6. LostForAReason'
  BY DEF LostForAReason
<1> QED
  BY <1>1, <1>2, <1>3, <1>4, <1>5, <1>6 DEF IInv

(* A host that goes sends its OFFLINE; its clients stay, without a         *)
(* server.                                                                 *)
LEMMA GoesDownPreserves ==
  ASSUME IInv, NEW h \in Hosts, GoesDown(h)
  PROVE  IInv'
<1>1. PoolTypeOK
  BY DEF IInv
<1>a. \A x \in Clients :
        LET new == [obj[x] EXCEPT !.alive = FALSE]
        IN  new \in Client /\ new.host = obj[x].host /\ new.kept = obj[x].kept
  BY <1>1, AliveUpdated DEF PoolTypeOK
<1>2. obj' \in [Clients -> Client]
  BY <1>1, <1>a DEF GoesDown, PoolTypeOK
<1>3. \A x \in Clients : obj'[x].host = obj[x].host /\ obj'[x].kept = obj[x].kept
  BY <1>a DEF GoesDown
<1>4. \A x \in Clients : obj[x] = NoClient => obj'[x] = NoClient
  BY Records, NoneAssumption DEF GoesDown
<1>5. PoolTypeOK'
  <2>1. notes' \in Seq([op : {"ONLINE", "OFFLINE"}, host : Hosts])
    BY <1>1 DEF GoesDown, PoolTypeOK
  <2> QED
    BY <1>1, <1>2, <2>1 DEF GoesDown, PoolTypeOK, threadVars
<1>6. Lives' /\ Owners' /\ Kept' /\ Room' /\ LostForAReason'
  BY <1>2, <1>3, <1>4, Told DEF GoesDown
<1> QED
  BY <1>5, <1>6 DEF IInv

(* An ONLINE enters the host into the cache.                               *)
LEMMA OnlinePreserves ==
  ASSUME IInv, Online
  PROVE  IInv'
<1>1. PoolTypeOK
  BY DEF IInv
<1>2. /\ notes' \in Seq([op : {"ONLINE", "OFFLINE"}, host : Hosts])
      /\ Head(notes).host \in Hosts
  BY <1>1, Taken DEF Online, PoolTypeOK
<1>3. PoolTypeOK'
  BY <1>1, <1>2 DEF Online, PoolTypeOK, threadVars
<1>4. Lives' /\ Owners' /\ Kept' /\ Room' /\ LostForAReason'
  BY <1>1, Told DEF Online, PoolTypeOK
<1> QED
  BY <1>3, <1>4 DEF IInv

(* An OFFLINE erases the host and the pool's client of it, which is gone   *)
(* if nobody else holds it.                                                *)
LEMMA OfflinePreserves ==
  ASSUME IInv, Offline
  PROVE  IInv'
<1> DEFINE h == Head(notes).host
<1> DEFINE new == [c \in Clients |-> IF pool[h] = c THEN [obj[c] EXCEPT !.kept = "deleted", !.late = FALSE]
                              ELSE obj[c]]
<1>1. PoolTypeOK /\ Lives /\ Owners /\ Kept /\ Room
  BY DEF IInv
<1>2. /\ notes' \in Seq([op : {"ONLINE", "OFFLINE"}, host : Hosts])
      /\ h \in Hosts
  BY <1>1, Taken DEF Offline, PoolTypeOK
<1>3. /\ cached' = cached \ {h} /\ pool' = [pool EXCEPT ![h] = None] /\ Release(new)
      /\ UNCHANGED <<up, fixed, pc, host, client, crashed>> /\ overtaken' \subseteq Threads
  BY <1>1 DEF Offline, Bound, PoolTypeOK
<1> HIDE DEF h
<1>4. /\ new \in [Clients -> Client] /\ \A c \in Clients : new[c].host = obj[c].host
      /\ \A c \in Clients : new[c].kept = "pooled" => obj[c].kept = "pooled" /\ pool[h] # c
  BY <1>1, KeptUpdated DEF PoolTypeOK
<1> HIDE DEF new
<1>5. /\ pool' \in [Hosts -> Clients \cup {None}]
      /\ \A g \in Hosts : pool'[g] = IF g = h THEN None ELSE pool[g]
  BY <1>1, <1>2, <1>3 DEF PoolTypeOK
<1>6. \A c \in Clients : Held(c)' => Held(c)
  BY <1>3, <1>5, NoneAssumption DEF Held
<1>7. /\ \A c \in Clients : Held(c)' => new[c].host \in Hosts
      /\ \A c \in Clients : new[c].kept = "pooled" => new[c].host \in Hosts /\ pool'[new[c].host] = c
  BY <1>1, <1>4, <1>5, <1>6 DEF Lives, Kept
<1>8. /\ obj' \in [Clients -> Client] /\ orphaned' \subseteq {"own", "pooled", "deleted"}
      /\ \A c \in Clients : Held(c)' => obj'[c] = new[c]
      /\ Lives' /\ Kept' /\ LostForAReason'
  BY <1>3, <1>4, <1>5, <1>7, Released
<1>9. PoolTypeOK'
  BY <1>1, <1>2, <1>3, <1>5, <1>8 DEF PoolTypeOK
<1>10. Owners'
  <2>1. \A c \in Clients : Held(c)' => obj'[c].host = obj[c].host
    BY <1>4, <1>8
  <2>2. \A g \in Hosts : pool'[g] # None => obj'[pool'[g]].host = g
    <3>1. SUFFICES ASSUME NEW g \in Hosts, pool'[g] # None PROVE obj'[pool'[g]].host = g
      OBVIOUS
    <3>2. pool'[g] = pool[g] /\ pool[g] \in Clients /\ Held(pool[g])'
      BY <1>1, <1>5, <3>1 DEF PoolTypeOK, Held
    <3> QED
      BY <1>1, <2>1, <3>1, <3>2 DEF Owners
  <2>3. \A t \in Threads : client[t] # None => client[t] \in Clients /\ Held(client[t])'
    BY <1>1, <1>3 DEF PoolTypeOK, Held
  <2> QED
    BY <1>1, <1>3, <1>5, <2>1, <2>2, <2>3 DEF Owners
<1>11. Room'
  BY <1>1, <1>3, <1>5 DEF Room
<1> QED
  BY <1>8, <1>9, <1>10, <1>11 DEF IInv

(* The latch is counted down before the connection is set.                 *)
LEMMA ConnectedPreserves ==
  ASSUME IInv, NEW c \in Clients, Connected(c)
  PROVE  IInv'
<1>1. PoolTypeOK
  BY DEF IInv
<1> DEFINE new == [obj[c] EXCEPT !.conn = "latched", !.alive = TRUE]
<1>a. new \in Client /\ new.host = obj[c].host /\ new.kept = obj[c].kept
  BY <1>1, LatchUpdated DEF PoolTypeOK
<1>b. obj' = [obj EXCEPT ![c] = new] /\ obj[c] # NoClient
  BY <1>1, Records, ZenonT(60) DEF Connected, PoolTypeOK
<1> HIDE DEF new
<1>2. obj' \in [Clients -> Client]
  BY <1>1, <1>a, <1>b DEF PoolTypeOK
<1>3. \A x \in Clients : obj'[x].host = obj[x].host /\ obj'[x].kept = obj[x].kept
  BY <1>1, <1>a, <1>b DEF PoolTypeOK
<1>4. \A x \in Clients : obj[x] = NoClient => obj'[x] = NoClient
  BY <1>1, <1>b DEF PoolTypeOK
<1>5. PoolTypeOK'
  BY <1>1, <1>2 DEF Connected, PoolTypeOK, registryVars, threadVars
<1>6. Lives' /\ Owners' /\ Kept' /\ Room' /\ LostForAReason'
  BY <1>2, <1>3, <1>4, Told DEF Connected
<1> QED
  BY <1>5, <1>6 DEF IInv

(* The connection of a client is set.                                      *)
LEMMA SetConnectionPreserves ==
  ASSUME IInv, NEW c \in Clients, SetConnection(c)
  PROVE  IInv'
<1>1. PoolTypeOK
  BY DEF IInv
<1> DEFINE new == [obj[c] EXCEPT !.conn = "set"]
<1>a. new \in Client /\ new.host = obj[c].host /\ new.kept = obj[c].kept
  BY <1>1, ConnUpdated DEF PoolTypeOK
<1>b. obj' = [obj EXCEPT ![c] = new] /\ obj[c] # NoClient
  BY <1>1, Records DEF SetConnection, PoolTypeOK
<1> HIDE DEF new
<1>2. obj' \in [Clients -> Client]
  BY <1>1, <1>a, <1>b DEF PoolTypeOK
<1>3. \A x \in Clients : obj'[x].host = obj[x].host /\ obj'[x].kept = obj[x].kept
  BY <1>1, <1>a, <1>b DEF PoolTypeOK
<1>4. \A x \in Clients : obj[x] = NoClient => obj'[x] = NoClient
  BY <1>1, <1>b DEF PoolTypeOK
<1>5. PoolTypeOK'
  BY <1>1, <1>2 DEF SetConnection, PoolTypeOK, registryVars, threadVars
<1>6. Lives' /\ Owners' /\ Kept' /\ Room' /\ LostForAReason'
  BY <1>2, <1>3, <1>4, Told DEF SetConnection
<1> QED
  BY <1>5, <1>6 DEF IInv

(* A connection that goes down leaves its client where it is.              *)
LEMMA DisconnectedPreserves ==
  ASSUME IInv, NEW c \in Clients, Disconnected(c)
  PROVE  IInv'
<1>1. PoolTypeOK
  BY DEF IInv
<1> DEFINE new == [obj[c] EXCEPT !.conn = "lost"]
<1>a. new \in Client /\ new.host = obj[c].host /\ new.kept = obj[c].kept
  BY <1>1, ConnUpdated DEF PoolTypeOK
<1>b. obj' = [obj EXCEPT ![c] = new] /\ obj[c] # NoClient
  BY <1>1, Records DEF Disconnected, PoolTypeOK
<1> HIDE DEF new
<1>2. obj' \in [Clients -> Client]
  BY <1>1, <1>a, <1>b DEF PoolTypeOK
<1>3. \A x \in Clients : obj'[x].host = obj[x].host /\ obj'[x].kept = obj[x].kept
  BY <1>1, <1>a, <1>b DEF PoolTypeOK
<1>4. \A x \in Clients : obj[x] = NoClient => obj'[x] = NoClient
  BY <1>1, <1>b DEF PoolTypeOK
<1>5. PoolTypeOK'
  BY <1>1, <1>2 DEF Disconnected, PoolTypeOK, registryVars, threadVars
<1>6. Lives' /\ Owners' /\ Kept' /\ Room' /\ LostForAReason'
  BY <1>2, <1>3, <1>4, Told DEF Disconnected
<1> QED
  BY <1>5, <1>6 DEF IInv

(* The answer to asynchronous calls comes while the client exists.         *)
LEMMA AnswerAsyncPreserves ==
  ASSUME IInv, NEW c \in Clients, AnswerAsync(c)
  PROVE  IInv'
<1>1. PoolTypeOK
  BY DEF IInv
<1> DEFINE new == [obj[c] EXCEPT !.pending = FALSE]
<1>a. new \in Client /\ new.host = obj[c].host /\ new.kept = obj[c].kept
  BY <1>1, PendingUpdated DEF PoolTypeOK
<1>b. obj' = [obj EXCEPT ![c] = new] /\ obj[c] # NoClient
  BY <1>1, Records DEF AnswerAsync, PoolTypeOK
<1> HIDE DEF new
<1>2. obj' \in [Clients -> Client]
  BY <1>1, <1>a, <1>b DEF PoolTypeOK
<1>3. \A x \in Clients : obj'[x].host = obj[x].host /\ obj'[x].kept = obj[x].kept
  BY <1>1, <1>a, <1>b DEF PoolTypeOK
<1>4. \A x \in Clients : obj[x] = NoClient => obj'[x] = NoClient
  BY <1>1, <1>b DEF PoolTypeOK
<1>5. PoolTypeOK'
  BY <1>1, <1>2 DEF AnswerAsync, PoolTypeOK, registryVars, threadVars
<1>6. Lives' /\ Owners' /\ Kept' /\ Room' /\ LostForAReason'
  BY <1>2, <1>3, <1>4, Told DEF AnswerAsync
<1> QED
  BY <1>5, <1>6 DEF IInv

(* The answer to a synchronous call comes, and the thread lets its client  *)
(* go.                                                                     *)
LEMMA AnswerSyncPreserves ==
  ASSUME IInv, NEW t \in Threads, AnswerSync(t)
  PROVE  IInv'
<1> DEFINE new == obj
<1>1. PoolTypeOK /\ Lives /\ Owners /\ Kept /\ Room
  BY DEF IInv
<1>c. client[t] \in Clients
  BY <1>1 DEF AnswerSync, PoolTypeOK
<1>2. /\ pc' = [pc EXCEPT ![t] = "idle"] /\ host' = [host EXCEPT ![t] = None]
      /\ client' = [client EXCEPT ![t] = None] /\ Release(new)
      /\ UNCHANGED <<registryVars, pool, fixed, overtaken, crashed>>
  BY DEF AnswerSync
<1>3. /\ new \in [Clients -> Client]
      /\ \A c \in Clients : new[c].host = obj[c].host /\ new[c].kept = obj[c].kept
  BY <1>1 DEF PoolTypeOK
<1> HIDE DEF new
<1>4. /\ client' \in [Threads -> Clients \cup {None}]
      /\ pc' \in [Threads -> {"idle", "get", "connect", "send", "wait"}]
      /\ host' \in [Threads -> Hosts \cup {None}]
      /\ \A u \in Threads : /\ client'[u] = IF u = t THEN None ELSE client[u]
                            /\ pc'[u] = IF u = t THEN "idle" ELSE pc[u]
                            /\ host'[u] = IF u = t THEN None ELSE host[u]
  <2>1. /\ client' \in [Threads -> Clients \cup {None}]
        /\ \A u \in Threads : client'[u] = IF u = t THEN None ELSE client[u]
    BY <1>1, <1>2 DEF PoolTypeOK
  <2>2. /\ pc' \in [Threads -> {"idle", "get", "connect", "send", "wait"}]
        /\ \A u \in Threads : pc'[u] = IF u = t THEN "idle" ELSE pc[u]
    BY <1>1, <1>2 DEF PoolTypeOK
  <2>3. /\ host' \in [Threads -> Hosts \cup {None}]
        /\ \A u \in Threads : host'[u] = IF u = t THEN None ELSE host[u]
    BY <1>1, <1>2 DEF PoolTypeOK
  <2> QED
    BY <2>1, <2>2, <2>3
<1>5. \A c \in Clients : Held(c)' => Held(c)
  BY <1>2, <1>4, NoneAssumption DEF Held
<1>6. /\ \A c \in Clients : Held(c)' => new[c].host \in Hosts
      /\ \A c \in Clients : new[c].kept = "pooled" => new[c].host \in Hosts /\ pool'[new[c].host] = c
      /\ pool' \in [Hosts -> Clients \cup {None}]
  BY <1>1, <1>2, <1>3, <1>5 DEF Lives, Kept, PoolTypeOK
<1>7. /\ obj' \in [Clients -> Client] /\ orphaned' \subseteq {"own", "pooled", "deleted"}
      /\ \A c \in Clients : Held(c)' => obj'[c].host = obj[c].host
      /\ Lives' /\ Kept' /\ LostForAReason'
  BY <1>2, <1>3, <1>6, Released
<1>8. PoolTypeOK'
  <2>1. \A u \in Threads : client'[u] = None <=> pc'[u] \in {"idle", "get"}
    BY <1>1, <1>4 DEF PoolTypeOK
  <2> QED
    BY <1>1, <1>2, <1>4, <1>6, <1>7, <2>1 DEF PoolTypeOK, registryVars
<1>9. Owners'
  <2>1. \A g \in Hosts : pool'[g] # None => obj'[pool'[g]].host = g
    <3>1. SUFFICES ASSUME NEW g \in Hosts, pool'[g] # None PROVE obj'[pool'[g]].host = g
      OBVIOUS
    <3>2. pool'[g] = pool[g] /\ pool[g] \in Clients /\ Held(pool[g])'
      BY <1>1, <1>2, <3>1 DEF PoolTypeOK, Held
    <3> QED
      BY <1>1, <1>7, <3>1, <3>2 DEF Owners
  <2>2. \A u \in Threads : client'[u] # None =>
          client'[u] = client[u] /\ client[u] \in Clients /\ Held(client[u])'
    BY <1>1, <1>4 DEF PoolTypeOK, Held
  <2> QED
    BY <1>1, <1>2, <1>4, <1>7, <2>1, <2>2 DEF Owners
<1>10. Room'
  BY <1>1, <1>2, <1>4 DEF Room
<1> QED
  BY <1>7, <1>8, <1>9, <1>10 DEF IInv

(* Without discovery a thread uses the one client there is.                *)
LEMMA UseFixedPreserves ==
  ASSUME IInv, NEW t \in Threads, UseFixed(t)
  PROVE  IInv'
<1> USE NoneAssumption DEF UseFixed, registryVars, IInv
<1>1. PoolTypeOK'
  BY DEF PoolTypeOK
<1>2. Lives'
  BY DEF PoolTypeOK, Lives, Held
<1>3. Owners'
  BY DEF Owners
<1>4. Kept'
  BY DEF Kept
<1>5. Room'
  BY DEF PoolTypeOK, Owners, Room
<1>6. LostForAReason'
  BY DEF LostForAReason
<1> QED
  BY <1>1, <1>2, <1>3, <1>4, <1>5, <1>6 DEF IInv

(* A thread has a host, and no client yet.                                 *)
LEMMA DiscoverPreserves ==
  ASSUME IInv, NEW t \in Threads, NEW h \in Hosts, Discover(t, h)
  PROVE  IInv'
<1> USE NoneAssumption DEF Discover, registryVars, IInv
<1>1. PoolTypeOK'
  BY DEF PoolTypeOK
<1>2. Lives'
  BY DEF PoolTypeOK, Lives, Held
<1>3. Owners'
  BY DEF PoolTypeOK, Owners
<1>4. Kept'
  BY DEF Kept
<1>5. Room'
  BY DEF PoolTypeOK, Room
<1>6. LostForAReason'
  BY DEF LostForAReason
<1> QED
  BY <1>1, <1>2, <1>3, <1>4, <1>5, <1>6 DEF IInv

(* A thread that finds a client in the pool holds it beside the pool.      *)
LEMMA GetClientPreserves ==
  ASSUME IInv, NEW t \in Threads, GetClient(t)
  PROVE  IInv'
<1> USE NoneAssumption DEF GetClient, registryVars, IInv
<1>1. PoolTypeOK'
  BY DEF PoolTypeOK, Owners
<1>2. Lives'
  BY DEF PoolTypeOK, Lives, Held, Owners
<1>3. Owners'
  BY DEF Owners
<1>4. Kept'
  BY DEF Kept
<1>5. Room'
  BY DEF Room
<1>6. LostForAReason'
  BY DEF LostForAReason
<1> QED
  BY <1>1, <1>2, <1>3, <1>4, <1>5, <1>6 DEF IInv

(* A thread that finds none creates one: the pool has none of that host,   *)
(* so there is room.                                                       *)
LEMMA CreateClientPreserves ==
  ASSUME IInv, NEW t \in Threads, CreateClient(t)
  PROVE  IInv'
<1>1. PoolTypeOK /\ Lives /\ Owners /\ Kept /\ Room /\ LostForAReason
  BY DEF IInv
<1>2. PICK c \in Clients : /\ obj[c] = NoClient /\ obj' = [obj EXCEPT ![c] = NewClient(host[t])]
                         /\ client' = [client EXCEPT ![t] = c]
  BY DEF CreateClient, Exists
<1>3. /\ pc[t] = "get" /\ pc' = [pc EXCEPT ![t] = "connect"]
      /\ UNCHANGED <<registryVars, pool, fixed, host, historyVars, crashed>>
      /\ pool[host[t]] = None
  BY DEF CreateClient
<1>4. fixed = None /\ host[t] \in Hosts /\ client[t] = None
  BY <1>1, <1>3 DEF Owners, PoolTypeOK
<1> DEFINE new == NewClient(host[t])
<1>5. new \in Client /\ new.host = host[t] /\ new.kept = "own"
  BY <1>4, Records
<1> HIDE DEF new
<1>6. /\ obj' \in [Clients -> Client]
      /\ \A d \in Clients : obj'[d] = IF d = c THEN new ELSE obj[d]
      /\ client' \in [Threads -> Clients \cup {None}]
      /\ \A u \in Threads : client'[u] = IF u = t THEN c ELSE client[u]
  BY <1>1, <1>2, <1>5 DEF PoolTypeOK, new
<1>7. ~ Held(c)
  BY <1>1, <1>2, Records, NoneAssumption DEF Lives
<1>8. PoolTypeOK'
  <2>1. /\ pc' \in [Threads -> {"idle", "get", "connect", "send", "wait"}]
        /\ \A u \in Threads : pc'[u] = IF u = t THEN "connect" ELSE pc[u]
    BY <1>1, <1>3 DEF PoolTypeOK
  <2>2. \A u \in Threads : client'[u] = None <=> pc'[u] \in {"idle", "get"}
    BY <1>1, <1>6, <2>1, NoneAssumption DEF PoolTypeOK
  <2> QED
    BY <1>1, <1>3, <1>6, <2>1, <2>2 DEF PoolTypeOK, registryVars
<1>9. Lives'
  <2>1. \A d \in Clients : Held(d)' <=> Held(d) \/ d = c
    BY <1>3, <1>4, <1>6, NoneAssumption DEF Held
  <2> QED
    BY <1>1, <1>4, <1>5, <1>6, <1>7, <2>1 DEF Lives
<1>10. Owners'
  <2>1. /\ \A h \in Hosts : pool[h] # c
        /\ \A u \in Threads : client[u] # c
    BY <1>7 DEF Held
  <2> QED
    BY <1>1, <1>3, <1>4, <1>5, <1>6, <2>1 DEF Owners, PoolTypeOK
<1>11. Kept'
  BY <1>1, <1>2, <1>3, <1>5, <1>6 DEF Kept
<1>12. Room'
  BY <1>1, <1>3, <1>6 DEF Room
<1> QED
  BY <1>1, <1>3, <1>8, <1>9, <1>10, <1>11, <1>12 DEF IInv, LostForAReason

(* The first thread's client goes into the pool, and the thread is the     *)
(* one without another.                                                    *)
LEMMA PutClientPreserves ==
  ASSUME IInv, NEW t \in Threads, PutClient(t)
  PROVE  IInv'
<1>1. PoolTypeOK /\ Lives /\ Owners /\ Kept /\ Room /\ LostForAReason
  BY DEF IInv
<1> DEFINE c == client[t]
<1>2. /\ pc[t] = "connect" /\ pc' = [pc EXCEPT ![t] = "send"]
      /\ UNCHANGED <<registryVars, fixed, host, client, orphaned, crashed>>
      /\ overtaken' = overtaken \ {t}
      /\ IF pool[host[t]] = None
         THEN /\ pool' = [pool EXCEPT ![host[t]] = c]
              /\ obj' = [obj EXCEPT ![c].kept = "pooled", ![c].late = t \in overtaken]
         ELSE UNCHANGED <<pool, obj>>
  BY DEF PutClient
<1>3. fixed = None /\ host[t] \in Hosts /\ c \in Clients /\ obj[c].host = host[t]
  BY <1>1, <1>2 DEF Owners, PoolTypeOK
<1>4. CASE pool[host[t]] # None
  BY <1>1, <1>2, <1>3, <1>4 DEF IInv, PoolTypeOK, Lives, Owners, Kept, Room, LostForAReason, Held,
     registryVars
<1>5. CASE pool[host[t]] = None
  <2>1. /\ pool' \in [Hosts -> Clients \cup {None}]
        /\ \A h \in Hosts : pool'[h] = IF h = host[t] THEN c ELSE pool[h]
    BY <1>1, <1>2, <1>3, <1>5 DEF PoolTypeOK
  <2>2. /\ obj' \in [Clients -> Client] /\ \A d \in Clients : obj'[d].host = obj[d].host
        /\ \A d \in Clients \ {c} : obj'[d] = obj[d]
    <3> DEFINE new == [obj[c] EXCEPT !.kept = "pooled", !.late = t \in overtaken]
    <3>1. obj' = [obj EXCEPT ![c] = new]
      BY <1>1, <1>2, <1>5 DEF PoolTypeOK
    <3>2. \E l \in BOOLEAN : l = (t \in overtaken)
      <4>1. CASE t \in overtaken
        <5>1. (t \in overtaken) = TRUE
          BY <4>1
        <5> QED
          BY <5>1
      <4>2. CASE t \notin overtaken
        <5>1. (t \in overtaken) = FALSE
          BY <4>2
        <5> QED
          BY <5>1
      <4> QED
        BY <4>1, <4>2
    <3>3. obj[c] \in Client
      BY <1>1, <1>3 DEF PoolTypeOK
    <3>4. new \in Client /\ new.host = obj[c].host
      <4>1. PICK l \in BOOLEAN : l = (t \in overtaken)
        BY <3>2
      <4>2. new = [obj[c] EXCEPT !.kept = "pooled", !.late = l]
        BY <4>1
      <4> HIDE DEF c, new
      <4> QED
        BY <3>3, <4>2, KeptUpdated
    <3> HIDE DEF c, new
    <3> QED
      BY <1>1, <1>3, <3>1, <3>4 DEF PoolTypeOK
  <2> HIDE DEF c
  <2>3. PoolTypeOK'
    BY <1>1, <1>2, <2>1, <2>2 DEF PoolTypeOK, registryVars
  <2>4. Lives'
    <3>1. Held(c) /\ \A d \in Clients : Held(d)' <=> Held(d)
      BY <1>2, <1>3, <1>5, <2>1, NoneAssumption DEF Held, c
    <3> QED
      BY <1>1, <2>2, <3>1 DEF Lives
  <2>5. Owners'
    BY <1>1, <1>2, <1>3, <2>1, <2>2 DEF Owners, PoolTypeOK
  <2>6. Kept'
    BY <1>1, <1>3, <1>5, <2>1, <2>2, NoneAssumption DEF Kept, c
  <2>7. Room'
    BY <1>1, <1>2, <1>3, <2>1 DEF Room, c
  <2> QED
    BY <1>1, <1>2, <2>3, <2>4, <2>5, <2>6, <2>7 DEF IInv, LostForAReason
<1> QED
  BY <1>4, <1>5

(* After the dereference of a null connection nothing happens any more.    *)
LEMMA NullConnectionPreserves ==
  ASSUME IInv, NEW t \in Threads, NullConnection(t)
  PROVE  IInv'
<1> USE NoneAssumption DEF NullConnection, registryVars, threadVars, IInv
<1>1. PoolTypeOK'
  BY DEF PoolTypeOK
<1>2. Lives'
  BY DEF PoolTypeOK, Lives, Held
<1>3. Owners'
  BY DEF Owners
<1>4. Kept'
  BY DEF Kept
<1>5. Room'
  BY DEF Room
<1>6. LostForAReason'
  BY DEF LostForAReason
<1> QED
  BY <1>1, <1>2, <1>3, <1>4, <1>5, <1>6 DEF IInv

(* A synchronous call waits with its client in hand.                       *)
LEMMA CallSyncPreserves ==
  ASSUME IInv, NEW t \in Threads, CallSync(t)
  PROVE  IInv'
<1> USE NoneAssumption DEF CallSync, registryVars, IInv
<1>1. PoolTypeOK'
  BY DEF PoolTypeOK
<1>2. Lives'
  BY DEF PoolTypeOK, Lives, Held
<1>3. Owners'
  BY DEF Owners
<1>4. Kept'
  BY DEF Kept
<1>5. Room'
  BY DEF Room
<1>6. LostForAReason'
  BY DEF LostForAReason
<1> QED
  BY <1>1, <1>2, <1>3, <1>4, <1>5, <1>6 DEF IInv

(* An asynchronous call returns and lets its client go: the pool keeps     *)
(* it, or it is gone with its answer.                                      *)
LEMMA CallAsyncPreserves ==
  ASSUME IInv, NEW t \in Threads, CallAsync(t)
  PROVE  IInv'
<1> DEFINE new == [obj EXCEPT ![client[t]].pending = TRUE]
<1>1. PoolTypeOK /\ Lives /\ Owners /\ Kept /\ Room
  BY DEF IInv
<1>c. client[t] \in Clients
  BY <1>1 DEF CallAsync, PoolTypeOK
<1>2. /\ pc' = [pc EXCEPT ![t] = "idle"] /\ host' = [host EXCEPT ![t] = None]
      /\ client' = [client EXCEPT ![t] = None] /\ Release(new)
      /\ UNCHANGED <<registryVars, pool, fixed, overtaken, crashed>>
  BY DEF CallAsync
<1>3. /\ new \in [Clients -> Client]
      /\ \A c \in Clients : new[c].host = obj[c].host /\ new[c].kept = obj[c].kept
  <2>1. [obj[client[t]] EXCEPT !.pending = TRUE] \in Client
        /\ [obj[client[t]] EXCEPT !.pending = TRUE].host = obj[client[t]].host
        /\ [obj[client[t]] EXCEPT !.pending = TRUE].kept = obj[client[t]].kept
    BY <1>1, <1>c, PendingUpdated DEF PoolTypeOK
  <2>2. new = [obj EXCEPT ![client[t]] = [obj[client[t]] EXCEPT !.pending = TRUE]]
    BY <1>1, <1>c DEF PoolTypeOK
  <2> HIDE DEF new
  <2> QED
    BY <1>1, <1>c, <2>1, <2>2 DEF PoolTypeOK
<1> HIDE DEF new
<1>4. /\ client' \in [Threads -> Clients \cup {None}]
      /\ pc' \in [Threads -> {"idle", "get", "connect", "send", "wait"}]
      /\ host' \in [Threads -> Hosts \cup {None}]
      /\ \A u \in Threads : /\ client'[u] = IF u = t THEN None ELSE client[u]
                            /\ pc'[u] = IF u = t THEN "idle" ELSE pc[u]
                            /\ host'[u] = IF u = t THEN None ELSE host[u]
  <2>1. /\ client' \in [Threads -> Clients \cup {None}]
        /\ \A u \in Threads : client'[u] = IF u = t THEN None ELSE client[u]
    BY <1>1, <1>2 DEF PoolTypeOK
  <2>2. /\ pc' \in [Threads -> {"idle", "get", "connect", "send", "wait"}]
        /\ \A u \in Threads : pc'[u] = IF u = t THEN "idle" ELSE pc[u]
    BY <1>1, <1>2 DEF PoolTypeOK
  <2>3. /\ host' \in [Threads -> Hosts \cup {None}]
        /\ \A u \in Threads : host'[u] = IF u = t THEN None ELSE host[u]
    BY <1>1, <1>2 DEF PoolTypeOK
  <2> QED
    BY <2>1, <2>2, <2>3
<1>5. \A c \in Clients : Held(c)' => Held(c)
  BY <1>2, <1>4, NoneAssumption DEF Held
<1>6. /\ \A c \in Clients : Held(c)' => new[c].host \in Hosts
      /\ \A c \in Clients : new[c].kept = "pooled" => new[c].host \in Hosts /\ pool'[new[c].host] = c
      /\ pool' \in [Hosts -> Clients \cup {None}]
  BY <1>1, <1>2, <1>3, <1>5 DEF Lives, Kept, PoolTypeOK
<1>7. /\ obj' \in [Clients -> Client] /\ orphaned' \subseteq {"own", "pooled", "deleted"}
      /\ \A c \in Clients : Held(c)' => obj'[c].host = obj[c].host
      /\ Lives' /\ Kept' /\ LostForAReason'
  BY <1>2, <1>3, <1>6, Released
<1>8. PoolTypeOK'
  <2>1. \A u \in Threads : client'[u] = None <=> pc'[u] \in {"idle", "get"}
    BY <1>1, <1>4 DEF PoolTypeOK
  <2> QED
    BY <1>1, <1>2, <1>4, <1>6, <1>7, <2>1 DEF PoolTypeOK, registryVars
<1>9. Owners'
  <2>1. \A g \in Hosts : pool'[g] # None => obj'[pool'[g]].host = g
    <3>1. SUFFICES ASSUME NEW g \in Hosts, pool'[g] # None PROVE obj'[pool'[g]].host = g
      OBVIOUS
    <3>2. pool'[g] = pool[g] /\ pool[g] \in Clients /\ Held(pool[g])'
      BY <1>1, <1>2, <3>1 DEF PoolTypeOK, Held
    <3> QED
      BY <1>1, <1>7, <3>1, <3>2 DEF Owners
  <2>2. \A u \in Threads : client'[u] # None =>
          client'[u] = client[u] /\ client[u] \in Clients /\ Held(client[u])'
    BY <1>1, <1>4 DEF PoolTypeOK, Held
  <2> QED
    BY <1>1, <1>2, <1>4, <1>7, <2>1, <2>2 DEF Owners
<1>10. Room'
  BY <1>1, <1>2, <1>4 DEF Room
<1> QED
  BY <1>7, <1>8, <1>9, <1>10 DEF IInv

(* Every step of threads, clients, hosts and notifications keeps the       *)
(* invariant.                                                              *)
LEMMA NextPreserves ==
  ASSUME IInv, [Next]_vars
  PROVE  IInv'
<1>1. CASE UNCHANGED vars
  BY <1>1 DEF vars, registryVars, threadVars, IInv, PoolTypeOK, Lives, Owners, Kept, Room,
     LostForAReason, Held
<1>2. ASSUME NEW h \in Hosts, ComesUp(h) \/ GoesDown(h)
      PROVE  IInv'
  BY <1>2, ComesUpPreserves, GoesDownPreserves
<1>3. CASE Notified
  BY <1>3, OnlinePreserves, OfflinePreserves DEF Notified
<1>4. ASSUME NEW c \in Clients, ClientIO(c)
      PROVE  IInv'
  BY <1>4, ConnectedPreserves, SetConnectionPreserves, DisconnectedPreserves, AnswerAsyncPreserves
     DEF ClientIO
<1>5. ASSUME NEW t \in Threads,
             UserStep(t) \/ UseFixed(t) \/ \E h \in Hosts : Discover(t, h)
      PROVE  IInv'
  BY <1>5, GetClientPreserves, CreateClientPreserves, PutClientPreserves, NullConnectionPreserves,
     CallSyncPreserves, CallAsyncPreserves, AnswerSyncPreserves, UseFixedPreserves,
     DiscoverPreserves DEF UserStep
<1> QED
  BY <1>1, <1>2, <1>3, <1>4, <1>5 DEF Next

-----------------------------------------------------------------------------

(* The invariant: exactly the clients that are held exist, each of the     *)
(* right host, and while the pool has one there is a thread without an own.*)
THEOREM InvariantHolds == Spec => []IInv
<1>1. IInv /\ [Next]_vars => IInv'
  BY NextPreserves
<1> QED
  BY <1>1, InitInvariant, PTL DEF Spec

(* The clients of a host go one to one into the user threads: a client     *)
(* that threads hold to one of them, one that only the pool holds to a     *)
(* thread that has no other.                                               *)
LEMMA OneThreadEach ==
  ASSUME IInv, NEW h \in Hosts
  PROVE  LET S == {c \in Clients : obj[c].host = h}
         IN  \E f \in [S -> Threads] : \A c, d \in S : f[c] = f[d] => c = d
<1> DEFINE S == {c \in Clients : obj[c].host = h}
<1>i. PoolTypeOK /\ Lives /\ Owners /\ Room
  BY DEF IInv
<1>1. \A c \in S : c \in Clients /\ obj[c].host = h /\ c # None /\ Held(c)
  BY <1>i, Records, NoneAssumption DEF Lives
<1>2. CASE fixed # None
  <2>1. \A c \in S : c = fixed
    BY <1>i, <1>1, <1>2 DEF Held, Owners
  <2>2. PICK t \in Threads : TRUE
    BY ThreadsAssumption
  <2> DEFINE f == [c \in S |-> t]
  <2>3. f \in [S -> Threads] /\ \A c, d \in S : f[c] = f[d] => c = d
    BY <2>1
  <2> QED
    BY <2>3
<1>3. CASE fixed = None
  <2>1. PICK w \in Threads : pool[h] # None => client[w] \in {None, pool[h]} \/ host[w] # h
    BY <1>i, ThreadsAssumption DEF Room
  <2> DEFINE f == [c \in S |->
         IF \E t \in Threads : client[t] = c THEN CHOOSE t \in Threads : client[t] = c ELSE w]
  <2>2. f \in [S -> Threads]
    OBVIOUS
  <2>3. \A c \in S : (\E t \in Threads : client[t] = c) => client[f[c]] = c
    OBVIOUS
  <2>4. \A c \in S : ~ (\E t \in Threads : client[t] = c) => f[c] = w /\ pool[h] = c
    <3>1. \A c \in S : ~ (\E t \in Threads : client[t] = c) => \E g \in Hosts : pool[g] = c
      BY <1>1, <1>3 DEF Held
    <3>2. \A c \in S, g \in Hosts : pool[g] = c => g = h
      BY <1>i, <1>1 DEF Owners
    <3> QED
      BY <3>1, <3>2
  <2>5. \A c \in S : client[w] = c => pool[h] = None \/ pool[h] = c
    BY <1>i, <1>1, <1>3, <2>1 DEF Owners
  <2> HIDE DEF f
  <2>6. ASSUME NEW c \in S, NEW d \in S, f[c] = f[d]
        PROVE  c = d
    <3>1. CASE (\E t \in Threads : client[t] = c) /\ (\E t \in Threads : client[t] = d)
      BY <2>3, <2>6, <3>1
    <3>2. CASE ~ (\E t \in Threads : client[t] = c)
      BY <1>1, <2>3, <2>4, <2>5, <2>6, <3>2
    <3>3. CASE ~ (\E t \in Threads : client[t] = d)
      BY <1>1, <2>3, <2>4, <2>5, <2>6, <3>3
    <3> QED
      BY <3>1, <3>2, <3>3
  <2> QED
    BY <2>2, <2>6
<1> QED
  BY <1>2, <1>3

(* No host ever has more clients than there are user threads, however the  *)
(* threads race for the pool while the host comes and goes.                *)
THEOREM ClientsBoundedAlways == Spec => []ClientsBounded
<1>1. ASSUME IInv, NEW h \in Hosts
      PROVE  Cardinality({c \in Clients : obj[c].host = h}) <= Cardinality(Threads)
  <2> DEFINE S == {c \in Clients : obj[c].host = h}
  <2>1. PICK f \in [S -> Threads] : \A c, d \in S : f[c] = f[d] => c = d
    BY <1>1, OneThreadEach
  <2>2. f \in Injection(S, Threads)
    BY <2>1 DEF Injection, IsInjective
  <2> QED
    BY <2>2, FS_Injection, ThreadsAssumption
<1>2. IInv => ClientsBounded
  BY <1>1 DEF IInv, ClientsBounded
<1> QED
  BY <1>2, InvariantHolds, PTL

(* A client that is destroyed under a call that waits for its answer, while*)
(* its server would still give one, is not one that the pool holds.        *)
THEOREM LostForAReasonAlways == Spec => []LostForAReason
<1>1. IInv => LostForAReason
  BY DEF IInv
<1> QED
  BY <1>1, InvariantHolds, PTL

-----------------------------------------------------------------------------

(* A client in the pool is past its latch, and one that a thread is about  *)
(* to put there and whose connection is already gone again is about to be  *)
(* deleted, or the thread is overtaken.                                    *)
Reasons ==
  /\ DeadForAReason
  /\ \A h \in Hosts : pool[h] # None => obj[pool[h]].conn # "connecting"
  /\ \A t \in Threads, h \in Hosts : pc[t] = "connect" /\ host[t] = h =>
       \/ obj[client[t]].conn = "connecting" \/ obj[client[t]].alive
       \/ OfflineComing(h) \/ t \in overtaken

(* A step does not take the connection of a client, nor what it says of    *)
(* the thread that put it into the pool.                                   *)
Spared(c) ==
  /\ obj[c].alive => obj'[c].alive
  /\ obj[c].late => obj'[c].late
  /\ obj[c].conn # "connecting" => obj'[c].conn # "connecting"
  /\ obj[c].conn = "connecting" => obj'[c].conn = "connecting" \/ obj'[c].alive

(* Such a step, when it handles no OFFLINE and brings no client to the     *)
(* pool or to a waiting thread, leaves the reasons.                        *)
LEMMA ReasonsStay ==
  ASSUME Reasons,
         \A h \in Hosts : OfflineComing(h) => OfflineComing(h)',
         \A h \in Hosts : pool'[h] # None => pool'[h] = pool[h] /\ Spared(pool[h]),
         \A t \in Threads : pc'[t] = "connect" =>
           /\ pc[t] = "connect" /\ client'[t] = client[t] /\ host'[t] = host[t] /\ host[t] \in Hosts
           /\ Spared(client[t])
           /\ t \in overtaken => t \in overtaken'
  PROVE  Reasons'
<1>1. DeadForAReason'
  BY DEF Reasons, DeadForAReason, Spared
<1>2. \A h \in Hosts : pool'[h] # None => obj'[pool'[h]].conn # "connecting"
  BY DEF Reasons, Spared
<1>3. \A t \in Threads, h \in Hosts : pc'[t] = "connect" /\ host'[t] = h =>
        \/ obj'[client'[t]].conn = "connecting" \/ obj'[client'[t]].alive
        \/ OfflineComing(h)' \/ t \in overtaken'
  BY DEF Reasons, Spared
<1> QED
  BY <1>1, <1>2, <1>3 DEF Reasons

(* A notification joins those on their way,                                *)
LEMMA StillComing ==
  ASSUME PoolTypeOK, NEW n \in [op : {"ONLINE", "OFFLINE"}, host : Hosts], notes' = Append(notes, n)
  PROVE  /\ \A h \in Hosts : OfflineComing(h) => OfflineComing(h)'
         /\ \A h \in Hosts : n = [op |-> "OFFLINE", host |-> h] => OfflineComing(h)'
<1> DEFINE N == [op : {"ONLINE", "OFFLINE"}, host : Hosts]
<1>1. notes \in Seq(N) /\ n \in N
  BY DEF PoolTypeOK
<1> HIDE DEF N
<1>2. /\ Len(notes') = Len(notes) + 1 /\ Len(notes) \in Nat
      /\ notes'[Len(notes) + 1] = n
      /\ \A i \in 1..Len(notes) : notes'[i] = notes[i]
  BY <1>1
<1>3. 1..Len(notes) \subseteq 1..Len(notes') /\ Len(notes) + 1 \in 1..Len(notes')
  BY <1>2
<1> QED
  BY <1>2, <1>3 DEF OfflineComing

(* and the handling of the first one leaves the others.                    *)
LEMMA OthersComing ==
  ASSUME PoolTypeOK, notes # <<>>, notes' = Tail(notes)
  PROVE  \A h \in Hosts : OfflineComing(h) /\ Head(notes) # [op |-> "OFFLINE", host |-> h]
           => OfflineComing(h)'
<1> DEFINE N == [op : {"ONLINE", "OFFLINE"}, host : Hosts]
<1>1. notes \in Seq(N)
  BY DEF PoolTypeOK
<1> HIDE DEF N
<1>2. /\ Len(notes) \in Nat /\ Len(notes) # 0 /\ Len(notes') = Len(notes) - 1
      /\ Head(notes) = notes[1]
      /\ \A i \in 1..Len(notes') : notes'[i] = notes[i + 1]
  BY <1>1
<1>3. ASSUME NEW h \in Hosts, NEW i \in 1..Len(notes), notes[i] = [op |-> "OFFLINE", host |-> h],
             Head(notes) # [op |-> "OFFLINE", host |-> h]
      PROVE  OfflineComing(h)'
  <2>1. i # 1
    BY <1>2, <1>3
  <2>2. i - 1 \in 1..Len(notes') /\ (i - 1) + 1 = i
    BY <1>2, <2>1
  <2>3. notes'[i - 1] = [op |-> "OFFLINE", host |-> h]
    BY <1>2, <1>3, <2>2
  <2> QED
    BY <2>2, <2>3 DEF OfflineComing
<1> QED
  BY <1>3 DEF OfflineComing

(* At the beginning the pool is empty, and no thread waits.                *)
LEMMA InitReasons == Init => Reasons
BY DEF Init, Reasons, DeadForAReason

(* The client of a waiting thread is of the host that it discovered.       *)
LEMMA Waiting ==
  ASSUME IInv
  PROVE  /\ \A t \in Threads : pc[t] = "connect" =>
              /\ fixed = None /\ host[t] \in Hosts
              /\ client[t] \in Clients /\ obj[client[t]].host = host[t]
         /\ \A h \in Hosts : pool[h] # None => pool[h] \in Clients /\ obj[pool[h]].host = h
BY DEF IInv, PoolTypeOK, Owners

(* An ONLINE is not what anything waits for.                               *)
LEMMA OnlineReasons == ASSUME IInv, Reasons, Online PROVE Reasons'
<1>1. \A h \in Hosts : OfflineComing(h) => OfflineComing(h)'
  <2>1. \A h \in Hosts : Head(notes) # [op |-> "OFFLINE", host |-> h]
    BY DEF Online
  <2>2. PoolTypeOK /\ notes # <<>> /\ notes' = Tail(notes)
    BY DEF IInv, Online
  <2> QED
    BY <2>1, <2>2, OthersComing
<1>2. UNCHANGED <<pool, obj, pc, host, client, overtaken>>
  BY DEF Online, threadVars
<1> QED
  BY <1>1, <1>2, Waiting, ReasonsStay DEF Spared

(* A host that comes lets nothing go.                                      *)
LEMMA ComesUpReasons ==
  ASSUME IInv, Reasons, NEW h \in Hosts, ComesUp(h)
  PROVE  Reasons'
<1>1. \A g \in Hosts : OfflineComing(g) => OfflineComing(g)'
  <2>1. PoolTypeOK /\ notes' = Append(notes, [op |-> "ONLINE", host |-> h])
    BY DEF IInv, ComesUp
  <2> QED
    BY <2>1, StillComing
<1>2. UNCHANGED <<pool, obj, pc, host, client, overtaken>>
  BY DEF ComesUp, threadVars
<1> QED
  BY <1>1, <1>2, Waiting, ReasonsStay DEF Spared

(* A host that goes takes the connections of its clients and sends its     *)
(* OFFLINE.                                                                *)
LEMMA GoesDownReasons ==
  ASSUME IInv, Reasons, NEW h \in Hosts, GoesDown(h)
  PROVE  Reasons'
<1>1. OfflineComing(h)' /\ \A g \in Hosts : OfflineComing(g) => OfflineComing(g)'
  <2>1. PoolTypeOK /\ notes' = Append(notes, [op |-> "OFFLINE", host |-> h])
    BY DEF IInv, GoesDown
  <2> QED
    BY <2>1, StillComing
<1>2. UNCHANGED <<pool, pc, host, client, overtaken>>
  BY DEF GoesDown, threadVars
<1>3. \A c \in Clients :
        /\ obj[c].host # h => obj'[c] = obj[c]
        /\ obj'[c].conn = obj[c].conn
  BY DEF GoesDown, IInv, PoolTypeOK, Client
<1>4. DeadForAReason'
  BY <1>1, <1>2, <1>3, Waiting DEF Reasons, DeadForAReason
<1>5. \A g \in Hosts : pool'[g] # None => obj'[pool'[g]].conn # "connecting"
  BY <1>2, <1>3, Waiting DEF Reasons
<1>6. ASSUME NEW t \in Threads, NEW g \in Hosts, pc'[t] = "connect", host'[t] = g
      PROVE  \/ obj'[client'[t]].conn = "connecting" \/ obj'[client'[t]].alive
             \/ OfflineComing(g)' \/ t \in overtaken'
  <2>1. CASE g = h
    BY <1>1, <2>1
  <2>2. CASE g # h
    BY <1>1, <1>2, <1>3, <1>6, <2>2, Waiting DEF Reasons
  <2> QED
    BY <2>1, <2>2
<1> QED
  BY <1>4, <1>5, <1>6 DEF Reasons

(* An OFFLINE deletes the pool's client, and overtakes the threads that    *)
(* are on their way with the host.                                         *)
LEMMA OfflineReasons == ASSUME IInv, Reasons, Offline PROVE Reasons'
<1> DEFINE h == Head(notes).host
<1> DEFINE new == [c \in Clients |-> IF pool[h] = c THEN [obj[c] EXCEPT !.kept = "deleted", !.late = FALSE]
                              ELSE obj[c]]
<1>1. PoolTypeOK /\ IInv
  BY DEF IInv
<1>2. h \in Hosts
  BY <1>1, Taken DEF Offline, PoolTypeOK
<1>3. /\ pool' = [pool EXCEPT ![h] = None] /\ Release(new)
      /\ overtaken' = overtaken \cup Bound(h)
      /\ UNCHANGED <<fixed, pc, host, client>>
  BY DEF Offline
<1>4. \A g \in Hosts : OfflineComing(g) /\ g # h => OfflineComing(g)'
  <2>1. \A g \in Hosts : g # h => Head(notes) # [op |-> "OFFLINE", host |-> g]
    OBVIOUS
  <2>2. notes # <<>> /\ notes' = Tail(notes)
    BY DEF Offline
  <2> HIDE DEF h
  <2> QED
    BY <1>1, <2>1, <2>2, OthersComing
<1> HIDE DEF h
<1>5. \A g \in Hosts : pool'[g] = IF g = h THEN None ELSE pool[g]
  BY <1>1, <1>2, <1>3 DEF PoolTypeOK
<1>6. \A c \in Clients :
        /\ new[c].conn = obj[c].conn /\ new[c].alive = obj[c].alive
        /\ pool[h] # c => new[c] = obj[c]
  BY <1>1, KeptUpdated DEF PoolTypeOK
<1> HIDE DEF new
<1>7. \A c \in Clients : Held(c)' => obj'[c] = new[c]
  BY <1>3 DEF Release
<1>8. \A g \in Hosts : pool'[g] # None =>
        g # h /\ pool'[g] = pool[g] /\ pool[g] \in Clients /\ pool[h] # pool[g] /\ Held(pool[g])'
  BY <1>1, <1>2, <1>5, Waiting DEF Held
<1>9. DeadForAReason'
  BY <1>4, <1>6, <1>7, <1>8 DEF Reasons, DeadForAReason
<1>10. \A g \in Hosts : pool'[g] # None => obj'[pool'[g]].conn # "connecting"
  BY <1>6, <1>7, <1>8 DEF Reasons
<1>11. ASSUME NEW t \in Threads, NEW g \in Hosts, pc'[t] = "connect", host'[t] = g
       PROVE  \/ obj'[client'[t]].conn = "connecting" \/ obj'[client'[t]].alive
              \/ OfflineComing(g)' \/ t \in overtaken'
  <2>1. pc[t] = "connect" /\ client[t] \in Clients /\ host[t] = g
    BY <1>1, <1>3, <1>11, Waiting
  <2>2. CASE g = h
    BY <1>3, <2>1, <2>2 DEF Bound
  <2>3. CASE g # h
    <3>1. \A c \in Clients : client[t] = c => Held(c)'
      BY <1>3 DEF Held
    <3>2. \A c \in Clients : Held(c)' =>
            obj'[c].conn = obj[c].conn /\ obj'[c].alive = obj[c].alive
      BY <1>6, <1>7
    <3>3. obj'[client[t]].conn = obj[client[t]].conn /\ obj'[client[t]].alive = obj[client[t]].alive
      BY <2>1, <3>1, <3>2
    <3> QED
      BY <1>3, <1>4, <2>1, <2>3, <3>3 DEF Reasons
  <2> QED
    BY <2>2, <2>3
<1> QED
  BY <1>9, <1>10, <1>11 DEF Reasons

(* The connection of a client comes, is set and is lost again, and answers *)
(* come, as far as the pool can tell.                                      *)
LEMMA ClientIOReasons ==
  ASSUME IInv, Reasons, NEW c \in Clients, ClientIO(c)
  PROVE  Reasons'
<1>1. UNCHANGED <<notes, pool, pc, host, client, overtaken>>
  BY DEF ClientIO, Connected, SetConnection, Disconnected, AnswerAsync, registryVars, threadVars
<1>2. obj \in [Clients -> Client]
  BY DEF IInv, PoolTypeOK
<1>3. \A d \in Clients : Spared(d)
  BY <1>2 DEF ClientIO, Connected, SetConnection, Disconnected, AnswerAsync, Spared, Client
<1>4. \A h \in Hosts : OfflineComing(h) => OfflineComing(h)'
  BY <1>1 DEF OfflineComing
<1> QED
  BY <1>1, <1>3, <1>4, Waiting, ReasonsStay

(* A thread that lets its client go leaves those of the pool and of the    *)
(* threads that wait for one.                                              *)
LEMMA ReturnReasons ==
  ASSUME IInv, Reasons, NEW t \in Threads, AnswerSync(t) \/ CallAsync(t)
  PROVE  Reasons'
<1>1. PICK new \in [Clients -> Client] :
        /\ Release(new)
        /\ \A c \in Clients : /\ new[c].conn = obj[c].conn /\ new[c].alive = obj[c].alive
                              /\ new[c].late = obj[c].late
  <2>1. obj \in [Clients -> Client]
    BY DEF IInv, PoolTypeOK
  <2>2. [obj EXCEPT ![client[t]].pending = TRUE] \in [Clients -> Client]
    BY <2>1 DEF Client
  <2>3. \A c \in Clients : LET new == [obj EXCEPT ![client[t]].pending = TRUE]
                           IN  /\ new[c].conn = obj[c].conn /\ new[c].alive = obj[c].alive
                               /\ new[c].late = obj[c].late
    BY <2>1 DEF Client
  <2> QED
    BY <2>1, <2>2, <2>3 DEF AnswerSync, CallAsync
<1>2. /\ UNCHANGED <<notes, pool, overtaken>>
      /\ pc' = [pc EXCEPT ![t] = "idle"] /\ host' = [host EXCEPT ![t] = None]
      /\ client' = [client EXCEPT ![t] = None]
  BY DEF AnswerSync, CallAsync, registryVars
<1>3. \A u \in Threads : pc'[u] = "connect" =>
        pc[u] = "connect" /\ client'[u] = client[u] /\ host'[u] = host[u]
  BY <1>2 DEF IInv, PoolTypeOK
<1>4. \A c \in Clients : Held(c)' => Spared(c)
  BY <1>1 DEF Release, Spared
<1>5. \A h \in Hosts : pool'[h] # None => pool'[h] = pool[h] /\ Spared(pool[h])
  BY <1>2, <1>4, Waiting DEF Held
<1>6. \A u \in Threads : pc'[u] = "connect" => host[u] \in Hosts /\ Spared(client[u])
  BY <1>3, <1>4, Waiting DEF Held
<1>7. \A h \in Hosts : OfflineComing(h) => OfflineComing(h)'
  BY <1>2 DEF OfflineComing
<1> QED
  BY <1>2, <1>3, <1>5, <1>6, <1>7, ReasonsStay

(* The other steps of a thread that puts nothing into the pool.            *)
LEMMA ThreadReasons ==
  ASSUME IInv, Reasons, NEW t \in Threads,
         \/ GetClient(t) \/ NullConnection(t) \/ CallSync(t)
         \/ UseFixed(t) \/ \E h \in Hosts : Discover(t, h)
  PROVE  Reasons'
<1>1. UNCHANGED <<notes, pool, obj>> /\ overtaken \ {t} \subseteq overtaken'
  BY DEF GetClient, NullConnection, CallSync, UseFixed, Discover, registryVars
<1>2. \A u \in Threads : pc'[u] = "connect" =>
        /\ pc[u] = "connect" /\ client'[u] = client[u] /\ host'[u] = host[u]
        /\ u \in overtaken => u \in overtaken'
  BY <1>1 DEF GetClient, NullConnection, CallSync, UseFixed, Discover, registryVars, threadVars,
     IInv, PoolTypeOK
<1>3. \A h \in Hosts : OfflineComing(h) => OfflineComing(h)'
  BY <1>1 DEF OfflineComing
<1> QED
  BY <1>1, <1>2, <1>3, Waiting, ReasonsStay DEF Spared

(* A client that has just been created is not connected yet.               *)
LEMMA CreateClientReasons ==
  ASSUME IInv, Reasons, NEW t \in Threads, CreateClient(t)
  PROVE  Reasons'
<1>1. PICK c \in Clients : /\ obj[c] = NoClient /\ obj' = [obj EXCEPT ![c] = NewClient(host[t])]
                           /\ client' = [client EXCEPT ![t] = c]
  BY DEF CreateClient, Exists
<1>2. PoolTypeOK /\ Lives /\ ~ Held(c)
  BY <1>1, Records, NoneAssumption DEF IInv, Lives
<1>3. pc' = [pc EXCEPT ![t] = "connect"] /\ UNCHANGED <<notes, pool, host, overtaken>>
  BY DEF CreateClient, registryVars
<1>4. \A d \in Clients : d # c => obj'[d] = obj[d]
  BY <1>1, <1>2 DEF PoolTypeOK
<1>5. obj'[c].conn = "connecting"
  BY <1>1, <1>2 DEF PoolTypeOK, NewClient, NoClient
<1>6. \A h \in Hosts : pool[h] # None => pool[h] \in Clients /\ pool[h] # c
  BY <1>2, Waiting DEF Held
<1>7. \A u \in Threads : u # t /\ pc'[u] = "connect" =>
        /\ pc[u] = "connect" /\ client'[u] = client[u]
        /\ client[u] \in Clients /\ client[u] # c
  BY <1>1, <1>2, <1>3, Waiting DEF Held, PoolTypeOK
<1>8. client'[t] = c
  BY <1>1, <1>2 DEF PoolTypeOK
<1>9. \A h : OfflineComing(h)' <=> OfflineComing(h)
  BY <1>3 DEF OfflineComing
<1>10. DeadForAReason' /\ \A h \in Hosts : pool'[h] # None => obj'[pool'[h]].conn # "connecting"
  BY <1>3, <1>4, <1>6, <1>9 DEF Reasons, DeadForAReason
<1>11. \A u \in Threads, h \in Hosts : pc'[u] = "connect" /\ host'[u] = h =>
         \/ obj'[client'[u]].conn = "connecting" \/ obj'[client'[u]].alive
         \/ OfflineComing(h)' \/ u \in overtaken'
  BY <1>3, <1>4, <1>5, <1>7, <1>8, <1>9 DEF Reasons
<1> QED
  BY <1>10, <1>11 DEF Reasons

(* What a thread puts into the pool is alive, about to be deleted, or late *)
(* because the thread was overtaken.                                       *)
LEMMA PutClientReasons ==
  ASSUME IInv, Reasons, NEW t \in Threads, PutClient(t)
  PROVE  Reasons'
<1> DEFINE c == client[t]
<1>1. PoolTypeOK /\ pc[t] = "connect" /\ c \in Clients /\ host[t] \in Hosts
  BY Waiting DEF PutClient, IInv
<1>2. /\ obj[c].conn # "connecting" /\ pc' = [pc EXCEPT ![t] = "send"]
      /\ overtaken' = overtaken \ {t} /\ UNCHANGED <<notes, host, client>>
      /\ IF pool[host[t]] = None
         THEN /\ pool' = [pool EXCEPT ![host[t]] = c]
              /\ obj' = [obj EXCEPT ![c].kept = "pooled", ![c].late = t \in overtaken]
         ELSE UNCHANGED <<pool, obj>>
  BY DEF PutClient, registryVars
<1>3. \A u \in Threads : pc'[u] = "connect" => u # t /\ pc[u] = "connect"
  BY <1>1, <1>2 DEF PoolTypeOK
<1>4. \A h : OfflineComing(h)' <=> OfflineComing(h)
  BY <1>2 DEF OfflineComing
<1>5. CASE pool[host[t]] # None
  <2>1. UNCHANGED <<pool, obj>>
    BY <1>2, <1>5
  <2> QED
    BY <1>2, <1>3, <1>4, <2>1, Waiting, ReasonsStay DEF Spared
<1>6. CASE pool[host[t]] = None
  <2>1. \A h \in Hosts : pool'[h] = IF h = host[t] THEN c ELSE pool[h]
    BY <1>1, <1>2, <1>6 DEF PoolTypeOK
  <2>2. /\ \A d \in Clients : obj'[d].conn = obj[d].conn /\ obj'[d].alive = obj[d].alive
        /\ \A d \in Clients : d # c => obj'[d] = obj[d]
        /\ t \in overtaken => obj'[c].late
    <3>1. obj \in [Clients -> Client]
      BY <1>1 DEF PoolTypeOK
    <3> HIDE DEF c
    <3> QED
      BY <1>1, <1>2, <1>6, <3>1 DEF Client
  <2>3. \A h \in Hosts : h # host[t] /\ pool[h] # None => pool[h] \in Clients /\ pool[h] # c
    BY <1>1, Waiting
  <2>4. obj[c].alive \/ OfflineComing(host[t]) \/ t \in overtaken
    BY <1>1, <1>2 DEF Reasons
  <2>5. DeadForAReason'
    <3>1. SUFFICES ASSUME NEW h \in Hosts, pool'[h] # None, ~ obj'[pool'[h]].alive
                   PROVE  OfflineComing(h)' \/ obj'[pool'[h]].late
      BY DEF DeadForAReason
    <3>2. CASE h = host[t]
      BY <1>1, <1>4, <2>1, <2>2, <2>4, <3>1, <3>2
    <3>3. CASE h # host[t]
      BY <1>4, <2>1, <2>2, <2>3, <3>1, <3>3 DEF Reasons, DeadForAReason
    <3> QED
      BY <3>2, <3>3
  <2>6. \A h \in Hosts : pool'[h] # None => obj'[pool'[h]].conn # "connecting"
    BY <1>1, <1>2, <2>1, <2>2, <2>3 DEF Reasons
  <2>7. \A u \in Threads, h \in Hosts : pc'[u] = "connect" /\ host'[u] = h =>
          \/ obj'[client'[u]].conn = "connecting" \/ obj'[client'[u]].alive
          \/ OfflineComing(h)' \/ u \in overtaken'
    BY <1>2, <1>3, <1>4, <2>2, Waiting DEF Reasons
  <2> QED
    BY <2>5, <2>6, <2>7 DEF Reasons
<1> QED
  BY <1>5, <1>6

(* Every step leaves a reason for every client in the pool whose           *)
(* connection is gone.                                                     *)
LEMMA StepReasons ==
  ASSUME IInv, Reasons, [Next]_vars
  PROVE  Reasons'
<1>1. CASE UNCHANGED vars
  BY <1>1 DEF vars, Reasons, DeadForAReason, OfflineComing
<1>2. ASSUME NEW h \in Hosts, ComesUp(h) \/ GoesDown(h)
      PROVE  Reasons'
  BY <1>2, ComesUpReasons, GoesDownReasons
<1>3. CASE Notified
  BY <1>3, OnlineReasons, OfflineReasons DEF Notified
<1>4. ASSUME NEW c \in Clients, ClientIO(c)
      PROVE  Reasons'
  BY <1>4, ClientIOReasons
<1>5. ASSUME NEW t \in Threads,
             UserStep(t) \/ UseFixed(t) \/ \E h \in Hosts : Discover(t, h)
      PROVE  Reasons'
  BY <1>5, ReturnReasons, ThreadReasons, CreateClientReasons, PutClientReasons DEF UserStep
<1> QED
  BY <1>1, <1>2, <1>3, <1>4, <1>5 DEF Next

(* A client in the pool whose connection is gone is about to be deleted,   *)
(* or was put there by a thread that the OFFLINE of its host overtook.     *)
THEOREM DeadForAReasonAlways == Spec => []DeadForAReason
<1>1. Init => Reasons
  BY InitReasons
<1>2. IInv /\ Reasons /\ [Next]_vars => Reasons'
  BY StepReasons
<1>3. Reasons => DeadForAReason
  BY DEF Reasons
<1> QED
  BY <1>1, <1>2, <1>3, InvariantHolds, PTL DEF Spec

=============================================================================
