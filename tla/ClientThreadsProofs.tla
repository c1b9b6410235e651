------------------------ MODULE ClientThreadsProofs -------------------------
(***************************************************************************)
(* Proofs about ClientThreads for any number of user threads, clients and  *)
(* messages, whether or not callbacks call: a client is destroyed once and *)
(* by its last holder, and no circle of waiting threads avoids a callback  *)
(* that makes a call.                                                      *)
(***************************************************************************)
EXTENDS ClientThreads, FiniteSetTheorems, TLAPS

(* A thread in a call, and one that holds a client or may.                 *)
CallStates == {"discover", "registry", "install", "get", "connect", "send",
               "answer", "return", "join"}
HoldStates == {"connect", "send", "answer", "join"}

Note   == [kind : {"online", "offline", "answer"}, to : Threads \cup {None}]
Answer == [kind : {"sync", "callback"}, to : Threads]

Types ==
  /\ lock \in [Locks -> Threads \cup {None}]
  /\ pc \in [Threads -> CallStates \cup {"idle", "online", "offline", "delete", "dispatch", "handle"}]
  /\ client \in [Threads -> Clients \cup {None}]
  /\ calling \subseteq Clients
  /\ cached \in BOOLEAN
  /\ pool \in Clients \cup {None}
  /\ obj \in [Clients -> {"none", "connecting", "up"}]
  /\ notes \in Seq(Note) /\ Len(notes) <= MaxNotes
  /\ inbox \in [Clients -> Seq(Answer)] /\ \A c \in Clients : Len(inbox[c]) <= MaxAnswers

(* What each kind of thread does: an IO thread is in a call exactly while  *)
(* its handler is in a callback that calls.                                *)
Places ==
  /\ \A u \in Users : pc[u] \in CallStates \cup {"idle"}
  /\ \A c \in calling : pc[c] \in CallStates
  /\ \A c \in Clients \ calling : pc[c] \in {"idle", "dispatch", "handle"}
  /\ pc[D] \in {"idle", "online", "offline", "delete", "join"}

(* Who has the locks, as a function of where the threads are.              *)
Owners ==
  /\ lock["hosts"] = IF pc[D] \in {"delete", "join"} THEN D ELSE None
  /\ lock["pool"] = IF pc[D] = "join" THEN D ELSE None
  /\ lock["dispatch"] \in Clients \cup {None}
  /\ \A c \in Clients : lock["dispatch"] = c <=> (c \in calling \/ pc[c] = "handle")

Holders ==
  \A t \in Threads :
    /\ pc[t] \in HoldStates => client[t] \in Clients
    /\ client[t] # None => pc[t] \in HoldStates \cup {"return"}

(* HeldClientsExist without counting.                                      *)
Held ==
  /\ \A c \in Clients : obj[c] # "none" <=> (pool = c \/ \E t \in Threads : client[t] = c)
  /\ \A t \in Threads :
       pc[t] = "join" => (pool # client[t] /\ \A u \in Threads \ {t} : client[u] # client[t])

Handling == \A c \in Clients : pc[c] \in {"dispatch", "handle"} => inbox[c] # <<>>

(* An answer is on its way only to a thread that waits for it, once.       *)
NotesWait ==
  /\ \A i \in 1 .. Len(notes) : notes[i].kind = "answer" =>
       notes[i].to \in Threads /\ pc[notes[i].to] = "registry"
  /\ \A i, j \in 1 .. Len(notes) :
       notes[i].kind = "answer" /\ notes[j].kind = "answer" /\ notes[i].to = notes[j].to => i = j

InboxWait ==
  \A c \in Clients :
    /\ \A i \in 1 .. Len(inbox[c]) : inbox[c][i].kind = "sync" =>
         pc[inbox[c][i].to] = "answer" /\ client[inbox[c][i].to] = c
    /\ \A i, j \in 1 .. Len(inbox[c]) :
         inbox[c][i].kind = "sync" /\ inbox[c][j].kind = "sync" /\ inbox[c][i].to = inbox[c][j].to
           => i = j

IInv ==
  /\ Types /\ Places /\ Owners /\ Holders /\ Held /\ Handling
  /\ NotesWait /\ InboxWait

-----------------------------------------------------------------------------

(* What the assumptions say of the kinds of thread.                        *)
LEMMA Distinct ==
  /\ None \notin Threads /\ D \in Threads
  /\ Users \subseteq Threads /\ Clients \subseteq Threads
  /\ D \notin Users /\ D \notin Clients
  /\ \A u \in Users : u \notin Clients
  /\ \A t \in Threads : t \in Users \/ t \in Clients \/ t = D
BY ThreadsAssumption DEF Threads

(* The queues.                                                             *)
LEMMA Appended ==
  ASSUME NEW S, NEW s \in Seq(S), NEW x \in S
  PROVE  /\ Append(s, x) \in Seq(S) /\ Append(s, x) # <<>> /\ Len(Append(s, x)) = Len(s) + 1
         /\ \A i \in 1 .. Len(s) : Append(s, x)[i] = s[i]
         /\ Append(s, x)[Len(s) + 1] = x
OBVIOUS

(* The first message of a queue, and the others.                           *)
LEMMA Taken ==
  ASSUME NEW S, NEW s \in Seq(S), s # <<>>
  PROVE  /\ Tail(s) \in Seq(S) /\ Len(Tail(s)) = Len(s) - 1 /\ Len(s) \in Nat \ {0}
         /\ Head(s) \in S /\ Head(s) = s[1]
         /\ \A i \in 1 .. Len(Tail(s)) : Tail(s)[i] = s[i + 1]
OBVIOUS

(* Before the first call no lock is taken and there are no clients.        *)
LEMMA InitInvariant == Init => IInv
<1> SUFFICES ASSUME Init PROVE IInv
  OBVIOUS
<1> USE Distinct, ThreadsAssumption DEF Init, CallStates, HoldStates, Locks
<1>1. Types
  <2>1. /\ lock \in [Locks -> Threads \cup {None}]
        /\ notes \in Seq(Note) /\ Len(notes) <= MaxNotes
    OBVIOUS
  <2>2. inbox \in [Clients -> Seq(Answer)] /\ \A c \in Clients : Len(inbox[c]) <= MaxAnswers
    OBVIOUS
  <2> QED
    BY <2>1, <2>2 DEF Types
<1>2. Places /\ Owners /\ Holders /\ Held /\ Handling /\ NotesWait /\ InboxWait
  BY DEF Places, Owners, Holders, Held, Handling, NotesWait, InboxWait
<1> QED
  BY <1>1, <1>2 DEF IInv

(* A user begins a call without a lock or a client.                        *)
LEMMA StartCallPreserves ==
  ASSUME IInv, NEW t \in Threads, StartCall(t)
  PROVE  IInv'
<1> USE Distinct, ThreadsAssumption DEF StartCall, Go, dataVars,
          CallStates, HoldStates, Locks, IInv
<1>1. Types'
  BY DEF Types
<1>2. Places'
  BY DEF Places
<1>3. Owners'
  BY DEF Owners
<1>4. Holders'
  BY DEF Holders
<1>5. Held'
  BY DEF Held
<1>6. Handling'
  BY DEF Handling
<1>7. NotesWait'
  BY DEF NotesWait
<1>8. InboxWait'
  BY DEF InboxWait
<1> QED
  BY <1>1, <1>2, <1>3, <1>4, <1>5, <1>6, <1>7, <1>8 DEF IInv

(* A host found in the cache needs no answer of the registry.              *)
LEMMA FromCachePreserves ==
  ASSUME IInv, NEW t \in Threads, FromCache(t)
  PROVE  IInv'
<1> USE Distinct, ThreadsAssumption DEF FromCache, Go, Free, dataVars,
          CallStates, HoldStates, Locks, IInv
<1>1. Types'
  BY DEF Types
<1>2. Places'
  BY DEF Places
<1>3. Owners'
  BY DEF Owners
<1>4. Holders'
  BY DEF Holders
<1>5. Held'
  BY DEF Held
<1>6. Handling'
  BY DEF Handling
<1>7. NotesWait'
  BY DEF NotesWait
<1>8. InboxWait'
  BY DEF InboxWait
<1> QED
  BY <1>1, <1>2, <1>3, <1>4, <1>5, <1>6, <1>7, <1>8 DEF IInv

(* The thread waits for the registry without a lock, and one answer to it  *)
(* comes.                                                                  *)
LEMMA AskRegistryPreserves ==
  ASSUME IInv, NEW t \in Threads, AskRegistry(t)
  PROVE  IInv'
<1> USE Distinct, ThreadsAssumption DEF AskRegistry, Go, Free,
          CallStates, HoldStates, Locks, IInv
<1>0. /\ notes' \in Seq(Note) /\ Len(notes') = Len(notes) + 1
  <2>1. [kind |-> "answer", to |-> t] \in Note
    BY DEF Note
  <2> QED
    BY <2>1, Appended DEF Types
<1>1. Types'
  BY <1>0 DEF Types
<1>2. Places'
  BY DEF Places
<1>3. Owners'
  BY DEF Owners
<1>4. Holders'
  BY DEF Holders
<1>5. Held'
  BY DEF Held
<1>6. Handling'
  BY DEF Handling
<1>7. NotesWait'
  BY DEF Types, NotesWait
<1>8. InboxWait'
  BY DEF InboxWait
<1> QED
  BY <1>1, <1>2, <1>3, <1>4, <1>5, <1>6, <1>7, <1>8 DEF IInv

(* The thread whose answer has come installs the hosts under the lock.     *)
LEMMA InstallPreserves ==
  ASSUME IInv, NEW t \in Threads, Install(t)
  PROVE  IInv'
<1> USE Distinct, ThreadsAssumption DEF Install, Go, Free,
          CallStates, HoldStates, Locks, IInv
<1>1. Types'
  BY DEF Types
<1>2. Places'
  BY DEF Places
<1>3. Owners'
  BY DEF Owners
<1>4. Holders'
  BY DEF Holders
<1>5. Held'
  BY DEF Held
<1>6. Handling'
  BY DEF Handling
<1>7. NotesWait'
  BY DEF NotesWait
<1>8. InboxWait'
  BY DEF InboxWait
<1> QED
  BY <1>1, <1>2, <1>3, <1>4, <1>5, <1>6, <1>7, <1>8 DEF IInv

(* An answer without hosts ends the call.                                  *)
LEMMA NothingFoundPreserves ==
  ASSUME IInv, NEW t \in Threads, NothingFound(t)
  PROVE  IInv'
<1> USE Distinct, ThreadsAssumption DEF NothingFound, Go, dataVars,
          CallStates, HoldStates, Locks, IInv
<1>1. Types'
  BY DEF Types
<1>2. Places'
  BY DEF Places
<1>3. Owners'
  BY DEF Owners
<1>4. Holders'
  BY DEF Holders
<1>5. Held'
  BY DEF Held
<1>6. Handling'
  BY DEF Handling
<1>7. NotesWait'
  BY DEF NotesWait
<1>8. InboxWait'
  BY DEF InboxWait
<1> QED
  BY <1>1, <1>2, <1>3, <1>4, <1>5, <1>6, <1>7, <1>8 DEF IInv

(* A thread takes the pool's client, and is one of its holders.            *)
LEMMA GetClientPreserves ==
  ASSUME IInv, NEW t \in Threads, GetClient(t)
  PROVE  IInv'
<1> USE Distinct, ThreadsAssumption DEF CallStates, HoldStates, Locks
<1>i. Types /\ Places /\ Owners /\ Holders /\ Held /\ Handling /\ NotesWait /\ InboxWait
  BY DEF IInv
<1>0. /\ pc[t] = "get" /\ client[t] = None /\ pool \in Clients
      /\ client' = [client EXCEPT ![t] = pool] /\ pc' = [pc EXCEPT ![t] = "send"]
      /\ UNCHANGED <<lock, calling, cached, pool, obj, notes, inbox>>
  BY <1>i DEF GetClient, Go, dataVars, Types, Holders
<1>1. Types'
  BY <1>i, <1>0 DEF Types
<1>2. Places'
  BY <1>i, <1>0 DEF Types, Places
<1>3. Owners'
  BY <1>i, <1>0 DEF Types, Places, Owners
<1>4. Holders'
  BY <1>i, <1>0 DEF Types, Holders
<1>5. Held'
  <2>1. \A u \in Threads : /\ client'[u] = IF u = t THEN pool ELSE client[u]
                           /\ pc'[u] = "join" <=> pc[u] = "join" /\ u # t
    BY <1>i, <1>0 DEF Types
  <2>2. ASSUME NEW c \in Clients
        PROVE  obj'[c] # "none" <=> (pool' = c \/ \E u \in Threads : client'[u] = c)
    <3>1. obj[c] # "none" <=> (pool = c \/ \E u \in Threads : client[u] = c)
      BY <1>i DEF Held
    <3>2. CASE c = pool
      BY <1>0, <3>1, <3>2
    <3>3. CASE c # pool
      <4>1. \A u \in Threads : client'[u] = c <=> client[u] = c
        BY <1>0, <2>1, <3>3
      <4> QED
        BY <1>0, <3>1, <3>3, <4>1
    <3> QED
      BY <3>2, <3>3
  <2>3. ASSUME NEW u \in Threads, pc'[u] = "join"
        PROVE  pool' # client'[u] /\ \A v \in Threads \ {u} : client'[v] # client'[u]
    BY <1>i, <1>0, <2>1, <2>3 DEF Held
  <2> QED
    BY <2>2, <2>3 DEF Held
<1>6. Handling'
  BY <1>i, <1>0 DEF Types, Handling
<1>7. NotesWait'
  BY <1>i, <1>0 DEF Types, NotesWait
<1>8. InboxWait'
  BY <1>i, <1>0 DEF Types, InboxWait, Answer
<1> QED
  BY <1>1, <1>2, <1>3, <1>4, <1>5, <1>6, <1>7, <1>8 DEF IInv

(* A thread that found none creates a client that exists nowhere yet, and  *)
(* holds it.                                                               *)
LEMMA CreateClientPreserves ==
  ASSUME IInv, NEW t \in Threads, CreateClient(t)
  PROVE  IInv'
<1> USE Distinct, ThreadsAssumption DEF CreateClient, Go, Free,
          CallStates, HoldStates, Locks, IInv
<1>1. Types'
  BY DEF Types
<1>2. Places'
  BY DEF Places
<1>3. Owners'
  BY DEF Owners
<1>4. Holders'
  BY DEF Types, Holders
<1>5. Held'
  BY DEF Types, Places, Owners, Holders, Held, Handling, NotesWait, InboxWait
<1>6. Handling'
  BY DEF Handling
<1>7. NotesWait'
  BY DEF NotesWait
<1>8. InboxWait'
  BY DEF InboxWait
<1> QED
  BY <1>1, <1>2, <1>3, <1>4, <1>5, <1>6, <1>7, <1>8 DEF IInv

(* The pool gets the client if it has none; its creator holds it in        *)
(* either case.                                                            *)
LEMMA PutClientPreserves ==
  ASSUME IInv, NEW t \in Threads, PutClient(t)
  PROVE  IInv'
<1> USE Distinct, ThreadsAssumption DEF PutClient, Go, Free,
          CallStates, HoldStates, Locks, IInv
<1>1. Types'
  BY DEF Types
<1>2. Places'
  BY DEF Places
<1>3. Owners'
  BY DEF Owners
<1>4. Holders'
  BY DEF Holders
<1>5. Held'
  BY DEF Held
<1>6. Handling'
  BY DEF Handling
<1>7. NotesWait'
  BY DEF NotesWait
<1>8. InboxWait'
  BY DEF InboxWait
<1> QED
  BY <1>1, <1>2, <1>3, <1>4, <1>5, <1>6, <1>7, <1>8 DEF IInv

(* The request is sent, and its one answer is on its way to the thread or  *)
(* its callback.                                                           *)
LEMMA SendPreserves ==
  ASSUME IInv, NEW t \in Threads, Send(t)
  PROVE  IInv'
<1> USE Distinct, ThreadsAssumption DEF Send, Go,
          CallStates, HoldStates, Locks, IInv
<1>0. /\ client[t] \in Clients
      /\ \E kind \in {"sync", "callback"} :
           inbox' = [inbox EXCEPT ![client[t]] = Append(@, [kind |-> kind, to |-> t])]
      /\ \A kind \in {"sync", "callback"} : [kind |-> kind, to |-> t] \in Answer
  BY DEF Types, Holders, Answer
<1>a. /\ inbox' \in [Clients -> Seq(Answer)] /\ Len(inbox'[client[t]]) = Len(inbox[client[t]]) + 1
      /\ \A c \in Clients \ {client[t]} : inbox'[c] = inbox[c]
      /\ inbox'[client[t]] # <<>>
  BY <1>0, Appended, SMTT(30) DEF Types
<1>1. Types'
  BY <1>0, <1>a DEF Types
<1>2. Places'
  BY DEF Places
<1>3. Owners'
  BY DEF Owners
<1>4. Holders'
  BY DEF Holders
<1>5. Held'
  BY DEF Held
<1>6. Handling'
  BY <1>0, <1>a DEF Types, Handling, Holders
<1>7. NotesWait'
  BY DEF NotesWait
<1>8. InboxWait'
  <2> DEFINE k == client[t]
  <2>1. PICK kind \in {"sync", "callback"} :
          /\ inbox' = [inbox EXCEPT ![k] = Append(@, [kind |-> kind, to |-> t])]
          /\ pc' = [pc EXCEPT ![t] = IF kind = "sync" THEN "answer" ELSE "return"]
    OBVIOUS
  <2>2. /\ Len(inbox'[k]) = Len(inbox[k]) + 1
        /\ \A i \in 1 .. Len(inbox[k]) : inbox'[k][i] = inbox[k][i]
        /\ inbox'[k][Len(inbox[k]) + 1] = [kind |-> kind, to |-> t]
        /\ \A c \in Clients \ {k} : inbox'[c] = inbox[c]
    BY <1>0, <2>1, Appended DEF Types
  <2>3. ASSUME NEW c \in Clients, NEW i \in 1 .. Len(inbox[c]), inbox[c][i].kind = "sync"
        PROVE  /\ inbox[c][i].to \in Threads \ {t}
               /\ pc'[inbox[c][i].to] = "answer" /\ client'[inbox[c][i].to] = c
    <3>1. inbox[c][i] \in Answer
      BY DEF Types
    <3> QED
      BY <2>1, <2>3, <3>1 DEF InboxWait, Types, Answer
  <2>4. kind = "sync" => pc'[t] = "answer" /\ client'[t] = k
    BY <2>1 DEF Types
  <2> HIDE DEF k
  <2>5. ASSUME NEW c \in Clients
        PROVE  /\ \A i \in 1 .. Len(inbox'[c]) : inbox'[c][i].kind = "sync" =>
                    pc'[inbox'[c][i].to] = "answer" /\ client'[inbox'[c][i].to] = c
               /\ \A i, j \in 1 .. Len(inbox'[c]) :
                    inbox'[c][i].kind = "sync" /\ inbox'[c][j].kind = "sync"
                      /\ inbox'[c][i].to = inbox'[c][j].to => i = j
    <3>1. Len(inbox[c]) \in Nat
      BY DEF Types
    <3>2. CASE c = k
      <4>1. \A i \in 1 .. Len(inbox'[c]) :
              \/ i \in 1 .. Len(inbox[c]) /\ inbox'[c][i] = inbox[c][i]
              \/ i = Len(inbox[c]) + 1 /\ inbox'[c][i] = [kind |-> kind, to |-> t]
        BY <2>2, <3>1, <3>2
      <4>2. \A i \in 1 .. Len(inbox'[c]) : inbox'[c][i].kind = "sync" =>
              pc'[inbox'[c][i].to] = "answer" /\ client'[inbox'[c][i].to] = c
        BY <2>3, <2>4, <3>2, <4>1
      <4>3. \A i, j \in 1 .. Len(inbox'[c]) :
              inbox'[c][i].kind = "sync" /\ inbox'[c][j].kind = "sync"
                /\ inbox'[c][i].to = inbox'[c][j].to => i = j
        BY <2>3, <4>1 DEF InboxWait
      <4> QED
        BY <4>2, <4>3
    <3>3. CASE c # k
      <4>1. inbox'[c] = inbox[c]
        BY <2>2, <3>3
      <4>2. \A i, j \in 1 .. Len(inbox[c]) :
              inbox[c][i].kind = "sync" /\ inbox[c][j].kind = "sync"
                /\ inbox[c][i].to = inbox[c][j].to => i = j
        BY DEF InboxWait
      <4>3. \A i \in 1 .. Len(inbox[c]) : inbox[c][i].kind = "sync" =>
              pc'[inbox[c][i].to] = "answer" /\ client'[inbox[c][i].to] = c
        BY <2>3
      <4> QED
        BY <4>1, <4>2, <4>3, Zenon
    <3> QED
      BY <3>2, <3>3
  <2> QED
    BY <2>5 DEF InboxWait
<1> QED
  BY <1>1, <1>2, <1>3, <1>4, <1>5, <1>6, <1>7, <1>8 DEF IInv

(* The last holder of a client goes on to destroy it.                      *)
LEMMA ReturnLastPreserves ==
  ASSUME IInv, NEW t \in Threads, Return(t), LastHolder(t)
  PROVE  IInv'
<1> USE Distinct, ThreadsAssumption DEF Return, LastHolder, Go, Finish, dataVars,
          CallStates, HoldStates, Locks, IInv
<1>0. /\ pc' = [pc EXCEPT ![t] = "join"] /\ client[t] \in Clients /\ pool # client[t]
      /\ \A u \in Threads \ {t} : client[u] # client[t]
      /\ pc[t] = "return"
      /\ UNCHANGED <<lock, calling, client, cached, pool, obj, notes, inbox>>
  BY DEF Types
<1>a. t # D
  BY <1>0 DEF Places
<1>1. Types'
  BY <1>0, <1>a DEF Types
<1>2. Places'
  BY <1>0, <1>a DEF Places
<1>3. Owners'
  BY <1>0, <1>a DEF Owners
<1>4. Holders'
  BY <1>0, <1>a DEF Holders
<1>5. Held'
  BY <1>0, <1>a DEF Held
<1>6. Handling'
  BY <1>0, <1>a DEF Handling
<1>7. NotesWait'
  BY <1>0, <1>a DEF NotesWait
<1>8. InboxWait'
  BY <1>0, <1>a DEF InboxWait
<1> QED
  BY <1>1, <1>2, <1>3, <1>4, <1>5, <1>6, <1>7, <1>8 DEF IInv

(* A client that others hold survives the call's return.                   *)
LEMMA ReturnNotLastPreserves ==
  ASSUME IInv, NEW t \in Threads, Return(t), ~ LastHolder(t)
  PROVE  IInv'
<1> USE Distinct, ThreadsAssumption DEF Return, LastHolder, Go, Finish, dataVars,
          CallStates, HoldStates, Locks, IInv
<1>0. /\ pc' = [pc EXCEPT ![t] = "idle"] /\ client' = [client EXCEPT ![t] = None]
      /\ pc[t] = "return"
      /\ lock' = [l \in Locks |-> IF lock[l] = t THEN None ELSE lock[l]]
      /\ calling' = calling \ {t}
      /\ UNCHANGED <<cached, pool, obj, notes, inbox>>
  BY DEF Types
<1>a. t # D
  BY <1>0 DEF Places
<1>b. client[t] = None \/ pool = client[t] \/ \E u \in Threads \ {t} : client[u] = client[t]
  OBVIOUS
<1>1. Types'
  BY <1>0, <1>a, <1>b DEF Types
<1>2. Places'
  BY <1>0, <1>a, <1>b DEF Types, Places
<1>3. Owners'
  BY <1>0, <1>a, <1>b DEF Owners
<1>4. Holders'
  BY <1>0, <1>a, <1>b DEF Types, Holders
<1>5. Held'
  BY <1>0, <1>a, <1>b DEF Types, Holders, Held
<1>6. Handling'
  BY <1>0, <1>a, <1>b DEF Handling
<1>7. NotesWait'
  BY <1>0, <1>a, <1>b DEF NotesWait
<1>8. InboxWait'
  BY <1>0, <1>a, <1>b DEF InboxWait
<1> QED
  BY <1>1, <1>2, <1>3, <1>4, <1>5, <1>6, <1>7, <1>8 DEF IInv

(* The destruction of a client ends when its IO thread has nothing to do.  *)
LEMMA JoinPreserves ==
  ASSUME IInv, NEW t \in Threads, Join(t)
  PROVE  IInv'
<1> USE Distinct, ThreadsAssumption DEF Join, Go, Finish,
          CallStates, HoldStates, Locks, IInv
<1>1. Types'
  BY DEF Types, Holders
<1>2. Places'
  BY DEF Types, Places
<1>3. Owners'
  BY DEF Types, Owners
<1>4. Holders'
  BY DEF Types, Holders
<1>5. Held'
  BY DEF Types, Holders, Held
<1>6. Handling'
  BY DEF Handling
<1>7. NotesWait'
  BY DEF NotesWait
<1>8. InboxWait'
  BY DEF InboxWait
<1> QED
  BY <1>1, <1>2, <1>3, <1>4, <1>5, <1>6, <1>7, <1>8 DEF IInv

(* A notification of the registry is for no thread in particular.          *)
LEMMA RegistryPreserves ==
  ASSUME IInv, Registry
  PROVE  IInv'
<1> USE Distinct, ThreadsAssumption DEF Registry,
          CallStates, HoldStates, Locks, IInv
<1>0. /\ notes' \in Seq(Note) /\ Len(notes') = Len(notes) + 1
  <2>1. \A kind \in {"online", "offline"} : [kind |-> kind, to |-> None] \in Note
    BY DEF Note
  <2> QED
    BY <2>1, Appended DEF Types
<1>1. Types'
  BY <1>0 DEF Types
<1>2. Places'
  BY DEF Places
<1>3. Owners'
  BY DEF Owners
<1>4. Holders'
  BY DEF Holders
<1>5. Held'
  BY DEF Held
<1>6. Handling'
  BY DEF Handling
<1>7. NotesWait'
  BY DEF NotesWait
<1>8. InboxWait'
  BY DEF InboxWait
<1> QED
  BY <1>1, <1>2, <1>3, <1>4, <1>5, <1>6, <1>7, <1>8 DEF IInv

(* The DiscoveryClient's IO thread hands the answer to the thread that     *)
(* waits for it.                                                           *)
LEMMA OnDiscoveredPreserves ==
  ASSUME IInv, OnDiscovered
  PROVE  IInv'
<1> USE Distinct, ThreadsAssumption DEF CallStates, HoldStates, Locks
<1>i. Types /\ Places /\ Owners /\ Holders /\ Held /\ Handling /\ NotesWait /\ InboxWait
  BY DEF IInv
<1>0. /\ notes' \in Seq(Note) /\ Len(notes') = Len(notes) - 1 /\ Len(notes) \in Nat \ {0}
      /\ Head(notes) \in Note /\ Head(notes) = notes[1]
      /\ \A i \in 1 .. Len(notes') : notes'[i] = notes[i + 1]
  BY <1>i, Taken DEF OnDiscovered, Types
<1>a. PICK u \in Threads : u = notes[1].to /\ pc[u] = "registry"
  BY <1>i, <1>0 DEF OnDiscovered, NotesWait
<1>b. /\ pc' = [pc EXCEPT ![u] = "install"] /\ u # D /\ u \in Users \cup calling
      /\ UNCHANGED <<lock, client, calling, cached, pool, obj, inbox>>
  BY <1>i, <1>0, <1>a DEF OnDiscovered, Go, Places, Types
<1>1. Types'
  BY <1>i, <1>0, <1>b DEF Types
<1>2. Places'
  BY <1>i, <1>b DEF Types, Places
<1>3. Owners'
  BY <1>i, <1>b DEF Types, Places, Owners
<1>4. Holders'
  BY <1>i, <1>a, <1>b DEF Types, Holders
<1>5. Held'
  BY <1>i, <1>a, <1>b DEF Types, Held
<1>6. Handling'
  BY <1>i, <1>a, <1>b DEF Types, Handling
<1>7. NotesWait'
  <2>1. \A i \in 1 .. Len(notes') : i + 1 \in 1 .. Len(notes) /\ notes'[i] = notes[i + 1]
    BY <1>0
  <2>2. 1 \in 1 .. Len(notes) /\ notes[1].kind = "answer"
    BY <1>0 DEF OnDiscovered
  <2>3. ASSUME NEW i \in 1 .. Len(notes'), notes'[i].kind = "answer"
        PROVE  notes'[i].to \in Threads /\ pc'[notes'[i].to] = "registry"
    <3>1. /\ i + 1 \in 1 .. Len(notes) /\ i + 1 # 1 /\ notes[i + 1].kind = "answer"
          /\ notes'[i].to = notes[i + 1].to
      BY <2>1, <2>3
    <3>2. notes[i + 1].to # u
      BY <1>i, <1>a, <2>2, <3>1 DEF NotesWait
    <3>3. notes[i + 1].to \in Threads /\ pc[notes[i + 1].to] = "registry"
      BY <1>i, <3>1 DEF NotesWait
    <3> QED
      BY <1>i, <1>b, <3>1, <3>2, <3>3 DEF Types
  <2>4. ASSUME NEW i \in 1 .. Len(notes'), NEW j \in 1 .. Len(notes'),
               notes'[i].kind = "answer", notes'[j].kind = "answer", notes'[i].to = notes'[j].to
        PROVE  i = j
    <3>1. i + 1 = j + 1
      BY <1>i, <2>1, <2>4 DEF NotesWait
    <3> QED
      BY <3>1
  <2> QED
    BY <2>3, <2>4 DEF NotesWait
<1>8. InboxWait'
  BY <1>i, <1>a, <1>b DEF InboxWait, Types, Answer
<1> QED
  BY <1>1, <1>2, <1>3, <1>4, <1>5, <1>6, <1>7, <1>8 DEF IInv

(* It takes a notification, and goes on to the cache.                      *)
LEMMA OnNotePreserves ==
  ASSUME IInv, OnNote
  PROVE  IInv'
<1> USE Distinct, ThreadsAssumption DEF OnNote, Go,
          CallStates, HoldStates, Locks, IInv
<1>0. /\ notes' \in Seq(Note) /\ Len(notes') = Len(notes) - 1 /\ Len(notes) \in Nat \ {0}
      /\ Head(notes) \in Note /\ Head(notes) = notes[1]
      /\ \A i \in 1 .. Len(notes') : notes'[i] = notes[i + 1]
  BY Taken DEF Types
<1>1. Types'
  BY <1>0 DEF Types, Note
<1>2. Places'
  BY <1>0 DEF Places, Note
<1>3. Owners'
  BY <1>0 DEF Owners, Note
<1>4. Holders'
  BY <1>0 DEF Holders, Note
<1>5. Held'
  BY <1>0 DEF Held, Note
<1>6. Handling'
  BY DEF Handling
<1>7. NotesWait'
  BY DEF NotesWait
<1>8. InboxWait'
  BY DEF InboxWait
<1> QED
  BY <1>1, <1>2, <1>3, <1>4, <1>5, <1>6, <1>7, <1>8 DEF IInv

(* An ONLINE takes the lock of the hosts and lets it go in one step.       *)
LEMMA OnlinePreserves ==
  ASSUME IInv, Online
  PROVE  IInv'
<1> USE Distinct, ThreadsAssumption DEF Online, Go, Free,
          CallStates, HoldStates, Locks, IInv
<1>1. Types'
  BY DEF Types
<1>2. Places'
  BY DEF Places
<1>3. Owners'
  BY DEF Owners
<1>4. Holders'
  BY DEF Holders
<1>5. Held'
  BY DEF Held
<1>6. Handling'
  BY DEF Handling
<1>7. NotesWait'
  BY DEF NotesWait
<1>8. InboxWait'
  BY DEF InboxWait
<1> QED
  BY <1>1, <1>2, <1>3, <1>4, <1>5, <1>6, <1>7, <1>8 DEF IInv

(* An OFFLINE keeps the lock of the hosts while the client is deleted.     *)
LEMMA OfflinePreserves ==
  ASSUME IInv, Offline
  PROVE  IInv'
<1> USE Distinct, ThreadsAssumption DEF Offline, Go, Free,
          CallStates, HoldStates, Locks, IInv
<1>1. Types'
  BY DEF Types
<1>2. Places'
  BY DEF Places
<1>3. Owners'
  BY DEF Types, Owners
<1>4. Holders'
  BY DEF Holders
<1>5. Held'
  BY DEF Held
<1>6. Handling'
  BY DEF Handling
<1>7. NotesWait'
  BY DEF NotesWait
<1>8. InboxWait'
  BY DEF InboxWait
<1> QED
  BY <1>1, <1>2, <1>3, <1>4, <1>5, <1>6, <1>7, <1>8 DEF IInv

(* The pool's client, which nobody else holds, goes: the discovery thread  *)
(* joins it under both locks.                                              *)
LEMMA DelClientDestroysPreserves ==
  ASSUME IInv, DelClient,
         pool # None, \A t \in Threads : client[t] # pool
  PROVE  IInv'
<1> USE Distinct, ThreadsAssumption DEF DelClient, Go, Free, Finish,
          CallStates, HoldStates, Locks, IInv
<1>0. /\ pc[D] = "delete" /\ pc' = [pc EXCEPT ![D] = "join"]
      /\ pool \in Clients /\ pool' = None
      /\ client' = [client EXCEPT ![D] = pool]
      /\ lock' = [lock EXCEPT !["pool"] = D]
      /\ UNCHANGED <<calling, cached, obj, notes, inbox>>
  BY DEF Types
<1>1. Types'
  BY <1>0 DEF Types
<1>2. Places'
  BY <1>0 DEF Places
<1>3. Owners'
  BY <1>0 DEF Types, Owners
<1>4. Holders'
  BY <1>0 DEF Types, Holders
<1>5. Held'
  BY <1>0 DEF Types, Holders, Held
<1>6. Handling'
  BY <1>0 DEF Handling
<1>7. NotesWait'
  BY <1>0 DEF NotesWait
<1>8. InboxWait'
  BY <1>0 DEF InboxWait
<1> QED
  BY <1>1, <1>2, <1>3, <1>4, <1>5, <1>6, <1>7, <1>8 DEF IInv

(* A client in use leaves the pool only, and its last user will destroy    *)
(* it.                                                                     *)
LEMMA DelClientLeavesPreserves ==
  ASSUME IInv, DelClient,
         pool = None \/ \E t \in Threads : client[t] = pool
  PROVE  IInv'
<1> USE Distinct, ThreadsAssumption DEF DelClient, Go, Free, Finish,
          CallStates, HoldStates, Locks, IInv
<1>0. /\ pc[D] = "delete" /\ pc' = [pc EXCEPT ![D] = "idle"]
      /\ pool' = None
      /\ lock' = [l \in Locks |-> IF lock[l] = D THEN None ELSE lock[l]]
      /\ calling' = calling \ {D}
      /\ UNCHANGED <<client, cached, obj, notes, inbox>>
  BY DEF Types
<1>1. Types'
  BY <1>0 DEF Types
<1>2. Places'
  BY <1>0 DEF Places
<1>3. Owners'
  BY <1>0 DEF Types, Owners
<1>4. Holders'
  BY <1>0 DEF Holders
<1>5. Held'
  BY <1>0 DEF Types, Holders, Held
<1>6. Handling'
  BY <1>0 DEF Handling
<1>7. NotesWait'
  BY <1>0 DEF NotesWait
<1>8. InboxWait'
  BY <1>0 DEF InboxWait
<1> QED
  BY <1>1, <1>2, <1>3, <1>4, <1>5, <1>6, <1>7, <1>8 DEF IInv

(* The connection of a client comes up in its IO thread.                   *)
LEMMA ConnectedPreserves ==
  ASSUME IInv, NEW c \in Clients, Connected(c)
  PROVE  IInv'
<1> USE Distinct, ThreadsAssumption DEF Connected,
          CallStates, HoldStates, Locks, IInv
<1>1. Types'
  BY DEF Types
<1>2. Places'
  BY DEF Places
<1>3. Owners'
  BY DEF Owners
<1>4. Holders'
  BY DEF Holders
<1>5. Held'
  BY DEF Held
<1>6. Handling'
  BY DEF Handling
<1>7. NotesWait'
  BY DEF NotesWait
<1>8. InboxWait'
  BY DEF InboxWait
<1> QED
  BY <1>1, <1>2, <1>3, <1>4, <1>5, <1>6, <1>7, <1>8 DEF IInv

(* A client's IO thread has a message and goes to the dispatcher's lock.   *)
LEMMA OnMessagePreserves ==
  ASSUME IInv, NEW c \in Clients, OnMessage(c)
  PROVE  IInv'
<1> USE Distinct, ThreadsAssumption DEF OnMessage, Go, dataVars,
          CallStates, HoldStates, Locks, IInv
<1>1. Types'
  BY DEF Types
<1>2. Places'
  BY DEF Places
<1>3. Owners'
  BY DEF Owners
<1>4. Holders'
  BY DEF Holders
<1>5. Held'
  BY DEF Held
<1>6. Handling'
  BY DEF Handling
<1>7. NotesWait'
  BY DEF NotesWait
<1>8. InboxWait'
  BY DEF InboxWait
<1> QED
  BY <1>1, <1>2, <1>3, <1>4, <1>5, <1>6, <1>7, <1>8 DEF IInv

(* It handles the message under the lock, which no other client's thread   *)
(* then has.                                                               *)
LEMMA DispatchPreserves ==
  ASSUME IInv, NEW c \in Clients, Dispatch(c)
  PROVE  IInv'
<1> USE Distinct, ThreadsAssumption DEF Dispatch, Go, Free, dataVars,
          CallStates, HoldStates, Locks, IInv
<1>1. Types'
  BY DEF Types
<1>2. Places'
  BY DEF Places
<1>3. Owners'
  BY DEF Types, Owners
<1>4. Holders'
  BY DEF Holders
<1>5. Held'
  BY DEF Held
<1>6. Handling'
  BY DEF Handling
<1>7. NotesWait'
  BY DEF NotesWait
<1>8. InboxWait'
  BY DEF InboxWait
<1> QED
  BY <1>1, <1>2, <1>3, <1>4, <1>5, <1>6, <1>7, <1>8 DEF IInv

(* The handler sets the promise the answer is for, and lets the lock go.   *)
LEMMA AnswerSyncPreserves ==
  ASSUME IInv, NEW c \in Clients, AnswerSync(c)
  PROVE  IInv'
<1> USE Distinct, ThreadsAssumption DEF CallStates, HoldStates, Locks
<1>i. Types /\ Places /\ Owners /\ Holders /\ Held /\ Handling /\ NotesWait /\ InboxWait
  BY DEF IInv
<1> DEFINE q == inbox[c]
<1>1. /\ pc[c] = "handle" /\ q \in Seq(Answer) /\ q # <<>>
      /\ inbox' = [inbox EXCEPT ![c] = Tail(q)]
      /\ lock' = [lock EXCEPT !["dispatch"] = None]
      /\ pc' = [pc EXCEPT ![c] = "idle", ![Head(q).to] = "return"]
      /\ Head(q).kind = "sync"
      /\ UNCHANGED <<calling, client, cached, pool, obj, notes>>
  BY <1>i DEF AnswerSync, Take, Types, Handling
<1>2. /\ Tail(q) \in Seq(Answer) /\ Len(Tail(q)) = Len(q) - 1 /\ Len(q) \in Nat \ {0}
      /\ Head(q) \in Answer /\ Head(q) = q[1]
      /\ \A i \in 1 .. Len(Tail(q)) : Tail(q)[i] = q[i + 1]
  BY <1>1, Taken
<1>3. /\ inbox'[c] = Tail(q) /\ \A d \in Clients \ {c} : inbox'[d] = inbox[d]
      /\ inbox' \in [Clients -> Seq(Answer)]
  BY <1>i, <1>1, <1>2 DEF Types
<1>q. /\ \A i \in 1 .. Len(q) : q[i].kind = "sync" => pc[q[i].to] = "answer" /\ client[q[i].to] = c
      /\ \A i, j \in 1 .. Len(q) : q[i].kind = "sync" /\ q[j].kind = "sync" /\ q[i].to = q[j].to => i = j
  BY <1>i DEF InboxWait
<1> HIDE DEF q
<1>4. PICK u \in Threads : u = q[1].to /\ pc[u] = "answer" /\ client[u] = c
  <2>1. 1 \in 1 .. Len(q) /\ q[1].to \in Threads
    BY <1>2 DEF Answer
  <2> QED
    BY <1>1, <1>2, <1>q, <2>1
<1>5. /\ c \in Threads /\ u # c /\ u # D /\ c \notin calling /\ u \in Users \cup calling
  BY <1>i, <1>1, <1>4 DEF Places
<1>6. /\ pc' \in [Threads -> CallStates \cup {"idle", "online", "offline", "delete", "dispatch", "handle"}]
      /\ pc'[c] = "idle" /\ pc'[u] = "return"
      /\ \A x \in Threads \ {c, u} : pc'[x] = pc[x]
  BY <1>i, <1>1, <1>2, <1>4, <1>5 DEF Types
<1>7. Types'
  <2>1. Len(inbox'[c]) <= MaxAnswers
    BY <1>i, <1>2, <1>3 DEF Types, q
  <2>2. \A d \in Clients \ {c} : Len(inbox'[d]) <= MaxAnswers
    BY <1>i, <1>3 DEF Types
  <2>3. \A d \in Clients : Len(inbox'[d]) <= MaxAnswers
    BY <2>1, <2>2
  <2>4. lock' \in [Locks -> Threads \cup {None}]
    BY <1>i, <1>1 DEF Types
  <2> QED
    BY <1>i, <1>1, <1>3, <1>6, <2>3, <2>4 DEF Types
<1>8. Places'
  <2>1. \A x \in Users \cup calling : pc[x] \in CallStates \cup {"idle"} /\ x # c /\ x \in Threads
    BY <1>i, <1>5 DEF Places, Types
  <2>2. /\ \A x \in Users : pc'[x] \in CallStates \cup {"idle"}
        /\ \A d \in calling : pc'[d] \in CallStates
    BY <1>i, <1>5, <1>6, <2>1 DEF Places
  <2>3. \A d \in Clients \ calling : d # u
    BY <1>5
  <2>4. \A d \in Clients \ calling : pc'[d] \in {"idle", "dispatch", "handle"}
    BY <1>i, <1>6, <2>3 DEF Places
  <2>5. pc'[D] \in {"idle", "online", "offline", "delete", "join"}
    BY <1>i, <1>5, <1>6 DEF Places
  <2> QED
    BY <1>1, <2>2, <2>4, <2>5 DEF Places
<1>9. Owners'
  <2>1. \A d \in Clients : (d \in calling \/ pc[d] = "handle") <=> d = c
    BY <1>i, <1>1 DEF Owners
  <2>2. \A d \in Clients : ~ (d \in calling \/ pc'[d] = "handle")
    BY <1>5, <1>6, <2>1
  <2>3. /\ lock'["dispatch"] = None /\ lock'["hosts"] = lock["hosts"] /\ lock'["pool"] = lock["pool"]
        /\ pc'[D] = pc[D]
    BY <1>i, <1>1, <1>5, <1>6 DEF Types
  <2> QED
    BY <1>i, <1>1, <2>2, <2>3, ZenonT(60) DEF Owners
<1>10. Holders'
  BY <1>i, <1>1, <1>4, <1>5, <1>6 DEF Holders
<1>11. Held'
  <2>1. \A x \in Threads : pc'[x] = "join" => pc[x] = "join"
    BY <1>5, <1>6
  <2> QED
    BY <1>i, <1>1, <2>1 DEF Held
<1>12. Handling'
  <2>1. \A d \in Clients \ {c} : pc'[d] \in {"dispatch", "handle"} => pc[d] \in {"dispatch", "handle"}
    BY <1>5, <1>6
  <2> QED
    BY <1>i, <1>3, <1>6, <2>1 DEF Handling
<1>13. NotesWait'
  <2>1. \A x \in Threads : pc[x] = "registry" => pc'[x] = "registry"
    BY <1>1, <1>4, <1>6
  <2> QED
    BY <1>i, <1>1, <2>1 DEF NotesWait
<1>14. InboxWait'
  <2>1. \A x \in Threads \ {u} : pc[x] = "answer" => pc'[x] = "answer"
    BY <1>1, <1>6
  <2>2. \A i \in 1 .. Len(Tail(q)) : i + 1 \in 1 .. Len(q) /\ i + 1 # 1 /\ 1 \in 1 .. Len(q)
    BY <1>2
  <2>3. ASSUME NEW i \in 1 .. Len(Tail(q)), Tail(q)[i].kind = "sync"
        PROVE  pc'[Tail(q)[i].to] = "answer" /\ client'[Tail(q)[i].to] = c
    <3>1. q[i + 1].kind = "sync" /\ q[i + 1] \in Answer /\ Tail(q)[i] = q[i + 1]
      BY <1>1, <1>2, <2>2, <2>3 DEF q
    <3>2. q[i + 1].to # u
      BY <1>1, <1>2, <1>4, <1>q, <2>2, <3>1
    <3>3. q[i + 1].to \in Threads /\ pc[q[i + 1].to] = "answer" /\ client[q[i + 1].to] = c
      BY <1>q, <2>2, <3>1 DEF Answer
    <3> QED
      BY <1>1, <2>1, <3>1, <3>2, <3>3
  <2>4. ASSUME NEW i \in 1 .. Len(Tail(q)), NEW j \in 1 .. Len(Tail(q)),
               Tail(q)[i].kind = "sync", Tail(q)[j].kind = "sync", Tail(q)[i].to = Tail(q)[j].to
        PROVE  i = j
    <3>1. i + 1 = j + 1
      BY <1>2, <1>q, <2>2, <2>4
    <3> QED
      BY <3>1
  <2>5. ASSUME NEW d \in Clients \ {c}, NEW i \in 1 .. Len(inbox[d]), inbox[d][i].kind = "sync"
        PROVE  pc'[inbox[d][i].to] = "answer" /\ client'[inbox[d][i].to] = d
    <3>1. inbox[d][i].to \in Threads
      <4>1. inbox[d] \in Seq(Answer)
        BY <1>i DEF Types
      <4>2. inbox[d][i] \in Answer
        BY <4>1
      <4> QED
        BY <4>2 DEF Answer
    <3>2. pc[inbox[d][i].to] = "answer" /\ client[inbox[d][i].to] = d
      BY <1>i, <2>5 DEF InboxWait
    <3> QED
      BY <1>1, <1>4, <2>1, <3>1, <3>2
  <2>6. ASSUME NEW d \in Clients \ {c}, NEW i \in 1 .. Len(inbox[d]), NEW j \in 1 .. Len(inbox[d]),
               inbox[d][i].kind = "sync", inbox[d][j].kind = "sync", inbox[d][i].to = inbox[d][j].to
        PROVE  i = j
    BY <1>i, <2>6 DEF InboxWait
  <2>7. ASSUME NEW d \in Clients
        PROVE  /\ \A i \in 1 .. Len(inbox'[d]) : inbox'[d][i].kind = "sync" =>
                    pc'[inbox'[d][i].to] = "answer" /\ client'[inbox'[d][i].to] = d
               /\ \A i, j \in 1 .. Len(inbox'[d]) :
                    inbox'[d][i].kind = "sync" /\ inbox'[d][j].kind = "sync"
                      /\ inbox'[d][i].to = inbox'[d][j].to => i = j
    <3>1. CASE d = c
      <4>1. inbox'[d] = Tail(q)
        BY <1>3, <3>1
      <4> QED
        BY <2>3, <2>4, <3>1, <4>1
    <3>2. CASE d # c
      BY <1>3, <2>5, <2>6, <3>2
    <3> QED
      BY <3>1, <3>2
  <2> QED
    BY <2>7 DEF InboxWait
<1> QED
  BY <1>7, <1>8, <1>9, <1>10, <1>11, <1>12, <1>13, <1>14 DEF IInv

(* The handler runs a callback that makes no call, and lets the lock go.   *)
LEMMA RunCallbackPreserves ==
  ASSUME IInv, NEW c \in Clients, RunCallback(c)
  PROVE  IInv'
<1> USE Distinct, ThreadsAssumption DEF RunCallback, Go, Finish, Take,
          CallStates, HoldStates, Locks, IInv
<1>0. /\ inbox' \in [Clients -> Seq(Answer)] /\ Len(inbox'[c]) = Len(inbox[c]) - 1
      /\ \A d \in Clients \ {c} : inbox'[d] = inbox[d]
      /\ Len(inbox[c]) \in Nat \ {0}
      /\ Head(inbox[c]) \in Answer /\ Head(inbox[c]) = inbox[c][1]
      /\ \A i \in 1 .. Len(inbox'[c]) : inbox'[c][i] = inbox[c][i + 1]
  <2>1. inbox[c] \in Seq(Answer) /\ inbox[c] # <<>>
    BY DEF Types, Handling
  <2>2. /\ Tail(inbox[c]) \in Seq(Answer) /\ Len(Tail(inbox[c])) = Len(inbox[c]) - 1
        /\ Len(inbox[c]) \in Nat \ {0}
        /\ Head(inbox[c]) \in Answer /\ Head(inbox[c]) = inbox[c][1]
        /\ \A i \in 1 .. Len(Tail(inbox[c])) : Tail(inbox[c])[i] = inbox[c][i + 1]
    BY <2>1, Taken
  <2>3. inbox' = [inbox EXCEPT ![c] = Tail(@)]
    OBVIOUS
  <2> QED
    BY <2>2, <2>3 DEF Types
<1>1. Types'
  BY <1>0 DEF Types, Answer
<1>2. Places'
  BY DEF Places
<1>3. Owners'
  BY DEF Types, Owners
<1>4. Holders'
  BY DEF Holders
<1>5. Held'
  BY DEF Held
<1>6. Handling'
  BY DEF Types, Handling
<1>7. NotesWait'
  BY DEF NotesWait
<1>8. InboxWait'
  BY DEF InboxWait
<1> QED
  BY <1>1, <1>2, <1>3, <1>4, <1>5, <1>6, <1>7, <1>8 DEF IInv

(* The handler runs a callback that begins a call, with the lock still     *)
(* taken.                                                                  *)
LEMMA CallbackCallsPreserves ==
  ASSUME IInv, NEW c \in Clients, CallbackCalls(c)
  PROVE  IInv'
<1> USE Distinct, ThreadsAssumption DEF CallbackCalls, Go, Take,
          CallStates, HoldStates, Locks, IInv
<1>0. /\ inbox' \in [Clients -> Seq(Answer)] /\ Len(inbox'[c]) = Len(inbox[c]) - 1
      /\ \A d \in Clients \ {c} : inbox'[d] = inbox[d]
      /\ Len(inbox[c]) \in Nat \ {0}
      /\ Head(inbox[c]) \in Answer /\ Head(inbox[c]) = inbox[c][1]
      /\ \A i \in 1 .. Len(inbox'[c]) : inbox'[c][i] = inbox[c][i + 1]
  <2>1. inbox[c] \in Seq(Answer) /\ inbox[c] # <<>>
    BY DEF Types, Handling
  <2>2. /\ Tail(inbox[c]) \in Seq(Answer) /\ Len(Tail(inbox[c])) = Len(inbox[c]) - 1
        /\ Len(inbox[c]) \in Nat \ {0}
        /\ Head(inbox[c]) \in Answer /\ Head(inbox[c]) = inbox[c][1]
        /\ \A i \in 1 .. Len(Tail(inbox[c])) : Tail(inbox[c])[i] = inbox[c][i + 1]
    BY <2>1, Taken
  <2>3. inbox' = [inbox EXCEPT ![c] = Tail(@)]
    OBVIOUS
  <2> QED
    BY <2>2, <2>3 DEF Types
<1>1. Types'
  BY <1>0 DEF Types, Answer
<1>2. Places'
  BY DEF Types, Places
<1>3. Owners'
  BY DEF Owners
<1>4. Holders'
  BY DEF Holders
<1>5. Held'
  BY DEF Held
<1>6. Handling'
  BY DEF Types, Handling
<1>7. NotesWait'
  BY DEF NotesWait
<1>8. InboxWait'
  BY DEF InboxWait
<1> QED
  BY <1>1, <1>2, <1>3, <1>4, <1>5, <1>6, <1>7, <1>8 DEF IInv

(* Every step of every thread keeps the invariant.                         *)
LEMMA NextPreserves ==
  ASSUME IInv, [Next]_vars
  PROVE  IInv'
<1>1. CASE UNCHANGED vars
  BY <1>1 DEF vars, IInv, Types, Places, Owners, Holders, Held, Handling, NotesWait, InboxWait
<1>2. ASSUME NEW t \in Threads, StartCall(t) \/ CallStep(t)
      PROVE  IInv'
  BY <1>2, StartCallPreserves, FromCachePreserves, AskRegistryPreserves, InstallPreserves,
     NothingFoundPreserves, GetClientPreserves, CreateClientPreserves, PutClientPreserves,
     SendPreserves, ReturnLastPreserves, ReturnNotLastPreserves, JoinPreserves DEF CallStep
<1>3. CASE DelClient
  <2>1. CASE pool # None /\ \A t \in Threads : client[t] # pool
    BY <1>3, <2>1, DelClientDestroysPreserves
  <2>2. CASE pool = None \/ \E t \in Threads : client[t] = pool
    BY <1>3, <2>2, DelClientLeavesPreserves
  <2> QED
    BY <2>1, <2>2
<1>4. CASE DiscoveryIO
  BY <1>3, <1>4, OnDiscoveredPreserves, OnNotePreserves, OnlinePreserves, OfflinePreserves
     DEF DiscoveryIO
<1>5. ASSUME NEW c \in Clients, ClientIO(c)
      PROVE  IInv'
  BY <1>5, ConnectedPreserves, OnMessagePreserves, DispatchPreserves, AnswerSyncPreserves,
     RunCallbackPreserves, CallbackCallsPreserves DEF ClientIO
<1> QED
  BY <1>1, <1>2, <1>4, <1>5, RegistryPreserves DEF Next

-----------------------------------------------------------------------------

(* The invariant: what each kind of thread may be doing, which thread has  *)
(* which lock, who holds which client, and for whom each message on its    *)
(* way is.                                                                 *)
THEOREM InvariantHolds == Spec => []IInv
<1>1. IInv /\ [Next]_vars => IInv'
  BY NextPreserves
<1> QED
  BY <1>1, InitInvariant, PTL DEF Spec

(* The invariant says more of the variables than their types.              *)
LEMMA TypesFollow == IInv => ThreadsTypeOK
BY ThreadsAssumption DEF IInv, Types, Holders, HoldStates, CallStates, ThreadsTypeOK, Threads

(* A client exists exactly while the pool or a thread holds it, and the    *)
(* thread that joins a client is its only holder: the shared pointers of   *)
(* RpcClient destroy each client once, under nobody's feet.                *)
THEOREM HeldClientsExistAlways == Spec => []HeldClientsExist
<1>1. ASSUME IInv PROVE HeldClientsExist
  <2>1. ASSUME NEW c \in Clients
        PROVE  obj[c] # "none" <=> pool = c \/ \E t \in Threads : client[t] = c
    BY <1>1 DEF IInv, Held
  <2>2. ASSUME NEW c \in Clients, NEW t \in Threads, pc[t] = "join", client[t] = c
        PROVE  pool # c /\ Cardinality({u \in Threads : client[u] = c}) = 1
    <3>1. pool # c /\ \A u \in Threads \ {t} : client[u] # c
      BY <1>1, <2>2 DEF IInv, Held
    <3>2. {u \in Threads : client[u] = c} = {t}
      BY <2>2, <3>1
    <3> QED
      BY <3>1, <3>2, FS_Singleton
  <2> QED
    BY <1>1, <2>1, <2>2, TypesFollow DEF HeldClientsExist
<1> QED
  BY <1>1, InvariantHolds, PTL

(* What a thread waits for, by where it is.                                *)
LEMMA WaitsDefined ==
  ASSUME NEW t \in Threads
  PROVE  /\ pc[t] \in {"discover", "online", "offline", "install"} => WaitsFor(t) = lock["hosts"]
         /\ pc[t] \in {"get", "delete"} => WaitsFor(t) = lock["pool"]
         /\ pc[t] = "connect" => WaitsFor(t) \in {lock["pool"], client[t]}
         /\ pc[t] = "dispatch" => WaitsFor(t) = lock["dispatch"]
         /\ pc[t] = "registry" => WaitsFor(t) = D
         /\ pc[t] \in {"answer", "join"} => WaitsFor(t) = client[t]
         /\ pc[t] \in {"idle", "send", "return", "handle"} => WaitsFor(t) = None
BY DEF WaitsFor

(* A circle of waiting threads goes through a callback that calls.  If not:*)
(* a client in the circle waits for the dispatcher's lock, whose owner is  *)
(* neither in a callback that calls nor waiting; so no client is in it, and*)
(* a user waits for D, which alone holds the other locks; and D waits for  *)
(* a lock that only D itself could hold, or for a client.                  *)
THEOREM StuckOnlyInCallbackAlways == Spec => []StuckOnlyInCallback
<1>1. ASSUME IInv, NEW S \in SUBSET Threads, Stuck(S)
      PROVE  S \cap calling # {}
  <2> USE Distinct
  <2>i. Types /\ Places /\ Owners /\ Holders
    BY <1>1 DEF IInv
  <2>1. SUFFICES ASSUME S \cap calling = {} PROVE FALSE
    OBVIOUS
  <2>2. S # {} /\ \A t \in S : t \in Threads /\ WaitsFor(t) \in S /\ WaitsFor(t) # None
    BY <1>1 DEF Stuck
  <2>3. \A c \in Clients : c \notin S
    <3>1. SUFFICES ASSUME NEW c \in Clients, c \in S PROVE FALSE
      OBVIOUS
    <3>2. ASSUME NEW d \in Clients, d \in S
          PROVE  pc[d] = "dispatch" /\ lock["dispatch"] \in S
      <4>1. pc[d] \in {"idle", "dispatch", "handle"}
        BY <2>i, <2>1, <3>2 DEF Places
      <4> QED
        BY <2>2, <3>2, <4>1, WaitsDefined
    <3>3. lock["dispatch"] \in Clients /\ lock["dispatch"] \in S
      BY <2>i, <2>2, <3>1, <3>2 DEF Owners
    <3>4. lock["dispatch"] \in calling \/ pc[lock["dispatch"]] = "handle"
      BY <2>i, <3>3 DEF Owners
    <3> QED
      BY <2>1, <3>2, <3>3, <3>4
  <2>4. D \in S
    <3>1. SUFFICES ASSUME NEW u \in S, u # D PROVE D \in S
      BY <2>2
    <3>2. u \in Users /\ pc[u] \in CallStates \cup {"idle"}
      BY <2>i, <2>2, <2>3, <3>1 DEF Places
    <3>3. WaitsFor(u) \in {lock["hosts"], lock["pool"], D} \cup Clients
      BY <2>i, <2>2, <3>2, WaitsDefined DEF CallStates, Holders, HoldStates
    <3> QED
      BY <2>i, <2>2, <2>3, <3>3 DEF Owners
  <2>5. pc[D] \in {"online", "offline", "delete", "join"}
    BY <2>i, <2>2, <2>4, WaitsDefined DEF Places
  <2>6. CASE pc[D] \in {"online", "offline"}
    BY <2>i, <2>2, <2>4, <2>6, WaitsDefined DEF Owners
  <2>7. CASE pc[D] = "delete"
    BY <2>i, <2>2, <2>4, <2>7, WaitsDefined DEF Owners
  <2>8. CASE pc[D] = "join"
    BY <2>i, <2>2, <2>3, <2>4, <2>8, WaitsDefined DEF Holders, HoldStates
  <2> QED
    BY <2>5, <2>6, <2>7, <2>8
<1>2. IInv => StuckOnlyInCallback
  BY <1>1 DEF StuckOnlyInCallback
<1> QED
  BY <1>2, InvariantHolds, PTL

NothingStuck == \A S \in SUBSET Threads : ~ Stuck(S)

(* When no callback makes a call, no threads wait for each other at all.   *)
THEOREM NeverStuckWithoutCalls == ~ CallbacksCall => (Spec => []NothingStuck)
<1> DEFINE NoneCalls == ~ CallbacksCall => calling = {}
<1>1. Init => NoneCalls
  BY DEF Init
<1>2. NoneCalls /\ [Next]_vars => NoneCalls'
  BY DEF Next, DiscoveryIO, ClientIO, CallStep, StartCall, FromCache, AskRegistry, Install,
         NothingFound, GetClient, CreateClient, PutClient, Send, Return, Join, Finish, Registry,
         OnDiscovered, OnNote, Online, Offline, DelClient, Connected, OnMessage, Dispatch,
         AnswerSync, RunCallback, CallbackCalls, vars
<1>3. Spec => []NoneCalls
  <2> HIDE DEF NoneCalls
  <2> QED
    BY <1>1, <1>2, PTL DEF Spec
<1>4. ~ CallbacksCall /\ StuckOnlyInCallback /\ NoneCalls => NothingStuck
  BY DEF StuckOnlyInCallback, NothingStuck
<1>5. SUFFICES ASSUME ~ CallbacksCall PROVE Spec => []NothingStuck
  OBVIOUS
<1>6. StuckOnlyInCallback /\ NoneCalls => NothingStuck
  BY <1>4, <1>5
<1> HIDE DEF NoneCalls
<1> QED
  BY <1>3, <1>6, StuckOnlyInCallbackAlways, PTL

=============================================================================
