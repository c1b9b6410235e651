--------------------------- MODULE RegistryProofs ---------------------------
(***************************************************************************)
(* Proofs about RegistryServer and Discovery for any number of             *)
(* connections, methods, hosts and user threads, and any bound: the maps   *)
(* and queues keep their types, the two indexes of each manager agree,     *)
(* closed connections are listed nowhere, the registry implements the      *)
(* directory, who is told of what, that answers meet the discoveries they  *)
(* belong to, and that a client hands out no host it was told has gone.    *)
(***************************************************************************)
EXTENDS Discovery, FiniteSetTheorems, WellFoundedInduction, TLAPS

(* A connection has methods exactly while it has a Provider: the early     *)
(* return of DelProvider and the null test of OnConnShutdown depend on it. *)
ProviderHasMethods ==
  \A c \in Conn : providerHost[c] = NoHost <=> providerMethods[c] = <<>>

IInv == MapsTypeOK /\ IndexesAgree /\ ListedAreConnected /\ ProviderHasMethods

(* What the registry does, with and without clients of this library.       *)
ServerStep ==
  \E c \in Conn :
    \/ OnConnected(c)
    \/ \E msg \in RequestsOf(c) : OnServiceRequest(c, msg)
    \/ OnConnShutdown(c)
    \/ Receive(c)
-----------------------------------------------------------------------------
(* A method appended to a provider's list is offered, and nothing else is. *)
LEMMA OffersAppend ==
  ASSUME NEW ms \in Seq(Method), NEW m \in Method, NEW n \in Method
  PROVE  (\E i \in 1..Len(Append(ms, m)) : Append(ms, m)[i] = n)
           <=> (n = m \/ \E i \in 1..Len(ms) : ms[i] = n)
<1>1. /\ Len(Append(ms, m)) = Len(ms) + 1
      /\ Append(ms, m)[Len(ms) + 1] = m
      /\ \A i \in 1..Len(ms) : Append(ms, m)[i] = ms[i]
  OBVIOUS
<1>2. Len(ms) \in Nat
  OBVIOUS
<1> QED
  BY <1>1, <1>2

(* AddProvider keeps the invariant of a connected peer's registration.     *)
LEMMA AddProviderPreserves ==
  ASSUME IInv, NEW c \in connected, NEW h \in Host, NEW m \in Method,
         AddProvider(c, h, m), UNCHANGED <<connected, discovererVars>>
  PROVE  IInv'
<1> USE RegistryAssumption
<1>1. c \in Conn /\ MapsTypeOK /\ IndexesAgree /\ ListedAreConnected /\ ProviderHasMethods
  BY DEF IInv, MapsTypeOK
<1>2. MapsTypeOK'
  BY <1>1 DEF MapsTypeOK, AddProvider, discovererVars
<1>3. ASSUME NEW d \in Conn, NEW n \in Method
      PROVE  Offers(d, n)' <=> (Offers(d, n) \/ (d = c /\ n = m))
  <2>1. CASE d = c
    <3>1. providerMethods'[c] = Append(providerMethods[c], m)
      BY <1>1 DEF MapsTypeOK, AddProvider
    <3>2. providerMethods[c] \in Seq(Method)
      BY <1>1 DEF MapsTypeOK
    <3> QED
      BY <2>1, <3>1, <3>2, OffersAppend DEF Offers
  <2>2. CASE d # c
    BY <1>1, <2>2 DEF MapsTypeOK, AddProvider, Offers
  <2> QED
    BY <2>1, <2>2
<1>4. IndexesAgree'
  BY <1>1, <1>3 DEF IndexesAgree, MapsTypeOK, AddProvider, discovererVars
<1>5. \A d \in Conn : d # c => providerHost'[d] = providerHost[d]
                               /\ providerMethods'[d] = providerMethods[d]
  BY <1>1 DEF MapsTypeOK, AddProvider
<1>6. providerHost'[c] \in Host
  BY <1>1 DEF MapsTypeOK, AddProvider
<1>7. ListedAreConnected'
  BY <1>1, <1>5, <1>6 DEF ListedAreConnected, MapsTypeOK, AddProvider, discovererVars
<1>8. ProviderHasMethods'
  <2>1. providerMethods'[c] # <<>>
    BY <1>1 DEF MapsTypeOK, AddProvider
  <2> QED
    BY <1>1, <1>5, <1>6, <2>1 DEF ProviderHasMethods
<1> QED
  BY <1>2, <1>4, <1>7, <1>8 DEF IInv

(* AddDiscoverer does, too.                                                *)
LEMMA AddDiscovererPreserves ==
  ASSUME IInv, NEW c \in connected, NEW m \in Method,
         AddDiscoverer(c, m), UNCHANGED <<connected, providerVars>>
  PROVE  IInv'
<1>1. c \in Conn /\ MapsTypeOK /\ IndexesAgree /\ ListedAreConnected /\ ProviderHasMethods
  BY DEF IInv, MapsTypeOK
<1>2. MapsTypeOK'
  BY <1>1 DEF MapsTypeOK, AddDiscoverer, providerVars
<1>3. IndexesAgree'
  BY <1>1 DEF IndexesAgree, MapsTypeOK, AddDiscoverer, providerVars, Offers
<1>4. ListedAreConnected'
  BY <1>1 DEF ListedAreConnected, MapsTypeOK, AddDiscoverer, providerVars
<1>5. ProviderHasMethods'
  BY <1>1 DEF ProviderHasMethods, providerVars
<1> QED
  BY <1>2, <1>3, <1>4, <1>5 DEF IInv

(* DelProvider and DelDiscoverer find every entry of a connection through  *)
(* its lists (IndexesAgree); without a Provider there is none to find.     *)
LEMMA CloseErases ==
  ASSUME IInv, NEW c \in Conn, OnConnShutdown(c)
  PROVE  /\ providers' = [m \in Method |-> providers[m] \ {c}]
         /\ providerHost' = [providerHost EXCEPT ![c] = NoHost]
         /\ providerMethods' = [providerMethods EXCEPT ![c] = <<>>]
         /\ discoverers' = [m \in Method |-> discoverers[m] \ {c}]
         /\ discovererMethods' = [discovererMethods EXCEPT ![c] = {}]
<1>0. MapsTypeOK /\ IndexesAgree /\ ProviderHasMethods
  BY DEF IInv
<1>1. /\ discoverers' = [m \in Method |-> discoverers[m] \ {c}]
      /\ discovererMethods' = [discovererMethods EXCEPT ![c] = {}]
  <2>1. DelDiscoverer(c)
    BY DEF OnConnShutdown
  <2> QED
    BY <1>0, <2>1 DEF DelDiscoverer, IndexesAgree, MapsTypeOK
<1>2. CASE providerHost[c] # NoHost
  <2>1. DelProvider(c)
    BY <1>2 DEF OnConnShutdown
  <2>2. \A m \in Method : ~ Offers(c, m) => c \notin providers[m]
    BY <1>0 DEF IndexesAgree
  <2> QED
    BY <1>0, <1>1, <2>1, <2>2 DEF DelProvider, MapsTypeOK
<1>3. CASE providerHost[c] = NoHost
  <2>1. UNCHANGED providerVars
    BY <1>3 DEF OnConnShutdown
  <2>2. providerMethods[c] = <<>>
    BY <1>0, <1>3 DEF ProviderHasMethods
  <2>3. \A m \in Method : c \notin providers[m]
    BY <1>0, <2>2 DEF IndexesAgree, Offers
  <2> QED
    BY <1>0, <1>1, <1>3, <2>1, <2>2, <2>3 DEF MapsTypeOK, providerVars
<1> QED
  BY <1>2, <1>3

(* So a close keeps the invariant.                                         *)
LEMMA ShutdownPreserves ==
  ASSUME IInv, NEW c \in Conn, OnConnShutdown(c)
  PROVE  IInv'
<1>1. /\ MapsTypeOK /\ IndexesAgree /\ ListedAreConnected /\ ProviderHasMethods
      /\ connected' = connected \ {c}
  BY DEF IInv, OnConnShutdown
<1>2. /\ providers' = [m \in Method |-> providers[m] \ {c}]
      /\ providerHost' = [providerHost EXCEPT ![c] = NoHost]
      /\ providerMethods' = [providerMethods EXCEPT ![c] = <<>>]
  BY CloseErases
<1>3. /\ discoverers' = [m \in Method |-> discoverers[m] \ {c}]
      /\ discovererMethods' = [discovererMethods EXCEPT ![c] = {}]
  BY CloseErases
<1>4. MapsTypeOK'
  BY <1>1, <1>2, <1>3 DEF MapsTypeOK
<1>5. /\ providerHost'[c] = NoHost /\ providerMethods'[c] = <<>> /\ discovererMethods'[c] = {}
      /\ \A m \in Method : c \notin providers'[m] /\ c \notin discoverers'[m]
  BY <1>1, <1>2, <1>3 DEF MapsTypeOK
<1>6. ASSUME NEW d \in Conn, d # c
      PROVE  /\ providerHost'[d] = providerHost[d]
             /\ providerMethods'[d] = providerMethods[d]
             /\ discovererMethods'[d] = discovererMethods[d]
             /\ \A m \in Method : /\ d \in providers'[m] <=> d \in providers[m]
                                  /\ d \in discoverers'[m] <=> d \in discoverers[m]
  BY <1>1, <1>2, <1>3, <1>6 DEF MapsTypeOK
<1>7. IndexesAgree'
  <2> SUFFICES ASSUME NEW d \in Conn, NEW m \in Method
               PROVE  /\ d \in providers'[m] <=> Offers(d, m)'
                      /\ d \in discoverers'[m] <=> m \in discovererMethods'[d]
    BY DEF IndexesAgree
  <2>1. CASE d = c
    BY <1>5, <2>1 DEF Offers
  <2>2. CASE d # c
    BY <1>1, <1>6, <2>2 DEF Offers, IndexesAgree
  <2> QED
    BY <2>1, <2>2
<1>8. ListedAreConnected'
  <2> SUFFICES ASSUME NEW d \in Conn
               PROVE  /\ d \notin connected' =>
                            /\ providerHost'[d] = NoHost
                            /\ providerMethods'[d] = <<>>
                            /\ discovererMethods'[d] = {}
                            /\ \A m \in Method : d \notin providers'[m] /\ d \notin discoverers'[m]
                      /\ \A m \in Method : d \in providers'[m] => providerHost'[d] \in Host
    BY DEF ListedAreConnected
  <2>1. CASE d = c
    BY <1>5, <2>1
  <2>2. CASE d # c
    BY <1>1, <1>6, <2>2 DEF ListedAreConnected
  <2> QED
    BY <2>1, <2>2
<1>9. ProviderHasMethods'
  BY <1>1, <1>5, <1>6 DEF ProviderHasMethods
<1> QED
  BY <1>4, <1>7, <1>8, <1>9 DEF IInv

(* Steps that touch no map: a connect, an unknown operation, a reader.     *)
LEMMA MapsUntouched ==
  ASSUME IInv, UNCHANGED <<providerVars, discovererVars>>,
         connected' \in SUBSET Conn, connected \subseteq connected'
  PROVE  IInv'
<1>1. /\ providerHost' = providerHost /\ providerMethods' = providerMethods
      /\ providers' = providers
      /\ discovererMethods' = discovererMethods /\ discoverers' = discoverers
  BY DEF providerVars, discovererVars
<1>2. IndexesAgree' /\ ProviderHasMethods'
  BY <1>1 DEF IInv, IndexesAgree, ProviderHasMethods, Offers
<1>3. MapsTypeOK' /\ ListedAreConnected'
  BY <1>1 DEF IInv, MapsTypeOK, ListedAreConnected
<1> QED
  BY <1>2, <1>3 DEF IInv

(* What a peer may send: its own methods, and an address when it           *)
(* registers.                                                              *)
LEMMA RequestHasHost ==
  ASSUME NEW c \in Conn, NEW msg \in RequestsOf(c)
  PROVE  /\ msg.method \in Method
         /\ msg.optype = "SERVICE_REGISTRY" => msg.host \in Host
BY RegistryAssumption DEF RequestsOf, Request

(* An empty registry satisfies the invariant.                              *)
LEMMA InitInvariant == ServerInit => IInv
BY DEF ServerInit, IInv, MapsTypeOK, IndexesAgree, ListedAreConnected,
       ProviderHasMethods, Offers

(* Each handler of the registry preserves it.                              *)
LEMMA StepPreserves ==
  ASSUME IInv, ServerStep \/ UNCHANGED serverVars
  PROVE  IInv'
<1>0. connected \subseteq Conn
  BY DEF IInv, MapsTypeOK
<1>1. ASSUME NEW c \in Conn, OnConnected(c) PROVE IInv'
  BY <1>0, <1>1, MapsUntouched DEF OnConnected
<1>2. ASSUME NEW c \in Conn, NEW msg \in RequestsOf(c), OnServiceRequest(c, msg) PROVE IInv'
  <2>1. c \in connected /\ msg.method \in Method
    BY <1>2, RequestHasHost DEF OnServiceRequest
  <2>2. CASE OnRegistry(c, msg)
    <3>1. msg.host \in Host
      BY <2>2, RequestHasHost DEF OnRegistry
    <3>2. AddProvider(c, msg.host, msg.method) /\ UNCHANGED <<connected, discovererVars>>
      BY <2>2 DEF OnRegistry
    <3> QED
      BY <2>1, <3>1, <3>2, AddProviderPreserves
  <2>3. CASE OnDiscovery(c, msg)
    BY <2>1, <2>3, AddDiscovererPreserves DEF OnDiscovery
  <2>4. CASE OnUnknownOperation(c, msg)
    BY <1>0, <2>4, MapsUntouched DEF OnUnknownOperation
  <2> QED
    BY <1>2, <2>2, <2>3, <2>4 DEF OnServiceRequest
<1>3. ASSUME NEW c \in Conn, OnConnShutdown(c) PROVE IInv'
  BY <1>3, ShutdownPreserves
<1>4. ASSUME NEW c \in Conn, Receive(c) PROVE IInv'
  BY <1>0, <1>4, MapsUntouched DEF Receive
<1>5. CASE UNCHANGED serverVars
  BY <1>0, <1>5, MapsUntouched DEF serverVars
<1> QED
  BY <1>1, <1>2, <1>3, <1>4, <1>5 DEF ServerStep

(* The steps of the registry, without the bounds of the model.             *)
LEMMA NextIsServerStep == [ServerNext]_serverVars => ServerStep \/ UNCHANGED serverVars
BY DEF ServerNext, ServerStep

(* The next-state relation preserves the invariant.                        *)
LEMMA NextInvariant == IInv /\ [ServerNext]_serverVars => IInv'
BY StepPreserves, NextIsServerStep
-----------------------------------------------------------------------------
(* Every reachable state of the registry satisfies the invariant ...       *)
THEOREM InvariantHolds == ServerSpec => []IInv
<1> QED
  BY InitInvariant, NextInvariant, PTL DEF ServerSpec

(* ... so the managers' maps keep their types,                             *)
THEOREM MapsTypeCorrect == ServerSpec => []MapsTypeOK
<1>1. IInv => MapsTypeOK
  BY DEF IInv
<1> QED
  BY <1>1, InvariantHolds, PTL

(* what each manager records per method it records per connection,         *)
THEOREM IndexesAlwaysAgree == ServerSpec => []IndexesAgree
<1>1. IInv => IndexesAgree
  BY DEF IInv
<1> QED
  BY <1>1, InvariantHolds, PTL

(* and a closed connection leaves no listing and no interest behind.       *)
THEOREM ClosedAreUnlisted == ServerSpec => []ListedAreConnected
<1>1. IInv => ListedAreConnected
  BY DEF IInv
<1> QED
  BY <1>1, InvariantHolds, PTL
-----------------------------------------------------------------------------
(* Refinement: each handler is one step of the abstract directory.         *)

(* The listings, as the set of offers that the two maps make.              *)
LEMMA ListingsIn ==
  ASSUME NEW ps \in [Method -> SUBSET Conn], NEW hs,
         \A m \in Method : \A p \in ps[m] : hs[p] \in Host
  PROVE  {[peer |-> x[1], address |-> hs[x[1]], service |-> x[2]] :
            x \in {y \in Conn \X Method : y[1] \in ps[y[2]]}}
         = {o \in [peer : Conn, address : Host, service : Method] :
              o.peer \in ps[o.service] /\ hs[o.peer] = o.address}
<1> DEFINE offer(x) == [peer |-> x[1], address |-> hs[x[1]], service |-> x[2]]
           P == {y \in Conn \X Method : y[1] \in ps[y[2]]}
           S == {o \in [peer : Conn, address : Host, service : Method] :
                   o.peer \in ps[o.service] /\ hs[o.peer] = o.address}
<1>1. ASSUME NEW x \in P PROVE offer(x) \in S
  OBVIOUS
<1>2. ASSUME NEW o \in S PROVE \E x \in P : o = offer(x)
  <2>1. <<o.peer, o.service>> \in P
    OBVIOUS
  <2>2. o = offer(<<o.peer, o.service>>)
    OBVIOUS
  <2> HIDE DEF P, S, offer
  <2> QED
    BY <2>1, <2>2
<1> HIDE DEF offer, S, P
<1>3. {offer(x) : x \in P} = S
  BY <1>1, <1>2
<1> QED
  BY <1>3 DEF offer, S, P

(* Registering a method is one Offer, at the address of the Provider.      *)
LEMMA RegistryIsOffer ==
  ASSUME IInv, NEW c \in connected, NEW h \in Host, NEW m \in Method,
         AddProvider(c, h, m), UNCHANGED <<connected, discovererVars>>
  PROVE  Directory!Offer(c, h, m)
<1>1. c \in Conn /\ MapsTypeOK /\ ListedAreConnected /\ IndexesAgree /\ ProviderHasMethods
  BY DEF IInv, MapsTypeOK
<1> DEFINE b == providerHost'[c]
<1>2. /\ b \in Host
      /\ providerHost[c] # NoHost => b = providerHost[c]
      /\ providerHost[c] = NoHost => b = h
      /\ \A d \in Conn : d # c => providerHost'[d] = providerHost[d]
      /\ providers' = [providers EXCEPT ![m] = @ \cup {c}]
  BY <1>1, RegistryAssumption DEF MapsTypeOK, AddProvider
<1>3. Listings = {o \in [peer : Conn, address : Host, service : Method] :
                    o.peer \in providers[o.service] /\ providerHost[o.peer] = o.address}
  <2>1. /\ providers \in [Method -> SUBSET Conn]
        /\ \A n \in Method : \A p \in providers[n] : providerHost[p] \in Host
    BY <1>1 DEF MapsTypeOK, ListedAreConnected
  <2> QED
    BY <2>1, ListingsIn DEF Listings
<1>4. Listings' = {o \in [peer : Conn, address : Host, service : Method] :
                     o.peer \in providers'[o.service] /\ providerHost'[o.peer] = o.address}
  <2>1. /\ providers' \in [Method -> SUBSET Conn]
        /\ \A n \in Method : \A p \in providers'[n] : providerHost'[p] \in Host
    BY <1>1, <1>2 DEF MapsTypeOK, ListedAreConnected
  <2> QED
    BY <2>1, ListingsIn DEF Listings
<1>5. \A o \in Listings : o.peer = c => o.address = b
  <2> SUFFICES ASSUME NEW o \in Listings, o.peer = c PROVE o.address = b
    OBVIOUS
  <2>1. o.service \in Method /\ c \in providers[o.service] /\ providerHost[c] = o.address
    BY <1>3
  <2>2. providerHost[c] # NoHost
    BY <1>1, <2>1, RegistryAssumption DEF ListedAreConnected
  <2> QED
    BY <1>2, <2>1, <2>2
<1>6. (\A o \in Listings : o.peer # c) => b = h
  <2> SUFFICES ASSUME \A o \in Listings : o.peer # c, providerHost[c] # NoHost
               PROVE  b = h
    BY <1>2
  <2>1. PICK n \in Method : c \in providers[n]
    <3>1. providerMethods[c] \in Seq(Method) /\ providerMethods[c] # <<>>
      BY <1>1 DEF MapsTypeOK, ProviderHasMethods
    <3>2. 1 \in 1..Len(providerMethods[c]) /\ providerMethods[c][1] \in Method
      BY <3>1
    <3> QED
      BY <1>1, <3>2 DEF IndexesAgree, Offers
  <2> DEFINE o == [peer |-> c, address |-> providerHost[c], service |-> n]
  <2>2. providerHost[c] \in Host
    BY <1>1, <2>1 DEF ListedAreConnected
  <2>3. o \in Listings
    BY <1>1, <1>3, <2>1, <2>2
  <2> QED
    BY <2>3
<1>7. Listings' = Listings \cup {[peer |-> c, address |-> b, service |-> m]}
  <2> DEFINE new == [peer |-> c, address |-> b, service |-> m]
  <2>1. new \in [peer : Conn, address : Host, service : Method]
    BY <1>1, <1>2
  <2>2. ASSUME NEW o \in [peer : Conn, address : Host, service : Method]
        PROVE  o \in Listings' <=> (o \in Listings \/ o = new)
    <3>1. o \in Listings' <=> o.peer \in providers'[o.service] /\ providerHost'[o.peer] = o.address
      BY <1>4
    <3>2. o \in Listings <=> o.peer \in providers[o.service] /\ providerHost[o.peer] = o.address
      BY <1>3
    <3>3. o = new <=> o.peer = c /\ o.address = b /\ o.service = m
      BY <2>1
    <3>4. o.peer \in providers'[o.service]
            <=> (o.peer \in providers[o.service] \/ (o.peer = c /\ o.service = m))
      BY <1>1, <1>2 DEF MapsTypeOK
    <3>5. CASE o.peer = c
      <4>1. o.peer \in providers[o.service] => providerHost[c] = b
        BY <1>1, <1>2, <3>5, RegistryAssumption DEF ListedAreConnected
      <4> QED
        BY <3>1, <3>2, <3>3, <3>4, <3>5, <4>1
    <3>6. CASE o.peer # c
      BY <1>2, <3>1, <3>2, <3>3, <3>4, <3>6
    <3> QED
      BY <3>5, <3>6
  <2>3. /\ Listings \subseteq [peer : Conn, address : Host, service : Method]
        /\ Listings' \subseteq [peer : Conn, address : Host, service : Method]
    BY <1>3, <1>4
  <2> HIDE DEF new
  <2>4. Listings' = Listings \cup {new}
    BY <2>1, <2>2, <2>3
  <2> QED
    BY <2>4 DEF new
<1>8. UNCHANGED <<connected, Seekers>>
  BY DEF Seekers, discovererVars
<1> QED
  BY <1>1, <1>2, <1>5, <1>6, <1>7, <1>8 DEF Directory!Offer

(* A discovery request is one Seek.                                        *)
LEMMA DiscoveryIsSeek ==
  ASSUME IInv, NEW c \in connected, NEW m \in Method,
         AddDiscoverer(c, m), UNCHANGED <<connected, providerVars>>
  PROVE  Directory!Seek(c, m)
<1>1. c \in Conn /\ discoverers' = [discoverers EXCEPT ![m] = @ \cup {c}]
  BY DEF IInv, MapsTypeOK, AddDiscoverer
<1>2. Seekers' = Seekers \cup {<<c, m>>}
  BY <1>1 DEF Seekers, IInv, MapsTypeOK
<1>3. UNCHANGED <<connected, Listings>>
  BY DEF Listings, providerVars
<1> QED
  BY <1>2, <1>3 DEF Directory!Seek

(* A close is one Leave: no listing and no interest of c survives it.      *)
LEMMA ShutdownIsLeave ==
  ASSUME IInv, NEW c \in Conn, OnConnShutdown(c)
  PROVE  Directory!Leave(c)
<1>1. /\ MapsTypeOK /\ ListedAreConnected /\ IndexesAgree /\ ProviderHasMethods
      /\ c \in connected /\ connected' = connected \ {c}
  BY DEF IInv, OnConnShutdown
<1>2. ASSUME NEW d \in Conn, NEW m \in Method
      PROVE  /\ d \in providers'[m] <=> (d \in providers[m] /\ d # c)
             /\ d \in discoverers'[m] <=> (d \in discoverers[m] /\ d # c)
             /\ d # c => providerHost'[d] = providerHost[d]
  BY <1>1, CloseErases DEF MapsTypeOK
<1>3. Listings' = {o \in Listings : o.peer # c}
  BY <1>2 DEF Listings
<1>4. Seekers' = {x \in Seekers : x[1] # c}
  BY <1>2 DEF Seekers
<1> QED
  BY <1>1, <1>3, <1>4 DEF Directory!Leave

(* An empty registry is an empty directory.                                *)
LEMMA InitRefines == ServerInit => Directory!DirectoryInit
BY DEF ServerInit, Directory!DirectoryInit, Listings, Seekers

(* Each handler is an operation of the directory, or changes nothing in    *)
(* it.                                                                     *)
LEMMA StepRefines ==
  ASSUME IInv, ServerStep \/ UNCHANGED serverVars
  PROVE  [Directory!DirectoryNext]_<<connected, Listings, Seekers>>
<1>1. ASSUME UNCHANGED <<providerVars, discovererVars>>
      PROVE  UNCHANGED <<Listings, Seekers>>
  BY <1>1 DEF Listings, Seekers, providerVars, discovererVars
<1>2. ASSUME NEW c \in Conn, OnConnected(c) PROVE Directory!Join(c)
  BY <1>1, <1>2 DEF OnConnected, Directory!Join
<1>3. ASSUME NEW c \in Conn, NEW msg \in RequestsOf(c), OnServiceRequest(c, msg)
      PROVE  \/ \E s \in Method : \/ \E a \in Host : Directory!Offer(c, a, s)
                                \/ Directory!Seek(c, s)
             \/ UNCHANGED <<connected, Listings, Seekers>>
  <2>1. c \in connected /\ msg.method \in Method
    BY <1>3, RequestHasHost DEF OnServiceRequest
  <2>2. CASE OnRegistry(c, msg)
    <3>1. msg.host \in Host
      BY <2>2, RequestHasHost DEF OnRegistry
    <3>2. AddProvider(c, msg.host, msg.method) /\ UNCHANGED <<connected, discovererVars>>
      BY <2>2 DEF OnRegistry
    <3> QED
      BY <2>1, <3>1, <3>2, RegistryIsOffer
  <2>3. CASE OnDiscovery(c, msg)
    BY <2>1, <2>3, DiscoveryIsSeek DEF OnDiscovery
  <2>4. CASE OnUnknownOperation(c, msg)
    BY <1>1, <2>4 DEF OnUnknownOperation
  <2> QED
    BY <1>3, <2>2, <2>3, <2>4 DEF OnServiceRequest
<1>4. ASSUME NEW c \in Conn, OnConnShutdown(c) PROVE Directory!Leave(c)
  BY <1>4, ShutdownIsLeave
<1>5. ASSUME NEW c \in Conn, Receive(c) PROVE UNCHANGED <<connected, Listings, Seekers>>
  BY <1>1, <1>5 DEF Receive
<1>6. CASE UNCHANGED serverVars
  BY <1>1, <1>6 DEF serverVars
<1> QED
  BY <1>2, <1>3, <1>4, <1>5, <1>6 DEF ServerStep, Directory!DirectoryNext

(* The managers with their four maps implement the directory of offers     *)
(* and interests, whatever the peers send and whenever they disconnect.    *)
THEOREM RegistryRefinesDirectory == ServerSpec => ImplementsDirectory
<1>1. IInv /\ [ServerNext]_serverVars
        => [Directory!DirectoryNext]_(Directory!directoryVars)
  BY StepRefines, NextIsServerStep DEF Directory!directoryVars
<1> QED
  BY <1>1, InitRefines, InvariantHolds, PTL
     DEF ServerSpec, ImplementsDirectory, Directory!DirectorySpec
-----------------------------------------------------------------------------
(* The notices of a close.  Nth enumerates a finite set of places: the     *)
(* number of places up to each is one-to-one, so onto 1..n.                *)
LEMMA OneToOneIsOnto ==
  ASSUME NEW P, IsFiniteSet(P), NEW f \in [P -> 1..Cardinality(P)],
         \A i, j \in P : f[i] = f[j] => i = j
  PROVE  \A k \in 1..Cardinality(P) : \E i \in P : f[i] = k
<1> DEFINE T == 1..Cardinality(P)
<1>1. IsFiniteSet(T) /\ Cardinality(T) = Cardinality(P)
  BY FS_CardinalityType, FS_Interval
<1> HIDE DEF T
<1>2. f \in [P -> T]
  BY DEF T
<1>3. f \in Injection(P, T)
  BY <1>2 DEF Injection, IsInjective
<1>4. f \in Surjection(P, T)
  BY <1>1, <1>3, FS_Injection
<1>5. \A k \in T : \E i \in P : f[i] = k
  BY <1>4 DEF Surjection
<1> QED
  BY <1>5 DEF T

(* Nth counts the places off: each has a number, and each number a place.  *)
LEMMA NthPlace ==
  ASSUME NEW P \in SUBSET Nat, IsFiniteSet(P)
  PROVE  /\ Cardinality(P) \in Nat
         /\ \A k \in 1..Cardinality(P) : Nth(P, k) \in P
         /\ \A i \in P : \E k \in 1..Cardinality(P) : Nth(P, k) = i
         /\ \A k, l \in 1..Cardinality(P) : Nth(P, k) = Nth(P, l) => k = l
<1> DEFINE upTo(i) == {j \in P : j <= i}
           n == Cardinality(P)
           rank == [i \in P |-> Cardinality(upTo(i))]
<1>1. n \in Nat
  BY FS_CardinalityType
<1>2. \A i \in P : IsFiniteSet(upTo(i)) /\ Cardinality(upTo(i)) <= n /\ Cardinality(upTo(i)) \in Nat
  BY FS_Subset, FS_CardinalityType
<1>3. \A i \in P : Cardinality(upTo(i)) # 0
  <2>1. \A i \in P : i \in upTo(i)
    OBVIOUS
  <2> QED
    BY <1>2, <2>1, FS_EmptySet
<1>4. rank \in [P -> 1..n]
  BY <1>1, <1>2, <1>3
<1>5. ASSUME NEW i \in P, NEW j \in P, Cardinality(upTo(i)) = Cardinality(upTo(j)), i < j
      PROVE  FALSE
  <2>1. upTo(i) \in SUBSET upTo(j)
    <3>1. \A k \in P : k <= i => k <= j
      BY <1>5
    <3> QED
      BY <3>1
  <2>2. j \in upTo(j) /\ j \notin upTo(i)
    BY <1>5
  <2>3. upTo(i) = upTo(j)
    <3>1. IsFiniteSet(upTo(j))
      BY <1>2
    <3> HIDE DEF upTo
    <3> QED
      BY <1>5, <2>1, <3>1, FS_Subset
  <2> QED
    BY <2>2, <2>3
<1>6. \A i, j \in P : rank[i] = rank[j] => i = j
  <2>1. \A i, j \in P : i < j \/ j < i \/ i = j
    OBVIOUS
  <2>2. \A i, j \in P : Cardinality(upTo(i)) = Cardinality(upTo(j)) => i = j
    BY <1>5, <2>1
  <2> QED
    BY <2>2
<1>7. \A k \in 1..n : \E i \in P : rank[i] = k
  <2> HIDE DEF rank
  <2> QED
    BY <1>4, <1>6, OneToOneIsOnto
<1>8. ASSUME NEW k \in 1..n PROVE Nth(P, k) \in P /\ rank[Nth(P, k)] = k
  <2>1. \E i \in P : Cardinality(upTo(i)) = k
    BY <1>7
  <2>2. Nth(P, k) \in P /\ Cardinality(upTo(Nth(P, k))) = k
    BY <2>1 DEF Nth
  <2> QED
    BY <2>2
<1>9. \A i \in P : Nth(P, rank[i]) = i
  <2> HIDE DEF rank
  <2> QED
    BY <1>4, <1>6, <1>8
<1> QED
  <2> HIDE DEF rank
  <2> QED
    BY <1>1, <1>4, <1>8, <1>9

Queued == Responses \cup Notifications

(* Each of them says OFFLINE, for a method the connection offered and d    *)
(* has discovered; and each such method has one.                           *)
LEMMA NoticesOfClose ==
  ASSUME IInv, NEW c \in Conn, NEW d \in Conn
  PROVE  /\ OfflineNotices(c, d) \in Seq(Notifications)
         /\ \A i \in 1..Len(OfflineNotices(c, d)) :
              /\ OfflineNotices(c, d)[i].optype = "SERVICE_OFFLINE"
              /\ d \in discoverers[OfflineNotices(c, d)[i].method]
         /\ \A m \in Method : (c \in providers[m] /\ d \in discoverers[m]) =>
              \E i \in 1..Len(OfflineNotices(c, d)) :
                OfflineNotices(c, d)[i] = NotifyMsg("SERVICE_OFFLINE", m, providerHost[c])
<1> DEFINE P == Heard(c, d)
           ms == providerMethods[c]
           note(k) == NotifyMsg("SERVICE_OFFLINE", ms[Nth(P, k)], providerHost[c])
<1>1. /\ MapsTypeOK /\ IndexesAgree /\ ListedAreConnected
      /\ ms \in Seq(Method) /\ Len(ms) \in Nat /\ DOMAIN ms = 1..Len(ms)
  BY DEF IInv, MapsTypeOK
<1>2. P \in SUBSET Nat /\ P \in SUBSET (1..Len(ms)) /\ IsFiniteSet(P)
  <2>1. P \in SUBSET (1..Len(ms))
    BY <1>1 DEF Heard
  <2>2. IsFiniteSet(1..Len(ms))
    BY <1>1, FS_Interval
  <2>3. IsFiniteSet(P)
    <3> HIDE DEF P, ms
    <3> QED
      BY <2>1, <2>2, FS_Subset
  <2> QED
    BY <2>1, <2>3
<1>3. \A i \in P : /\ ms[i] \in Method /\ d \in discoverers[ms[i]]
                  /\ c \in providers[ms[i]] /\ providerHost[c] \in Host
  BY <1>1, <1>2 DEF Heard, IndexesAgree, Offers, ListedAreConnected
<1>4. /\ Cardinality(P) \in Nat
      /\ \A k \in 1..Cardinality(P) : Nth(P, k) \in P
      /\ \A i \in P : \E k \in 1..Cardinality(P) : Nth(P, k) = i
  BY <1>2, NthPlace
<1>5. OfflineNotices(c, d) = [k \in 1..Cardinality(P) |-> note(k)]
  BY Zenon DEF OfflineNotices
<1>6. \A k \in 1..Cardinality(P) :
        /\ note(k) \in Notifications /\ note(k).optype = "SERVICE_OFFLINE"
        /\ d \in discoverers[note(k).method]
  BY <1>3, <1>4 DEF NotifyMsg, Notifications
<1> HIDE DEF note, P
<1>7. OfflineNotices(c, d) \in Seq(Notifications) /\ Len(OfflineNotices(c, d)) = Cardinality(P)
  BY <1>4, <1>5, <1>6
<1>8. ASSUME NEW m \in Method, c \in providers[m], d \in discoverers[m]
      PROVE  \E k \in 1..Cardinality(P) : note(k) = NotifyMsg("SERVICE_OFFLINE", m, providerHost[c])
  <2>1. PICK i \in 1..Len(ms) : ms[i] = m
    BY <1>1, <1>8 DEF IndexesAgree, Offers
  <2>2. i \in P
    BY <1>1, <1>8, <2>1 DEF P, Heard
  <2> QED
    BY <1>4, <2>1, <2>2 DEF note
<1> QED
  BY <1>5, <1>6, <1>7, <1>8
-----------------------------------------------------------------------------
(* What is sent, by every kind of step.                                    *)
QueuesTyped == toClient \in [Conn -> Seq(Queued)]

(* GetMethodHosts counts providers, of which there are finitely many.      *)
LEMMA HostsAreABag ==
  ASSUME IInv, NEW m \in Method
  PROVE  GetMethodHosts(m) \in HostBag
<1>1. ASSUME NEW h \in Host PROVE Cardinality({p \in providers[m] : providerHost[p] = h}) \in Nat
  <2>1. {p \in providers[m] : providerHost[p] = h} \in SUBSET Conn
    BY DEF IInv, MapsTypeOK
  <2> QED
    BY <2>1, RegistryAssumption, FS_Subset, FS_CardinalityType
<1> QED
  BY <1>1 DEF GetMethodHosts, HostBag

(* Only a discovery that found a host is answered with hosts.              *)
LEMMA AnswersAreResponses ==
  ASSUME IInv, NEW r \in Rid
  PROVE  /\ RegistryResponse(r) \in Responses /\ RegistryResponse(r).rid = r
         /\ ErrorResponse(r) \in Responses /\ ErrorResponse(r).rid = r
         /\ \A m \in Method : DiscoveryResponse(r, m) \in Responses /\ DiscoveryResponse(r, m).rid = r
<1>1. NoHosts \in HostBag
  BY DEF NoHosts, HostBag
<1>2. ASSUME NEW op \in {"SERVICE_REGISTRY", "SERVICE_DISCOVERY", "SERVICE_UNKNOWN"},
             NEW code \in {"RCODE_OK", "RCODE_NOT_FOUND_SERVICE", "RCODE_INVALID_OPTYPE"},
             NEW hosts \in HostBag,
             (hosts # NoHosts) <=> (op = "SERVICE_DISCOVERY" /\ code = "RCODE_OK")
      PROVE  ServiceResponse(op, r, code, hosts) \in Responses /\ ServiceResponse(op, r, code, hosts).rid = r
  BY <1>2 DEF ServiceResponse, Responses
<1>3. ASSUME NEW m \in Method
      PROVE  DiscoveryResponse(r, m) \in Responses /\ DiscoveryResponse(r, m).rid = r
  <2>1. GetMethodHosts(m) \in HostBag
    BY HostsAreABag
  <2>2. CASE GetMethodHosts(m) = NoHosts
    BY <1>1, <1>2, <2>2 DEF DiscoveryResponse
  <2>3. CASE GetMethodHosts(m) # NoHosts
    BY <1>2, <2>1, <2>3 DEF DiscoveryResponse
  <2> QED
    BY <2>2, <2>3
<1> QED
  BY <1>1, <1>2, <1>3 DEF RegistryResponse, ErrorResponse

(* A request gives its sender one answer, after at most one notification   *)
(* to each discoverer: ONLINE, with what the request registers.            *)
LEMMA RequestQueues ==
  ASSUME IInv, QueuesTyped, NEW d \in Conn, NEW msg \in RequestsOf(d), OnServiceRequest(d, msg)
  PROVE  \E mid \in [Conn -> Seq(Queued)], rsp \in Responses :
           /\ rsp.rid = msg.rid
           /\ \/ OnDiscovery(d, msg) /\ rsp = DiscoveryResponse(msg.rid, msg.method)
              \/ rsp.hosts = NoHosts
           /\ toClient' = [mid EXCEPT ![d] = Append(@, rsp)]
           /\ \A c \in Conn :
                \/ mid[c] = toClient[c]
                \/ /\ OnRegistry(d, msg) /\ c \in discoverers[msg.method]
                   /\ NotifyMsg("SERVICE_ONLINE", msg.method, msg.host) \in Notifications
                   /\ mid[c] = Append(toClient[c], NotifyMsg("SERVICE_ONLINE", msg.method, msg.host))
<1>0. msg.rid \in Rid /\ msg.method \in Method /\ toClient \in [Conn -> Seq(Queued)]
  BY DEF RequestsOf, Request, QueuesTyped
<1>1. CASE OnRegistry(d, msg)
  <2> DEFINE note == NotifyMsg("SERVICE_ONLINE", msg.method, msg.host)
             mid == Notify(toClient, msg.method, msg.host, "SERVICE_ONLINE")
             rsp == RegistryResponse(msg.rid)
  <2>1. note \in Notifications /\ note \in Queued
    <3>1. msg.host \in Host
      BY <1>1, RequestHasHost DEF OnRegistry
    <3> QED
      BY <1>0, <3>1 DEF NotifyMsg, Notifications, Queued
  <2>2. mid = [c \in Conn |-> IF c \in discoverers[msg.method] THEN Append(toClient[c], note)
                              ELSE toClient[c]]
    BY DEF Notify
  <2>3. toClient' = [mid EXCEPT ![d] = Append(@, rsp)]
    BY <1>1 DEF OnRegistry, Send
  <2>4. rsp \in Responses /\ rsp.rid = msg.rid /\ rsp.hosts = NoHosts
    BY <1>0, AnswersAreResponses DEF RegistryResponse, ServiceResponse
  <2> HIDE DEF note, mid, rsp
  <2>5. \A c \in Conn : Append(toClient[c], note) \in Seq(Queued) /\ toClient[c] \in Seq(Queued)
    BY <1>0, <2>1
  <2>6. mid \in [Conn -> Seq(Queued)]
    BY <2>2, <2>5
  <2>7. \A c \in Conn : \/ mid[c] = toClient[c]
                        \/ c \in discoverers[msg.method] /\ mid[c] = Append(toClient[c], note)
    BY <2>2
  <2> QED
    BY <1>1, <2>1, <2>3, <2>4, <2>6, <2>7 DEF note
<1>2. CASE \E rsp \in Responses :
             /\ rsp.rid = msg.rid
             /\ \/ OnDiscovery(d, msg) /\ rsp = DiscoveryResponse(msg.rid, msg.method)
                \/ rsp.hosts = NoHosts
             /\ toClient' = [toClient EXCEPT ![d] = Append(@, rsp)]
  BY <1>0, <1>2
<1>3. CASE OnDiscovery(d, msg)
  BY <1>0, <1>2, <1>3, AnswersAreResponses DEF OnDiscovery, Send
<1>4. CASE OnUnknownOperation(d, msg)
  BY <1>0, <1>2, <1>4, AnswersAreResponses DEF OnUnknownOperation, Send, ErrorResponse, ServiceResponse
<1> QED
  BY <1>1, <1>3, <1>4 DEF OnServiceRequest

(* A close empties the queue of its connection, and appends its notices to *)
(* the others.                                                             *)
LEMMA CloseQueues ==
  ASSUME IInv, QueuesTyped, NEW c \in Conn, OnConnShutdown(c)
  PROVE  /\ toClient' \in [Conn -> Seq(Queued)]
         /\ toClient'[c] = <<>>
         /\ \A d \in Conn \ {c} : toClient'[d] = toClient[d] \o OfflineNotices(c, d)
         /\ connected' = connected \ {c}
<1>1. /\ toClient' = [d \in Conn |-> IF d = c THEN <<>> ELSE toClient[d] \o OfflineNotices(c, d)]
      /\ connected' = connected \ {c}
  BY DEF OnConnShutdown
<1>2. ASSUME NEW d \in Conn PROVE toClient[d] \o OfflineNotices(c, d) \in Seq(Queued)
  <2>1. OfflineNotices(c, d) \in Seq(Queued)
    <3>1. OfflineNotices(c, d) \in Seq(Notifications)
      BY NoticesOfClose
    <3>2. Notifications \subseteq Queued
      BY DEF Queued
    <3> HIDE DEF Queued
    <3> QED
      BY <3>1, <3>2
  <2>2. toClient[d] \in Seq(Queued)
    BY DEF QueuesTyped
  <2> QED
    BY <2>1, <2>2
<1>3. <<>> \in Seq(Queued)
  OBVIOUS
<1> QED
  BY <1>1, <1>2, <1>3

(* Whatever a handler sends is a message of the protocol.                  *)
LEMMA StepKeepsQueues ==
  ASSUME IInv, QueuesTyped, ServerStep \/ UNCHANGED serverVars
  PROVE  QueuesTyped'
<1>1. ASSUME NEW c \in Conn, NEW msg \in RequestsOf(c), OnServiceRequest(c, msg) PROVE QueuesTyped'
  <2>1. PICK mid \in [Conn -> Seq(Queued)], rsp \in Responses :
          /\ rsp.rid = msg.rid
          /\ \/ OnDiscovery(c, msg) /\ rsp = DiscoveryResponse(msg.rid, msg.method)
             \/ rsp.hosts = NoHosts
          /\ toClient' = [mid EXCEPT ![c] = Append(@, rsp)]
          /\ \A d \in Conn :
               \/ mid[d] = toClient[d]
               \/ /\ OnRegistry(c, msg) /\ d \in discoverers[msg.method]
                  /\ NotifyMsg("SERVICE_ONLINE", msg.method, msg.host) \in Notifications
                  /\ mid[d] = Append(toClient[d], NotifyMsg("SERVICE_ONLINE", msg.method, msg.host))
    BY <1>1, RequestQueues
  <2>2. Append(mid[c], rsp) \in Seq(Queued)
    <3>1. rsp \in Queued /\ mid[c] \in Seq(Queued)
      BY DEF Queued
    <3> QED
      BY <3>1
  <2> QED
    BY <2>1, <2>2 DEF QueuesTyped
<1>2. ASSUME NEW c \in Conn, OnConnShutdown(c) PROVE QueuesTyped'
  BY <1>2, CloseQueues DEF QueuesTyped
<1>3. ASSUME NEW c \in Conn, Receive(c) PROVE QueuesTyped'
  <2>1. toClient[c] # <<>> /\ toClient[c] \in Seq(Queued) /\ toClient' = [toClient EXCEPT ![c] = Tail(@)]
    BY <1>3 DEF Receive, QueuesTyped
  <2>2. Tail(toClient[c]) \in Seq(Queued)
    BY <2>1
  <2> QED
    BY <2>1, <2>2 DEF QueuesTyped
<1> QED
  BY <1>1, <1>2, <1>3 DEF ServerStep, OnConnected, QueuesTyped, serverVars

(* The queues' type is what the type invariant says of them.               *)
LEMMA TypedQueuesAreRight == IInv /\ QueuesTyped => RegistryTypeOK
<1> SUFFICES ASSUME IInv, QueuesTyped PROVE RegistryTypeOK
  OBVIOUS
<1>1. \A c \in Conn : toClient[c] \in Seq(Queued)
  BY DEF QueuesTyped
<1>2. \A c \in Conn : \A i \in 1..Len(toClient[c]) : toClient[c][i] \in Queued
  BY <1>1
<1> QED
  BY <1>2 DEF IInv, QueuesTyped, RegistryTypeOK, Queued

(* Whatever waits on a connection is an answer or a notification of the    *)
(* protocol, and an answer that says RCODE_OK to a discovery has hosts.    *)
LEMMA QueuesInvariant == ServerSpec => [](IInv /\ QueuesTyped)
<1>1. ServerInit => QueuesTyped
  BY DEF ServerInit, QueuesTyped
<1>2. IInv /\ QueuesTyped /\ [ServerNext]_serverVars => (IInv /\ QueuesTyped)'
  BY NextInvariant, StepKeepsQueues, NextIsServerStep
<1> QED
  BY <1>1, <1>2, InitInvariant, PTL DEF ServerSpec

(* Every variable keeps its type; in particular an answer of PDManager to  *)
(* a discovery with RCODE_OK is never an empty list.                       *)
THEOREM RegistryTypeCorrect == ServerSpec => []RegistryTypeOK
BY QueuesInvariant, TypedQueuesAreRight, PTL
-----------------------------------------------------------------------------
(* Who hears of a close.                                                   *)
LEMMA CloseIsNotified ==
  ASSUME IInv, QueuesTyped, ServerStep \/ UNCHANGED serverVars,
         NEW c \in connected \ connected', NEW m \in Method, NEW d \in discoverers[m] \ {c},
         c \in providers[m]
  PROVE  \E i \in Len(toClient[d]) + 1 .. Len(toClient'[d]) :
           toClient'[d][i] = NotifyMsg("SERVICE_OFFLINE", m, providerHost[c])
<1>1. c \in Conn /\ d \in Conn \ {c}
  BY DEF IInv, MapsTypeOK
<1>2. OnConnShutdown(c)
  BY DEF ServerStep, serverVars, OnConnected, OnServiceRequest, OnRegistry, OnDiscovery,
         OnUnknownOperation, OnConnShutdown, Receive
<1>3. toClient'[d] = toClient[d] \o OfflineNotices(c, d)
  BY <1>1, <1>2, CloseQueues
<1>4. PICK i \in 1..Len(OfflineNotices(c, d)) :
        OfflineNotices(c, d)[i] = NotifyMsg("SERVICE_OFFLINE", m, providerHost[c])
  BY <1>1, NoticesOfClose
<1>5. OfflineNotices(c, d) \in Seq(Notifications) /\ toClient[d] \in Seq(Queued)
  BY <1>1, NoticesOfClose DEF QueuesTyped
<1> DEFINE q == toClient[d]
           ns == OfflineNotices(c, d)
<1> HIDE DEF q, ns
<1>6. /\ Len(q) + i \in Len(q) + 1 .. Len(q \o ns)
      /\ (q \o ns)[Len(q) + i] = ns[i]
  <2>1. q \in Seq(Queued) /\ ns \in Seq(Notifications) /\ i \in 1..Len(ns)
    BY <1>4, <1>5 DEF q, ns
  <2> QED
    BY <2>1
<1> QED
  BY <1>3, <1>4, <1>6 DEF q, ns

(* When a provider's connection closes, every other discoverer of each of  *)
(* its methods is told, with the address it was listed under.              *)
THEOREM ShutdownAlwaysNotified == ServerSpec => ShutdownNotified
<1>1. IInv /\ QueuesTyped /\ [ServerNext]_serverVars =>
        [\A c \in connected \ connected' : \A m \in Method : \A d \in discoverers[m] \ {c} :
           c \in providers[m] =>
             \E i \in Len(toClient[d]) + 1 .. Len(toClient'[d]) :
               toClient'[d][i] = NotifyMsg("SERVICE_OFFLINE", m, providerHost[c])]_serverVars
  BY CloseIsNotified, NextIsServerStep
<1> QED
  BY <1>1, QueuesInvariant, PTL DEF ServerSpec, ShutdownNotified
-----------------------------------------------------------------------------
(* Answers that name a host.                                               *)
TakenBackFor(d) ==
  \A i \in 1..Len(toClient[d]) : \A h \in Host :
    (toClient[d][i].kind = "response" /\ toClient[d][i].hosts[h] > 0) =>
      \E m \in Method : /\ d \in discoverers[m]
                        /\ ListedFor(m, h) \/ TakenBack(toClient[d], i, m, h)

(* What follows a message still follows it in a longer queue.              *)
LEMMA LongerQueue ==
  ASSUME NEW q \in Seq(Queued), NEW r \in Seq(Queued)
  PROVE  /\ \A i \in 1..Len(q \o r) :
              \/ i \in 1..Len(q) /\ (q \o r)[i] = q[i]
              \/ i - Len(q) \in 1..Len(r) /\ (q \o r)[i] = r[i - Len(q)]
         /\ \A i \in 1..Len(q) : \A k \in 1..Len(r) :
              Len(q) + k \in i + 1 .. Len(q \o r) /\ (q \o r)[Len(q) + k] = r[k]
         /\ \A i \in 1..Len(q), m \in Method, h \in Host : TakenBack(q, i, m, h) => TakenBack(q \o r, i, m, h)
<1>1. /\ Len(q) \in Nat /\ Len(r) \in Nat /\ Len(q \o r) = Len(q) + Len(r)
      /\ \A i \in 1..Len(q) : (q \o r)[i] = q[i]
      /\ \A k \in 1..Len(r) : (q \o r)[Len(q) + k] = r[k]
  OBVIOUS
<1>2. \A i \in 1..Len(q \o r) : i \in 1..Len(q) \/ i - Len(q) \in 1..Len(r)
  BY <1>1
<1>3. \A i \in 1..Len(q \o r) : i - Len(q) \in 1..Len(r) => (q \o r)[i] = r[i - Len(q)]
  BY <1>1
<1>4. \A i \in 1..Len(q) : \A j \in i + 1 .. Len(q) :
        j \in 1..Len(q) /\ j \in i + 1 .. Len(q \o r)
  BY <1>1
<1>5. \A i \in 1..Len(q) : \A k \in 1..Len(r) : Len(q) + k \in i + 1 .. Len(q \o r)
  BY <1>1
<1> QED
  BY <1>1, <1>2, <1>3, <1>4, <1>5 DEF TakenBack

(* Where listings and interests only grow, only new answers matter.        *)
LEMMA StaysTakenBack ==
  ASSUME QueuesTyped, NEW d \in Conn, TakenBackFor(d),
         \A m \in Method : d \in discoverers[m] => d \in discoverers'[m],
         \A m \in Method : \A h \in Host : ListedFor(m, h) => ListedFor(m, h)',
         NEW r \in Seq(Queued), toClient'[d] = toClient[d] \o r,
         \A k \in 1..Len(r) : \A h \in Host :
           (r[k].kind = "response" /\ r[k].hosts[h] > 0) =>
             \E m \in Method : d \in discoverers'[m] /\ ListedFor(m, h)'
  PROVE  TakenBackFor(d)'
<1> DEFINE q == toClient[d]
<1> SUFFICES ASSUME NEW i \in 1..Len(toClient'[d]), NEW h \in Host,
                    toClient'[d][i].kind = "response", toClient'[d][i].hosts[h] > 0
             PROVE  (\E m \in Method : /\ d \in discoverers[m]
                                       /\ ListedFor(m, h) \/ TakenBack(toClient[d], i, m, h))'
  BY DEF TakenBackFor
<1>0. \A m \in Method : TakenBack(q \o r, i, m, h) => TakenBack(toClient[d], i, m, h)'
  BY DEF TakenBack
<1>1. q \in Seq(Queued)
  BY DEF QueuesTyped
<1>2. CASE i \in 1..Len(q) /\ (q \o r)[i] = q[i]
  <2>1. PICK m \in Method : d \in discoverers[m] /\ (ListedFor(m, h) \/ TakenBack(q, i, m, h))
    BY <1>2 DEF TakenBackFor
  <2>2. TakenBack(q, i, m, h) => TakenBack(q \o r, i, m, h)
    BY <1>1, <1>2, LongerQueue
  <2> QED
    BY <1>0, <2>1, <2>2
<1>3. CASE i - Len(q) \in 1..Len(r) /\ (q \o r)[i] = r[i - Len(q)]
  BY <1>3
<1> QED
  BY <1>1, <1>2, <1>3, LongerQueue

(* None, one or two messages added to a queue.                             *)
LEMMA MessagesAdded ==
  ASSUME NEW q \in Seq(Queued)
  PROVE  /\ q = q \o <<>> /\ <<>> \in Seq(Queued) /\ 1..Len(<<>>) = {}
         /\ \A m \in Queued : /\ Append(q, m) = q \o <<m>> /\ <<m>> \in Seq(Queued)
                              /\ \A k \in 1..Len(<<m>>) : <<m>>[k] = m
         /\ \A m \in Queued, n \in Queued :
              /\ Append(Append(q, m), n) = q \o <<m, n>> /\ <<m, n>> \in Seq(Queued)
              /\ \A k \in 1..Len(<<m, n>>) : <<m, n>>[k] \in {m, n}
<1> HIDE DEF Queued
<1>1. /\ q = q \o <<>> /\ <<>> \in Seq(Queued) /\ 1..Len(<<>>) = {}
  OBVIOUS
<1>2. ASSUME NEW m \in Queued
      PROVE  /\ Append(q, m) = q \o <<m>> /\ <<m>> \in Seq(Queued)
             /\ \A k \in 1..Len(<<m>>) : <<m>>[k] = m
  OBVIOUS
<1>3. ASSUME NEW m \in Queued, NEW n \in Queued
      PROVE  /\ Append(Append(q, m), n) = q \o <<m, n>> /\ <<m, n>> \in Seq(Queued)
             /\ \A k \in 1..Len(<<m, n>>) : <<m, n>>[k] \in {m, n}
  OBVIOUS
<1> QED
  BY <1>1, <1>2, <1>3

(* A request: a discovery is answered with hosts that are listed, and no   *)
(* other answer names a host.                                              *)
LEMMA RequestTakenBack ==
  ASSUME IInv, QueuesTyped, AnswersAreTakenBack,
         NEW c \in Conn, NEW msg \in RequestsOf(c), OnServiceRequest(c, msg), NEW d \in Conn
  PROVE  TakenBackFor(d)'
<1> DEFINE note == NotifyMsg("SERVICE_ONLINE", msg.method, msg.host)
<1>0. /\ MapsTypeOK /\ ListedAreConnected /\ msg.method \in Method /\ TakenBackFor(d)
      /\ toClient[d] \in Seq(Queued)
  BY RequestHasHost DEF IInv, AnswersAreTakenBack, TakenBackFor, QueuesTyped
<1>1. \A m \in Method : d \in discoverers[m] => d \in discoverers'[m]
  BY <1>0 DEF OnServiceRequest, OnRegistry, OnDiscovery, OnUnknownOperation, AddDiscoverer,
              discovererVars, MapsTypeOK
<1>2. \A m \in Method : \A h \in Host : ListedFor(m, h) => ListedFor(m, h)'
  <2>1. CASE OnRegistry(c, msg)
    <3> SUFFICES ASSUME NEW m \in Method, NEW h \in Host, NEW p \in providers[m], providerHost[p] = h
                 PROVE  p \in providers'[m] /\ providerHost'[p] = h
      BY DEF ListedFor
    <3> QED
      BY <1>0, <2>1, RegistryAssumption DEF OnRegistry, AddProvider, MapsTypeOK
  <2> QED
    BY <2>1 DEF OnServiceRequest, OnDiscovery, OnUnknownOperation, providerVars, ListedFor
<1>3. PICK mid \in [Conn -> Seq(Queued)], rsp \in Responses :
        /\ rsp.rid = msg.rid
        /\ \/ OnDiscovery(c, msg) /\ rsp = DiscoveryResponse(msg.rid, msg.method)
           \/ rsp.hosts = NoHosts
        /\ toClient' = [mid EXCEPT ![c] = Append(@, rsp)]
        /\ \A e \in Conn :
             \/ mid[e] = toClient[e]
             \/ /\ OnRegistry(c, msg) /\ e \in discoverers[msg.method]
                /\ note \in Notifications
                /\ mid[e] = Append(toClient[e], note)
  BY RequestQueues
<1>4. ASSUME NEW h \in Host, rsp.hosts[h] > 0
      PROVE  c \in discoverers'[msg.method] /\ ListedFor(msg.method, h)'
  <2>1. OnDiscovery(c, msg) /\ rsp = DiscoveryResponse(msg.rid, msg.method)
    BY <1>3, <1>4 DEF NoHosts
  <2>2. c \in discoverers'[msg.method]
    BY <1>0, <2>1 DEF OnDiscovery, AddDiscoverer, MapsTypeOK
  <2>3. Cardinality({p \in providers[msg.method] : providerHost[p] = h}) > 0
    BY <1>4, <2>1 DEF DiscoveryResponse, ServiceResponse, GetMethodHosts
  <2>4. \E p \in providers[msg.method] : providerHost[p] = h
    <3> DEFINE S == {p \in providers[msg.method] : providerHost[p] = h}
    <3> HIDE DEF S
    <3>1. S # {}
      <4>1. Cardinality(S) > 0
        BY <2>3 DEF S
      <4>2. Cardinality({}) = 0
        BY FS_EmptySet
      <4>3. S = {} => Cardinality(S) = 0
        BY <4>2, Zenon
      <4> QED
        BY <4>1, <4>3
    <3> QED
      BY <3>1 DEF S
  <2> QED
    BY <1>2, <2>2, <2>4, <1>0 DEF ListedFor
<1>5. ASSUME NEW r \in Seq(Queued), toClient'[d] = toClient[d] \o r,
             \A k \in 1..Len(r) : r[k].kind = "notify" \/ (d = c /\ r[k] = rsp)
      PROVE  TakenBackFor(d)'
  <2>1. \A k \in 1..Len(r) : \A h \in Host :
          (r[k].kind = "response" /\ r[k].hosts[h] > 0) =>
            \E m \in Method : d \in discoverers'[m] /\ ListedFor(m, h)'
    BY <1>0, <1>4, <1>5
  <2> QED
    BY <1>0, <1>1, <1>2, <1>5, <2>1, StaysTakenBack
<1>6. /\ rsp \in Queued /\ rsp.kind = "response"
      /\ note \in Notifications => note \in Queued /\ note.kind = "notify"
  BY DEF Queued, Responses, Notifications
<1> HIDE DEF note
<1>7. \/ toClient'[d] = toClient[d]
      \/ d = c /\ toClient'[d] = Append(toClient[d], rsp)
      \/ note \in Notifications /\ toClient'[d] = Append(toClient[d], note)
      \/ d = c /\ note \in Notifications /\ toClient'[d] = Append(Append(toClient[d], note), rsp)
  BY <1>3
<1>8. CASE toClient'[d] = toClient[d]
  BY <1>0, <1>5, <1>8, MessagesAdded
<1>9. CASE d = c /\ toClient'[d] = Append(toClient[d], rsp)
  <2>1. /\ toClient'[d] = toClient[d] \o <<rsp>> /\ <<rsp>> \in Seq(Queued)
        /\ \A k \in 1..Len(<<rsp>>) : <<rsp>>[k] = rsp
    BY <1>0, <1>6, <1>9, MessagesAdded
  <2> QED
    BY <1>5, <1>9, <2>1
<1>10. CASE note \in Notifications /\ toClient'[d] = Append(toClient[d], note)
  <2>1. /\ toClient'[d] = toClient[d] \o <<note>> /\ <<note>> \in Seq(Queued)
        /\ \A k \in 1..Len(<<note>>) : <<note>>[k] = note
    BY <1>0, <1>6, <1>10, MessagesAdded
  <2> QED
    BY <1>5, <1>6, <1>10, <2>1
<1>11. CASE d = c /\ note \in Notifications /\ toClient'[d] = Append(Append(toClient[d], note), rsp)
  <2>1. /\ toClient'[d] = toClient[d] \o <<note, rsp>> /\ <<note, rsp>> \in Seq(Queued)
        /\ \A k \in 1..Len(<<note, rsp>>) : <<note, rsp>>[k] \in {note, rsp}
    BY <1>0, <1>6, <1>11, MessagesAdded
  <2> QED
    BY <1>5, <1>6, <1>11, <2>1
<1> QED
  BY <1>7, <1>8, <1>9, <1>10, <1>11

(* A close: the OFFLINE of a listing that goes is behind every answer that *)
(* named it, for DelProvider has kept its address since it was listed.     *)
LEMMA CloseTakenBack ==
  ASSUME IInv, QueuesTyped, AnswersAreTakenBack,
         NEW c \in Conn, OnConnShutdown(c), NEW d \in Conn
  PROVE  TakenBackFor(d)'
<1> DEFINE q == toClient[d]
           r == OfflineNotices(c, d)
<1>1. MapsTypeOK /\ TakenBackFor(d) /\ q \in Seq(Queued)
  BY DEF IInv, AnswersAreTakenBack, TakenBackFor, QueuesTyped
<1>2. CASE d = c
  <2>1. toClient'[d] = <<>>
    BY <1>2, CloseQueues
  <2> QED
    BY <2>1 DEF TakenBackFor
<1>3. CASE d # c
  <2>1. toClient'[d] = q \o r /\ r \in Seq(Notifications) /\ r \in Seq(Queued)
    <3>1. toClient'[d] = q \o r /\ r \in Seq(Notifications)
      BY <1>3, CloseQueues, NoticesOfClose
    <3>2. Notifications \subseteq Queued
      BY DEF Queued
    <3> HIDE DEF r, q, Queued
    <3> QED
      BY <3>1, <3>2
  <2> SUFFICES ASSUME NEW i \in 1..Len(toClient'[d]), NEW h \in Host,
                      toClient'[d][i].kind = "response", toClient'[d][i].hosts[h] > 0
               PROVE  (\E m \in Method : /\ d \in discoverers[m]
                                         /\ ListedFor(m, h) \/ TakenBack(toClient[d], i, m, h))'
    BY DEF TakenBackFor
  <2>2. \A m \in Method : TakenBack(q \o r, i, m, h) => TakenBack(toClient[d], i, m, h)'
    BY <2>1 DEF TakenBack
  <2>3. i \in 1..Len(q) /\ (q \o r)[i] = q[i]
    <3>1. CASE i - Len(q) \in 1..Len(r) /\ (q \o r)[i] = r[i - Len(q)]
      <4>1. r[i - Len(q)] \in Notifications
        <5> HIDE DEF r, q
        <5> QED
          BY <2>1, <3>1
      <4> QED
        BY <2>1, <3>1, <4>1 DEF Notifications
    <3> QED
      BY <1>1, <2>1, <3>1, LongerQueue
  <2>4. PICK m \in Method : d \in discoverers[m] /\ (ListedFor(m, h) \/ TakenBack(q, i, m, h))
    BY <2>1, <2>3, <1>1 DEF TakenBackFor
  <2>5. d \in discoverers'[m]
    BY <1>1, <1>3, <2>4, CloseErases DEF MapsTypeOK
  <2>6. CASE TakenBack(q, i, m, h)
    BY <1>1, <2>1, <2>2, <2>3, <2>5, <2>6, LongerQueue
  <2>7. CASE ListedFor(m, h)
    <3>1. PICK p \in providers[m] : providerHost[p] = h
      BY <2>7 DEF ListedFor
    <3>2. CASE p # c
      <4>1. p \in providers'[m] /\ providerHost'[p] = h
        BY <1>1, <3>1, <3>2, CloseErases DEF MapsTypeOK
      <4> QED
        BY <2>5, <4>1 DEF ListedFor
    <3>3. CASE p = c
      <4>1. PICK k \in 1..Len(r) : r[k] = NotifyMsg("SERVICE_OFFLINE", m, h)
        BY <2>4, <3>1, <3>3, NoticesOfClose
      <4>2. Len(q) + k \in i + 1 .. Len(q \o r) /\ (q \o r)[Len(q) + k] = r[k]
        BY <1>1, <2>1, <2>3, LongerQueue
      <4>3. TakenBack(q \o r, i, m, h)
        BY <4>1, <4>2 DEF TakenBack
      <4> QED
        BY <2>2, <2>5, <4>3
    <3> QED
      BY <3>2, <3>3
  <2> QED
    BY <2>4, <2>6, <2>7
<1> QED
  BY <1>2, <1>3

(* Reading takes the first message, and leaves what is behind the others.  *)
LEMMA ReceiveTakenBack ==
  ASSUME QueuesTyped, AnswersAreTakenBack, NEW c \in Conn, Receive(c)
  PROVE  TakenBackFor(c)'
<1> DEFINE q == toClient[c]
<1>1. /\ TakenBackFor(c) /\ q \in Seq(Queued) /\ q # <<>> /\ toClient'[c] = Tail(q)
      /\ UNCHANGED <<discoverers, providers, providerHost>>
  BY DEF AnswersAreTakenBack, TakenBackFor, QueuesTyped, Receive, discovererVars, providerVars
<1>2. /\ Len(q) \in Nat /\ Len(Tail(q)) = Len(q) - 1
      /\ \A i \in 1..Len(Tail(q)) : i + 1 \in 1..Len(q) /\ Tail(q)[i] = q[i + 1]
  <2> HIDE DEF q
  <2> QED
    BY <1>1
<1>3. \A i \in 1..Len(Tail(q)), m \in Method, h \in Host : TakenBack(q, i + 1, m, h) => TakenBack(Tail(q), i, m, h)
  <2> SUFFICES ASSUME NEW i \in 1..Len(Tail(q)), NEW m \in Method, NEW h \in Host,
                      NEW j \in i + 2 .. Len(q), q[j] = NotifyMsg("SERVICE_OFFLINE", m, h)
               PROVE  \E k \in i + 1 .. Len(Tail(q)) : Tail(q)[k] = NotifyMsg("SERVICE_OFFLINE", m, h)
    BY <1>2 DEF TakenBack
  <2>1. j - 1 \in i + 1 .. Len(Tail(q)) /\ j - 1 \in 1..Len(Tail(q)) /\ (j - 1) + 1 = j
    BY <1>2
  <2> QED
    BY <1>2, <2>1
<1> SUFFICES ASSUME NEW i \in 1..Len(toClient'[c]), NEW h \in Host,
                    toClient'[c][i].kind = "response", toClient'[c][i].hosts[h] > 0
             PROVE  (\E m \in Method : /\ c \in discoverers[m]
                                       /\ ListedFor(m, h) \/ TakenBack(toClient[c], i, m, h))'
  BY DEF TakenBackFor
<1>4. PICK m \in Method : c \in discoverers[m] /\ (ListedFor(m, h) \/ TakenBack(q, i + 1, m, h))
  BY <1>1, <1>2 DEF TakenBackFor
<1>5. ListedFor(m, h) => ListedFor(m, h)'
  BY <1>1 DEF ListedFor
<1>6. TakenBack(Tail(q), i, m, h) => TakenBack(toClient[c], i, m, h)'
  BY <1>1 DEF TakenBack
<1> QED
  BY <1>1, <1>3, <1>4, <1>5, <1>6

(* Every handler of the registry, with any clients.                        *)
LEMMA StepTakenBack ==
  ASSUME IInv, QueuesTyped, AnswersAreTakenBack, ServerStep \/ UNCHANGED serverVars
  PROVE  AnswersAreTakenBack'
<1> SUFFICES ASSUME NEW d \in Conn PROVE TakenBackFor(d)'
  BY DEF AnswersAreTakenBack, TakenBackFor
<1>0. TakenBackFor(d)
  BY DEF AnswersAreTakenBack, TakenBackFor
<1>1. ASSUME UNCHANGED <<discoverers, providers, providerHost, toClient[d]>>
      PROVE  TakenBackFor(d)'
  BY <1>0, <1>1 DEF TakenBackFor, TakenBack, ListedFor
<1>2. ASSUME NEW c \in Conn, Receive(c) PROVE TakenBackFor(d)'
  <2>1. CASE d = c
    BY <1>2, <2>1, ReceiveTakenBack
  <2>2. CASE d # c
    BY <1>1, <1>2, <2>2 DEF Receive, QueuesTyped, discovererVars, providerVars
  <2> QED
    BY <2>1, <2>2
<1>3. ASSUME NEW c \in Conn, OnConnected(c) PROVE TakenBackFor(d)'
  BY <1>1, <1>3 DEF OnConnected, discovererVars, providerVars
<1>4. CASE UNCHANGED serverVars
  BY <1>1, <1>4 DEF serverVars, discovererVars, providerVars
<1> QED
  BY <1>2, <1>3, <1>4, RequestTakenBack, CloseTakenBack DEF ServerStep

(* An address that an answer on its way names is listed, or its OFFLINE    *)
(* follows, also where a peer registers at several addresses: the one      *)
(* AddProvider has kept is the one that answers and OFFLINEs name.         *)
THEOREM AnswersAlwaysTakenBack == ServerSpec => []AnswersAreTakenBack
<1>1. ServerInit => AnswersAreTakenBack
  BY DEF ServerInit, AnswersAreTakenBack
<1>2. IInv /\ QueuesTyped /\ AnswersAreTakenBack /\ [ServerNext]_serverVars => AnswersAreTakenBack'
  BY StepTakenBack, NextIsServerStep
<1> QED
  BY <1>1, <1>2, QueuesInvariant, PTL DEF ServerSpec
-----------------------------------------------------------------------------
(* What is announced is what is listed only for a peer that registers at   *)
(* one address, as RpcServer does: it has no other, or registers once.     *)
OneAddressEach == (\A c \in Conn : \A g, h \in HostsOf[c] : g = h) \/ MaxMethods <= 1

SameAddress(c, msg) == providerHost[c] \in {NoHost, msg.host}

RegisteredAddress == \A c \in Conn : providerHost[c] \in HostsOf[c] \cup {NoHost}

(* A peer registers one of its own addresses.                              *)
LEMMA RegistryAddress ==
  ASSUME NEW c \in Conn, NEW msg \in RequestsOf(c), OnRegistry(c, msg)
  PROVE  msg.host \in HostsOf[c]
BY DEF OnRegistry, RequestsOf, Request

(* A Provider's host is an address of its peer.                            *)
LEMMA StepKeepsAddress ==
  ASSUME IInv, RegisteredAddress, ServerStep \/ UNCHANGED serverVars
  PROVE  RegisteredAddress'
<1>0. providerHost \in [Conn -> Host \cup {NoHost}]
  BY DEF IInv, MapsTypeOK
<1>1. ASSUME NEW c \in Conn, NEW msg \in RequestsOf(c), OnServiceRequest(c, msg)
      PROVE  RegisteredAddress'
  <2>1. CASE OnRegistry(c, msg)
    BY <1>0, <1>1, <2>1, RegistryAddress DEF OnRegistry, AddProvider, RegisteredAddress
  <2> QED
    BY <1>1, <2>1 DEF OnServiceRequest, OnDiscovery, OnUnknownOperation, providerVars, RegisteredAddress
<1>2. ASSUME NEW c \in Conn, OnConnShutdown(c) PROVE RegisteredAddress'
  BY <1>0, <1>2 DEF OnConnShutdown, DelProvider, providerVars, RegisteredAddress
<1> QED
  BY <1>1, <1>2 DEF ServerStep, OnConnected, Receive, providerVars, serverVars, RegisteredAddress

(* With one address for each connection, AddProvider keeps the address     *)
(* that is announced.                                                      *)
LEMMA RegistryKeepsAddress ==
  ASSUME IInv, RegisteredAddress, OneAddressEach,
         NEW c \in Conn, NEW msg \in RequestsOf(c), Room(c, msg), OnRegistry(c, msg)
  PROVE  SameAddress(c, msg)
<1>1. CASE \A d \in Conn : \A g, h \in HostsOf[d] : g = h
  BY <1>1, RegistryAddress DEF RegisteredAddress, SameAddress
<1>2. CASE MaxMethods <= 1
  <2>1. providerMethods[c] \in Seq(Method) /\ Len(providerMethods[c]) < MaxMethods
    BY DEF IInv, MapsTypeOK, Room, OnRegistry
  <2>2. providerMethods[c] = <<>>
    BY <1>2, <2>1, RegistryAssumption
  <2> QED
    BY <2>2 DEF IInv, ProviderHasMethods, SameAddress
<1> QED
  BY <1>1, <1>2 DEF OneAddressEach

(* It is listed under that address, then.                                  *)
LEMMA RegistryLists ==
  ASSUME IInv, NEW c \in Conn, NEW msg \in RequestsOf(c), SameAddress(c, msg), OnRegistry(c, msg)
  PROVE  c \in providers'[msg.method] /\ providerHost'[c] = msg.host
<1>1. msg.host \in HostsOf[c] /\ msg.method \in Method
  BY RegistryAddress, RequestHasHost
<1>2. /\ providerHost \in [Conn -> Host \cup {NoHost}] /\ providers \in [Method -> SUBSET Conn]
      /\ AddProvider(c, msg.host, msg.method)
  BY DEF IInv, MapsTypeOK, OnRegistry
<1>3. providerHost[c] # NoHost => providerHost[c] = msg.host
  BY DEF SameAddress
<1> QED
  BY <1>1, <1>2, <1>3 DEF AddProvider
-----------------------------------------------------------------------------
(* The clients of the registry.  What follows is the invariant of          *)
(* discoveries and answers: a thread that waits has its one answer on its  *)
(* way while the connection lasts, and nobody else has one.                *)

Stages == {"idle", "sent", "waiting", "answered", "returned"}

(* The places of the answers to t in a queue, and how many there are to be.*)
Answers(q, t) == {i \in 1..Len(q) : q[i].kind = "response" /\ q[i].rid = t}

AnswerDue(t, up, p, q) ==
  IF p = "waiting" /\ up
  THEN \E i \in Answers(q, t) : Answers(q, t) = {i}
  ELSE Answers(q, t) = {}

(* Answers reach the process that asked.                                   *)
OwnAnswers(c, q) ==
  \A i \in 1..Len(q) : q[i].kind = "response" => (q[i].rid \in Thread /\ ClientOf[q[i].rid] = c)

CallTypes ==
  /\ cache \in [Client -> [Method -> HostBag]]
  /\ pc \in [Thread -> Stages]
  /\ want \in [Thread -> Method]
  /\ answer \in [Thread -> Responses \cup {NoAnswer}]
  /\ host \in [Thread -> Host \cup {NoHost}]
  /\ stale \in SUBSET Thread
  /\ raced \in [Client -> SUBSET Method]

CallStages ==
  \A t \in Thread :
    /\ host[t] \in (IF pc[t] = "returned" THEN Host ELSE {NoHost})
    /\ answer[t] \in (IF pc[t] = "answered" THEN Responses ELSE {NoAnswer})
    /\ t \in stale => pc[t] = "answered"

Due == \A t \in Thread : AnswerDue(t, ClientOf[t] \in connected, pc[t], toClient[ClientOf[t]])
Own == \A c \in Client : OwnAnswers(c, toClient[c])

DInv == IInv /\ QueuesTyped /\ CallTypes /\ CallStages /\ Own /\ Due
-----------------------------------------------------------------------------
(* Clients are connections, and threads run in clients.                    *)
LEMMA ClientIsConn == /\ Client \subseteq Conn
                      /\ \A t \in Thread : ClientOf[t] \in Client /\ ClientOf[t] \in Conn /\ t \in Rid
BY DiscoveryAssumption DEF Client

(* What a queue holds after a message is added or taken.                   *)
LEMMA AppendAt ==
  ASSUME NEW q \in Seq(Queued), NEW m \in Queued
  PROVE  /\ Append(q, m) \in Seq(Queued)
         /\ Len(Append(q, m)) = Len(q) + 1
         /\ Len(q) \in Nat
         /\ \A i \in 1..Len(q) : Append(q, m)[i] = q[i]
         /\ Append(q, m)[Len(q) + 1] = m
OBVIOUS

(* Sending one message.                                                    *)
LEMMA AppendIsConcat ==
  ASSUME NEW q \in Seq(Queued), NEW m \in Queued
  PROVE  Append(q, m) = q \o <<m>>
OBVIOUS

(* Receiving one message moves the others up.                              *)
LEMMA TailAt ==
  ASSUME NEW q \in Seq(Queued), q # <<>>
  PROVE  /\ Tail(q) \in Seq(Queued)
         /\ Len(q) \in Nat /\ Len(q) >= 1
         /\ Len(Tail(q)) = Len(q) - 1
         /\ \A i \in 1..Len(Tail(q)) : Tail(q)[i] = q[i + 1]
         /\ Head(q) = q[1] /\ Head(q) \in Queued
OBVIOUS

(* A message sent is an answer to t, or leaves the answers to t alone.     *)
LEMMA AnswersAppend ==
  ASSUME NEW q \in Seq(Queued), NEW m \in Queued, NEW t
  PROVE  /\ ~ (m.kind = "response" /\ m.rid = t) => Answers(Append(q, m), t) = Answers(q, t)
         /\ m.kind = "response" /\ m.rid = t =>
              Answers(Append(q, m), t) = Answers(q, t) \cup {Len(q) + 1}
<1>1. 1..Len(Append(q, m)) = 1..Len(q) \cup {Len(q) + 1}
  BY AppendAt
<1> QED
  BY <1>1, AppendAt DEF Answers

(* Receiving a message moves the answers to t up.                          *)
LEMMA AnswersTail ==
  ASSUME NEW q \in Seq(Queued), q # <<>>, NEW t
  PROVE  /\ \A i : i \in Answers(Tail(q), t) <=> (i \in 1..(Len(q) - 1) /\ i + 1 \in Answers(q, t))
         /\ 1 \in Answers(q, t) <=> (Head(q).kind = "response" /\ Head(q).rid = t)
<1>1. ASSUME NEW i
      PROVE  i \in Answers(Tail(q), t) <=> (i \in 1..(Len(q) - 1) /\ i + 1 \in Answers(q, t))
  <2>1. \A j \in 1..(Len(q) - 1) : j + 1 \in 1..Len(q) /\ Tail(q)[j] = q[j + 1]
    BY TailAt
  <2>2. Answers(Tail(q), t) = {j \in 1..(Len(q) - 1) : Tail(q)[j].kind = "response" /\ Tail(q)[j].rid = t}
    BY TailAt DEF Answers
  <2> QED
    BY <2>1, <2>2 DEF Answers
<1>2. 1 \in Answers(q, t) <=> (Head(q).kind = "response" /\ Head(q).rid = t)
  BY TailAt DEF Answers
<1> QED
  BY <1>1, <1>2

(* The notices of a close answer nobody.                                   *)
LEMMA NoticesAnswerNobody ==
  ASSUME NEW q \in Seq(Queued), NEW ns \in Seq(Notifications), NEW t, NEW c
  PROVE  /\ Answers(q \o ns, t) = Answers(q, t)
         /\ OwnAnswers(c, q) => OwnAnswers(c, q \o ns)
<1>1. ns \in Seq(Queued) /\ q \o ns \in Seq(Queued) /\ Len(q) \in Nat /\ Len(ns) \in Nat
  <2>1. Notifications \subseteq Queued
    BY DEF Queued
  <2> HIDE DEF Queued
  <2> QED
    BY <2>1
<1>2. \A i \in 1..Len(ns) : ns[i].kind = "notify"
  <2>1. \A i \in 1..Len(ns) : ns[i] \in Notifications
    OBVIOUS
  <2> QED
    BY <2>1 DEF Notifications
<1>3. /\ Len(q \o ns) = Len(q) + Len(ns)
      /\ \A i \in 1..Len(q) : (q \o ns)[i] = q[i]
      /\ \A i \in Len(q) + 1 .. Len(q \o ns) : i - Len(q) \in 1..Len(ns) /\ (q \o ns)[i] = ns[i - Len(q)]
  BY <1>1
<1>4. ASSUME NEW i \in 1..Len(q \o ns), (q \o ns)[i].kind = "response" PROVE i \in 1..Len(q)
  <2>1. i \notin Len(q) + 1 .. Len(q \o ns)
    <3> SUFFICES ASSUME i \in Len(q) + 1 .. Len(q \o ns) PROVE FALSE
      OBVIOUS
    <3>1. (q \o ns)[i].kind = "notify"
      BY <1>2, <1>3
    <3> QED
      BY <1>4, <3>1
  <2>2. Len(q \o ns) \in Nat /\ i \in 1..Len(q \o ns) /\ Len(q) \in Nat
    BY <1>1
  <2> HIDE DEF Queued
  <2> QED
    BY <2>1, <2>2
<1>5. 1..Len(q) \subseteq 1..Len(q \o ns)
  BY <1>1, <1>3
<1> QED
  BY <1>3, <1>4, <1>5 DEF Answers, OwnAnswers

(* A message to others leaves t's answer due ...                           *)
LEMMA DueAfterAppend ==
  ASSUME NEW q \in Seq(Queued), NEW m \in Queued, NEW t, NEW up, NEW p,
         ~ (m.kind = "response" /\ m.rid = t), AnswerDue(t, up, p, q)
  PROVE  AnswerDue(t, up, p, Append(q, m))
BY AnswersAppend DEF AnswerDue

(* ... and so does receiving one.                                          *)
LEMMA DueAfterTail ==
  ASSUME NEW q \in Seq(Queued), q # <<>>, NEW t, NEW up, NEW p,
         ~ (Head(q).kind = "response" /\ Head(q).rid = t), AnswerDue(t, up, p, q)
  PROVE  AnswerDue(t, up, p, Tail(q))
<1>1. 1 \notin Answers(q, t) /\ Answers(q, t) \subseteq 1..Len(q) /\ Len(q) \in Nat
  BY AnswersTail, TailAt DEF Answers
<1>2. CASE ~ (p = "waiting" /\ up)
  BY <1>2, AnswersTail DEF AnswerDue
<1>3. CASE p = "waiting" /\ up
  <2>1. PICK i \in Answers(q, t) : Answers(q, t) = {i}
    BY <1>3 DEF AnswerDue
  <2>2. i \in 2..Len(q) /\ i - 1 \in 1..(Len(q) - 1) /\ (i - 1) + 1 = i
    BY <1>1, <2>1
  <2>3. i - 1 \in Answers(Tail(q), t)
    BY <2>1, <2>2, AnswersTail
  <2>4. ASSUME NEW j \in Answers(Tail(q), t) PROVE j = i - 1
    <3>1. j + 1 = i /\ j \in 1..(Len(q) - 1)
      BY <2>1, AnswersTail
    <3> QED
      BY <1>1, <3>1
  <2>5. Answers(Tail(q), t) = {i - 1}
    BY <2>3, <2>4
  <2> QED
    BY <1>3, <2>3, <2>5 DEF AnswerDue
<1> QED
  BY <1>2, <1>3

(* A client's queue has answers to its own threads only, after one message *)
(* more ...                                                                *)
LEMMA OwnAfterAppend ==
  ASSUME NEW c, NEW q \in Seq(Queued), NEW m \in Queued, OwnAnswers(c, q),
         m.kind = "response" => (m.rid \in Thread /\ ClientOf[m.rid] = c)
  PROVE  OwnAnswers(c, Append(q, m))
<1>1. 1..Len(Append(q, m)) = 1..Len(q) \cup {Len(q) + 1}
  BY AppendAt
<1> QED
  BY <1>1, AppendAt DEF OwnAnswers

(* ... and after one less.                                                 *)
LEMMA OwnAfterTail ==
  ASSUME NEW c, NEW q \in Seq(Queued), q # <<>>, OwnAnswers(c, q)
  PROVE  OwnAnswers(c, Tail(q))
<1>1. \A i \in 1..Len(Tail(q)) : i + 1 \in 1..Len(q) /\ Tail(q)[i] = q[i + 1]
  BY TailAt
<1> QED
  BY <1>1 DEF OwnAnswers
-----------------------------------------------------------------------------
(* The list operations of MethodHost keep a list of hosts one.             *)
LEMMA NotedIsABag ==
  ASSUME NEW hosts \in HostBag, NEW msg \in Notifications, NEW m
  PROVE  Noted(hosts, msg, m) \in HostBag
<1>1. AppendHost(hosts, msg.host) \in HostBag
  BY DEF AppendHost, HostBag, Notifications
<1>2. RemoveHost(hosts, msg.host) \in HostBag
  <2>1. \A h \in Host : (IF hosts[h] = 0 THEN 0 ELSE hosts[h] - 1) \in Nat
    BY DEF HostBag
  <2> QED
    BY <2>1 DEF RemoveHost, HostBag, Notifications
<1> QED
  BY <1>1, <1>2 DEF Noted

(* A discovery is a request any peer might send.                           *)
LEMMA DiscoveryIsARequest ==
  ASSUME DInv, NEW t \in Thread
  PROVE  Request("SERVICE_DISCOVERY", t, want[t], NoHost) \in RequestsOf(ClientOf[t])
<1>1. t \in Rid /\ want[t] \in Method
  BY ClientIsConn DEF DInv, CallTypes
<1> QED
  BY <1>1 DEF RequestsOf

(* Every step of the system is a step of the registry or leaves it alone.  *)
LEMMA NextIsClientOfServer ==
  ASSUME DInv, DiscoveryNext \/ UNCHANGED vars
  PROVE  ServerStep \/ UNCHANGED serverVars
<1>1. ASSUME NEW t \in Thread, HandleDiscovery(t) PROVE ServerStep
  <2>1. /\ OnServiceRequest(ClientOf[t], Request("SERVICE_DISCOVERY", t, want[t], NoHost))
        /\ ClientOf[t] \in Conn
        /\ Request("SERVICE_DISCOVERY", t, want[t], NoHost) \in RequestsOf(ClientOf[t])
    BY <1>1, DiscoveryIsARequest, ClientIsConn DEF HandleDiscovery
  <2> QED
    BY <2>1 DEF ServerStep
<1>2. ASSUME NEW t \in Thread, NEW m \in Method,
             ReturnCached(t, m) \/ SendDiscovery(t, m) \/ Discovered(t) \/ Resume(t)
      PROVE  UNCHANGED serverVars
  BY <1>2 DEF ReturnCached, SendDiscovery, Discovered, Resume
<1>3. ASSUME NEW t \in Thread, Discovered(t) \/ Resume(t) PROVE UNCHANGED serverVars
  BY <1>3 DEF Discovered, Resume
<1>4. ASSUME NEW c \in Client, IOThread(c) \/ LoseRegistry(c) PROVE ServerStep
  <2>1. c \in Conn
    BY ClientIsConn
  <2> QED
    BY <1>4, <2>1 DEF IOThread, OnResponse, OnNotification, LoseRegistry, ServerStep
<1>5. ASSUME NEW p \in Conn \ Client, ProviderStep(p) PROVE ServerStep
  BY <1>5 DEF ProviderStep, ServerStep
<1> QED
  BY <1>1, <1>2, <1>3, <1>4, <1>5 DEF DiscoveryNext, vars
-----------------------------------------------------------------------------
(* Steps of a user thread alone, or of nobody: queues and connections stay,*)
(* and no thread begins or ends to wait.                                   *)
LEMMA QuietKeepsAnswers ==
  ASSUME DInv, connected' = connected, toClient' = toClient,
         \A u \in Thread : pc'[u] = "waiting" <=> pc[u] = "waiting"
  PROVE  Own' /\ Due'
<1>1. Own'
  BY DEF DInv, Own
<1>2. \A u \in Thread : AnswerDue(u, ClientOf[u] \in connected, pc[u], toClient[ClientOf[u]])
  BY DEF DInv, Due
<1>3. \A u \in Thread : AnswerDue(u, ClientOf[u] \in connected, pc'[u], toClient[ClientOf[u]])
  BY <1>2 DEF AnswerDue
<1> QED
  BY <1>1, <1>3 DEF Due

(* The steps of a thread that neither sends to the registry nor has its    *)
(* answer.                                                                 *)
LEMMA UserPreserves ==
  ASSUME DInv, IInv', QueuesTyped', NEW t \in Thread, NEW m \in Method,
         ReturnCached(t, m) \/ SendDiscovery(t, m) \/ Resume(t)
  PROVE  DInv'
<1>1. connected' = connected /\ toClient' = toClient
  BY DEF ReturnCached, SendDiscovery, Resume, serverVars
<1>2. CallTypes /\ CallStages
  BY DEF DInv
<1>3. CASE ReturnCached(t, m)
  <2>1. PICK h \in Host : host' = [host EXCEPT ![t] = h]
    BY <1>3 DEF ReturnCached, Usable
  <2>2. /\ pc[t] = "idle" /\ pc' = [pc EXCEPT ![t] = "returned"] /\ want' = [want EXCEPT ![t] = m]
        /\ cache' = cache /\ answer' = answer /\ stale' = stale /\ raced' = raced
    BY <1>3 DEF ReturnCached, auxVars
  <2>3. CallTypes' /\ CallStages' /\ \A u \in Thread : pc'[u] = "waiting" <=> pc[u] = "waiting"
    BY <1>2, <2>1, <2>2 DEF CallTypes, CallStages, Stages
  <2> QED
    BY <1>1, <2>3, QuietKeepsAnswers DEF DInv
<1>4. CASE SendDiscovery(t, m)
  <2>1. /\ pc[t] = "idle" /\ pc' = [pc EXCEPT ![t] = "sent"] /\ want' = [want EXCEPT ![t] = m]
        /\ cache' = cache /\ answer' = answer /\ host' = host /\ stale' = stale /\ raced' = raced
    BY <1>4 DEF SendDiscovery, auxVars
  <2>2. CallTypes' /\ CallStages' /\ \A u \in Thread : pc'[u] = "waiting" <=> pc[u] = "waiting"
    BY <1>2, <2>1 DEF CallTypes, CallStages, Stages
  <2> QED
    BY <1>1, <2>2, QuietKeepsAnswers DEF DInv
<1>5. CASE Resume(t)
  <2>1. /\ pc[t] = "returned" /\ pc' = [pc EXCEPT ![t] = "idle"] /\ host' = [host EXCEPT ![t] = NoHost]
        /\ cache' = cache /\ answer' = answer /\ want' = want /\ stale' = stale /\ raced' = raced
    BY <1>5 DEF Resume, auxVars
  <2>2. CallTypes' /\ CallStages' /\ \A u \in Thread : pc'[u] = "waiting" <=> pc[u] = "waiting"
    BY <1>2, <2>1 DEF CallTypes, CallStages, Stages
  <2> QED
    BY <1>1, <2>2, QuietKeepsAnswers DEF DInv
<1> QED
  BY <1>3, <1>4, <1>5

(* The thread installs its answer.                                         *)
LEMMA DiscoveredPreserves ==
  ASSUME DInv, IInv', QueuesTyped', NEW t \in Thread, Discovered(t)
  PROVE  DInv'
<1> DEFINE c == ClientOf[t]
           m == want[t]
<1>1. /\ CallTypes /\ CallStages /\ c \in Client /\ m \in Method
      /\ connected' = connected /\ toClient' = toClient
      /\ pc[t] = "answered" /\ answer[t] \in Responses
      /\ stale' = stale \ {t} /\ answer' = [answer EXCEPT ![t] = NoAnswer] /\ want' = want
  BY ClientIsConn DEF DInv, CallTypes, CallStages, Discovered, serverVars
<1>2. CASE answer[t].rcode # "RCODE_OK"
  <2>1. pc' = [pc EXCEPT ![t] = "idle"] /\ cache' = cache /\ host' = host /\ raced' = raced
    BY <1>2 DEF Discovered
  <2>2. CallTypes' /\ CallStages' /\ \A u \in Thread : pc'[u] = "waiting" <=> pc[u] = "waiting"
    BY <1>1, <2>1 DEF CallTypes, CallStages, Stages
  <2> QED
    BY <1>1, <2>2, QuietKeepsAnswers DEF DInv
<1>3. CASE answer[t].rcode = "RCODE_OK"
  <2>1. PICK h \in Host : host' = [host EXCEPT ![t] = h]
    BY <1>3 DEF Discovered, Usable
  <2>2. /\ cache' = [cache EXCEPT ![c][m] = answer[t].hosts]
        /\ raced' = [raced EXCEPT ![c] = IF t \in stale THEN @ \cup {m} ELSE @ \ {m}]
        /\ pc' = [pc EXCEPT ![t] = "returned"]
    BY <1>3 DEF Discovered
  <2>3. answer[t].hosts \in HostBag
    BY <1>1 DEF Responses
  <2>4. cache' \in [Client -> [Method -> HostBag]] /\ raced' \in [Client -> SUBSET Method]
    BY <1>1, <2>2, <2>3 DEF CallTypes
  <2>5. CallTypes' /\ CallStages' /\ \A u \in Thread : pc'[u] = "waiting" <=> pc[u] = "waiting"
    BY <1>1, <2>1, <2>2, <2>4 DEF CallTypes, CallStages, Stages
  <2> QED
    BY <1>1, <2>5, QuietKeepsAnswers DEF DInv
<1> QED
  BY <1>2, <1>3
-----------------------------------------------------------------------------
(* The registry handles the request of a thread: the thread's answer is    *)
(* appended to a queue that held none.                                     *)
LEMMA HandlePreserves ==
  ASSUME DInv, IInv', QueuesTyped', NEW t \in Thread, HandleDiscovery(t)
  PROVE  DInv'
<1> DEFINE d == ClientOf[t]
           msg == Request("SERVICE_DISCOVERY", t, want[t], NoHost)
<1>1. /\ pc[t] = "sent" /\ pc' = [pc EXCEPT ![t] = "waiting"]
      /\ cache' = cache /\ want' = want /\ answer' = answer /\ host' = host
      /\ stale' = stale /\ raced' = raced
      /\ OnServiceRequest(d, msg) /\ d \in Client /\ d \in Conn /\ d \in connected
  BY ClientIsConn DEF HandleDiscovery, OnServiceRequest, auxVars
<1>2. PICK rsp \in Responses : rsp.rid = t /\ toClient' = [toClient EXCEPT ![d] = Append(@, rsp)]
  <2>1. OnDiscovery(d, msg) /\ msg.rid = t /\ msg.method = want[t]
    BY <1>1 DEF OnServiceRequest, OnRegistry, OnUnknownOperation, Request
  <2>2. t \in Rid /\ want[t] \in Method /\ IInv
    BY ClientIsConn DEF DInv, CallTypes
  <2> QED
    BY <2>1, <2>2, AnswersAreResponses DEF OnDiscovery, Send
<1>3. connected' = connected
  BY <1>1 DEF OnServiceRequest, OnRegistry, OnDiscovery, OnUnknownOperation
<1>4. CallTypes' /\ CallStages'
  BY <1>1 DEF DInv, CallTypes, CallStages, Stages
<1>5. /\ rsp \in Queued /\ rsp.kind = "response"
      /\ toClient \in [Conn -> Seq(Queued)] /\ toClient[d] \in Seq(Queued)
      /\ toClient'[d] = Append(toClient[d], rsp)
      /\ \A c \in Conn : c # d => toClient'[c] = toClient[c]
  BY <1>1, <1>2 DEF Queued, Responses, DInv, QueuesTyped
<1>6. ASSUME NEW c \in Client PROVE OwnAnswers(c, toClient'[c])
  <2>1. OwnAnswers(c, toClient[c]) /\ c \in Conn
    BY ClientIsConn DEF DInv, Own
  <2> QED
    BY <1>2, <1>5, <2>1, OwnAfterAppend
<1>7. ASSUME NEW u \in Thread
      PROVE  AnswerDue(u, ClientOf[u] \in connected', pc'[u], toClient'[ClientOf[u]])
  <2>1. ClientOf[u] \in Conn /\ AnswerDue(u, ClientOf[u] \in connected, pc[u], toClient[ClientOf[u]])
    BY ClientIsConn DEF DInv, Due
  <2>2. CASE u = t
    <3>1. Answers(toClient[d], t) = {}
      BY <1>1, <2>1, <2>2 DEF AnswerDue
    <3>2. Answers(toClient'[d], t) = {Len(toClient[d]) + 1}
      <4>1. Answers(Append(toClient[d], rsp), t) = Answers(toClient[d], t) \cup {Len(toClient[d]) + 1}
        <5> DEFINE q == toClient[d]
        <5>1. q \in Seq(Queued) /\ rsp \in Queued /\ rsp.kind = "response" /\ rsp.rid = t
          BY <1>2, <1>5
        <5> HIDE DEF q
        <5>2. Answers(Append(q, rsp), t) = Answers(q, t) \cup {Len(q) + 1}
          BY <5>1, AnswersAppend
        <5> QED
          BY <5>2 DEF q
      <4> QED
        BY <1>5, <3>1, <4>1
    <3>3. pc'[t] = "waiting"
      BY <1>1 DEF DInv, CallTypes
    <3> QED
      BY <1>1, <1>3, <2>2, <3>2, <3>3 DEF AnswerDue
  <2>3. CASE u # t
    <3>1. pc'[u] = pc[u]
      BY <1>1, <2>3 DEF DInv, CallTypes
    <3> QED
      BY <1>2, <1>3, <1>5, <2>1, <2>3, <3>1, DueAfterAppend
  <2> QED
    BY <2>2, <2>3
<1> QED
  BY <1>4, <1>6, <1>7 DEF DInv, Own, Due

(* An answer that arrives is the one of a thread that waits.               *)
LEMMA AnswerMeetsItsCall ==
  ASSUME DInv, NEW c \in Client, Receive(c), Head(toClient[c]).kind = "response"
  PROVE  LET r == Head(toClient[c]).rid
         IN  /\ r \in Thread /\ ClientOf[r] = c /\ pc[r] = "waiting"
             /\ Answers(toClient[c], r) = {1}
<1> DEFINE r == Head(toClient[c]).rid
<1>1. toClient[c] \in Seq(Queued) /\ toClient[c] # <<>>
  BY ClientIsConn DEF DInv, QueuesTyped, Receive
<1>2. 1 \in Answers(toClient[c], r)
  BY <1>1, AnswersTail
<1>3. r \in Thread /\ ClientOf[r] = c
  <2>1. 1 \in 1..Len(toClient[c]) /\ Head(toClient[c]) = toClient[c][1]
    BY <1>1, TailAt
  <2> QED
    BY <2>1 DEF DInv, Own, OwnAnswers
<1>4. AnswerDue(r, c \in connected, pc[r], toClient[c])
  BY <1>3 DEF DInv, Due
<1> QED
  BY <1>2, <1>3, <1>4 DEF AnswerDue

(* An answer reaches the thread that waits for it.                         *)
LEMMA ResponsePreserves ==
  ASSUME DInv, IInv', QueuesTyped', NEW c \in Client, OnResponse(c)
  PROVE  DInv'
<1> DEFINE msg == Head(toClient[c])
           q == toClient[c]
<1>0. /\ Receive(c) /\ msg.kind = "response"
      /\ pc' = [pc EXCEPT ![msg.rid] = "answered"]
      /\ answer' = [answer EXCEPT ![msg.rid] = msg]
      /\ cache' = cache /\ want' = want /\ host' = host /\ stale' = stale /\ raced' = raced
  BY DEF OnResponse, auxVars
<1>1. msg.rid \in Thread /\ ClientOf[msg.rid] = c /\ pc[msg.rid] = "waiting" /\ Answers(q, msg.rid) = {1}
  BY <1>0, AnswerMeetsItsCall
<1>2. /\ c \in Conn /\ toClient \in [Conn -> Seq(Queued)] /\ q \in Seq(Queued) /\ q # <<>>
      /\ connected' = connected /\ toClient' = [toClient EXCEPT ![c] = Tail(q)]
  BY <1>0, ClientIsConn DEF DInv, QueuesTyped, Receive
<1>3. msg \in Responses
  <2>1. msg \in Queued
    BY <1>2, TailAt
  <2> QED
    BY <1>0, <2>1 DEF Queued, Notifications
<1>4. CallTypes' /\ CallStages'
  <2> HIDE DEF msg
  <2> QED
    BY <1>0, <1>1, <1>3 DEF DInv, CallTypes, CallStages, Stages
<1>5. ASSUME NEW d \in Client PROVE OwnAnswers(d, toClient'[d])
  <2>1. OwnAnswers(d, toClient[d]) /\ d \in Conn
    BY ClientIsConn DEF DInv, Own
  <2> QED
    BY <1>2, <2>1, OwnAfterTail
<1>6. ASSUME NEW u \in Thread
      PROVE  AnswerDue(u, ClientOf[u] \in connected', pc'[u], toClient'[ClientOf[u]])
  <2>0. ClientOf[u] \in Conn /\ AnswerDue(u, ClientOf[u] \in connected, pc[u], toClient[ClientOf[u]])
    BY ClientIsConn DEF DInv, Due
  <2>1. CASE u = msg.rid
    <3>1. pc'[u] = "answered"
      BY <1>0, <1>1, <2>1 DEF DInv, CallTypes
    <3>2. Answers(Tail(q), u) = {}
      BY <1>1, <1>2, <2>1, AnswersTail
    <3> QED
      BY <1>1, <1>2, <2>1, <3>1, <3>2 DEF AnswerDue
  <2>2. CASE u # msg.rid /\ ClientOf[u] = c
    <3>1. pc'[u] = pc[u]
      BY <1>0, <2>2 DEF DInv, CallTypes
    <3> QED
      BY <1>2, <2>0, <2>2, <3>1, DueAfterTail
  <2>3. CASE u # msg.rid /\ ClientOf[u] # c
    <3>1. pc'[u] = pc[u]
      BY <1>0, <2>3 DEF DInv, CallTypes
    <3> QED
      BY <1>2, <2>0, <2>3, <3>1
  <2> QED
    BY <2>1, <2>2, <2>3
<1> QED
  BY <1>4, <1>5, <1>6 DEF DInv, Own, Due

(* A notification is no answer; it changes the cached hosts.               *)
LEMMA NotificationPreserves ==
  ASSUME DInv, IInv', QueuesTyped', NEW c \in Client, OnNotification(c)
  PROVE  DInv'
<1> DEFINE msg == Head(toClient[c])
           q == toClient[c]
<1>0. /\ Receive(c) /\ msg.kind = "notify"
      /\ cache' = [cache EXCEPT ![c][msg.method] = Noted(@, msg, msg.method)]
      /\ stale' = stale \cup {t \in Thread : ClientOf[t] = c /\ pc[t] = "answered"
                                               /\ want[t] = msg.method}
      /\ pc' = pc /\ want' = want /\ answer' = answer /\ host' = host /\ raced' = raced
  BY DEF OnNotification, threadVars
<1>1. /\ c \in Conn /\ toClient \in [Conn -> Seq(Queued)] /\ q \in Seq(Queued) /\ q # <<>>
      /\ connected' = connected /\ toClient' = [toClient EXCEPT ![c] = Tail(q)]
  BY <1>0, ClientIsConn DEF DInv, QueuesTyped, Receive
<1>2. msg \in Notifications /\ msg.method \in Method
  <2>1. msg \in Queued
    BY <1>1, TailAt
  <2> QED
    BY <1>0, <2>1 DEF Queued, Responses, Notifications
<1>3. cache' \in [Client -> [Method -> HostBag]]
  <2>1. cache \in [Client -> [Method -> HostBag]]
    BY DEF DInv, CallTypes
  <2>2. Noted(cache[c][msg.method], msg, msg.method) \in HostBag
    BY <1>2, <2>1, NotedIsABag
  <2> QED
    BY <1>0, <1>2, <2>1, <2>2
<1>4. CallTypes' /\ CallStages'
  BY <1>0, <1>3 DEF DInv, CallTypes, CallStages
<1>5. ASSUME NEW d \in Client PROVE OwnAnswers(d, toClient'[d])
  <2>1. OwnAnswers(d, toClient[d]) /\ d \in Conn
    BY ClientIsConn DEF DInv, Own
  <2> QED
    BY <1>1, <2>1, OwnAfterTail
<1>6. ASSUME NEW u \in Thread
      PROVE  AnswerDue(u, ClientOf[u] \in connected', pc'[u], toClient'[ClientOf[u]])
  <2>0. ClientOf[u] \in Conn /\ AnswerDue(u, ClientOf[u] \in connected, pc[u], toClient[ClientOf[u]])
    BY ClientIsConn DEF DInv, Due
  <2>1. CASE ClientOf[u] = c
    BY <1>0, <1>1, <2>0, <2>1, DueAfterTail
  <2>2. CASE ClientOf[u] # c
    BY <1>0, <1>1, <2>0, <2>2
  <2> QED
    BY <2>1, <2>2
<1> QED
  BY <1>4, <1>5, <1>6 DEF DInv, Own, Due

(* The connection of e closes, a client's or another peer's.               *)
LEMMA ClosePreserves ==
  ASSUME DInv, IInv', QueuesTyped', NEW e \in Conn, OnConnShutdown(e), UNCHANGED clientVars
  PROVE  DInv'
<1>1. /\ toClient'[e] = <<>> /\ connected' = connected \ {e} /\ pc' = pc
      /\ \A d \in Conn \ {e} : toClient'[d] = toClient[d] \o OfflineNotices(e, d)
  BY CloseQueues DEF DInv, clientVars, threadVars
<1>2. CallTypes' /\ CallStages'
  BY DEF DInv, CallTypes, CallStages, clientVars, threadVars, auxVars
<1>3. \A d \in Conn : OfflineNotices(e, d) \in Seq(Notifications) /\ toClient[d] \in Seq(Queued)
  BY NoticesOfClose DEF DInv, QueuesTyped
<1>4. ASSUME NEW d \in Client PROVE OwnAnswers(d, toClient'[d])
  <2>1. OwnAnswers(d, toClient[d]) /\ d \in Conn
    BY ClientIsConn DEF DInv, Own
  <2>2. OwnAnswers(d, <<>>)
    BY DEF OwnAnswers
  <2> QED
    BY <1>1, <1>3, <2>1, <2>2, NoticesAnswerNobody
<1>5. ASSUME NEW u \in Thread
      PROVE  AnswerDue(u, ClientOf[u] \in connected', pc'[u], toClient'[ClientOf[u]])
  <2>0. ClientOf[u] \in Conn /\ AnswerDue(u, ClientOf[u] \in connected, pc[u], toClient[ClientOf[u]])
    BY ClientIsConn DEF DInv, Due
  <2>1. CASE ClientOf[u] = e
    BY <1>1, <2>1 DEF AnswerDue, Answers
  <2>2. CASE ClientOf[u] # e
    <3>1. Answers(toClient'[ClientOf[u]], u) = Answers(toClient[ClientOf[u]], u)
      <4> DEFINE d == ClientOf[u]
      <4>1. /\ d \in Conn \ {e} /\ toClient'[d] = toClient[d] \o OfflineNotices(e, d)
            /\ toClient[d] \in Seq(Queued) /\ OfflineNotices(e, d) \in Seq(Notifications)
        BY <1>1, <1>3, <2>0, <2>2
      <4>2. Answers(toClient[d] \o OfflineNotices(e, d), u) = Answers(toClient[d], u)
        BY <4>1, NoticesAnswerNobody
      <4> QED
        BY <4>1, <4>2
    <3>2. ClientOf[u] \in connected' <=> ClientOf[u] \in connected
      BY <1>1, <2>2
    <3> QED
      BY <1>1, <2>0, <3>1, <3>2 DEF AnswerDue
  <2> QED
    BY <2>1, <2>2
<1> QED
  BY <1>2, <1>4, <1>5 DEF DInv, Own, Due

(* An RPC server can only add notifications to the queue of a client.      *)
LEMMA ProviderPreserves ==
  ASSUME DInv, IInv', QueuesTyped', NEW e \in Conn \ Client, ProviderStep(e)
  PROVE  DInv'
<1>0. UNCHANGED clientVars /\ pc' = pc
  BY DEF ProviderStep, clientVars, threadVars
<1>1. CASE OnConnShutdown(e)
  BY <1>0, <1>1, ClosePreserves
<1>2. CallTypes' /\ CallStages'
  BY <1>0 DEF DInv, CallTypes, CallStages, clientVars, threadVars, auxVars
<1>3. ASSUME NEW c \in Client, ~ OnConnShutdown(e)
      PROVE  /\ c \in connected' <=> c \in connected
             /\ \/ toClient'[c] = toClient[c]
                \/ \E m \in Queued : m.kind = "notify" /\ toClient'[c] = Append(toClient[c], m)
  <2>0. c \in Conn /\ c # e /\ toClient \in [Conn -> Seq(Queued)]
    BY ClientIsConn DEF DInv, QueuesTyped
  <2>1. CASE OnConnected(e) \/ Receive(e)
    BY <2>0, <2>1 DEF OnConnected, Receive
  <2>2. ASSUME NEW msg \in RequestsOf(e), OnServiceRequest(e, msg)
        PROVE  /\ c \in connected' <=> c \in connected
               /\ \/ toClient'[c] = toClient[c]
                  \/ \E m \in Queued : m.kind = "notify" /\ toClient'[c] = Append(toClient[c], m)
    <3>1. connected' = connected
      BY <2>2 DEF OnServiceRequest, OnRegistry, OnDiscovery, OnUnknownOperation
    <3> DEFINE note == NotifyMsg("SERVICE_ONLINE", msg.method, msg.host)
    <3>2. PICK mid \in [Conn -> Seq(Queued)], rsp \in Responses :
            /\ rsp.rid = msg.rid
            /\ \/ OnDiscovery(e, msg) /\ rsp = DiscoveryResponse(msg.rid, msg.method)
               \/ rsp.hosts = NoHosts
            /\ toClient' = [mid EXCEPT ![e] = Append(@, rsp)]
            /\ \A d \in Conn : \/ mid[d] = toClient[d]
                               \/ /\ OnRegistry(e, msg) /\ d \in discoverers[msg.method]
                                  /\ note \in Notifications
                                  /\ mid[d] = Append(toClient[d], note)
      <4>1. IInv /\ QueuesTyped
        BY DEF DInv
      <4> QED
        BY <2>2, <4>1, RequestQueues
    <3>3. toClient'[c] = mid[c]
      BY <2>0, <3>2
    <3>4. note \in Notifications => (note \in Queued /\ note.kind = "notify")
      BY DEF Queued, Notifications
    <3> HIDE DEF note
    <3> QED
      BY <2>0, <3>1, <3>2, <3>3, <3>4
  <2> QED
    BY <1>3, <2>1, <2>2 DEF ProviderStep
<1>4. CASE ~ OnConnShutdown(e)
  <2>1. \A c \in Client : c \in Conn /\ toClient[c] \in Seq(Queued)
    BY ClientIsConn DEF DInv, QueuesTyped
  <2>2. ASSUME NEW c \in Client PROVE OwnAnswers(c, toClient'[c])
    <3>1. OwnAnswers(c, toClient[c])
      BY DEF DInv, Own
    <3> QED
      BY <1>3, <1>4, <2>1, <3>1, OwnAfterAppend
  <2>3. ASSUME NEW u \in Thread
        PROVE  AnswerDue(u, ClientOf[u] \in connected', pc'[u], toClient'[ClientOf[u]])
    <3>1. ClientOf[u] \in Client /\ AnswerDue(u, ClientOf[u] \in connected, pc[u], toClient[ClientOf[u]])
      BY ClientIsConn DEF DInv, Due
    <3>2. (ClientOf[u] \in connected') = (ClientOf[u] \in connected)
      BY <1>3, <1>4, <3>1
    <3>3. AnswerDue(u, ClientOf[u] \in connected, pc[u], toClient'[ClientOf[u]])
      <4>1. CASE toClient'[ClientOf[u]] = toClient[ClientOf[u]]
        BY <3>1, <4>1
      <4>2. ASSUME NEW m \in Queued, m.kind = "notify",
                   toClient'[ClientOf[u]] = Append(toClient[ClientOf[u]], m)
            PROVE  AnswerDue(u, ClientOf[u] \in connected, pc[u], toClient'[ClientOf[u]])
        BY <2>1, <3>1, <4>2, DueAfterAppend
      <4> QED
        BY <1>3, <1>4, <3>1, <4>1, <4>2
    <3> QED
      BY <1>0, <3>2, <3>3
  <2> QED
    BY <1>2, <2>2, <2>3 DEF DInv, Own, Due
<1> QED
  BY <1>1, <1>4

(* Clients that have just connected satisfy the invariant.                 *)
LEMMA DiscoveryInitInvariant == DiscoveryInit => DInv
<1> SUFFICES ASSUME DiscoveryInit PROVE DInv
  OBVIOUS
<1>1. NoHosts \in HostBag /\ Client \subseteq Conn
  BY ClientIsConn DEF NoHosts, HostBag
<1>2. IInv
  BY <1>1 DEF DiscoveryInit, IInv, MapsTypeOK, IndexesAgree, ListedAreConnected,
              ProviderHasMethods, Offers
<1>3. QueuesTyped
  BY DEF DiscoveryInit, QueuesTyped
<1>4. CallTypes /\ CallStages
  BY <1>1 DEF DiscoveryInit, CallTypes, CallStages, Stages
<1>5. Own /\ Due
  BY ClientIsConn DEF DiscoveryInit, Own, Due, OwnAnswers, AnswerDue, Answers
<1> QED
  BY <1>2, <1>3, <1>4, <1>5 DEF DInv

(* Every step of the system preserves it.                                  *)
LEMMA DiscoveryStepPreserves ==
  ASSUME DInv, DiscoveryNext \/ UNCHANGED vars
  PROVE  DInv'
<1>0. IInv' /\ QueuesTyped'
  BY NextIsClientOfServer, StepPreserves, StepKeepsQueues DEF DInv
<1>1. CASE UNCHANGED vars
  <2>1. CallTypes' /\ CallStages' /\ connected' = connected /\ toClient' = toClient /\ pc' = pc
    BY <1>1 DEF DInv, CallTypes, CallStages, vars, serverVars, clientVars, threadVars, auxVars
  <2> QED
    BY <1>0, <2>1, QuietKeepsAnswers DEF DInv
<1>2. ASSUME NEW t \in Thread, NEW m \in Method, ReturnCached(t, m) \/ SendDiscovery(t, m) PROVE DInv'
  BY <1>0, <1>2, UserPreserves
<1>3. ASSUME NEW t \in Thread, Resume(t) PROVE DInv'
  <2>1. want[t] \in Method
    BY DEF DInv, CallTypes
  <2> QED
    BY <1>0, <1>3, <2>1, UserPreserves
<1>4. ASSUME NEW t \in Thread, HandleDiscovery(t) \/ Discovered(t) PROVE DInv'
  BY <1>0, <1>4, HandlePreserves, DiscoveredPreserves
<1>5. ASSUME NEW c \in Client, IOThread(c) \/ LoseRegistry(c) PROVE DInv'
  <2>1. c \in Conn
    BY ClientIsConn
  <2> QED
    BY <1>0, <1>5, <2>1, ResponsePreserves, NotificationPreserves, ClosePreserves
       DEF IOThread, LoseRegistry
<1>6. ASSUME NEW p \in Conn \ Client, ProviderStep(p) PROVE DInv'
  BY <1>0, <1>6, ProviderPreserves
<1> QED
  BY <1>1, <1>2, <1>3, <1>4, <1>5, <1>6 DEF DiscoveryNext

(* Every reachable state of the registry with its clients satisfies the    *)
(* invariant of discoveries.                                               *)
THEOREM DiscoveryInvariantHolds == DiscoverySpec => []DInv
<1>1. DInv /\ [DiscoveryNext]_vars => DInv'
  BY DiscoveryStepPreserves
<1> QED
  BY <1>1, DiscoveryInitInvariant, PTL DEF DiscoverySpec

(* Every answer reaches the thread that waits for it, carries hosts exactly*)
(* if it says so, and is read once; the cache holds lists of hosts.        *)
THEOREM AnswersMeetTheirDiscoveries == DiscoverySpec => []DiscoveryTypeOK
<1>1. DInv => DiscoveryTypeOK
  BY TypedQueuesAreRight DEF DInv, CallTypes, CallStages, DiscoveryTypeOK, Stages
<1> QED
  BY <1>1, DiscoveryInvariantHolds, PTL

(* With clients of this library, too, the managers' indexes agree, and a   *)
(* closed connection, a client's or a provider's, is listed nowhere.       *)
THEOREM ListingsAgreeWithClients == DiscoverySpec => [](IndexesAgree /\ ListedAreConnected)
<1>1. DInv => IndexesAgree /\ ListedAreConnected
  BY DEF DInv, IInv
<1> QED
  BY <1>1, DiscoveryInvariantHolds, PTL

(* A client that has discovered a method is told of each of its hosts that *)
(* goes, whatever its threads do meanwhile.                                *)
THEOREM ClientsHearOfShutdowns == DiscoverySpec => ShutdownNotified
<1>1. DInv /\ [DiscoveryNext]_vars =>
        [\A c \in connected \ connected' : \A m \in Method : \A d \in discoverers[m] \ {c} :
           c \in providers[m] =>
             \E i \in Len(toClient[d]) + 1 .. Len(toClient'[d]) :
               toClient'[d][i] = NotifyMsg("SERVICE_OFFLINE", m, providerHost[c])]_serverVars
  <2> SUFFICES ASSUME DInv, [DiscoveryNext]_vars,
                      NEW c \in connected \ connected', NEW m \in Method,
                      NEW d \in discoverers[m] \ {c}, c \in providers[m]
               PROVE  \E i \in Len(toClient[d]) + 1 .. Len(toClient'[d]) :
                        toClient'[d][i] = NotifyMsg("SERVICE_OFFLINE", m, providerHost[c])
    OBVIOUS
  <2>1. IInv /\ QueuesTyped /\ (ServerStep \/ UNCHANGED serverVars)
    BY NextIsClientOfServer DEF DInv
  <2> QED
    BY <2>1, CloseIsNotified
<1> QED
  BY <1>1, DiscoveryInvariantHolds, PTL DEF DiscoverySpec, ShutdownNotified
-----------------------------------------------------------------------------
(* Counting.  How often the messages of a queue from place j on say that a *)
(* host came or went.                                                      *)
Says(x, op, m, h) == x.kind = "notify" /\ x.optype = op /\ x.method = m /\ x.host = h

Places(q, j, op, m, h) == {i \in j..Len(q) : Says(q[i], op, m, h)}
Count(q, j, op, m, h)  == Cardinality(Places(q, j, op, m, h))

(* Sets in one-to-one correspondence have one size.                        *)
LEMMA SameSize ==
  ASSUME NEW S, NEW T, IsFiniteSet(T), NEW f \in [S -> T],
         \A i, j \in S : f[i] = f[j] => i = j,
         \A k \in T : \E i \in S : f[i] = k
  PROVE  IsFiniteSet(S) /\ Cardinality(S) = Cardinality(T)
<1>1. f \in Injection(S, T)
  BY DEF Injection, IsInjective
<1>2. f \in Surjection(S, T)
  BY DEF Surjection
<1> QED
  BY <1>1, <1>2, FS_Injection

(* Finitely many messages of a queue say something.                        *)
LEMMA CountIsNat ==
  ASSUME NEW q \in Seq(Queued), NEW j \in Nat, NEW op, NEW m, NEW h
  PROVE  /\ IsFiniteSet(Places(q, j, op, m, h))
         /\ Count(q, j, op, m, h) \in Nat
<1>1. IsFiniteSet(j..Len(q))
  <2>1. j \in Int /\ Len(q) \in Int
    OBVIOUS
  <2> QED
    BY <2>1, FS_Interval
<1>2. Places(q, j, op, m, h) \in SUBSET (j..Len(q))
  BY DEF Places
<1> QED
  BY <1>1, <1>2, FS_Subset, FS_CardinalityType DEF Count

(* What no message says is counted zero times.                             *)
LEMMA NoneSaid ==
  ASSUME NEW q \in Seq(Queued), NEW j \in Nat, NEW op, NEW m, NEW h,
         \A i \in j..Len(q) : ~ Says(q[i], op, m, h)
  PROVE  Count(q, j, op, m, h) = 0
<1>1. Places(q, j, op, m, h) = {}
  BY DEF Places
<1> QED
  BY <1>1, FS_EmptySet DEF Count

(* Counting in one message.                                                *)
LEMMA CountOne ==
  ASSUME NEW x \in Queued, NEW op, NEW m, NEW h
  PROVE  Count(<<x>>, 1, op, m, h) = IF Says(x, op, m, h) THEN 1 ELSE 0
<1>1. Places(<<x>>, 1, op, m, h) = IF Says(x, op, m, h) THEN {1} ELSE {}
  BY DEF Places
<1> QED
  BY <1>1, FS_EmptySet, FS_Singleton DEF Count

(* The places of a concatenation.                                          *)
LEMMA ConcatAt ==
  ASSUME NEW q \in Seq(Queued), NEW ns \in Seq(Queued)
  PROVE  /\ q \o ns \in Seq(Queued) /\ Len(q) \in Nat /\ Len(ns) \in Nat
         /\ Len(q \o ns) = Len(q) + Len(ns)
         /\ \A i \in 1..Len(q) : (q \o ns)[i] = q[i]
         /\ \A i \in 1..Len(ns) : (q \o ns)[Len(q) + i] = ns[i]
OBVIOUS

(* From a place of the second part on, only the second part counts.        *)
LEMMA CountBehind ==
  ASSUME NEW q \in Seq(Queued), NEW ns \in Seq(Queued), NEW op, NEW m, NEW h,
         NEW k \in 1..Len(ns) + 1
  PROVE  Count(q \o ns, Len(q) + k, op, m, h) = Count(ns, k, op, m, h)
<1> DEFINE r == q \o ns
           n == Len(q)
<1>0. /\ r \in Seq(Queued) /\ n \in Nat /\ Len(ns) \in Nat /\ Len(r) = n + Len(ns)
      /\ \A i \in 1..n : r[i] = q[i]
      /\ \A i \in 1..Len(ns) : r[n + i] = ns[i]
  BY ConcatAt
<1> HIDE DEF r
<1> DEFINE S == Places(ns, k, op, m, h)
           T == Places(r, n + k, op, m, h)
           f == [i \in S |-> n + i]
<1>1. S = {i \in k..Len(ns) : Says(ns[i], op, m, h)}
  BY DEF Places
<1>2. T = {i \in n + k .. n + Len(ns) : Says(r[i], op, m, h)}
  BY <1>0 DEF Places
<1>3. ASSUME NEW i \in T PROVE i - n \in S /\ n + (i - n) = i
  <2>1. i - n \in k..Len(ns) /\ i - n \in 1..Len(ns) /\ n + (i - n) = i
    BY <1>0, <1>2
  <2>2. r[n + (i - n)] = ns[i - n]
    BY <1>0, <2>1
  <2> QED
    BY <1>1, <1>2, <2>1, <2>2
<1>4. ASSUME NEW i \in S PROVE n + i \in T /\ i \in Nat
  <2>1. i \in 1..Len(ns) /\ n + i \in n + k .. n + Len(ns) /\ i \in Nat
    BY <1>0, <1>1
  <2> QED
    BY <1>0, <1>1, <1>2, <2>1
<1>5. IsFiniteSet(T)
  BY <1>0, CountIsNat
<1> HIDE DEF S, T
<1>6. f \in [S -> T] /\ \A i, j \in S : f[i] = f[j] => i = j
  BY <1>0, <1>4
<1>7. \A i \in T : \E j \in S : f[j] = i
  BY <1>3
<1>8. Cardinality(S) = Cardinality(T)
  <2> HIDE DEF f
  <2> QED
    BY <1>5, <1>6, <1>7, SameSize
<1> QED
  BY <1>8 DEF r, S, T, Count

(* From a place of the first part on, both count.                          *)
LEMMA CountConcat ==
  ASSUME NEW q \in Seq(Queued), NEW ns \in Seq(Queued), NEW op, NEW m, NEW h,
         NEW j \in 1..Len(q) + 1
  PROVE  Count(q \o ns, j, op, m, h) = Count(q, j, op, m, h) + Count(ns, 1, op, m, h)
<1> DEFINE r == q \o ns
           n == Len(q)
           S == Places(q, j, op, m, h)
           T == Places(r, n + 1, op, m, h)
<1>0. /\ r \in Seq(Queued) /\ n \in Nat /\ Len(ns) \in Nat /\ Len(r) = n + Len(ns)
      /\ \A i \in 1..n : r[i] = q[i]
      /\ \A i \in 1..Len(ns) : r[n + i] = ns[i]
  BY ConcatAt
<1> HIDE DEF r
<1>1. Places(r, j, op, m, h) = S \cup T
  <2>1. j..Len(r) = j..n \cup (n + 1 .. Len(r))
    BY <1>0
  <2>2. \A i \in j..n : r[i] = q[i]
    BY <1>0
  <2> QED
    BY <2>1, <2>2 DEF Places
<1>2. S \cap T = {}
  BY <1>0 DEF Places
<1>3. IsFiniteSet(S) /\ IsFiniteSet(T) /\ Count(q, j, op, m, h) \in Nat /\ Count(r, n + 1, op, m, h) \in Nat
  BY <1>0, CountIsNat
<1>4. Count(r, n + 1, op, m, h) = Count(ns, 1, op, m, h)
  <2>1. 1 \in 1..Len(ns) + 1
    BY <1>0
  <2> QED
    BY <2>1, CountBehind DEF r
<1> HIDE DEF S, T
<1>5. Cardinality(S \cup T) = Cardinality(S) + Cardinality(T) - Cardinality({})
  BY <1>2, <1>3, FS_Union
<1>6. Count(r, j, op, m, h) = Cardinality(S) + Cardinality(T)
  BY <1>1, <1>3, <1>5, FS_EmptySet DEF Count, S, T
<1> QED
  BY <1>4, <1>6 DEF Count, r, S, T

(* Taking the first message of a queue.                                    *)
LEMMA HeadAndTail ==
  ASSUME NEW q \in Seq(Queued), q # <<>>
  PROVE  /\ Head(q) \in Queued /\ Tail(q) \in Seq(Queued) /\ <<Head(q)>> \in Seq(Queued)
         /\ Len(Tail(q)) = Len(q) - 1 /\ Len(<<Head(q)>>) = 1 /\ Len(q) \in Nat
         /\ <<Head(q)>> \o Tail(q) = q
<1>1. <<Head(q)>> \o Tail(q) = q
  OBVIOUS
<1> QED
  BY <1>1, TailAt

(* The first message counts once if it says so.                            *)
LEMMA CountTail ==
  ASSUME NEW q \in Seq(Queued), q # <<>>, NEW op, NEW m, NEW h
  PROVE  Count(q, 1, op, m, h) = (IF Says(Head(q), op, m, h) THEN 1 ELSE 0)
                                   + Count(Tail(q), 1, op, m, h)
<1> DEFINE x == Head(q)
           t == Tail(q)
           y == <<x>>
<1>1. /\ y \in Seq(Queued) /\ t \in Seq(Queued) /\ 1 \in 1..Len(y) + 1 /\ y \o t = q
      /\ Count(y, 1, op, m, h) = IF Says(x, op, m, h) THEN 1 ELSE 0
  BY HeadAndTail, CountOne
<1> HIDE DEF x, t, y
<1>2. Count(y \o t, 1, op, m, h) = Count(y, 1, op, m, h) + Count(t, 1, op, m, h)
  <2>1. y \in Seq(Queued) /\ t \in Seq(Queued) /\ 1 \in 1..Len(y) + 1
    BY <1>1
  <2> QED
    BY <2>1, CountConcat
<1> QED
  BY <1>1, <1>2 DEF x, t

(* Counting from the second place on is counting in the tail.              *)
LEMMA CountNext ==
  ASSUME NEW q \in Seq(Queued), q # <<>>, NEW op, NEW m, NEW h, NEW j \in 1..Len(q)
  PROVE  Count(q, j + 1, op, m, h) = Count(Tail(q), j, op, m, h)
<1> DEFINE t == Tail(q)
           y == <<Head(q)>>
<1>1. y \in Seq(Queued) /\ t \in Seq(Queued) /\ j \in 1..Len(t) + 1 /\ y \o t = q /\ Len(y) + j = j + 1
  BY HeadAndTail
<1> HIDE DEF t, y
<1>2. y \in Seq(Queued) /\ t \in Seq(Queued) /\ j \in 1..Len(t) + 1
  BY <1>1
<1>3. Count(y \o t, Len(y) + j, op, m, h) = Count(t, j, op, m, h)
  BY <1>2, CountBehind
<1> QED
  BY <1>1, <1>3 DEF t
-----------------------------------------------------------------------------
(* Registrations of a method at an address: the entries of the providers'  *)
(* lists.  A close sends one OFFLINE for each.                             *)
Registered(c, m, h) ==
  {i \in 1..Len(providerMethods[c]) : providerMethods[c][i] = m /\ providerHost[c] = h}

Registrations(m, h) == {r \in Conn \X Nat : r[2] \in Registered(r[1], m, h)}

FiniteRegistrations == \A m \in Method, h \in Host : IsFiniteSet(Registrations(m, h))

(* A Provider's vector has finitely many entries for a method.             *)
LEMMA RegisteredIsFinite ==
  ASSUME IInv, NEW c \in Conn, NEW m, NEW h
  PROVE  /\ Registered(c, m, h) \in SUBSET (1..Len(providerMethods[c]))
         /\ Len(providerMethods[c]) \in Nat
         /\ IsFiniteSet(Registered(c, m, h)) /\ Cardinality(Registered(c, m, h)) \in Nat
<1>1. Registered(c, m, h) \in SUBSET (1..Len(providerMethods[c]))
  BY DEF Registered
<1>2. Len(providerMethods[c]) \in Nat
  BY DEF IInv, MapsTypeOK
<1>3. IsFiniteSet(1..Len(providerMethods[c]))
  BY <1>2, FS_Interval
<1> QED
  BY <1>1, <1>2, <1>3, FS_Subset, FS_CardinalityType

(* Registering adds the one registration that is announced.                *)
LEMMA RegistryCounts ==
  ASSUME IInv, IInv', FiniteRegistrations,
         NEW c \in Conn, NEW msg \in RequestsOf(c), SameAddress(c, msg), OnRegistry(c, msg),
         NEW m \in Method, NEW h \in Host
  PROVE  /\ IsFiniteSet(Registrations(m, h)')
         /\ Cardinality(Registrations(m, h)') =
              Cardinality(Registrations(m, h))
                + (IF m = msg.method /\ h = msg.host THEN 1 ELSE 0)
<1>1. /\ providerHost \in [Conn -> Host \cup {NoHost}] /\ providerMethods \in [Conn -> Seq(Method)]
      /\ AddProvider(c, msg.host, msg.method) /\ ProviderHasMethods
  BY DEF IInv, MapsTypeOK, OnRegistry
<1>2. msg.method \in Method /\ providerHost'[c] = msg.host
  BY RegistryLists, RequestHasHost
<1> DEFINE ms == providerMethods[c]
           n == Len(ms)
<1>3. /\ n \in Nat
      /\ providerMethods'[c] = Append(ms, msg.method)
      /\ Len(Append(ms, msg.method)) = n + 1
      /\ Append(ms, msg.method)[n + 1] = msg.method
      /\ \A i \in 1..n : Append(ms, msg.method)[i] = ms[i]
  BY <1>1, <1>2 DEF AddProvider
<1>4. \A i \in 1..n : providerHost'[c] = providerHost[c]
  <2>1. n > 0 => providerHost[c] # NoHost
    BY <1>1 DEF ProviderHasMethods
  <2> QED
    BY <1>1, <1>3, <2>1 DEF AddProvider
<1>5. \A d \in Conn \ {c} : Registered(d, m, h)' = Registered(d, m, h)
  <2>1. \A d \in Conn \ {c} : providerMethods'[d] = providerMethods[d] /\ providerHost'[d] = providerHost[d]
    BY <1>1 DEF AddProvider
  <2> QED
    BY <2>1 DEF Registered
<1> DEFINE this == m = msg.method /\ h = msg.host
<1>6. Registered(c, m, h)' = Registered(c, m, h) \cup (IF this THEN {n + 1} ELSE {})
  <2>1. 1..n + 1 = 1..n \cup {n + 1}
    BY <1>3
  <2>2. Registered(c, m, h)' = {i \in 1..n + 1 : Append(ms, msg.method)[i] = m /\ providerHost'[c] = h}
    BY <1>3 DEF Registered
  <2>3. \A i \in 1..n : (Append(ms, msg.method)[i] = m /\ providerHost'[c] = h)
                           <=> (ms[i] = m /\ providerHost[c] = h)
    BY <1>3, <1>4
  <2>4. (Append(ms, msg.method)[n + 1] = m /\ providerHost'[c] = h) <=> this
    BY <1>2, <1>3
  <2> HIDE DEF this, n
  <2>5. Registered(c, m, h) = {i \in 1..n : ms[i] = m /\ providerHost[c] = h}
    BY DEF Registered, n
  <2> QED
    BY <2>1, <2>2, <2>3, <2>4, <2>5
<1>7. \A i \in Registered(c, m, h) : i # n + 1
  BY <1>3 DEF Registered
<1>8. Registrations(m, h)' = Registrations(m, h) \cup (IF this THEN {<<c, n + 1>>} ELSE {})
  <2> HIDE DEF this
  <2>1. n + 1 \in Nat
    BY <1>3
  <2>2. ASSUME NEW d \in Conn, NEW i \in Nat
        PROVE  i \in Registered(d, m, h)' <=> (i \in Registered(d, m, h) \/ (this /\ d = c /\ i = n + 1))
    BY <1>5, <1>6
  <2> QED
    BY <2>1, <2>2 DEF Registrations
<1>9. <<c, n + 1>> \notin Registrations(m, h)
  BY <1>7 DEF Registrations
<1>10. IsFiniteSet(Registrations(m, h)) /\ Cardinality(Registrations(m, h)) \in Nat
  BY FS_CardinalityType DEF FiniteRegistrations
<1> HIDE DEF this, n
<1>11. CASE this
  <2>1. Registrations(m, h)' = Registrations(m, h) \cup {<<c, n + 1>>}
    BY <1>8, <1>11
  <2>2. /\ IsFiniteSet(Registrations(m, h) \cup {<<c, n + 1>>})
        /\ Cardinality(Registrations(m, h) \cup {<<c, n + 1>>}) = Cardinality(Registrations(m, h)) + 1
    BY <1>9, <1>10, FS_AddElement
  <2> QED
    BY <1>11, <2>1, <2>2 DEF this
<1>12. CASE ~ this
  <2>1. Registrations(m, h)' = Registrations(m, h)
    BY <1>8, <1>12
  <2> QED
    BY <1>10, <1>12, <2>1 DEF this
<1> QED
  BY <1>11, <1>12

(* A close takes the registrations of its connection away.                 *)
LEMMA CloseCounts ==
  ASSUME IInv, FiniteRegistrations, NEW c \in Conn, OnConnShutdown(c),
         NEW m \in Method, NEW h \in Host
  PROVE  /\ IsFiniteSet(Registrations(m, h)') /\ Cardinality(Registrations(m, h)') \in Nat
         /\ Cardinality(Registrations(m, h)) =
              Cardinality(Registrations(m, h)') + Cardinality(Registered(c, m, h))
<1>1. /\ providerHost' = [providerHost EXCEPT ![c] = NoHost]
      /\ providerMethods' = [providerMethods EXCEPT ![c] = <<>>]
      /\ providerHost \in [Conn -> Host \cup {NoHost}] /\ providerMethods \in [Conn -> Seq(Method)]
  BY CloseErases DEF IInv, MapsTypeOK
<1>2. \A d \in Conn \ {c} : Registered(d, m, h)' = Registered(d, m, h)
  BY <1>1 DEF Registered
<1>3. Registered(c, m, h)' = {}
  BY <1>1 DEF Registered
<1> DEFINE S == Registrations(m, h)'
           T == {r \in Conn \X Nat : r[1] = c /\ r[2] \in Registered(c, m, h)}
           f == [r \in T |-> r[2]]
<1>4. Registrations(m, h) = S \cup T
  BY <1>2, <1>3 DEF Registrations
<1>5. S \cap T = {}
  BY <1>3 DEF Registrations
<1>6. IsFiniteSet(S) /\ IsFiniteSet(T) /\ Cardinality(S) \in Nat /\ Cardinality(T) \in Nat
  <2>1. IsFiniteSet(Registrations(m, h))
    BY DEF FiniteRegistrations
  <2> HIDE DEF S, T
  <2>2. S \in SUBSET Registrations(m, h) /\ T \in SUBSET Registrations(m, h)
    BY <1>4
  <2> QED
    BY <2>1, <2>2, FS_Subset, FS_CardinalityType
<1>7. Cardinality(T) = Cardinality(Registered(c, m, h))
  <2>1. f \in [T -> Registered(c, m, h)]
    OBVIOUS
  <2>2. \A r, s \in T : f[r] = f[s] => r = s
    OBVIOUS
  <2>3. ASSUME NEW k \in Registered(c, m, h) PROVE \E r \in T : f[r] = k
    <3>1. k \in Nat
      BY <2>3, RegisteredIsFinite
    <3>2. <<c, k>> \in T /\ f[<<c, k>>] = k
      BY <3>1
    <3> QED
      BY <3>2
  <2>4. IsFiniteSet(Registered(c, m, h))
    BY RegisteredIsFinite
  <2> HIDE DEF f, T
  <2> QED
    BY <2>1, <2>2, <2>3, <2>4, SameSize
<1>8. Cardinality(S \cup T) = Cardinality(S) + Cardinality(T) - Cardinality({})
  <2> HIDE DEF S, T
  <2> QED
    BY <1>5, <1>6, FS_Union
<1> QED
  <2> HIDE DEF S, T
  <2>1. Cardinality(Registrations(m, h)) = Cardinality(S) + Cardinality(Registered(c, m, h))
    BY <1>4, <1>6, <1>7, <1>8, FS_EmptySet
  <2> QED
    BY <1>6, <2>1 DEF S

(* Whoever has discovered the method is sent one OFFLINE for each of them. *)
LEMMA NoticesCount ==
  ASSUME IInv, NEW c \in Conn, NEW d \in Conn, NEW m \in Method, NEW h \in Host,
         d \in discoverers[m]
  PROVE  Count(OfflineNotices(c, d), 1, "SERVICE_OFFLINE", m, h) = Cardinality(Registered(c, m, h))
<1> DEFINE P == Heard(c, d)
           ms == providerMethods[c]
           ns == OfflineNotices(c, d)
           S == Places(ns, 1, "SERVICE_OFFLINE", m, h)
           T == Registered(c, m, h)
           f == [k \in S |-> Nth(P, k)]
<1>1. ms \in Seq(Method) /\ Len(ms) \in Nat /\ DOMAIN ms = 1..Len(ms)
  BY DEF IInv, MapsTypeOK
<1>2. P \in SUBSET Nat /\ P = {i \in 1..Len(ms) : d \in discoverers[ms[i]]} /\ IsFiniteSet(P)
  <2>1. P = {i \in 1..Len(ms) : d \in discoverers[ms[i]]}
    BY <1>1 DEF Heard
  <2>2. IsFiniteSet(1..Len(ms))
    BY <1>1, FS_Interval
  <2>3. P \in SUBSET (1..Len(ms))
    BY <2>1
  <2>4. IsFiniteSet(P)
    <3> HIDE DEF P, ms
    <3> QED
      BY <2>2, <2>3, FS_Subset
  <2> QED
    BY <2>1, <2>3, <2>4
<1>3. /\ Cardinality(P) \in Nat
      /\ \A k \in 1..Cardinality(P) : Nth(P, k) \in P
      /\ \A i \in P : \E k \in 1..Cardinality(P) : Nth(P, k) = i
      /\ \A k, l \in 1..Cardinality(P) : Nth(P, k) = Nth(P, l) => k = l
  BY <1>2, NthPlace
<1>4. /\ Len(ns) = Cardinality(P)
      /\ \A k \in 1..Cardinality(P) : ns[k] = NotifyMsg("SERVICE_OFFLINE", ms[Nth(P, k)], providerHost[c])
  <2> HIDE DEF P, ms
  <2>1. ns = [k \in 1..Cardinality(P) |-> NotifyMsg("SERVICE_OFFLINE", ms[Nth(P, k)], providerHost[c])]
    BY Zenon DEF OfflineNotices, P, ms
  <2>2. ns \in Seq(Notifications)
    BY NoticesOfClose
  <2> HIDE DEF ns
  <2> QED
    BY <1>3, <2>1, <2>2
<1>5. \A k \in 1..Cardinality(P) :
        Says(ns[k], "SERVICE_OFFLINE", m, h) <=> (ms[Nth(P, k)] = m /\ providerHost[c] = h)
  <2> HIDE DEF P, ms, ns
  <2> QED
    BY <1>4 DEF Says, NotifyMsg
<1>6. S = {k \in 1..Cardinality(P) : ms[Nth(P, k)] = m /\ providerHost[c] = h}
  <2> HIDE DEF P, ms, ns
  <2> QED
    BY <1>4, <1>5 DEF Places
<1>7. T = {i \in 1..Len(ms) : ms[i] = m /\ providerHost[c] = h} /\ IsFiniteSet(T)
  BY RegisteredIsFinite DEF Registered
<1> HIDE DEF P, ms, ns, S, T
<1>8. f \in [S -> T] /\ \A k, l \in S : f[k] = f[l] => k = l
  BY <1>2, <1>3, <1>6, <1>7
<1>9. ASSUME NEW i \in T PROVE \E k \in S : f[k] = i
  <2>1. i \in P /\ ms[i] = m /\ providerHost[c] = h
    BY <1>2, <1>7
  <2>2. PICK k \in 1..Cardinality(P) : Nth(P, k) = i
    BY <1>3, <2>1
  <2>3. k \in S
    BY <1>6, <2>1, <2>2
  <2> QED
    BY <2>2, <2>3
<1>10. Cardinality(S) = Cardinality(T)
  <2> HIDE DEF f
  <2>1. IsFiniteSet(T) /\ f \in [S -> T]
    BY <1>7, <1>8
  <2>2. \A k, l \in S : f[k] = f[l] => k = l
    BY <1>8
  <2>3. \A i \in T : \E k \in S : f[k] = i
    BY <1>9
  <2> QED
    BY <2>1, <2>2, <2>3, SameSize
<1> QED
  BY <1>10 DEF Count, S, T, ns

(* What a discovery answers is no more than what is registered, and what   *)
(* is registered is served.                                                *)
LEMMA AnswerIsRegistered ==
  ASSUME IInv, FiniteRegistrations, NEW m \in Method, NEW h \in Host
  PROVE  /\ GetMethodHosts(m)[h] \in Nat /\ Cardinality(Registrations(m, h)) \in Nat
         /\ GetMethodHosts(m)[h] <= Cardinality(Registrations(m, h))
<1> DEFINE S == {p \in providers[m] : providerHost[p] = h}
           T == Registrations(m, h)
           place(p) == CHOOSE i \in 1..Len(providerMethods[p]) : providerMethods[p][i] = m
           f == [p \in S |-> <<p, place(p)>>]
<1>1. IsFiniteSet(T) /\ Cardinality(T) \in Nat
  BY FS_CardinalityType DEF FiniteRegistrations
<1>2. ASSUME NEW p \in S PROVE <<p, place(p)>> \in T
  <2>1. p \in Conn /\ providerMethods[p] \in Seq(Method) /\ \E i \in 1..Len(providerMethods[p]) : providerMethods[p][i] = m
    BY DEF IInv, MapsTypeOK, IndexesAgree, Offers
  <2>2. place(p) \in 1..Len(providerMethods[p]) /\ providerMethods[p][place(p)] = m
    BY <2>1
  <2>3. place(p) \in Nat
    BY <2>1, <2>2
  <2> HIDE DEF place
  <2> QED
    BY <2>1, <2>2, <2>3 DEF Registrations, Registered
<1>3. f \in [S -> T] /\ \A p, r \in S : f[p] = f[r] => p = r
  <2> HIDE DEF place, T
  <2> QED
    BY <1>2
<1>4. f \in Injection(S, T)
  <2> HIDE DEF f, S, T
  <2> QED
    BY <1>3 DEF Injection, IsInjective
<1>5. IsFiniteSet(S) /\ Cardinality(S) <= Cardinality(T)
  <2> HIDE DEF f, S, T
  <2> QED
    BY <1>1, <1>4, FS_Injection
<1>6. Cardinality(S) \in Nat
  BY <1>5, FS_CardinalityType
<1>7. GetMethodHosts(m)[h] = Cardinality(S)
  BY DEF GetMethodHosts
<1> QED
  BY <1>1, <1>5, <1>6, <1>7

(* Where there is a registration there is a provider.                      *)
LEMMA RegisteredServes ==
  ASSUME IInv, FiniteRegistrations, NEW m \in Method, NEW h \in Host,
         Cardinality(Registrations(m, h)) > 0
  PROVE  Serves(h, m)
<1>1. Registrations(m, h) # {}
  BY FS_EmptySet
<1>2. PICK r \in Conn \X Nat : r[2] \in Registered(r[1], m, h)
  BY <1>1 DEF Registrations
<1>3. r[1] \in Conn /\ Offers(r[1], m) /\ providerHost[r[1]] = h
  BY <1>2 DEF Registered, Offers
<1> QED
  BY <1>3 DEF IInv, IndexesAgree, Serves
-----------------------------------------------------------------------------
(* What a client believes.  x entries for a host are covered by n          *)
(* registrations if, after the notifications from place j on, no more are  *)
(* left than there are registrations.                                      *)
Covered(x, q, j, m, h, n) ==
  x + Count(q, j, "SERVICE_ONLINE", m, h) <= Count(q, j, "SERVICE_OFFLINE", m, h) + n

(* RemoveHost on a list without the host drops an OFFLINE, so the rest of  *)
(* the queue must be covered from every place on.                          *)
NotesCovered(q, m, h, n) == \A j \in 1..Len(q) + 1 : Covered(0, q, j, m, h, n)

AnswersCovered(q, w, m, h, n) ==
  \A i \in 1..Len(q) :
    (q[i].kind = "response" /\ w[q[i].rid] = m) => Covered(q[i].hosts[h], q, i + 1, m, h, n)

(* The cache, an answer on its way and an answer that arrived: each holds a*)
(* host no more often than it will be registered once the notifications    *)
(* behind it are handled.                                                  *)
Backed(c, m, h) ==
  LET q == toClient[c]
      n == Cardinality(Registrations(m, h))
  IN  /\ NotesCovered(q, m, h, n)
      /\ AnswersCovered(q, want, m, h, n)
      /\ m \notin raced[c] => Covered(cache[c][m][h], q, 1, m, h, n)
      /\ \A t \in Thread :
           (ClientOf[t] = c /\ pc[t] = "answered" /\ want[t] = m /\ t \notin stale) =>
             Covered(answer[t].hosts[h], q, 1, m, h, n)

(* Before its first discovery of a method a client hears nothing of it.    *)
Unheard(c, m) ==
  c \notin discoverers[m] =>
    /\ cache[c][m] = NoHosts
    /\ \A i \in 1..Len(toClient[c]) : toClient[c][i].kind = "notify" => toClient[c][i].method # m
    /\ \A t \in Thread : (ClientOf[t] = c /\ want[t] = m) => pc[t] \notin {"waiting", "answered"}

Beliefs ==
  \A c \in Client \cap connected, m \in Method : Unheard(c, m) /\ \A h \in Host : Backed(c, m, h)

BInv == RegisteredAddress /\ FiniteRegistrations /\ Beliefs
-----------------------------------------------------------------------------
(* Entries stay covered when what is sent makes up for the registrations   *)
(* that change.                                                            *)
LEMMA CoveredGrows ==
  ASSUME NEW q \in Seq(Queued), NEW ns \in Seq(Queued), NEW j \in 1..Len(q) + 1,
         NEW m, NEW h, NEW x \in Nat, NEW n \in Nat, NEW k \in Nat,
         Count(ns, 1, "SERVICE_ONLINE", m, h) + n <= Count(ns, 1, "SERVICE_OFFLINE", m, h) + k,
         Covered(x, q, j, m, h, n)
  PROVE  Covered(x, q \o ns, j, m, h, k)
<1>1. /\ Count(ns, 1, "SERVICE_ONLINE", m, h) \in Nat /\ Count(ns, 1, "SERVICE_OFFLINE", m, h) \in Nat
      /\ Count(q, j, "SERVICE_ONLINE", m, h) \in Nat /\ Count(q, j, "SERVICE_OFFLINE", m, h) \in Nat
  BY CountIsNat
<1>2. Count(q \o ns, j, "SERVICE_ONLINE", m, h)
        = Count(q, j, "SERVICE_ONLINE", m, h) + Count(ns, 1, "SERVICE_ONLINE", m, h)
  BY CountConcat
<1>3. Count(q \o ns, j, "SERVICE_OFFLINE", m, h)
        = Count(q, j, "SERVICE_OFFLINE", m, h) + Count(ns, 1, "SERVICE_OFFLINE", m, h)
  BY CountConcat
<1>4. x + Count(q, j, "SERVICE_ONLINE", m, h) <= Count(q, j, "SERVICE_OFFLINE", m, h) + n
  BY DEF Covered
<1>5. \A a, b, c, d \in Nat : (c + n <= d + k /\ x + a <= b + n) => x + (a + c) <= (b + d) + k
  OBVIOUS
<1>6. x + Count(q \o ns, j, "SERVICE_ONLINE", m, h) <= Count(q \o ns, j, "SERVICE_OFFLINE", m, h) + k
  BY <1>1, <1>2, <1>3, <1>4, <1>5
<1> QED
  BY <1>6 DEF Covered

(* Behind the first part of a queue only the second part covers.           *)
LEMMA CoveredBehind ==
  ASSUME NEW q \in Seq(Queued), NEW ns \in Seq(Queued), NEW j \in 1..Len(ns) + 1,
         NEW m, NEW h, NEW x, NEW k
  PROVE  Covered(x, q \o ns, Len(q) + j, m, h, k) <=> Covered(x, ns, j, m, h, k)
<1>1. Count(q \o ns, Len(q) + j, "SERVICE_ONLINE", m, h) = Count(ns, j, "SERVICE_ONLINE", m, h)
  BY CountBehind
<1>2. Count(q \o ns, Len(q) + j, "SERVICE_OFFLINE", m, h) = Count(ns, j, "SERVICE_OFFLINE", m, h)
  BY CountBehind
<1> QED
  BY <1>1, <1>2 DEF Covered

(* A place of a longer queue is one of the first or of the second part.    *)
LEMMA PlacesOfConcat ==
  ASSUME NEW q \in Seq(Queued), NEW ns \in Seq(Queued), NEW d \in {0, 1},
         NEW i \in 1..Len(q \o ns) + d
  PROVE  i \in 1..Len(q) + d \/ \E k \in 1..Len(ns) + d : i = Len(q) + k
<1>1. Len(q) \in Nat /\ Len(ns) \in Nat /\ Len(q \o ns) = Len(q) + Len(ns)
  BY ConcatAt
<1>2. CASE i <= Len(q)
  BY <1>1, <1>2
<1>3. CASE i > Len(q)
  <2>1. i - Len(q) \in 1..Len(ns) + d /\ i = Len(q) + (i - Len(q))
    BY <1>1, <1>3
  <2> QED
    BY <2>1
<1> QED
  BY <1>1, <1>2, <1>3

(* The notifications stay covered from every place on ...                  *)
LEMMA NotesGrow ==
  ASSUME NEW q \in Seq(Queued), NEW ns \in Seq(Queued),
         NEW m, NEW h, NEW n \in Nat, NEW k \in Nat,
         Count(ns, 1, "SERVICE_ONLINE", m, h) + n <= Count(ns, 1, "SERVICE_OFFLINE", m, h) + k,
         NotesCovered(q, m, h, n), NotesCovered(ns, m, h, k)
  PROVE  NotesCovered(q \o ns, m, h, k)
<1> SUFFICES ASSUME NEW i \in 1..Len(q \o ns) + 1 PROVE Covered(0, q \o ns, i, m, h, k)
  BY DEF NotesCovered
<1>1. CASE i \in 1..Len(q) + 1
  <2>1. Covered(0, q, i, m, h, n)
    BY <1>1 DEF NotesCovered
  <2> QED
    BY <1>1, <2>1, CoveredGrows
<1>2. ASSUME NEW j \in 1..Len(ns) + 1, i = Len(q) + j PROVE Covered(0, q \o ns, i, m, h, k)
  <2>1. Covered(0, ns, j, m, h, k)
    BY DEF NotesCovered
  <2>2. Covered(0, q \o ns, Len(q) + j, m, h, k)
    BY <2>1, CoveredBehind
  <2> QED
    BY <1>2, <2>2
<1> QED
  BY <1>1, <1>2, PlacesOfConcat

(* An answer lists each host a number of times.                            *)
LEMMA HostsOfAnswer ==
  ASSUME NEW q \in Seq(Queued), NEW i \in 1..Len(q), q[i].kind = "response", NEW h \in Host
  PROVE  q[i].hosts[h] \in Nat
<1>1. q[i] \in Queued
  OBVIOUS
<1>2. q[i] \in Responses
  BY <1>1 DEF Queued, Notifications
<1> QED
  BY <1>2 DEF Responses, HostBag

(* ... and so do the answers on their way.                                 *)
LEMMA AnswersGrow ==
  ASSUME NEW q \in Seq(Queued), NEW ns \in Seq(Queued), NEW w,
         NEW m, NEW h \in Host, NEW n \in Nat, NEW k \in Nat,
         Count(ns, 1, "SERVICE_ONLINE", m, h) + n <= Count(ns, 1, "SERVICE_OFFLINE", m, h) + k,
         AnswersCovered(q, w, m, h, n), AnswersCovered(ns, w, m, h, k)
  PROVE  AnswersCovered(q \o ns, w, m, h, k)
<1> DEFINE r == q \o ns
<1>0. /\ Len(q) \in Nat /\ Len(ns) \in Nat
      /\ \A i \in 1..Len(q) : r[i] = q[i]
      /\ \A i \in 1..Len(ns) : r[Len(q) + i] = ns[i]
  BY ConcatAt
<1> SUFFICES ASSUME NEW i \in 1..Len(r), r[i].kind = "response", w[r[i].rid] = m
             PROVE  Covered(r[i].hosts[h], r, i + 1, m, h, k)
  BY DEF AnswersCovered
<1>1. CASE i \in 1..Len(q)
  <2>1. r[i] = q[i] /\ i + 1 \in 1..Len(q) + 1
    BY <1>0, <1>1
  <2>2. Covered(q[i].hosts[h], q, i + 1, m, h, n)
    BY <1>1, <2>1 DEF AnswersCovered
  <2>3. q[i].hosts[h] \in Nat
    BY <1>1, <2>1, HostsOfAnswer
  <2>4. Covered(q[i].hosts[h], r, i + 1, m, h, k)
    BY <2>1, <2>2, <2>3, CoveredGrows
  <2> QED
    BY <2>1, <2>4
<1>2. ASSUME NEW j \in 1..Len(ns), i = Len(q) + j PROVE Covered(r[i].hosts[h], r, i + 1, m, h, k)
  <2>1. r[i] = ns[j] /\ j + 1 \in 1..Len(ns) + 1 /\ i + 1 = Len(q) + (j + 1)
    BY <1>0, <1>2
  <2>2. Covered(ns[j].hosts[h], ns, j + 1, m, h, k)
    BY <2>1 DEF AnswersCovered
  <2> HIDE DEF r
  <2>3. Covered(ns[j].hosts[h], r, Len(q) + (j + 1), m, h, k)
    BY <2>1, <2>2, CoveredBehind DEF r
  <2> QED
    BY <2>1, <2>3
<1>3. i \in 1..Len(r) + 0
  BY <1>0
<1> QED
  <2>1. i \in 1..Len(q) + 0 \/ \E j \in 1..Len(ns) + 0 : i = Len(q) + j
    BY <1>3, PlacesOfConcat
  <2>2. Len(q) + 0 = Len(q) /\ Len(ns) + 0 = Len(ns)
    BY <1>0
  <2> QED
    BY <1>1, <1>2, <2>1, <2>2

(* The first message taken, the rest is covered as before ...              *)
LEMMA CoveredTail ==
  ASSUME NEW q \in Seq(Queued), q # <<>>, NEW m, NEW h, NEW x, NEW n,
         NEW j \in 1..Len(q)
  PROVE  Covered(x, q, j + 1, m, h, n) <=> Covered(x, Tail(q), j, m, h, n)
<1>1. Count(q, j + 1, "SERVICE_ONLINE", m, h) = Count(Tail(q), j, "SERVICE_ONLINE", m, h)
  BY CountNext
<1>2. Count(q, j + 1, "SERVICE_OFFLINE", m, h) = Count(Tail(q), j, "SERVICE_OFFLINE", m, h)
  BY CountNext
<1> QED
  BY <1>1, <1>2 DEF Covered

(* The notifications left, after the first is taken ...                    *)
LEMMA NotesTail ==
  ASSUME NEW q \in Seq(Queued), q # <<>>, NEW m, NEW h, NEW n, NotesCovered(q, m, h, n)
  PROVE  NotesCovered(Tail(q), m, h, n)
<1> SUFFICES ASSUME NEW j \in 1..Len(Tail(q)) + 1 PROVE Covered(0, Tail(q), j, m, h, n)
  BY DEF NotesCovered
<1>1. j \in 1..Len(q) /\ j + 1 \in 1..Len(q) + 1
  BY TailAt
<1>2. Covered(0, q, j + 1, m, h, n)
  BY <1>1 DEF NotesCovered
<1> QED
  BY <1>1, <1>2, CoveredTail

(* ... and the answers left, are covered as before.                        *)
LEMMA AnswersTailCovered ==
  ASSUME NEW q \in Seq(Queued), q # <<>>, NEW w, NEW m, NEW h, NEW n,
         AnswersCovered(q, w, m, h, n)
  PROVE  AnswersCovered(Tail(q), w, m, h, n)
<1> DEFINE r == Tail(q)
<1> SUFFICES ASSUME NEW i \in 1..Len(r), r[i].kind = "response", w[r[i].rid] = m
             PROVE  Covered(r[i].hosts[h], r, i + 1, m, h, n)
  BY DEF AnswersCovered
<1>1. i + 1 \in 1..Len(q) /\ r[i] = q[i + 1]
  BY TailAt
<1>2. Covered(q[i + 1].hosts[h], q, (i + 1) + 1, m, h, n)
  BY <1>1 DEF AnswersCovered
<1> HIDE DEF r
<1>3. Covered(q[i + 1].hosts[h], r, i + 1, m, h, n)
  BY <1>1, <1>2, CoveredTail DEF r
<1> QED
  BY <1>1, <1>3

(* ... if it was about something else, so is everything;                   *)
LEMMA CoveredUnsaid ==
  ASSUME NEW q \in Seq(Queued), q # <<>>, NEW m, NEW h, NEW x, NEW n,
         ~ Says(Head(q), "SERVICE_ONLINE", m, h), ~ Says(Head(q), "SERVICE_OFFLINE", m, h)
  PROVE  Covered(x, q, 1, m, h, n) <=> Covered(x, Tail(q), 1, m, h, n)
<1>0. Tail(q) \in Seq(Queued)
  BY TailAt
<1>1. Count(q, 1, "SERVICE_ONLINE", m, h) = 0 + Count(Tail(q), 1, "SERVICE_ONLINE", m, h)
  BY CountTail
<1>2. Count(q, 1, "SERVICE_OFFLINE", m, h) = 0 + Count(Tail(q), 1, "SERVICE_OFFLINE", m, h)
  BY CountTail
<1>3. Count(Tail(q), 1, "SERVICE_ONLINE", m, h) \in Nat /\ Count(Tail(q), 1, "SERVICE_OFFLINE", m, h) \in Nat
  BY <1>0, CountIsNat
<1> QED
  BY <1>1, <1>2, <1>3 DEF Covered

(* and a list that has noted it is covered by the rest.                    *)
LEMMA CoveredNoted ==
  ASSUME NEW q \in Seq(Queued), q # <<>>, NEW m \in Method, NEW h \in Host, NEW n \in Nat,
         NEW hosts \in HostBag, Head(q) \in Notifications,
         NotesCovered(q, m, h, n), Covered(hosts[h], q, 1, m, h, n)
  PROVE  Covered(Noted(hosts, Head(q), m)[h], Tail(q), 1, m, h, n)
<1> DEFINE msg == Head(q)
           r == Tail(q)
<1>0. /\ r \in Seq(Queued) /\ 1 \in 1..Len(q) /\ 1 + 1 \in 1..Len(q) + 1 /\ hosts[h] \in Nat
      /\ msg.kind = "notify" /\ msg.optype \in {"SERVICE_ONLINE", "SERVICE_OFFLINE"} /\ msg.host \in Host
  BY TailAt DEF HostBag, Notifications
<1>1. Count(q, 1, "SERVICE_ONLINE", m, h)
        = (IF Says(msg, "SERVICE_ONLINE", m, h) THEN 1 ELSE 0) + Count(r, 1, "SERVICE_ONLINE", m, h)
  BY CountTail
<1>2. Count(q, 1, "SERVICE_OFFLINE", m, h)
        = (IF Says(msg, "SERVICE_OFFLINE", m, h) THEN 1 ELSE 0) + Count(r, 1, "SERVICE_OFFLINE", m, h)
  BY CountTail
<1>3. Count(r, 1, "SERVICE_ONLINE", m, h) \in Nat /\ Count(r, 1, "SERVICE_OFFLINE", m, h) \in Nat
  BY <1>0, CountIsNat
<1>4. Covered(0, r, 1, m, h, n)
  <2>1. Covered(0, q, 1 + 1, m, h, n)
    BY <1>0 DEF NotesCovered
  <2> QED
    BY <1>0, <2>1, CoveredTail
<1> HIDE DEF msg, r
<1>5. Noted(hosts, msg, m)[h] =
        IF Says(msg, "SERVICE_ONLINE", m, h) THEN hosts[h] + 1
        ELSE IF Says(msg, "SERVICE_OFFLINE", m, h) /\ hosts[h] # 0 THEN hosts[h] - 1
        ELSE hosts[h]
  <2>1. CASE msg.method # m
    BY <2>1 DEF Noted, Says
  <2>2. CASE msg.method = m /\ msg.optype = "SERVICE_ONLINE"
    BY <1>0, <2>2 DEF Noted, Says, AppendHost, HostBag
  <2>3. CASE msg.method = m /\ msg.optype = "SERVICE_OFFLINE"
    BY <1>0, <2>3 DEF Noted, Says, RemoveHost, HostBag
  <2> QED
    BY <1>0, <2>1, <2>2, <2>3
<1>6. ~ (Says(msg, "SERVICE_ONLINE", m, h) /\ Says(msg, "SERVICE_OFFLINE", m, h))
  BY DEF Says
<1>7. hosts[h] + Count(q, 1, "SERVICE_ONLINE", m, h) <= Count(q, 1, "SERVICE_OFFLINE", m, h) + n
  BY DEF Covered
<1>8. 0 + Count(r, 1, "SERVICE_ONLINE", m, h) <= Count(r, 1, "SERVICE_OFFLINE", m, h) + n
  BY <1>4 DEF Covered
<1>9. Noted(hosts, msg, m)[h] + Count(r, 1, "SERVICE_ONLINE", m, h)
        <= Count(r, 1, "SERVICE_OFFLINE", m, h) + n
  <2> DEFINE a == Count(r, 1, "SERVICE_ONLINE", m, h)
             b == Count(r, 1, "SERVICE_OFFLINE", m, h)
             x == hosts[h]
  <2>0. a \in Nat /\ b \in Nat /\ x \in Nat
    BY <1>0, <1>3
  <2>1. CASE Says(msg, "SERVICE_ONLINE", m, h)
    <3>1. x + (1 + a) <= (0 + b) + n /\ Noted(hosts, msg, m)[h] = x + 1
      BY <1>1, <1>2, <1>5, <1>6, <1>7, <2>1
    <3> HIDE DEF a, b, x
    <3>2. (x + 1) + a <= b + n
      BY <2>0, <3>1
    <3> QED
      BY <3>1, <3>2 DEF a, b
  <2>2. CASE Says(msg, "SERVICE_OFFLINE", m, h) /\ hosts[h] # 0
    <3>1. x + (0 + a) <= (1 + b) + n /\ Noted(hosts, msg, m)[h] = x - 1
      BY <1>1, <1>2, <1>5, <1>6, <1>7, <2>2
    <3> HIDE DEF a, b, x
    <3>2. (x - 1) + a <= b + n
      BY <2>0, <3>1
    <3> QED
      BY <3>1, <3>2 DEF a, b
  <2>3. CASE Says(msg, "SERVICE_OFFLINE", m, h) /\ hosts[h] = 0
    BY <1>5, <1>6, <1>8, <2>3
  <2>4. CASE ~ Says(msg, "SERVICE_ONLINE", m, h) /\ ~ Says(msg, "SERVICE_OFFLINE", m, h)
    <3>1. x + (0 + a) <= (0 + b) + n /\ Noted(hosts, msg, m)[h] = x
      BY <1>1, <1>2, <1>5, <1>7, <2>4
    <3> HIDE DEF a, b, x
    <3>2. x + a <= b + n
      BY <2>0, <3>1
    <3> QED
      BY <3>1, <3>2 DEF a, b
  <2> QED
    BY <2>1, <2>2, <2>3, <2>4
<1> QED
  BY <1>9 DEF Covered, msg, r
-----------------------------------------------------------------------------
(* How the steps keep those beliefs.                                       *)
LEMMA SameRegistrations ==
  ASSUME FiniteRegistrations, providerHost' = providerHost, providerMethods' = providerMethods
  PROVE  /\ FiniteRegistrations'
         /\ \A m \in Method, h \in Host : Registrations(m, h)' = Registrations(m, h)
<1>1. ASSUME NEW m \in Method, NEW h \in Host PROVE Registrations(m, h)' = Registrations(m, h)
  BY DEF Registrations, Registered
<1> QED
  BY <1>1 DEF FiniteRegistrations

(* Whoever an answer in a queue belongs to waits for it.                   *)
LEMMA QueuedAnswerIsDue ==
  ASSUME DInv, NEW c \in Client, NEW i \in 1..Len(toClient[c]), toClient[c][i].kind = "response"
  PROVE  /\ toClient[c][i].rid \in Thread /\ ClientOf[toClient[c][i].rid] = c
         /\ pc[toClient[c][i].rid] = "waiting"
<1> DEFINE r == toClient[c][i].rid
<1>1. r \in Thread /\ ClientOf[r] = c
  BY DEF DInv, Own, OwnAnswers
<1>2. AnswerDue(r, c \in connected, pc[r], toClient[c]) /\ i \in Answers(toClient[c], r)
  BY <1>1 DEF DInv, Due, Answers
<1> QED
  BY <1>1, <1>2 DEF AnswerDue

(* Nothing that the belief of client c about m is made of has changed, or  *)
(* only towards believing less.                                            *)
LEMMA BackedAfter ==
  ASSUME DInv, NEW c \in Client, NEW m \in Method, NEW h \in Host, Backed(c, m, h),
         Registrations(m, h)' = Registrations(m, h), toClient'[c] = toClient[c],
         cache'[c][m] = cache[c][m], m \in raced[c] => m \in raced'[c],
         \A t \in Thread : ClientOf[t] = c =>
           /\ pc[t] = "waiting" => want'[t] = want[t]
           /\ pc'[t] = "answered" =>
                /\ pc[t] = "answered" /\ want'[t] = want[t] /\ answer'[t] = answer[t]
                /\ t \notin stale' => t \notin stale
  PROVE  Backed(c, m, h)'
<1> DEFINE q == toClient[c]
           n == Cardinality(Registrations(m, h))
<1>1. ASSUME NEW i \in 1..Len(q), q[i].kind = "response", want'[q[i].rid] = m
      PROVE  want[q[i].rid] = m
  BY <1>1, QueuedAnswerIsDue
<1>2. AnswersCovered(q, want', m, h, n)
  BY <1>1 DEF Backed, AnswersCovered
<1>3. ASSUME NEW t \in Thread, ClientOf[t] = c, pc'[t] = "answered", want'[t] = m, t \notin stale'
      PROVE  Covered(answer'[t].hosts[h], q, 1, m, h, n)
  BY <1>3 DEF Backed
<1> HIDE DEF q, n
<1>4. NotesCovered(q, m, h, n) /\ (m \notin raced'[c] => Covered(cache'[c][m][h], q, 1, m, h, n))
  BY DEF Backed, q, n
<1>5. q = toClient'[c] /\ n = Cardinality(Registrations(m, h)')
  BY DEF q, n
<1> QED
  BY <1>2, <1>3, <1>4, <1>5 DEF Backed

(* The registry sends c something: the beliefs stay covered if what is sent*)
(* and the registrations that change make up for each other.               *)
LEMMA QueueGrows ==
  ASSUME DInv, NEW c \in Client, NEW m \in Method, NEW h \in Host, Backed(c, m, h),
         FiniteRegistrations, FiniteRegistrations', NEW ns \in Seq(Queued),
         toClient'[c] = toClient[c] \o ns,
         Count(ns, 1, "SERVICE_ONLINE", m, h) + Cardinality(Registrations(m, h)) <=
           Count(ns, 1, "SERVICE_OFFLINE", m, h) + Cardinality(Registrations(m, h)'),
         NotesCovered(ns, m, h, Cardinality(Registrations(m, h)')),
         AnswersCovered(ns, want, m, h, Cardinality(Registrations(m, h)')),
         cache' = cache, raced' = raced, want' = want, answer' = answer, stale' = stale,
         \A t \in Thread : pc'[t] = "answered" => pc[t] = "answered"
  PROVE  Backed(c, m, h)'
<1> DEFINE q == toClient[c]
           n == Cardinality(Registrations(m, h))
           k == Cardinality(Registrations(m, h)')
<1>1. n \in Nat /\ k \in Nat /\ q \in Seq(Queued)
  <2>1. IsFiniteSet(Registrations(m, h)) /\ IsFiniteSet(Registrations(m, h)')
    BY DEF FiniteRegistrations
  <2>2. q \in Seq(Queued)
    BY ClientIsConn DEF DInv, QueuesTyped
  <2> QED
    BY <2>1, <2>2, FS_CardinalityType
<1>2. /\ NotesCovered(q, m, h, n) /\ AnswersCovered(q, want, m, h, n)
      /\ m \notin raced[c] => Covered(cache[c][m][h], q, 1, m, h, n)
      /\ \A t \in Thread :
           (ClientOf[t] = c /\ pc[t] = "answered" /\ want[t] = m /\ t \notin stale) =>
             Covered(answer[t].hosts[h], q, 1, m, h, n)
  BY DEF Backed
<1>3. cache[c][m][h] \in Nat /\ \A t \in Thread : pc[t] = "answered" => answer[t].hosts[h] \in Nat
  BY DEF DInv, CallTypes, CallStages, HostBag, Responses
<1> HIDE DEF n, k
<1>4. Count(ns, 1, "SERVICE_ONLINE", m, h) + n <= Count(ns, 1, "SERVICE_OFFLINE", m, h) + k
  BY DEF n, k
<1>5. NotesCovered(ns, m, h, k) /\ AnswersCovered(ns, want, m, h, k) /\ toClient'[c] = q \o ns
  BY DEF k
<1> HIDE DEF q
<1>6. NotesCovered(q \o ns, m, h, k) /\ AnswersCovered(q \o ns, want, m, h, k)
  BY <1>1, <1>2, <1>4, <1>5, NotesGrow, AnswersGrow
<1>7. ASSUME NEW x \in Nat, Covered(x, q, 1, m, h, n) PROVE Covered(x, q \o ns, 1, m, h, k)
  <2>1. 1 \in 1..Len(q) + 1
    BY <1>1
  <2> QED
    BY <1>1, <1>4, <1>7, <2>1, CoveredGrows
<1>8. m \notin raced'[c] => Covered(cache'[c][m][h], q \o ns, 1, m, h, k)
  BY <1>2, <1>3, <1>7
<1>9. \A t \in Thread :
        (ClientOf[t] = c /\ pc'[t] = "answered" /\ want'[t] = m /\ t \notin stale') =>
          Covered(answer'[t].hosts[h], q \o ns, 1, m, h, k)
  BY <1>2, <1>3, <1>7
<1> QED
  BY <1>5, <1>6, <1>8, <1>9 DEF Backed, k

(* Without a discovery there is nothing to believe.                        *)
LEMMA UnheardIsBacked ==
  ASSUME DInv', FiniteRegistrations', NEW c \in Client, NEW m \in Method, NEW h \in Host,
         Unheard(c, m)', c \notin discoverers'[m]
  PROVE  Backed(c, m, h)'
<1> DEFINE q == toClient'[c]
           n == Cardinality(Registrations(m, h)')
<1>1. n \in Nat /\ q \in Seq(Queued) /\ Len(q) \in Nat
  <2>1. IsFiniteSet(Registrations(m, h)')
    BY DEF FiniteRegistrations
  <2>2. q \in Seq(Queued)
    BY ClientIsConn DEF DInv, QueuesTyped
  <2> QED
    BY <2>1, <2>2, FS_CardinalityType
<1>2. /\ cache'[c][m] = NoHosts
      /\ \A i \in 1..Len(q) : q[i].kind = "notify" => q[i].method # m
      /\ \A t \in Thread : (ClientOf[t] = c /\ want'[t] = m) => pc'[t] \notin {"waiting", "answered"}
  BY DEF Unheard
<1>3. \A i \in 1..Len(q) : ~ (q[i].kind = "response" /\ want'[q[i].rid] = m)
  <2> SUFFICES ASSUME NEW i \in 1..Len(q), q[i].kind = "response", want'[q[i].rid] = m PROVE FALSE
    OBVIOUS
  <2>1. q[i].rid \in Thread /\ ClientOf[q[i].rid] = c
    BY DEF DInv, Own, OwnAnswers
  <2>2. AnswerDue(q[i].rid, c \in connected', pc'[q[i].rid], q) /\ i \in Answers(q, q[i].rid)
    BY <2>1 DEF DInv, Due, Answers
  <2>3. pc'[q[i].rid] = "waiting"
    BY <2>2 DEF AnswerDue
  <2> QED
    BY <1>2, <2>1, <2>3
<1> HIDE DEF q, n
<1>4. ASSUME NEW j \in 1..Len(q) + 1 PROVE Covered(0, q, j, m, h, n)
  <2>1. \A i \in j..Len(q) : i \in 1..Len(q)
    BY <1>1
  <2>2. \A i \in j..Len(q), op \in {"SERVICE_ONLINE", "SERVICE_OFFLINE"} : ~ Says(q[i], op, m, h)
    BY <1>2, <2>1 DEF Says
  <2>3. j \in Nat
    BY <1>1
  <2>4. Count(q, j, "SERVICE_ONLINE", m, h) = 0 /\ Count(q, j, "SERVICE_OFFLINE", m, h) = 0
    BY <1>1, <2>2, <2>3, NoneSaid
  <2> QED
    BY <1>1, <2>4 DEF Covered
<1>5. NotesCovered(q, m, h, n) /\ AnswersCovered(q, want', m, h, n)
  BY <1>3, <1>4 DEF NotesCovered, AnswersCovered
<1>6. Covered(cache'[c][m][h], q, 1, m, h, n)
  <2>1. cache'[c][m][h] = 0
    BY <1>2 DEF NoHosts
  <2>2. 1 \in 1..Len(q) + 1
    BY <1>1
  <2> QED
    BY <1>4, <2>1, <2>2
<1> QED
  BY <1>2, <1>5, <1>6 DEF Backed, q, n
-----------------------------------------------------------------------------
(* What a step of the registry tells a client, of the methods the client   *)
(* has discovered, makes up for what the step changes.                     *)
Told(c) ==
  \E ns \in Seq(Notifications) :
    /\ toClient'[c] = toClient[c] \o ns
    /\ \A i \in 1..Len(ns) : c \in discoverers[ns[i].method]
    /\ \A m \in Method, h \in Host : c \in discoverers[m] =>
         /\ Count(ns, 1, "SERVICE_ONLINE", m, h) + Cardinality(Registrations(m, h)) =
              Count(ns, 1, "SERVICE_OFFLINE", m, h) + Cardinality(Registrations(m, h)')
         /\ NotesCovered(ns, m, h, Cardinality(Registrations(m, h)'))

(* No message needs no cover.                                              *)
LEMMA NothingSaid ==
  ASSUME NEW n \in Nat, NEW m, NEW h
  PROVE  /\ <<>> \in Seq(Queued)
         /\ Count(<<>>, 1, "SERVICE_ONLINE", m, h) = 0 /\ Count(<<>>, 1, "SERVICE_OFFLINE", m, h) = 0
         /\ NotesCovered(<<>>, m, h, n)
<1>1. <<>> \in Seq(Queued) /\ 1..Len(<<>>) = {} /\ 1..Len(<<>>) + 1 = {1} /\ 1 \in Nat
  OBVIOUS
<1>2. Count(<<>>, 1, "SERVICE_ONLINE", m, h) = 0 /\ Count(<<>>, 1, "SERVICE_OFFLINE", m, h) = 0
  BY <1>1, NoneSaid
<1> QED
  BY <1>1, <1>2 DEF NotesCovered, Covered

(* One message, covered if there is a registration when it says ONLINE.    *)
LEMMA OneSaid ==
  ASSUME NEW x \in Queued, NEW n \in Nat, NEW m, NEW h,
         Says(x, "SERVICE_ONLINE", m, h) => n >= 1
  PROVE  /\ <<x>> \in Seq(Queued) /\ Len(<<x>>) = 1 /\ <<x>>[1] = x
         /\ \A op : Count(<<x>>, 1, op, m, h) = IF Says(x, op, m, h) THEN 1 ELSE 0
         /\ NotesCovered(<<x>>, m, h, n)
         /\ \A k : Covered(k, <<x>>, 2, m, h, n) <=> (k + 0 <= 0 + n)
<1>1. <<x>> \in Seq(Queued) /\ Len(<<x>>) = 1 /\ <<x>>[1] = x
  OBVIOUS
<1>2. \A op : Count(<<x>>, 1, op, m, h) = IF Says(x, op, m, h) THEN 1 ELSE 0
  BY CountOne
<1>3. \A op : Count(<<x>>, 2, op, m, h) = 0
  <2>1. 2..Len(<<x>>) = {} /\ 2 \in Nat
    BY <1>1
  <2> QED
    BY <1>1, <2>1, NoneSaid
<1> DEFINE ns == <<x>>
<1>4. Covered(0, ns, 1, m, h, n)
  <2>1. /\ Count(ns, 1, "SERVICE_ONLINE", m, h) = IF Says(x, "SERVICE_ONLINE", m, h) THEN 1 ELSE 0
        /\ Count(ns, 1, "SERVICE_OFFLINE", m, h) = IF Says(x, "SERVICE_OFFLINE", m, h) THEN 1 ELSE 0
    BY <1>2
  <2> HIDE DEF ns
  <2> QED
    BY <2>1 DEF Covered
<1>5. \A k : Covered(k, ns, 2, m, h, n) <=> (k + 0 <= 0 + n)
  BY <1>3 DEF Covered
<1>6. 1..Len(ns) + 1 = {1, 2}
  BY <1>1
<1>7. NotesCovered(ns, m, h, n)
  <2>1. Covered(0, ns, 2, m, h, n)
    BY <1>5
  <2> HIDE DEF ns
  <2> QED
    BY <1>4, <1>6, <2>1 DEF NotesCovered
<1> QED
  BY <1>1, <1>2, <1>5, <1>7

(* A close tells of every registration it takes away.                      *)
LEMMA CloseTells ==
  ASSUME DInv, FiniteRegistrations, NEW e \in Conn, OnConnShutdown(e), NEW c \in Conn, c # e
  PROVE  Told(c)
<1> DEFINE ns == OfflineNotices(e, c)
<1>1. /\ IInv /\ toClient'[c] = toClient[c] \o ns
      /\ ns \in Seq(Notifications) /\ ns \in Seq(Queued) /\ Len(ns) \in Nat
      /\ \A i \in 1..Len(ns) : ns[i].optype = "SERVICE_OFFLINE" /\ c \in discoverers[ns[i].method]
  <2>1. ns \in Seq(Notifications) /\ Notifications \subseteq Queued
    BY NoticesOfClose DEF DInv, Queued
  <2>2. ns \in Seq(Queued) /\ Len(ns) \in Nat
    <3> HIDE DEF ns, Queued
    <3> QED
      BY <2>1
  <2> QED
    BY <2>1, <2>2, NoticesOfClose, CloseQueues DEF DInv
<1>2. ASSUME NEW m \in Method, NEW h \in Host, c \in discoverers[m]
      PROVE  /\ Count(ns, 1, "SERVICE_ONLINE", m, h) + Cardinality(Registrations(m, h)) =
                  Count(ns, 1, "SERVICE_OFFLINE", m, h) + Cardinality(Registrations(m, h)')
             /\ NotesCovered(ns, m, h, Cardinality(Registrations(m, h)'))
  <2> DEFINE n == Cardinality(Registrations(m, h)')
             k == Cardinality(Registered(e, m, h))
  <2>1. n \in Nat /\ Cardinality(Registrations(m, h)) = n + k /\ k \in Nat
    BY <1>1, CloseCounts, RegisteredIsFinite
  <2>2. Count(ns, 1, "SERVICE_OFFLINE", m, h) = k
    BY <1>1, <1>2, NoticesCount
  <2> HIDE DEF ns, n, k
  <2>3. ASSUME NEW j \in 1..Len(ns) + 1 PROVE Count(ns, j, "SERVICE_ONLINE", m, h) = 0
    <3>1. j \in Nat /\ \A i \in j..Len(ns) : ~ Says(ns[i], "SERVICE_ONLINE", m, h)
      BY <1>1 DEF Says
    <3> QED
      BY <1>1, <3>1, NoneSaid
  <2>4. ASSUME NEW j \in 1..Len(ns) + 1 PROVE Covered(0, ns, j, m, h, n)
    <3>1. j \in Nat
      BY <1>1
    <3>2. Count(ns, j, "SERVICE_OFFLINE", m, h) \in Nat
      BY <1>1, <3>1, CountIsNat
    <3> QED
      BY <2>1, <2>3, <3>2 DEF Covered
  <2>5. Count(ns, 1, "SERVICE_ONLINE", m, h) = 0
    <3>1. 1 \in 1..Len(ns) + 1
      BY <1>1
    <3> QED
      BY <2>3, <3>1
  <2> QED
    BY <2>1, <2>2, <2>4, <2>5 DEF NotesCovered, n
<1> HIDE DEF ns
<1> QED
  BY <1>1, <1>2 DEF Told

(* A registration is told to those who have discovered its method.         *)
LEMMA RegistryTells ==
  ASSUME DInv, IInv', FiniteRegistrations, NEW p \in Conn, NEW msg \in RequestsOf(p),
         SameAddress(p, msg), OnServiceRequest(p, msg), OnRegistry(p, msg),
         NEW c \in Conn, c # p
  PROVE  Told(c)
<1> DEFINE note == NotifyMsg("SERVICE_ONLINE", msg.method, msg.host)
           q == toClient[c]
<1>0. IInv /\ QueuesTyped /\ q \in Seq(Queued)
  BY DEF DInv, QueuesTyped
<1>1. /\ note \in Notifications /\ note \in Queued
      /\ c \in discoverers[msg.method] => toClient'[c] = Append(q, note)
      /\ c \notin discoverers[msg.method] => toClient'[c] = q
  <2>1. msg.method \in Method /\ msg.host \in Host /\ toClient \in [Conn -> Seq(Queued)]
    BY <1>0, RequestHasHost DEF OnRegistry, QueuesTyped
  <2>2. toClient' = Send(Notify(toClient, msg.method, msg.host, "SERVICE_ONLINE"),
                         p, RegistryResponse(msg.rid))
    BY DEF OnRegistry
  <2> QED
    BY <2>1, <2>2 DEF Send, Notify, NotifyMsg, Notifications, Queued
<1>2. ASSUME NEW m \in Method, NEW h \in Host
      PROVE  /\ Cardinality(Registrations(m, h)) \in Nat /\ Cardinality(Registrations(m, h)') \in Nat
             /\ Cardinality(Registrations(m, h)') =
                  Cardinality(Registrations(m, h)) + (IF m = msg.method /\ h = msg.host THEN 1 ELSE 0)
  <2>1. IsFiniteSet(Registrations(m, h))
    BY DEF FiniteRegistrations
  <2>2. /\ IsFiniteSet(Registrations(m, h)')
        /\ Cardinality(Registrations(m, h)') =
             Cardinality(Registrations(m, h)) + (IF m = msg.method /\ h = msg.host THEN 1 ELSE 0)
    BY <1>0, RegistryCounts
  <2> QED
    BY <2>1, <2>2, FS_CardinalityType
<1>3. CASE c \notin discoverers[msg.method]
  <2>1. toClient'[c] = q \o <<>> /\ <<>> \in Seq(Notifications) /\ 1..Len(<<>>) = {}
    BY <1>0, <1>1, <1>3
  <2>2. ASSUME NEW m \in Method, NEW h \in Host, c \in discoverers[m]
        PROVE  /\ Count(<<>>, 1, "SERVICE_ONLINE", m, h) + Cardinality(Registrations(m, h)) =
                    Count(<<>>, 1, "SERVICE_OFFLINE", m, h) + Cardinality(Registrations(m, h)')
               /\ NotesCovered(<<>>, m, h, Cardinality(Registrations(m, h)'))
    <3>1. m # msg.method
      BY <1>3, <2>2
    <3> QED
      BY <1>2, <3>1, NothingSaid
  <2> QED
    BY <2>1, <2>2 DEF Told
<1>4. CASE c \in discoverers[msg.method]
  <2>1. /\ toClient'[c] = q \o <<note>> /\ <<note>> \in Seq(Notifications)
        /\ Len(<<note>>) = 1 /\ <<note>>[1] = note /\ note.method = msg.method
    <3>1. Append(q, note) = q \o <<note>>
      <4>1. q \in Seq(Queued) /\ note \in Queued
        BY <1>0, <1>1
      <4> QED
        BY <4>1, AppendIsConcat
    <3>2. <<note>> \in Seq(Notifications) /\ Len(<<note>>) = 1 /\ <<note>>[1] = note
      <4> HIDE DEF note
      <4> QED
        BY <1>1
    <3>3. note.method = msg.method
      BY DEF NotifyMsg
    <3> QED
      BY <1>1, <1>4, <3>1, <3>2, <3>3
  <2>2. ASSUME NEW m \in Method, NEW h \in Host
        PROVE  /\ Count(<<note>>, 1, "SERVICE_ONLINE", m, h) + Cardinality(Registrations(m, h)) =
                    Count(<<note>>, 1, "SERVICE_OFFLINE", m, h) + Cardinality(Registrations(m, h)')
               /\ NotesCovered(<<note>>, m, h, Cardinality(Registrations(m, h)'))
    <3> DEFINE n == Cardinality(Registrations(m, h))
               k == Cardinality(Registrations(m, h)')
    <3>1. /\ Says(note, "SERVICE_ONLINE", m, h) <=> (m = msg.method /\ h = msg.host)
          /\ ~ Says(note, "SERVICE_OFFLINE", m, h)
      BY DEF Says, NotifyMsg
    <3>2. n \in Nat /\ k \in Nat /\ k = n + (IF Says(note, "SERVICE_ONLINE", m, h) THEN 1 ELSE 0)
      BY <1>2, <3>1
    <3> HIDE DEF n, k, note
    <3>3. Says(note, "SERVICE_ONLINE", m, h) => k >= 1
      BY <3>2
    <3>4. /\ Count(<<note>>, 1, "SERVICE_ONLINE", m, h) = (IF Says(note, "SERVICE_ONLINE", m, h) THEN 1 ELSE 0)
          /\ Count(<<note>>, 1, "SERVICE_OFFLINE", m, h) = 0
          /\ NotesCovered(<<note>>, m, h, k)
      BY <1>1, <3>1, <3>2, <3>3, OneSaid
    <3> QED
      BY <3>2, <3>4 DEF n, k
  <2> HIDE DEF note
  <2>3. \A i \in 1..Len(<<note>>) : c \in discoverers[<<note>>[i].method]
    <3>1. 1..Len(<<note>>) = {1}
      BY <2>1
    <3> QED
      BY <1>4, <2>1, <3>1
  <2> QED
    BY <2>1, <2>2, <2>3 DEF Told
<1> QED
  BY <1>3, <1>4

(* A step that sends c nothing and changes no registration has nothing to  *)
(* make up for.                                                            *)
LEMMA SilenceTells ==
  ASSUME FiniteRegistrations, QueuesTyped, NEW c \in Conn, toClient'[c] = toClient[c],
         providerHost' = providerHost, providerMethods' = providerMethods
  PROVE  Told(c)
<1>1. toClient'[c] = toClient[c] \o <<>> /\ <<>> \in Seq(Notifications) /\ 1..Len(<<>>) = {}
  <2>1. toClient[c] \in Seq(Queued)
    BY DEF QueuesTyped
  <2> QED
    BY <2>1
<1>2. ASSUME NEW m \in Method, NEW h \in Host
      PROVE  /\ Count(<<>>, 1, "SERVICE_ONLINE", m, h) + Cardinality(Registrations(m, h)) =
                  Count(<<>>, 1, "SERVICE_OFFLINE", m, h) + Cardinality(Registrations(m, h)')
             /\ NotesCovered(<<>>, m, h, Cardinality(Registrations(m, h)'))
  <2>1. Registrations(m, h)' = Registrations(m, h) /\ Cardinality(Registrations(m, h)) \in Nat
    BY SameRegistrations, FS_CardinalityType DEF FiniteRegistrations
  <2> QED
    BY <2>1, NothingSaid
<1> QED
  BY <1>1, <1>2 DEF Told

(* What a client is told keeps what it believes.                           *)
LEMMA ToldKeepsBeliefs ==
  ASSUME DInv, DInv', FiniteRegistrations, FiniteRegistrations', UNCHANGED clientVars,
         NEW c \in Client, Told(c),
         \A m \in Method : c \in discoverers'[m] <=> c \in discoverers[m],
         \A m \in Method : Unheard(c, m) /\ \A h \in Host : Backed(c, m, h)
  PROVE  \A m \in Method : Unheard(c, m)' /\ \A h \in Host : Backed(c, m, h)'
<1>1. PICK ns \in Seq(Notifications) :
        /\ toClient'[c] = toClient[c] \o ns
        /\ \A i \in 1..Len(ns) : c \in discoverers[ns[i].method]
        /\ \A m \in Method, h \in Host : c \in discoverers[m] =>
             /\ Count(ns, 1, "SERVICE_ONLINE", m, h) + Cardinality(Registrations(m, h)) =
                  Count(ns, 1, "SERVICE_OFFLINE", m, h) + Cardinality(Registrations(m, h)')
             /\ NotesCovered(ns, m, h, Cardinality(Registrations(m, h)'))
  BY DEF Told
<1> DEFINE q == toClient[c]
<1>2. ns \in Seq(Queued) /\ q \in Seq(Queued) /\ \A i \in 1..Len(ns) : ns[i].kind = "notify"
  <2>1. Notifications \subseteq Queued /\ \A x \in Notifications : x.kind = "notify"
    BY DEF Queued, Notifications
  <2>2. q \in Seq(Queued)
    BY ClientIsConn DEF DInv, QueuesTyped
  <2> HIDE DEF Queued, q
  <2>3. \A i \in 1..Len(ns) : ns[i] \in Notifications
    OBVIOUS
  <2>4. ns \in Seq(Queued)
    BY <2>1
  <2> QED
    BY <2>1, <2>2, <2>3, <2>4
<1>3. /\ cache' = cache /\ raced' = raced /\ want' = want /\ answer' = answer /\ stale' = stale
      /\ pc' = pc
  BY DEF clientVars, threadVars, auxVars
<1>4. ASSUME NEW m \in Method PROVE Unheard(c, m)'
  <2> SUFFICES ASSUME c \notin discoverers[m]
               PROVE  \A i \in 1..Len(q \o ns) : (q \o ns)[i].kind = "notify" => (q \o ns)[i].method # m
    BY <1>1, <1>3 DEF Unheard
  <2> SUFFICES ASSUME NEW i \in 1..Len(q \o ns), (q \o ns)[i].kind = "notify"
               PROVE  (q \o ns)[i].method # m
    OBVIOUS
  <2>1. \A j \in 1..Len(q) : q[j].kind = "notify" => q[j].method # m
    BY DEF Unheard
  <2> HIDE DEF q
  <2>2. /\ Len(q) \in Nat /\ Len(ns) \in Nat /\ Len(q \o ns) = Len(q) + Len(ns)
        /\ \A j \in 1..Len(q) : (q \o ns)[j] = q[j]
        /\ \A j \in 1..Len(ns) : (q \o ns)[Len(q) + j] = ns[j]
    BY <1>2, ConcatAt
  <2>3. CASE i <= Len(q)
    BY <2>1, <2>2, <2>3
  <2>4. CASE i > Len(q)
    <3>1. i - Len(q) \in 1..Len(ns) /\ Len(q) + (i - Len(q)) = i
      BY <2>2, <2>4
    <3>2. (q \o ns)[i] = ns[i - Len(q)]
      BY <2>2, <3>1
    <3>3. c \in discoverers[ns[i - Len(q)].method]
      BY <1>1, <3>1
    <3> QED
      BY <3>2, <3>3
  <2> QED
    BY <2>2, <2>3, <2>4
<1>5. ASSUME NEW m \in Method, NEW h \in Host PROVE Backed(c, m, h)'
  <2>1. CASE c \notin discoverers[m]
    BY <1>4, <2>1, UnheardIsBacked
  <2>2. CASE c \in discoverers[m]
    <3>1. AnswersCovered(ns, want, m, h, Cardinality(Registrations(m, h)'))
      BY <1>2 DEF AnswersCovered
    <3>2. Backed(c, m, h)
      OBVIOUS
    <3>3. /\ Count(ns, 1, "SERVICE_ONLINE", m, h) + Cardinality(Registrations(m, h)) =
               Count(ns, 1, "SERVICE_OFFLINE", m, h) + Cardinality(Registrations(m, h)')
          /\ NotesCovered(ns, m, h, Cardinality(Registrations(m, h)'))
      BY <1>1, <2>2
    <3>4. /\ Count(ns, 1, "SERVICE_OFFLINE", m, h) \in Nat
          /\ Cardinality(Registrations(m, h)') \in Nat
      BY <1>2, CountIsNat, FS_CardinalityType DEF FiniteRegistrations
    <3>5. Count(ns, 1, "SERVICE_ONLINE", m, h) + Cardinality(Registrations(m, h)) <=
            Count(ns, 1, "SERVICE_OFFLINE", m, h) + Cardinality(Registrations(m, h)')
      BY <3>3, <3>4
    <3>6. \A t \in Thread : pc'[t] = "answered" => pc[t] = "answered"
      BY <1>3
    <3> QED
      BY <1>1, <1>2, <1>3, <3>1, <3>2, <3>3, <3>5, <3>6, QueueGrows
  <2> QED
    BY <2>1, <2>2
<1> QED
  BY <1>4, <1>5
-----------------------------------------------------------------------------
(* The steps of the registry that leave the clients' own variables alone   *)
(* tell every client what they change.                                     *)
LEMMA ServerTells ==
  ASSUME DInv, DInv', BInv, OneAddressEach, NEW p \in Conn,
         OnConnShutdown(p) \/ (p \notin Client /\ ProviderStep(p))
  PROVE  /\ FiniteRegistrations'
         /\ \A c \in Client \cap connected' :
              /\ c \in connected /\ Told(c)
              /\ \A m \in Method : c \in discoverers'[m] <=> c \in discoverers[m]
<1>0. /\ IInv /\ IInv' /\ QueuesTyped /\ RegisteredAddress /\ FiniteRegistrations
      /\ discoverers \in [Method -> SUBSET Conn]
  BY DEF DInv, BInv, IInv, MapsTypeOK
<1>1. CASE OnConnShutdown(p)
  <2>1. ASSUME NEW m \in Method, NEW h \in Host PROVE IsFiniteSet(Registrations(m, h)')
    BY <1>0, <1>1, CloseCounts
  <2>2. FiniteRegistrations'
    BY <2>1 DEF FiniteRegistrations
  <2>3. ASSUME NEW c \in Client \cap connected'
        PROVE  /\ c \in connected /\ Told(c)
               /\ \A m \in Method : c \in discoverers'[m] <=> c \in discoverers[m]
    <3>1. c # p /\ c \in connected /\ c \in Conn
      BY <1>1, <2>3, ClientIsConn DEF OnConnShutdown
    <3>2. \A m \in Method : c \in discoverers'[m] <=> c \in discoverers[m]
      BY <1>0, <1>1, <3>1, CloseErases
    <3> QED
      BY <1>0, <1>1, <3>1, <3>2, CloseTells
  <2> QED
    BY <2>2, <2>3
<1>2. ASSUME p \notin Client, NEW msg \in RequestsOf(p), Room(p, msg), OnServiceRequest(p, msg),
             msg.optype = "SERVICE_REGISTRY"
      PROVE  /\ FiniteRegistrations'
             /\ \A c \in Client \cap connected' :
                  /\ c \in connected /\ Told(c)
                  /\ \A m \in Method : c \in discoverers'[m] <=> c \in discoverers[m]
  <2>0. /\ OnRegistry(p, msg) /\ connected' = connected /\ discoverers' = discoverers
        /\ SameAddress(p, msg)
    <3>1. OnRegistry(p, msg) /\ connected' = connected /\ discoverers' = discoverers
      BY <1>2 DEF OnServiceRequest, OnRegistry, OnDiscovery, OnUnknownOperation, discovererVars
    <3> QED
      BY <1>0, <1>2, <3>1, RegistryKeepsAddress
  <2>1. ASSUME NEW m \in Method, NEW h \in Host PROVE IsFiniteSet(Registrations(m, h)')
    BY <1>0, <1>2, <2>0, RegistryCounts
  <2>2. FiniteRegistrations'
    BY <2>1 DEF FiniteRegistrations
  <2>3. ASSUME NEW c \in Client PROVE Told(c)
    <3>1. c \in Conn /\ c # p
      BY <1>2, ClientIsConn
    <3> QED
      BY <1>0, <1>2, <2>0, <3>1, RegistryTells
  <2> QED
    BY <2>0, <2>2, <2>3
<1>3. CASE p \notin Client /\ (OnConnected(p) \/ Receive(p))
  <2>1. /\ providerHost' = providerHost /\ providerMethods' = providerMethods
        /\ discoverers' = discoverers
        /\ \A c \in Client : (c \in connected' <=> c \in connected) /\ toClient'[c] = toClient[c]
    BY <1>0, <1>3, ClientIsConn DEF OnConnected, Receive, providerVars, discovererVars, QueuesTyped
  <2>2. FiniteRegistrations'
    BY <1>0, <2>1, SameRegistrations
  <2>3. ASSUME NEW c \in Client PROVE Told(c)
    BY <1>0, <2>1, ClientIsConn, SilenceTells
  <2> QED
    BY <2>1, <2>2, <2>3
<1> QED
  BY <1>1, <1>2, <1>3 DEF ProviderStep

(* So no belief is exceeded by them.                                       *)
LEMMA ServerKeepsBeliefs ==
  ASSUME DInv, DInv', BInv, OneAddressEach, UNCHANGED clientVars, NEW p \in Conn,
         OnConnShutdown(p) \/ (p \notin Client /\ ProviderStep(p))
  PROVE  FiniteRegistrations' /\ Beliefs'
<1>0. /\ FiniteRegistrations /\ Beliefs /\ FiniteRegistrations'
      /\ \A c \in Client \cap connected' :
           /\ c \in connected /\ Told(c)
           /\ \A m \in Method : c \in discoverers'[m] <=> c \in discoverers[m]
  BY ServerTells DEF BInv
<1>1. ASSUME NEW c \in Client \cap connected'
      PROVE  \A m \in Method : Unheard(c, m)' /\ \A h \in Host : Backed(c, m, h)'
  <2>1. \A m \in Method : Unheard(c, m) /\ \A h \in Host : Backed(c, m, h)
    BY <1>0 DEF Beliefs
  <2> QED
    BY <1>0, <2>1, ToldKeepsBeliefs
<1> QED
  BY <1>0, <1>1 DEF Beliefs

(* The steps of a thread of a client.                                      *)
LEMMA UserKeepsBeliefs ==
  ASSUME DInv, BInv, NEW t \in Thread, NEW a \in Method,
         ReturnCached(t, a) \/ SendDiscovery(t, a) \/ Resume(t)
  PROVE  FiniteRegistrations' /\ Beliefs'
<1>0. /\ CallTypes /\ FiniteRegistrations /\ Beliefs /\ pc[t] \in {"idle", "returned"}
      /\ UNCHANGED serverVars
      /\ cache' = cache /\ raced' = raced /\ answer' = answer /\ stale' = stale
      /\ want' = [want EXCEPT ![t] = a] \/ want' = want
      /\ pc' = [pc EXCEPT ![t] = "returned"] \/ pc' = [pc EXCEPT ![t] = "sent"]
           \/ pc' = [pc EXCEPT ![t] = "idle"]
  BY DEF DInv, BInv, ReturnCached, SendDiscovery, Resume, auxVars
<1>1. /\ connected' = connected /\ toClient' = toClient /\ discoverers' = discoverers
      /\ providerHost' = providerHost /\ providerMethods' = providerMethods
  BY <1>0 DEF serverVars, providerVars, discovererVars
<1>2. /\ pc'[t] \notin {"waiting", "answered"} /\ pc[t] \notin {"waiting", "answered"}
      /\ \A u \in Thread \ {t} : pc'[u] = pc[u] /\ want'[u] = want[u]
  BY <1>0 DEF CallTypes
<1>3. FiniteRegistrations' /\ \A m \in Method, h \in Host : Registrations(m, h)' = Registrations(m, h)
  BY <1>0, <1>1, SameRegistrations
<1>4. ASSUME NEW c \in Client \cap connected', NEW m \in Method PROVE Unheard(c, m)'
  <2>1. Unheard(c, m)
    BY <1>0, <1>1, <1>4 DEF Beliefs
  <2> QED
    BY <1>0, <1>1, <1>2, <2>1 DEF Unheard
<1>5. ASSUME NEW c \in Client \cap connected', NEW m \in Method, NEW h \in Host PROVE Backed(c, m, h)'
  <2>1. Backed(c, m, h)
    BY <1>0, <1>1, <1>5 DEF Beliefs
  <2> QED
    BY <1>0, <1>1, <1>2, <1>3, <2>1, BackedAfter
<1> QED
  BY <1>3, <1>4, <1>5 DEF Beliefs

(* The answer installed is covered as long as no notification was handled  *)
(* since it arrived.                                                       *)
LEMMA DiscoveredKeepsBeliefs ==
  ASSUME DInv, BInv, NEW t \in Thread, Discovered(t)
  PROVE  FiniteRegistrations' /\ Beliefs'
<1> DEFINE d == ClientOf[t]
           a == want[t]
<1>0. /\ CallTypes /\ FiniteRegistrations /\ Beliefs /\ pc[t] = "answered" /\ d \in Client /\ a \in Method
      /\ UNCHANGED serverVars /\ want' = want
      /\ answer' = [answer EXCEPT ![t] = NoAnswer] /\ stale' = stale \ {t}
      /\ \/ /\ cache' = cache /\ raced' = raced /\ pc' = [pc EXCEPT ![t] = "idle"]
         \/ /\ cache' = [cache EXCEPT ![d][a] = answer[t].hosts]
            /\ raced' = [raced EXCEPT ![d] = IF t \in stale THEN @ \cup {a} ELSE @ \ {a}]
            /\ pc' = [pc EXCEPT ![t] = "returned"]
  BY ClientIsConn DEF DInv, BInv, CallTypes, Discovered
<1>1. /\ connected' = connected /\ toClient' = toClient /\ discoverers' = discoverers
      /\ providerHost' = providerHost /\ providerMethods' = providerMethods
  BY <1>0 DEF serverVars, providerVars, discovererVars
<1>2. /\ pc'[t] \notin {"waiting", "answered"}
      /\ \A u \in Thread \ {t} : pc'[u] = pc[u] /\ answer'[u] = answer[u]
      /\ \A c \in Client, m \in Method :
           (c # d \/ m # a) => cache'[c][m] = cache[c][m] /\ (m \in raced'[c] <=> m \in raced[c])
  BY <1>0 DEF CallTypes
<1>3. FiniteRegistrations' /\ \A m \in Method, h \in Host : Registrations(m, h)' = Registrations(m, h)
  BY <1>0, <1>1, SameRegistrations
<1>4. ASSUME NEW c \in Client \cap connected', NEW m \in Method PROVE Unheard(c, m)'
  <2>1. Unheard(c, m)
    BY <1>0, <1>1, <1>4 DEF Beliefs
  <2>2. (c = d /\ m = a) => c \in discoverers[m]
    BY <1>0, <2>1 DEF Unheard
  <2> QED
    BY <1>0, <1>1, <1>2, <2>1, <2>2 DEF Unheard
<1>5. ASSUME NEW c \in Client \cap connected', NEW m \in Method, NEW h \in Host PROVE Backed(c, m, h)'
  <2>1. Backed(c, m, h)
    BY <1>0, <1>1, <1>5 DEF Beliefs
  <2>2. CASE cache'[c][m] = cache[c][m] /\ (m \in raced[c] => m \in raced'[c])
    BY <1>0, <1>1, <1>2, <1>3, <2>1, <2>2, BackedAfter
  <2>3. CASE c = d /\ m = a /\ cache' = [cache EXCEPT ![d][a] = answer[t].hosts]
             /\ raced' = [raced EXCEPT ![d] = IF t \in stale THEN @ \cup {a} ELSE @ \ {a}]
    <3> DEFINE q == toClient[c]
               n == Cardinality(Registrations(m, h))
    <3>1. /\ cache'[c][m] = answer[t].hosts
          /\ m \notin raced'[c] => t \notin stale
      BY <1>0, <2>3 DEF CallTypes
    <3>2. m \notin raced'[c] => Covered(cache'[c][m][h], q, 1, m, h, n)
      BY <1>0, <2>1, <2>3, <3>1 DEF Backed
    <3>3. ASSUME NEW u \in Thread, ClientOf[u] = c, pc'[u] = "answered", want'[u] = m, u \notin stale'
          PROVE  Covered(answer'[u].hosts[h], q, 1, m, h, n)
      <4>1. u # t
        BY <1>2, <3>3
      <4>2. pc[u] = "answered" /\ answer'[u] = answer[u] /\ u \notin stale /\ want[u] = m
        BY <1>0, <1>2, <3>3, <4>1
      <4> QED
        BY <2>1, <3>3, <4>2 DEF Backed
    <3>4. NotesCovered(q, m, h, n) /\ AnswersCovered(q, want, m, h, n)
      BY <2>1 DEF Backed
    <3>5. q = toClient'[c] /\ n = Cardinality(Registrations(m, h)') /\ want' = want
      BY <1>0, <1>1, <1>3
    <3> HIDE DEF q, n
    <3> QED
      BY <3>2, <3>3, <3>4, <3>5 DEF Backed
  <2>4. CASE c # d \/ m # a
    BY <1>2, <2>2, <2>4
  <2> QED
    BY <1>0, <2>2, <2>3, <2>4
<1> QED
  BY <1>3, <1>4, <1>5 DEF Beliefs

(* The registry's answer names what is registered at that moment.          *)
LEMMA HandleKeepsBeliefs ==
  ASSUME DInv, BInv, NEW t \in Thread, HandleDiscovery(t)
  PROVE  FiniteRegistrations' /\ Beliefs'
<1> DEFINE d == ClientOf[t]
           a == want[t]
           rsp == DiscoveryResponse(t, a)
<1>0. /\ CallTypes /\ FiniteRegistrations /\ Beliefs /\ IInv /\ QueuesTyped
      /\ d \in Client /\ d \in Conn /\ a \in Method /\ t \in Rid
      /\ pc' = [pc EXCEPT ![t] = "waiting"]
      /\ cache' = cache /\ want' = want /\ answer' = answer /\ stale' = stale /\ raced' = raced
  BY ClientIsConn DEF DInv, BInv, CallTypes, HandleDiscovery, auxVars
<1>1. /\ connected' = connected /\ AddDiscoverer(d, a)
      /\ providerHost' = providerHost /\ providerMethods' = providerMethods
      /\ toClient' = [toClient EXCEPT ![d] = Append(@, rsp)]
  BY DEF HandleDiscovery, OnServiceRequest, OnRegistry, OnDiscovery, OnUnknownOperation, Request,
         Send, providerVars
<1>2. /\ toClient \in [Conn -> Seq(Queued)] /\ toClient[d] \in Seq(Queued)
      /\ rsp \in Queued /\ rsp \in Responses /\ rsp.kind = "response" /\ rsp.rid = t
      /\ rsp.hosts = GetMethodHosts(a)
  <2>1. rsp \in Responses /\ rsp.rid = t
    BY <1>0, AnswersAreResponses
  <2>2. rsp.hosts = GetMethodHosts(a)
    BY DEF DiscoveryResponse, ServiceResponse
  <2> QED
    BY <1>0, <2>1, <2>2 DEF QueuesTyped, Queued, Responses
<1>3. /\ \A c \in Client \ {d} : toClient'[c] = toClient[c]
      /\ toClient'[d] = Append(toClient[d], rsp)
      /\ \A u \in Thread \ {t} : pc'[u] = pc[u]
      /\ pc'[t] = "waiting"
      /\ d \in discoverers'[a]
      /\ \A c \in Client, m \in Method : c \in discoverers[m] => c \in discoverers'[m]
  BY <1>0, <1>1, <1>2, ClientIsConn DEF CallTypes, AddDiscoverer, IInv, MapsTypeOK
<1>4. FiniteRegistrations' /\ \A m \in Method, h \in Host : Registrations(m, h)' = Registrations(m, h)
  BY <1>0, <1>1, SameRegistrations
<1> HIDE DEF rsp
<1>5. ASSUME NEW c \in Client \cap connected', NEW m \in Method PROVE Unheard(c, m)'
  <2>1. Unheard(c, m)
    BY <1>0, <1>1, <1>5 DEF Beliefs
  <2>2. SUFFICES ASSUME c \notin discoverers'[m] PROVE Unheard(c, m)'
    BY DEF Unheard
  <2>3. c \notin discoverers[m] /\ ~ (c = d /\ m = a)
    BY <1>3, <2>2
  <2>4. \A i \in 1..Len(toClient'[c]) : toClient'[c][i].kind = "notify" => toClient'[c][i].method # m
    <3>1. CASE c # d
      BY <1>3, <2>1, <2>3, <3>1 DEF Unheard
    <3>2. CASE c = d
      <4> DEFINE q == toClient[d]
      <4>1. \A i \in 1..Len(q) : q[i].kind = "notify" => q[i].method # m
        BY <2>1, <2>3, <3>2 DEF Unheard
      <4>2. q \in Seq(Queued) /\ toClient'[c] = Append(q, rsp)
        BY <1>2, <1>3, <3>2
      <4> HIDE DEF q
      <4>3. /\ \A i \in 1..Len(q) : Append(q, rsp)[i] = q[i]
            /\ Append(q, rsp)[Len(q) + 1] = rsp
            /\ Len(Append(q, rsp)) = Len(q) + 1 /\ Len(q) \in Nat
        BY <1>2, <4>2, AppendAt
      <4>4. \A i \in 1..Len(Append(q, rsp)) : i \in 1..Len(q) \/ i = Len(q) + 1
        BY <4>3
      <4> QED
        BY <1>2, <4>1, <4>2, <4>3, <4>4
    <3> QED
      BY <3>1, <3>2
  <2>5. \A u \in Thread : (ClientOf[u] = c /\ want'[u] = m) => pc'[u] \notin {"waiting", "answered"}
    BY <1>0, <1>3, <2>1, <2>3 DEF Unheard
  <2> QED
    BY <1>0, <2>1, <2>3, <2>4, <2>5 DEF Unheard
<1>6. ASSUME NEW c \in Client \cap connected', NEW m \in Method, NEW h \in Host PROVE Backed(c, m, h)'
  <2>1. Backed(c, m, h)
    BY <1>0, <1>1, <1>6 DEF Beliefs
  <2>2. CASE c # d
    BY <1>0, <1>3, <1>4, <2>1, <2>2, BackedAfter
  <2>3. CASE c = d
    <3> DEFINE n == Cardinality(Registrations(m, h))
               ns == <<rsp>>
    <3>1. n \in Nat /\ n = Cardinality(Registrations(m, h)')
      BY <1>0, <1>4, FS_CardinalityType DEF FiniteRegistrations
    <3>2. ~ Says(rsp, "SERVICE_ONLINE", m, h) /\ ~ Says(rsp, "SERVICE_OFFLINE", m, h)
      BY <1>2 DEF Says
    <3>3. m = a => rsp.hosts[h] \in Nat /\ rsp.hosts[h] <= n
      BY <1>0, <1>2, AnswerIsRegistered
    <3> HIDE DEF n
    <3>4. /\ ns \in Seq(Queued) /\ Len(ns) = 1 /\ ns[1] = rsp
          /\ Count(ns, 1, "SERVICE_ONLINE", m, h) = 0 /\ Count(ns, 1, "SERVICE_OFFLINE", m, h) = 0
          /\ NotesCovered(ns, m, h, n)
          /\ \A k : Covered(k, ns, 2, m, h, n) <=> (k + 0 <= 0 + n)
      BY <1>2, <3>1, <3>2, OneSaid
    <3>5. toClient'[c] = toClient[c] \o ns
      <4> DEFINE q == toClient[d]
      <4>1. q \in Seq(Queued) /\ toClient'[c] = Append(q, rsp)
        BY <1>2, <1>3, <2>3
      <4> HIDE DEF q
      <4>2. Append(q, rsp) = q \o ns
        BY <1>2, <4>1, AppendIsConcat
      <4> QED
        BY <2>3, <4>1, <4>2 DEF q
    <3> HIDE DEF ns
    <3>6. AnswersCovered(ns, want, m, h, n)
      <4>1. 1..Len(ns) = {1} /\ 1 + 1 = 2
        BY <3>4
      <4>2. want[rsp.rid] = m => Covered(rsp.hosts[h], ns, 2, m, h, n)
        <5>1. want[rsp.rid] = a
          BY <1>2
        <5>2. CASE m = a
          <6>1. rsp.hosts[h] + 0 <= 0 + n
            BY <3>1, <3>3, <5>2
          <6> QED
            BY <3>4, <6>1
        <5> QED
          BY <5>1, <5>2
      <4> QED
        BY <3>4, <4>1, <4>2 DEF AnswersCovered
    <3>7. Count(ns, 1, "SERVICE_ONLINE", m, h) + Cardinality(Registrations(m, h)) <=
            Count(ns, 1, "SERVICE_OFFLINE", m, h) + Cardinality(Registrations(m, h)')
      BY <3>1, <3>4 DEF n
    <3>8. \A u \in Thread : pc'[u] = "answered" => pc[u] = "answered"
      BY <1>3
    <3>9. NotesCovered(ns, m, h, Cardinality(Registrations(m, h)'))
          /\ AnswersCovered(ns, want, m, h, Cardinality(Registrations(m, h)'))
      BY <3>1, <3>4, <3>6
    <3> QED
      BY <1>0, <1>4, <2>1, <3>4, <3>5, <3>7, <3>8, <3>9, QueueGrows
  <2> QED
    BY <2>2, <2>3
<1> QED
  BY <1>4, <1>5, <1>6 DEF Beliefs

(* An answer arrives: nothing overtakes it, and what is behind it covers it*)
LEMMA ResponseKeepsBeliefs ==
  ASSUME DInv, BInv, NEW d \in Client, OnResponse(d)
  PROVE  FiniteRegistrations' /\ Beliefs'
<1> DEFINE q == toClient[d]
           msg == Head(toClient[d])
           t == msg.rid
<1>0. /\ CallTypes /\ FiniteRegistrations /\ Beliefs /\ Receive(d) /\ msg.kind = "response"
      /\ answer' = [answer EXCEPT ![t] = msg] /\ pc' = [pc EXCEPT ![t] = "answered"]
      /\ cache' = cache /\ want' = want /\ stale' = stale /\ raced' = raced
  BY DEF DInv, BInv, OnResponse, auxVars
<1>1. t \in Thread /\ ClientOf[t] = d /\ pc[t] = "waiting"
  BY <1>0, AnswerMeetsItsCall
<1>2. /\ q \in Seq(Queued) /\ q # <<>> /\ toClient'[d] = Tail(q)
      /\ \A c \in Client \ {d} : toClient'[c] = toClient[c]
      /\ connected' = connected /\ discoverers' = discoverers
      /\ providerHost' = providerHost /\ providerMethods' = providerMethods
  BY <1>0, ClientIsConn DEF DInv, QueuesTyped, Receive, providerVars, discovererVars
<1>3. FiniteRegistrations' /\ \A m \in Method, h \in Host : Registrations(m, h)' = Registrations(m, h)
  BY <1>0, <1>2, SameRegistrations
<1>4. /\ pc'[t] = "answered" /\ answer'[t] = msg
      /\ \A u \in Thread \ {t} : pc'[u] = pc[u] /\ answer'[u] = answer[u]
  <2> HIDE DEF msg
  <2> QED
    BY <1>0, <1>1 DEF CallTypes
<1>5. /\ \A i \in 1..Len(Tail(q)) : i + 1 \in 1..Len(q) /\ Tail(q)[i] = q[i + 1]
      /\ 1 \in 1..Len(q) /\ msg = q[1]
  <2> DEFINE r == q
  <2> HIDE DEF r
  <2>1. r \in Seq(Queued) /\ r # <<>>
    BY <1>2 DEF r
  <2>2. /\ Len(r) \in Nat /\ Len(r) >= 1 /\ Len(Tail(r)) = Len(r) - 1
        /\ \A i \in 1..Len(Tail(r)) : Tail(r)[i] = r[i + 1]
        /\ Head(r) = r[1]
    BY <2>1, TailAt
  <2> QED
    BY <2>2 DEF r
<1>6. ASSUME NEW c \in Client \cap connected', NEW m \in Method PROVE Unheard(c, m)'
  <2>1. Unheard(c, m)
    BY <1>0, <1>2, <1>6 DEF Beliefs
  <2>2. (c = d /\ want[t] = m) => c \in discoverers[m]
    BY <1>1, <2>1 DEF Unheard
  <2>3. c \notin discoverers[m] =>
          \A i \in 1..Len(toClient'[c]) : toClient'[c][i].kind = "notify" => toClient'[c][i].method # m
    <3>1. CASE c # d
      BY <1>2, <2>1, <3>1 DEF Unheard
    <3>2. CASE c = d
      <4>1. c \notin discoverers[m] => \A i \in 1..Len(q) : q[i].kind = "notify" => q[i].method # m
        BY <2>1, <3>2 DEF Unheard
      <4>2. toClient'[c] = Tail(q)
        BY <1>2, <3>2
      <4> HIDE DEF q, msg
      <4> QED
        BY <1>5, <4>1, <4>2
    <3> QED
      BY <3>1, <3>2
  <2>4. c \notin discoverers[m] =>
          \A u \in Thread : (ClientOf[u] = c /\ want'[u] = m) => pc'[u] \notin {"waiting", "answered"}
    BY <1>0, <1>1, <1>4, <2>1, <2>2 DEF Unheard
  <2> QED
    BY <1>0, <1>2, <2>1, <2>3, <2>4 DEF Unheard
<1>7. ASSUME NEW c \in Client \cap connected', NEW m \in Method, NEW h \in Host PROVE Backed(c, m, h)'
  <2>1. Backed(c, m, h)
    BY <1>0, <1>2, <1>7 DEF Beliefs
  <2>2. CASE c # d
    <3>1. \A u \in Thread : ClientOf[u] = c => pc'[u] = pc[u] /\ answer'[u] = answer[u]
      BY <1>1, <1>4, <2>2
    <3> QED
      BY <1>0, <1>2, <1>3, <2>1, <2>2, <3>1, BackedAfter
  <2>3. CASE c = d
    <3> DEFINE n == Cardinality(Registrations(m, h))
    <3>1. /\ NotesCovered(q, m, h, n) /\ AnswersCovered(q, want, m, h, n)
          /\ m \notin raced[c] => Covered(cache[c][m][h], q, 1, m, h, n)
          /\ \A u \in Thread :
               (ClientOf[u] = c /\ pc[u] = "answered" /\ want[u] = m /\ u \notin stale) =>
                 Covered(answer[u].hosts[h], q, 1, m, h, n)
      BY <2>1, <2>3 DEF Backed
    <3>2. ~ Says(msg, "SERVICE_ONLINE", m, h) /\ ~ Says(msg, "SERVICE_OFFLINE", m, h)
      BY <1>0 DEF Says
    <3>3. want[t] = m => Covered(msg.hosts[h], q, 1 + 1, m, h, n)
      BY <1>0, <1>5, <3>1 DEF AnswersCovered
    <3>4. n = Cardinality(Registrations(m, h)')
      BY <1>3
    <3>5. msg = Head(q)
      OBVIOUS
    <3> HIDE DEF q, n, msg
    <3>6. NotesCovered(Tail(q), m, h, n) /\ AnswersCovered(Tail(q), want, m, h, n)
      BY <1>2, <3>1, NotesTail, AnswersTailCovered
    <3>7. \A x : Covered(x, q, 1, m, h, n) => Covered(x, Tail(q), 1, m, h, n)
      <4>1. ~ Says(Head(q), "SERVICE_ONLINE", m, h) /\ ~ Says(Head(q), "SERVICE_OFFLINE", m, h)
        BY <3>2, <3>5
      <4> QED
        BY <1>2, <4>1, CoveredUnsaid
    <3>8. want[t] = m => Covered(msg.hosts[h], Tail(q), 1, m, h, n)
      BY <1>2, <1>5, <3>3, CoveredTail
    <3>9. ASSUME NEW u \in Thread, ClientOf[u] = c, pc'[u] = "answered", want'[u] = m, u \notin stale'
          PROVE  Covered(answer'[u].hosts[h], Tail(q), 1, m, h, n)
      <4>1. CASE u = t
        BY <1>0, <1>4, <3>8, <3>9, <4>1
      <4>2. CASE u # t
        BY <1>0, <1>4, <3>1, <3>7, <3>9, <4>2
      <4> QED
        BY <4>1, <4>2
    <3> HIDE DEF t
    <3>10. m \notin raced'[c] => Covered(cache'[c][m][h], Tail(q), 1, m, h, n)
      BY <1>0, <3>1, <3>7
    <3>11. toClient'[c] = Tail(q) /\ want' = want
      BY <1>0, <1>2, <2>3
    <3> QED
      BY <3>4, <3>6, <3>9, <3>10, <3>11 DEF Backed
  <2> QED
    BY <2>2, <2>3
<1> QED
  BY <1>3, <1>6, <1>7 DEF Beliefs

(* A notification is noted, and the answers it has overtaken are outdated. *)
LEMMA NotificationKeepsBeliefs ==
  ASSUME DInv, BInv, NEW d \in Client, OnNotification(d)
  PROVE  FiniteRegistrations' /\ Beliefs'
<1> DEFINE q == toClient[d]
           msg == Head(toClient[d])
           a == msg.method
<1>0. /\ CallTypes /\ CallStages /\ FiniteRegistrations /\ Beliefs /\ Receive(d) /\ msg.kind = "notify"
      /\ cache' = [cache EXCEPT ![d][a] = Noted(@, msg, a)]
      /\ stale' = stale \cup {t \in Thread : ClientOf[t] = d /\ pc[t] = "answered" /\ want[t] = a}
      /\ pc' = pc /\ want' = want /\ answer' = answer /\ raced' = raced
  BY DEF DInv, BInv, OnNotification, threadVars
<1>1. /\ q \in Seq(Queued) /\ q # <<>> /\ toClient'[d] = Tail(q)
      /\ \A c \in Client \ {d} : toClient'[c] = toClient[c]
      /\ connected' = connected /\ discoverers' = discoverers
      /\ providerHost' = providerHost /\ providerMethods' = providerMethods
  BY <1>0, ClientIsConn DEF DInv, QueuesTyped, Receive, providerVars, discovererVars
<1>2. FiniteRegistrations' /\ \A m \in Method, h \in Host : Registrations(m, h)' = Registrations(m, h)
  BY <1>0, <1>1, SameRegistrations
<1>3. /\ \A i \in 1..Len(Tail(q)) : i + 1 \in 1..Len(q) /\ Tail(q)[i] = q[i + 1]
      /\ 1 \in 1..Len(q) /\ msg = q[1] /\ msg \in Queued
  <2> DEFINE r == q
  <2> HIDE DEF r
  <2>1. r \in Seq(Queued) /\ r # <<>>
    BY <1>1 DEF r
  <2>2. /\ Len(r) \in Nat /\ Len(r) >= 1 /\ Len(Tail(r)) = Len(r) - 1
        /\ \A i \in 1..Len(Tail(r)) : Tail(r)[i] = r[i + 1]
        /\ Head(r) = r[1] /\ Head(r) \in Queued
    BY <2>1, TailAt
  <2> QED
    BY <2>2 DEF r
<1>4. msg \in Notifications /\ a \in Method
  BY <1>0, <1>3 DEF Queued, Responses, Notifications
<1>5. \A c \in Client, m \in Method :
        cache'[c][m] = IF c = d /\ m = a THEN Noted(cache[d][a], msg, a) ELSE cache[c][m]
  <2> HIDE DEF msg
  <2> QED
    BY <1>0, <1>4 DEF CallTypes
<1>6. ASSUME NEW c \in Client \cap connected', NEW m \in Method PROVE Unheard(c, m)'
  <2>1. Unheard(c, m)
    BY <1>0, <1>1, <1>6 DEF Beliefs
  <2>2. (c = d /\ m = a) => c \in discoverers[m]
    BY <1>0, <1>3, <2>1 DEF Unheard
  <2>3. c \notin discoverers[m] =>
          \A i \in 1..Len(toClient'[c]) : toClient'[c][i].kind = "notify" => toClient'[c][i].method # m
    <3>1. CASE c # d
      BY <1>1, <2>1, <3>1 DEF Unheard
    <3>2. CASE c = d
      <4>1. c \notin discoverers[m] => \A i \in 1..Len(q) : q[i].kind = "notify" => q[i].method # m
        BY <2>1, <3>2 DEF Unheard
      <4>2. toClient'[c] = Tail(q)
        BY <1>1, <3>2
      <4> HIDE DEF q, msg
      <4> QED
        BY <1>3, <4>1, <4>2
    <3> QED
      BY <3>1, <3>2
  <2>4. c \notin discoverers[m] => cache'[c][m] = NoHosts
    BY <1>5, <2>1, <2>2 DEF Unheard
  <2> QED
    BY <1>0, <1>1, <2>1, <2>3, <2>4 DEF Unheard
<1>7. ASSUME NEW c \in Client \cap connected', NEW m \in Method, NEW h \in Host PROVE Backed(c, m, h)'
  <2>1. Backed(c, m, h)
    BY <1>0, <1>1, <1>7 DEF Beliefs
  <2>2. CASE c # d
    <3>1. cache'[c][m] = cache[c][m] /\ \A t \in Thread : t \notin stale' => t \notin stale
      BY <1>0, <1>5, <2>2
    <3> QED
      BY <1>0, <1>1, <1>2, <2>1, <2>2, <3>1, BackedAfter
  <2>3. CASE c = d
    <3> DEFINE n == Cardinality(Registrations(m, h))
    <3>1. /\ NotesCovered(q, m, h, n) /\ AnswersCovered(q, want, m, h, n)
          /\ m \notin raced[c] => Covered(cache[c][m][h], q, 1, m, h, n)
          /\ \A u \in Thread :
               (ClientOf[u] = c /\ pc[u] = "answered" /\ want[u] = m /\ u \notin stale) =>
                 Covered(answer[u].hosts[h], q, 1, m, h, n)
      BY <2>1, <2>3 DEF Backed
    <3>2. n \in Nat /\ n = Cardinality(Registrations(m, h)')
      BY <1>0, <1>2, FS_CardinalityType DEF FiniteRegistrations
    <3>3. cache[c][m] \in HostBag
      BY <1>0 DEF CallTypes
    <3>4. msg = Head(q)
      OBVIOUS
    <3> HIDE DEF q, n, msg
    <3>5. NotesCovered(Tail(q), m, h, n) /\ AnswersCovered(Tail(q), want, m, h, n)
      BY <1>1, <3>1, NotesTail, AnswersTailCovered
    <3>6. ASSUME m # a, NEW x, Covered(x, q, 1, m, h, n) PROVE Covered(x, Tail(q), 1, m, h, n)
      <4>1. ~ Says(Head(q), "SERVICE_ONLINE", m, h) /\ ~ Says(Head(q), "SERVICE_OFFLINE", m, h)
        BY <3>4, <3>6 DEF Says
      <4> QED
        BY <1>1, <3>6, <4>1, CoveredUnsaid
    <3>7. m \notin raced'[c] => Covered(cache'[c][m][h], Tail(q), 1, m, h, n)
      <4>1. CASE m = a
        <5>1. Head(q) \in Notifications /\ cache'[c][m] = Noted(cache[c][m], Head(q), m)
          BY <1>4, <1>5, <2>3, <3>4, <4>1
        <5> QED
          BY <1>0, <1>1, <3>1, <3>2, <3>3, <5>1, CoveredNoted
      <4>2. CASE m # a
        BY <1>0, <1>5, <3>1, <3>6, <4>2
      <4> QED
        BY <4>1, <4>2
    <3>8. ASSUME NEW u \in Thread, ClientOf[u] = c, pc'[u] = "answered", want'[u] = m, u \notin stale'
          PROVE  Covered(answer'[u].hosts[h], Tail(q), 1, m, h, n)
      <4>1. m # a /\ pc[u] = "answered" /\ want[u] = m /\ u \notin stale /\ answer'[u] = answer[u]
        BY <1>0, <2>3, <3>8
      <4> QED
        BY <3>1, <3>6, <3>8, <4>1
    <3>9. toClient'[c] = Tail(q) /\ want' = want
      BY <1>0, <1>1, <2>3
    <3> HIDE DEF a
    <3> QED
      BY <3>2, <3>5, <3>7, <3>8, <3>9 DEF Backed
  <2> QED
    BY <2>2, <2>3
<1> QED
  BY <1>2, <1>6, <1>7 DEF Beliefs
-----------------------------------------------------------------------------
(* At the start nobody believes anything.                                  *)
LEMMA BeliefsInit == DiscoveryInit => BInv
<1> SUFFICES ASSUME DiscoveryInit PROVE BInv
  OBVIOUS
<1>1. RegisteredAddress
  BY DEF DiscoveryInit, RegisteredAddress
<1>2. \A m \in Method, h \in Host : Registrations(m, h) = {}
  BY DEF DiscoveryInit, Registrations, Registered
<1>3. FiniteRegistrations
  BY <1>2, FS_EmptySet DEF FiniteRegistrations
<1>4. \A c \in Client : /\ toClient[c] = <<>> /\ \A m \in Method : cache[c][m] = NoHosts
                        /\ \A t \in Thread : pc[t] = "idle"
  BY ClientIsConn DEF DiscoveryInit
<1>5. ASSUME NEW c \in Client, NEW m \in Method PROVE Unheard(c, m)
  BY <1>4 DEF Unheard
<1>6. ASSUME NEW c \in Client, NEW m \in Method, NEW h \in Host PROVE Backed(c, m, h)
  <2>1. Cardinality(Registrations(m, h)) = 0
    BY <1>2, FS_EmptySet
  <2>2. Covered(0, <<>>, 1, m, h, 0) /\ NotesCovered(<<>>, m, h, 0)
    <3>1. NotesCovered(<<>>, m, h, 0) /\ 1..Len(<<>>) + 1 = {1}
      BY NothingSaid
    <3> QED
      BY <3>1 DEF NotesCovered
  <2>3. AnswersCovered(<<>>, want, m, h, 0)
    BY DEF AnswersCovered
  <2>4. cache[c][m][h] = 0
    BY <1>4 DEF NoHosts
  <2> QED
    BY <1>4, <2>1, <2>2, <2>3, <2>4 DEF Backed
<1> QED
  BY <1>1, <1>3, <1>5, <1>6 DEF BInv, Beliefs

(* Every step keeps the beliefs covered.                                   *)
LEMMA BeliefsStep ==
  ASSUME OneAddressEach, DInv, BInv, DiscoveryNext \/ UNCHANGED vars
  PROVE  BInv'
<1>0. DInv' /\ RegisteredAddress'
  BY DiscoveryStepPreserves, NextIsClientOfServer, StepKeepsAddress DEF DInv, BInv
<1>1. CASE UNCHANGED vars
  <2>1. /\ CallTypes /\ FiniteRegistrations /\ Beliefs /\ UNCHANGED serverVars /\ cache' = cache
        /\ raced' = raced /\ want' = want /\ answer' = answer /\ stale' = stale /\ pc' = pc
    BY <1>1 DEF DInv, BInv, vars, clientVars, threadVars, auxVars
  <2>2. /\ connected' = connected /\ toClient' = toClient /\ discoverers' = discoverers
        /\ providerHost' = providerHost /\ providerMethods' = providerMethods
    BY <2>1 DEF serverVars, providerVars, discovererVars
  <2>3. FiniteRegistrations' /\ \A m \in Method, h \in Host : Registrations(m, h)' = Registrations(m, h)
    BY <2>1, <2>2, SameRegistrations
  <2>4. ASSUME NEW c \in Client \cap connected', NEW m \in Method
        PROVE  Unheard(c, m)' /\ \A h \in Host : Backed(c, m, h)'
    <3>1. Unheard(c, m) /\ \A h \in Host : Backed(c, m, h)
      BY <2>1, <2>2, <2>4 DEF Beliefs
    <3>2. Unheard(c, m)'
      BY <2>1, <2>2, <3>1 DEF Unheard
    <3> QED
      BY <2>1, <2>2, <2>3, <3>1, <3>2, BackedAfter
  <2> QED
    BY <1>0, <2>3, <2>4 DEF BInv, Beliefs
<1>2. ASSUME NEW t \in Thread, NEW m \in Method, ReturnCached(t, m) \/ SendDiscovery(t, m)
      PROVE  FiniteRegistrations' /\ Beliefs'
  BY <1>2, UserKeepsBeliefs
<1>3. ASSUME NEW t \in Thread, Resume(t) PROVE FiniteRegistrations' /\ Beliefs'
  <2>1. want[t] \in Method
    BY DEF DInv, CallTypes
  <2> QED
    BY <1>3, <2>1, UserKeepsBeliefs
<1>4. ASSUME NEW t \in Thread, HandleDiscovery(t) \/ Discovered(t)
      PROVE  FiniteRegistrations' /\ Beliefs'
  BY <1>4, HandleKeepsBeliefs, DiscoveredKeepsBeliefs
<1>5. ASSUME NEW c \in Client, OnResponse(c) \/ OnNotification(c)
      PROVE  FiniteRegistrations' /\ Beliefs'
  BY <1>5, ResponseKeepsBeliefs, NotificationKeepsBeliefs
<1>6. ASSUME NEW c \in Client, LoseRegistry(c) PROVE FiniteRegistrations' /\ Beliefs'
  <2>1. c \in Conn /\ OnConnShutdown(c) /\ UNCHANGED clientVars
    BY <1>6, ClientIsConn DEF LoseRegistry
  <2> QED
    BY <1>0, <2>1, ServerKeepsBeliefs
<1>7. ASSUME NEW p \in Conn \ Client, ProviderStep(p) PROVE FiniteRegistrations' /\ Beliefs'
  <2>1. UNCHANGED clientVars
    BY <1>7 DEF ProviderStep
  <2> QED
    BY <1>0, <1>7, <2>1, ServerKeepsBeliefs
<1> QED
  BY <1>0, <1>1, <1>2, <1>3, <1>4, <1>5, <1>6, <1>7 DEF DiscoveryNext, IOThread, BInv

(* If each connection registers at one address, no client believes in more *)
(* registrations than will be left when it has handled what it was sent.   *)
THEOREM BeliefsAreBacked == OneAddressEach => (DiscoverySpec => []BInv)
<1> SUFFICES ASSUME OneAddressEach PROVE DiscoverySpec => []BInv
  OBVIOUS
<1>1. DInv /\ BInv /\ [DiscoveryNext]_vars => BInv'
  BY BeliefsStep
<1> QED
  BY <1>1, BeliefsInit, DiscoveryInvariantHolds, PTL DEF DiscoverySpec

(* A host believed in, with nothing more to be heard of it, is registered. *)
LEMMA QuietIsServed ==
  ASSUME DInv, FiniteRegistrations, NEW c \in Client, NEW m \in Method, NEW h \in Host,
         NEW x \in Nat, x > 0, Quiet(c, m),
         Covered(x, toClient[c], 1, m, h, Cardinality(Registrations(m, h)))
  PROVE  Serves(h, m)
<1> DEFINE q == toClient[c]
           n == Cardinality(Registrations(m, h))
<1>1. q \in Seq(Queued) /\ n \in Nat
  BY ClientIsConn, FS_CardinalityType DEF DInv, QueuesTyped, FiniteRegistrations
<1>2. \A i \in 1..Len(q), op \in {"SERVICE_ONLINE", "SERVICE_OFFLINE"} : ~ Says(q[i], op, m, h)
  BY DEF Quiet, Says
<1> HIDE DEF q, n
<1>3. Count(q, 1, "SERVICE_ONLINE", m, h) = 0 /\ Count(q, 1, "SERVICE_OFFLINE", m, h) = 0
  BY <1>1, <1>2, NoneSaid
<1>4. Covered(x, q, 1, m, h, n)
  BY DEF q, n
<1>5. n > 0
  BY <1>1, <1>3, <1>4 DEF Covered
<1> QED
  BY <1>5, RegisteredServes DEF DInv, n

(* ServiceDiscovery hands out no host that has gone, once the client has   *)
(* handled the notifications about the method, unless an outdated answer   *)
(* was installed: for any number of registrations of a method, by any      *)
(* number of connections behind one address.                               *)
THEOREM ReturnedHostAlwaysServes == OneAddressEach => (DiscoverySpec => ReturnedHostServes)
<1> SUFFICES ASSUME OneAddressEach PROVE DiscoverySpec => ReturnedHostServes
  OBVIOUS
<1>1. ASSUME DInv, BInv, [DiscoveryNext]_vars,
             NEW t \in Thread, Returns(t), Quiet(ClientOf[t], want'[t]),
             want'[t] \notin raced'[ClientOf[t]]
      PROVE  Serves(host'[t], want'[t])
  <2> DEFINE c == ClientOf[t]
             m == want'[t]
  <2>1. /\ CallTypes /\ CallStages /\ FiniteRegistrations /\ Beliefs /\ c \in Client
        /\ pc[t] # "returned" /\ pc'[t] = "returned" /\ c \in connected
    BY <1>1, ClientIsConn DEF DInv, BInv, Returns, Quiet
  <2>2. ASSUME NEW a \in Method, ReturnCached(t, a) PROVE Serves(host'[t], m)
    <3>1. PICK h \in Host : cache[c][a][h] > 0 /\ host' = [host EXCEPT ![t] = h]
      BY <2>2 DEF ReturnCached, Usable
    <3>2. m = a /\ host'[t] = h /\ a \notin raced[c] /\ cache[c][a][h] \in Nat
      BY <1>1, <2>1, <2>2, <3>1 DEF ReturnCached, CallTypes, auxVars, HostBag
    <3>3. Covered(cache[c][a][h], toClient[c], 1, a, h, Cardinality(Registrations(a, h)))
      BY <2>1, <3>2 DEF Beliefs, Backed
    <3>4. Quiet(c, a)
      BY <1>1, <3>2
    <3>5. Serves(h, a)
      BY <1>1, <2>1, <3>1, <3>2, <3>3, <3>4, QuietIsServed
    <3> QED
      BY <3>2, <3>5
  <2>3. CASE Discovered(t)
    <3>1. /\ pc[t] = "answered" /\ want' = want /\ want[t] \in Method /\ answer[t] \in Responses
          /\ answer[t].rcode = "RCODE_OK"
          /\ raced' = [raced EXCEPT ![c] = IF t \in stale THEN @ \cup {want[t]} ELSE @ \ {want[t]}]
      BY <2>1, <2>3 DEF Discovered, CallTypes, CallStages
    <3>2. PICK h \in Host : answer[t].hosts[h] > 0 /\ host' = [host EXCEPT ![t] = h]
      BY <2>3, <3>1 DEF Discovered, Usable
    <3>3. m = want[t] /\ host'[t] = h /\ t \notin stale /\ answer[t].hosts[h] \in Nat
      BY <1>1, <2>1, <3>1, <3>2 DEF CallTypes, Responses, HostBag
    <3>4. Covered(answer[t].hosts[h], toClient[c], 1, want[t], h, Cardinality(Registrations(want[t], h)))
      BY <2>1, <3>1, <3>3 DEF Beliefs, Backed
    <3>5. Quiet(c, want[t])
      BY <1>1, <3>3
    <3>6. Serves(h, want[t])
      BY <1>1, <2>1, <3>1, <3>2, <3>3, <3>4, <3>5, QuietIsServed
    <3> QED
      BY <3>3, <3>6
  <2>4. CASE UNCHANGED vars
    BY <2>1, <2>4 DEF vars, clientVars, threadVars
  <2>5. ASSUME NEW u \in Thread, NEW a \in Method,
               \/ (ReturnCached(u, a) \/ Discovered(u)) /\ u # t
               \/ SendDiscovery(u, a) \/ HandleDiscovery(u) \/ Resume(u)
        PROVE  FALSE
    BY <2>1, <2>5 DEF CallTypes, ReturnCached, Discovered, SendDiscovery, HandleDiscovery, Resume
  <2>6. ASSUME NEW d \in Client, OnResponse(d) PROVE FALSE
    <3>1. pc' = [pc EXCEPT ![Head(toClient[d]).rid] = "answered"]
      BY <2>6 DEF OnResponse
    <3> QED
      BY <2>1, <3>1 DEF CallTypes
  <2>7. ASSUME pc' = pc PROVE FALSE
    BY <2>1, <2>7
  <2>8. want[t] \in Method
    BY <2>1 DEF CallTypes
  <2> QED
    BY <1>1, <2>2, <2>3, <2>4, <2>5, <2>6, <2>7, <2>8
       DEF DiscoveryNext, IOThread, OnNotification, LoseRegistry, ProviderStep, clientVars, threadVars
<1>2. DInv /\ BInv /\ [DiscoveryNext]_vars =>
        [\A t \in Thread :
           (Returns(t) /\ Quiet(ClientOf[t], want'[t]) /\ want'[t] \notin raced'[ClientOf[t]]) =>
             Serves(host'[t], want'[t])]_vars
  BY <1>1
<1> QED
  BY <1>2, BeliefsAreBacked, DiscoveryInvariantHolds, PTL DEF DiscoverySpec, ReturnedHostServes
-----------------------------------------------------------------------------
(* The other direction: nothing that is registered is missing from what a  *)
(* client believes.  A close sends an OFFLINE for every registration, but  *)
(* an answer lists a connection once, however often it has registered the  *)
(* method: behind an address it shares with another server, the second     *)
(* OFFLINE would erase that server's entry.  So this needs that no method  *)
(* is registered twice over one connection; RpcServer::RegistryMethod      *)
(* does not check that, it is for the program that adds the methods.       *)
RegistersOnce ==
  \A c \in Conn : \A i, j \in 1..Len(providerMethods[c]) :
    providerMethods[c][i] = providerMethods[c][j] => i = j

(* x entries and the notifications from place j on make n.                 *)
Balanced(x, q, j, m, h, n) ==
  x + Count(q, j, "SERVICE_ONLINE", m, h) = Count(q, j, "SERVICE_OFFLINE", m, h) + n

AnswersBalanced(q, w, m, h, n) ==
  \A i \in 1..Len(q) :
    (q[i].kind = "response" /\ w[q[i].rid] = m) => Balanced(q[i].hosts[h], q, i + 1, m, h, n)

(* Hosts of m that an answer has yet to bring into the cache: the answer is*)
(* on its way, or its thread has not woken.                                *)
HostsQueued(q, w, m) ==
  \E i \in 1..Len(q) : q[i].kind = "response" /\ w[q[i].rid] = m /\ q[i].rcode = "RCODE_OK"

HostsArrived(c, m) ==
  \E t \in Thread : /\ ClientOf[t] = c /\ pc[t] = "answered" /\ want[t] = m
                    /\ answer[t].rcode = "RCODE_OK"

(* Every answer to c about m, and its cache unless there are such hosts,   *)
(* will tell what is registered when what was sent after it is handled.    *)
Exact(c, m, h) ==
  LET q == toClient[c]
      n == Cardinality(Registrations(m, h))
  IN  /\ AnswersBalanced(q, want, m, h, n)
      /\ \A t \in Thread :
           (ClientOf[t] = c /\ pc[t] = "answered" /\ want[t] = m /\ t \notin stale) =>
             Balanced(answer[t].hosts[h], q, 1, m, h, n)
      /\ (c \in discoverers[m] /\ m \notin raced[c]
            /\ ~ HostsQueued(q, want, m) /\ ~ HostsArrived(c, m)) =>
           Balanced(cache[c][m][h], q, 1, m, h, n)

EInv == \A c \in Client \cap connected, m \in Method, h \in Host : Exact(c, m, h)
-----------------------------------------------------------------------------
(* A balance is kept when what is sent makes up exactly for the            *)
(* registrations that change.                                              *)
LEMMA BalancedGrows ==
  ASSUME NEW q \in Seq(Queued), NEW ns \in Seq(Queued), NEW j \in 1..Len(q) + 1,
         NEW m, NEW h, NEW x \in Nat, NEW n \in Nat, NEW k \in Nat,
         Count(ns, 1, "SERVICE_ONLINE", m, h) + n = Count(ns, 1, "SERVICE_OFFLINE", m, h) + k,
         Balanced(x, q, j, m, h, n)
  PROVE  Balanced(x, q \o ns, j, m, h, k)
<1>1. /\ Count(ns, 1, "SERVICE_ONLINE", m, h) \in Nat /\ Count(ns, 1, "SERVICE_OFFLINE", m, h) \in Nat
      /\ Count(q, j, "SERVICE_ONLINE", m, h) \in Nat /\ Count(q, j, "SERVICE_OFFLINE", m, h) \in Nat
  BY CountIsNat
<1>2. Count(q \o ns, j, "SERVICE_ONLINE", m, h)
        = Count(q, j, "SERVICE_ONLINE", m, h) + Count(ns, 1, "SERVICE_ONLINE", m, h)
  BY CountConcat
<1>3. Count(q \o ns, j, "SERVICE_OFFLINE", m, h)
        = Count(q, j, "SERVICE_OFFLINE", m, h) + Count(ns, 1, "SERVICE_OFFLINE", m, h)
  BY CountConcat
<1>4. x + Count(q, j, "SERVICE_ONLINE", m, h) = Count(q, j, "SERVICE_OFFLINE", m, h) + n
  BY DEF Balanced
<1> DEFINE a == Count(q, j, "SERVICE_ONLINE", m, h)
           b == Count(q, j, "SERVICE_OFFLINE", m, h)
           c == Count(ns, 1, "SERVICE_ONLINE", m, h)
           d == Count(ns, 1, "SERVICE_OFFLINE", m, h)
<1>5. x + (a + c) = (b + d) + k
  <2>1. a \in Nat /\ b \in Nat /\ c \in Nat /\ d \in Nat /\ x + a = b + n /\ c + n = d + k
    BY <1>1, <1>4
  <2> HIDE DEF a, b, c, d
  <2> QED
    BY <2>1
<1>6. x + Count(q \o ns, j, "SERVICE_ONLINE", m, h) = Count(q \o ns, j, "SERVICE_OFFLINE", m, h) + k
  BY <1>2, <1>3, <1>5
<1> QED
  BY <1>6 DEF Balanced

(* From its end on, a queue says nothing.                                  *)
LEMMA BalancedEnd ==
  ASSUME NEW q \in Seq(Queued), NEW m, NEW h, NEW x \in Nat, NEW n \in Nat
  PROVE  Balanced(x, q, Len(q) + 1, m, h, n) <=> x = n
<1>1. Len(q) + 1 \in Nat /\ Len(q) + 1 .. Len(q) = {}
  OBVIOUS
<1>2. Count(q, Len(q) + 1, "SERVICE_ONLINE", m, h) = 0 /\ Count(q, Len(q) + 1, "SERVICE_OFFLINE", m, h) = 0
  BY <1>1, NoneSaid
<1> QED
  BY <1>2 DEF Balanced

(* Behind the first message the tail balances.                             *)
LEMMA BalancedTail ==
  ASSUME NEW q \in Seq(Queued), q # <<>>, NEW m, NEW h, NEW x, NEW n,
         NEW j \in 1..Len(q)
  PROVE  Balanced(x, q, j + 1, m, h, n) <=> Balanced(x, Tail(q), j, m, h, n)
<1>1. Count(q, j + 1, "SERVICE_ONLINE", m, h) = Count(Tail(q), j, "SERVICE_ONLINE", m, h)
  BY CountNext
<1>2. Count(q, j + 1, "SERVICE_OFFLINE", m, h) = Count(Tail(q), j, "SERVICE_OFFLINE", m, h)
  BY CountNext
<1> QED
  BY <1>1, <1>2 DEF Balanced

(* The answers left after the first message is taken are balanced.         *)
LEMMA BalancedAnswersTail ==
  ASSUME NEW q \in Seq(Queued), q # <<>>, NEW w, NEW m, NEW h, NEW n,
         AnswersBalanced(q, w, m, h, n)
  PROVE  AnswersBalanced(Tail(q), w, m, h, n)
<1> DEFINE r == Tail(q)
<1> SUFFICES ASSUME NEW i \in 1..Len(r), r[i].kind = "response", w[r[i].rid] = m
             PROVE  Balanced(r[i].hosts[h], r, i + 1, m, h, n)
  BY DEF AnswersBalanced
<1>1. i + 1 \in 1..Len(q) /\ r[i] = q[i + 1]
  BY TailAt
<1>2. Balanced(q[i + 1].hosts[h], q, (i + 1) + 1, m, h, n)
  BY <1>1 DEF AnswersBalanced
<1> HIDE DEF r
<1>3. Balanced(q[i + 1].hosts[h], r, i + 1, m, h, n)
  BY <1>1, <1>2, BalancedTail DEF r
<1> QED
  BY <1>1, <1>3

(* The message at place j counts once if it says so.                       *)
LEMMA CountFrom ==
  ASSUME NEW q \in Seq(Queued), NEW j \in 1..Len(q), NEW op, NEW m, NEW h
  PROVE  Count(q, j, op, m, h) = (IF Says(q[j], op, m, h) THEN 1 ELSE 0)
                                   + Count(q, j + 1, op, m, h)
<1> DEFINE S == Places(q, j + 1, op, m, h)
<1>1. Len(q) \in Nat /\ j \in Nat /\ j + 1 \in Nat /\ j..Len(q) = {j} \cup (j + 1 .. Len(q))
      /\ j \notin j + 1 .. Len(q)
  OBVIOUS
<1>2. Places(q, j, op, m, h) = S \cup (IF Says(q[j], op, m, h) THEN {j} ELSE {})
  BY <1>1 DEF Places
<1>3. j \notin S /\ IsFiniteSet(S) /\ Cardinality(S) \in Nat
  <2>1. j \notin S
    BY <1>1 DEF Places
  <2>2. IsFiniteSet(S)
    BY <1>1, CountIsNat
  <2> HIDE DEF S
  <2> QED
    BY <2>1, <2>2, FS_CardinalityType
<1> HIDE DEF S
<1>4. CASE Says(q[j], op, m, h)
  <2>1. Places(q, j, op, m, h) = S \cup {j}
    BY <1>2, <1>4
  <2>2. Cardinality(S \cup {j}) = Cardinality(S) + 1
    BY <1>3, FS_AddElement
  <2> QED
    BY <1>3, <1>4, <2>1, <2>2 DEF Count, S
<1>5. CASE ~ Says(q[j], op, m, h)
  <2>1. Places(q, j, op, m, h) = S
    BY <1>2, <1>5
  <2> QED
    BY <1>3, <1>5, <2>1 DEF Count, S
<1> QED
  BY <1>4, <1>5

(* A list that has noted the message at place j is balanced by the rest.   *)
LEMMA BalancedNoted ==
  ASSUME NEW q \in Seq(Queued), NEW j \in 1..Len(q), NEW m \in Method, NEW h \in Host, NEW n \in Nat,
         NEW hosts \in HostBag,
         NotesCovered(q, m, h, n), Balanced(hosts[h], q, j, m, h, n)
  PROVE  Balanced(Noted(hosts, q[j], m)[h], q, j + 1, m, h, n)
<1> DEFINE msg == q[j]
           a == Count(q, j + 1, "SERVICE_ONLINE", m, h)
           b == Count(q, j + 1, "SERVICE_OFFLINE", m, h)
           x == hosts[h]
<1>0. /\ msg \in Queued /\ j + 1 \in 1..Len(q) + 1 /\ j + 1 \in Nat /\ x \in Nat
  BY DEF HostBag
<1>1. Count(q, j, "SERVICE_ONLINE", m, h) = (IF Says(msg, "SERVICE_ONLINE", m, h) THEN 1 ELSE 0) + a
  BY CountFrom
<1>2. Count(q, j, "SERVICE_OFFLINE", m, h) = (IF Says(msg, "SERVICE_OFFLINE", m, h) THEN 1 ELSE 0) + b
  BY CountFrom
<1>3. a \in Nat /\ b \in Nat
  BY <1>0, CountIsNat
<1>4. 0 + a <= b + n
  BY <1>0 DEF NotesCovered, Covered
<1>5. x + Count(q, j, "SERVICE_ONLINE", m, h) = Count(q, j, "SERVICE_OFFLINE", m, h) + n
  BY DEF Balanced
<1>6. msg.kind = "notify" => msg.optype \in {"SERVICE_ONLINE", "SERVICE_OFFLINE"} /\ msg.host \in Host
  BY <1>0 DEF Queued, Responses, Notifications
<1> HIDE DEF msg
<1>7. ~ (Says(msg, "SERVICE_ONLINE", m, h) /\ Says(msg, "SERVICE_OFFLINE", m, h))
  BY DEF Says
<1>8. Noted(hosts, msg, m)[h] =
        IF Says(msg, "SERVICE_ONLINE", m, h) THEN x + 1
        ELSE IF Says(msg, "SERVICE_OFFLINE", m, h) /\ x # 0 THEN x - 1
        ELSE x
  <2>1. CASE msg.kind # "notify" \/ msg.method # m
    BY <2>1 DEF Noted, Says
  <2>2. CASE msg.kind = "notify" /\ msg.method = m /\ msg.optype = "SERVICE_ONLINE"
    BY <1>6, <2>2 DEF Noted, Says, AppendHost, HostBag
  <2>3. CASE msg.kind = "notify" /\ msg.method = m /\ msg.optype = "SERVICE_OFFLINE"
    BY <1>6, <2>3 DEF Noted, Says, RemoveHost, HostBag
  <2> QED
    BY <1>6, <2>1, <2>2, <2>3
<1>9. Noted(hosts, msg, m)[h] + a = b + n
  <2> HIDE DEF a, b, x
  <2>1. CASE Says(msg, "SERVICE_ONLINE", m, h)
    <3>1. x + (1 + a) = (0 + b) + n /\ Noted(hosts, msg, m)[h] = x + 1
      BY <1>1, <1>2, <1>5, <1>7, <1>8, <2>1 DEF x
    <3> QED
      BY <1>0, <1>3, <3>1
  <2>2. CASE Says(msg, "SERVICE_OFFLINE", m, h)
    <3>1. x + (0 + a) = (1 + b) + n
      BY <1>1, <1>2, <1>5, <1>7, <2>2 DEF x
    <3>2. x # 0
      BY <1>0, <1>3, <1>4, <3>1
    <3>3. Noted(hosts, msg, m)[h] = x - 1
      BY <1>7, <1>8, <2>2, <3>2
    <3> QED
      BY <1>0, <1>3, <3>1, <3>3
  <2>3. CASE ~ Says(msg, "SERVICE_ONLINE", m, h) /\ ~ Says(msg, "SERVICE_OFFLINE", m, h)
    <3>1. x + (0 + a) = (0 + b) + n /\ Noted(hosts, msg, m)[h] = x
      BY <1>1, <1>2, <1>5, <1>8, <2>3 DEF x
    <3> QED
      BY <1>0, <1>3, <3>1
  <2> QED
    BY <2>1, <2>2, <2>3
<1> QED
  BY <1>9 DEF Balanced, msg, a, b

(* A queue that grows by what the change of registrations is worth.        *)
LEMMA AnswersBalancedGrow ==
  ASSUME NEW q \in Seq(Queued), NEW ns \in Seq(Queued), NEW w,
         NEW m, NEW h \in Host, NEW n \in Nat, NEW k \in Nat,
         Count(ns, 1, "SERVICE_ONLINE", m, h) + n = Count(ns, 1, "SERVICE_OFFLINE", m, h) + k,
         AnswersBalanced(q, w, m, h, n), AnswersBalanced(ns, w, m, h, k)
  PROVE  AnswersBalanced(q \o ns, w, m, h, k)
<1> DEFINE r == q \o ns
<1>0. /\ Len(q) \in Nat /\ Len(ns) \in Nat
      /\ \A i \in 1..Len(q) : r[i] = q[i]
      /\ \A i \in 1..Len(ns) : r[Len(q) + i] = ns[i]
  BY ConcatAt
<1> SUFFICES ASSUME NEW i \in 1..Len(r), r[i].kind = "response", w[r[i].rid] = m
             PROVE  Balanced(r[i].hosts[h], r, i + 1, m, h, k)
  BY DEF AnswersBalanced
<1>1. CASE i \in 1..Len(q)
  <2>1. r[i] = q[i] /\ i + 1 \in 1..Len(q) + 1
    BY <1>0, <1>1
  <2>2. Balanced(q[i].hosts[h], q, i + 1, m, h, n)
    BY <1>1, <2>1 DEF AnswersBalanced
  <2>3. q[i].hosts[h] \in Nat
    BY <1>1, <2>1, HostsOfAnswer
  <2>4. Balanced(q[i].hosts[h], r, i + 1, m, h, k)
    BY <2>1, <2>2, <2>3, BalancedGrows
  <2> QED
    BY <2>1, <2>4
<1>2. ASSUME NEW j \in 1..Len(ns), i = Len(q) + j PROVE Balanced(r[i].hosts[h], r, i + 1, m, h, k)
  <2>1. r[i] = ns[j] /\ j + 1 \in 1..Len(ns) + 1 /\ i + 1 = Len(q) + (j + 1)
    BY <1>0, <1>2
  <2>2. Balanced(ns[j].hosts[h], ns, j + 1, m, h, k)
    BY <2>1 DEF AnswersBalanced
  <2> HIDE DEF r
  <2>3. \A op : Count(r, Len(q) + (j + 1), op, m, h) = Count(ns, j + 1, op, m, h)
    BY <2>1, CountBehind DEF r
  <2>4. Balanced(ns[j].hosts[h], r, Len(q) + (j + 1), m, h, k)
    BY <2>2, <2>3 DEF Balanced
  <2> QED
    BY <2>1, <2>4
<1>3. i \in 1..Len(r) + 0
  BY <1>0
<1> QED
  <2>1. i \in 1..Len(q) + 0 \/ \E j \in 1..Len(ns) + 0 : i = Len(q) + j
    BY <1>3, PlacesOfConcat
  <2>2. Len(q) + 0 = Len(q) /\ Len(ns) + 0 = Len(ns)
    BY <1>0
  <2> QED
    BY <1>1, <1>2, <2>1, <2>2

(* A first message that says nothing about h changes no balance.           *)
LEMMA BalancedUnsaid ==
  ASSUME NEW q \in Seq(Queued), q # <<>>, NEW m, NEW h, NEW x, NEW n,
         ~ Says(Head(q), "SERVICE_ONLINE", m, h), ~ Says(Head(q), "SERVICE_OFFLINE", m, h)
  PROVE  Balanced(x, q, 1, m, h, n) <=> Balanced(x, Tail(q), 1, m, h, n)
<1>0. Tail(q) \in Seq(Queued)
  BY TailAt
<1>1. Count(q, 1, "SERVICE_ONLINE", m, h) = 0 + Count(Tail(q), 1, "SERVICE_ONLINE", m, h)
  BY CountTail
<1>2. Count(q, 1, "SERVICE_OFFLINE", m, h) = 0 + Count(Tail(q), 1, "SERVICE_OFFLINE", m, h)
  BY CountTail
<1>3. Count(Tail(q), 1, "SERVICE_ONLINE", m, h) \in Nat /\ Count(Tail(q), 1, "SERVICE_OFFLINE", m, h) \in Nat
  BY <1>0, CountIsNat
<1> QED
  BY <1>1, <1>2, <1>3 DEF Balanced

(* Where no method is registered twice over one connection, a discovery    *)
(* answers exactly what is registered.                                     *)
LEMMA AnswerIsExact ==
  ASSUME IInv, FiniteRegistrations, RegistersOnce, NEW m \in Method, NEW h \in Host
  PROVE  GetMethodHosts(m)[h] = Cardinality(Registrations(m, h))
<1> DEFINE S == {p \in providers[m] : providerHost[p] = h}
           T == Registrations(m, h)
           place(p) == CHOOSE i \in 1..Len(providerMethods[p]) : providerMethods[p][i] = m
           f == [p \in S |-> <<p, place(p)>>]
<1>1. IsFiniteSet(T)
  BY DEF FiniteRegistrations
<1>2. ASSUME NEW p \in S
      PROVE  /\ <<p, place(p)>> \in T
             /\ place(p) \in 1..Len(providerMethods[p]) /\ providerMethods[p][place(p)] = m
  <2>1. p \in Conn /\ providerMethods[p] \in Seq(Method) /\ \E i \in 1..Len(providerMethods[p]) : providerMethods[p][i] = m
    BY DEF IInv, MapsTypeOK, IndexesAgree, Offers
  <2>2. place(p) \in 1..Len(providerMethods[p]) /\ providerMethods[p][place(p)] = m
    BY <2>1
  <2>3. place(p) \in Nat
    BY <2>1, <2>2
  <2> HIDE DEF place
  <2> QED
    BY <2>1, <2>2, <2>3 DEF Registrations, Registered
<1>3. ASSUME NEW r \in T PROVE r[1] \in S /\ f[r[1]] = r
  <2>1. /\ r \in Conn \X Nat /\ r[1] \in Conn /\ r = <<r[1], r[2]>>
        /\ r[2] \in 1..Len(providerMethods[r[1]]) /\ providerMethods[r[1]][r[2]] = m
        /\ providerHost[r[1]] = h
    BY DEF Registrations, Registered
  <2>2. r[1] \in S
    BY <2>1 DEF IInv, IndexesAgree, Offers
  <2>3. place(r[1]) \in 1..Len(providerMethods[r[1]]) /\ providerMethods[r[1]][place(r[1])] = m
    BY <1>2, <2>2
  <2> HIDE DEF place
  <2>4. place(r[1]) = r[2]
    BY <2>1, <2>3 DEF RegistersOnce
  <2> QED
    BY <2>1, <2>2, <2>4
<1>4. f \in [S -> T] /\ \A p, r \in S : f[p] = f[r] => p = r
  <2> HIDE DEF place, T
  <2> QED
    BY <1>2
<1>5. Cardinality(S) = Cardinality(T)
  <2> HIDE DEF f, S, T
  <2>1. \A r \in T : \E p \in S : f[p] = r
    BY <1>3
  <2> QED
    BY <1>1, <1>4, <2>1, SameSize
<1> QED
  BY <1>5 DEF GetMethodHosts
-----------------------------------------------------------------------------
(* Induction over the naturals, for a set: the least number outside it     *)
(* would be the successor of one inside.                                   *)
LEMMA SetInduction ==
  ASSUME NEW S, 0 \in S, \A n \in Nat : n \in S => n + 1 \in S
  PROVE  Nat \subseteq S
<1> DEFINE T == Nat \ S
<1>1. SUFFICES ASSUME T # {} PROVE FALSE
  OBVIOUS
<1>2. IsWellFoundedOn(OpToRel(<, Nat), Nat)
  BY NatLessThanWellFounded
<1>3. T \subseteq Nat
  OBVIOUS
<1>4. \E x \in T : \A y \in T : ~ (<<y, x>> \in OpToRel(<, Nat))
  <2> HIDE DEF T
  <2> QED
    BY <1>1, <1>2, <1>3, WFMin
<1>5. PICK x \in T : \A y \in T : ~ (<<y, x>> \in OpToRel(<, Nat))
  BY <1>4
<1>6. x \in Nat /\ x # 0 /\ x - 1 \in Nat /\ x - 1 < x
  OBVIOUS
<1>7. x - 1 \in S
  BY <1>5, <1>6 DEF OpToRel
<1>8. (x - 1) + 1 \in S
  BY <1>6, <1>7
<1> QED
  BY <1>6, <1>8

(* Whatever a message says, noting it leaves a list of hosts.              *)
LEMMA NotedStaysABag ==
  ASSUME NEW hosts \in HostBag, NEW msg \in Queued, NEW m
  PROVE  Noted(hosts, msg, m) \in HostBag
<1>1. CASE msg \in Notifications
  BY <1>1, NotedIsABag
<1>2. CASE msg \notin Notifications
  <2>1. msg.kind # "notify"
    BY <1>2 DEF Queued, Responses
  <2> QED
    BY <2>1 DEF Noted
<1> QED
  BY <1>1, <1>2

(* The recursive function that CacheToCome evaluates satisfies its         *)
(* equation.                                                               *)
LEMMA HostsFunction ==
  ASSUME NEW q \in Seq(Queued), NEW b, NEW m
  PROVE  \E f : f = [i \in 0 .. Len(q) |-> IF i = 0 THEN b ELSE Noted(f[i - 1], q[i], m)]
<1> DEFINE Is(k, f) == f = [i \in 0 .. k |-> IF i = 0 THEN b ELSE Noted(f[i - 1], q[i], m)]
           S == {k \in Nat : \E f : Is(k, f)}
<1>1. 0 \in S
  <2> DEFINE f == [i \in 0 .. 0 |-> b]
  <2>1. Is(0, f)
    OBVIOUS
  <2> HIDE DEF f
  <2> QED
    BY <2>1
<1>2. ASSUME NEW k \in Nat, k \in S PROVE k + 1 \in S
  <2>1. PICK f : Is(k, f)
    BY <1>2
  <2> DEFINE g == [i \in 0 .. k + 1 |-> IF i = k + 1 THEN Noted(f[k], q[k + 1], m) ELSE f[i]]
  <2>2. ASSUME NEW i \in 0 .. k + 1
        PROVE  g[i] = IF i = 0 THEN b ELSE Noted(g[i - 1], q[i], m)
    <3>1. CASE i = k + 1
      <4>1. i # 0 /\ i - 1 = k /\ k \in 0 .. k + 1 /\ k # k + 1
        BY <3>1
      <4>2. g[i] = Noted(f[k], q[i], m)
        BY <3>1
      <4>3. g[i - 1] = f[k]
        BY <4>1
      <4> QED
        BY <4>1, <4>2, <4>3
    <3>2. CASE i # k + 1
      <4>1. i \in 0 .. k
        BY <3>2
      <4>2. g[i] = f[i]
        BY <3>2
      <4>3. f[i] = IF i = 0 THEN b ELSE Noted(f[i - 1], q[i], m)
        BY <2>1, <4>1
      <4>4. i # 0 => g[i - 1] = f[i - 1]
        BY <4>1
      <4> QED
        BY <4>2, <4>3, <4>4
    <3> QED
      BY <3>1, <3>2
  <2>3. Is(k + 1, g)
    BY <2>2
  <2>4. k + 1 \in Nat
    OBVIOUS
  <2> HIDE DEF g
  <2> QED
    BY <2>3, <2>4
<1> HIDE DEF S
<1>3. Nat \subseteq S
  BY <1>1, <1>2, SetInduction
<1> QED
  BY <1>3, SMTT(30) DEF S

(* Once its queue is handled, a client lists a host as often as it is      *)
(* registered, if its cache is balanced by the queue now.                  *)
LEMMA ToCome ==
  ASSUME NEW c \in Client, NEW m \in Method, toClient[c] \in Seq(Queued), cache[c][m] \in HostBag,
         NEW h \in Host, NEW n \in Nat,
         NotesCovered(toClient[c], m, h, n), Balanced(cache[c][m][h], toClient[c], 1, m, h, n)
  PROVE  CacheToCome(c, m)[h] = n
<1> DEFINE q == toClient[c]
           Is(f) == f = [i \in 0 .. Len(q) |-> IF i = 0 THEN cache[c][m] ELSE Noted(f[i - 1], q[i], m)]
           hosts == CHOOSE f : Is(f)
<1>1. \E f : Is(f)
  <2> DEFINE b == cache[c][m]
             r == toClient[c]
  <2>1. r \in Seq(Queued)
    OBVIOUS
  <2>2. \E f : f = [i \in 0 .. Len(r) |-> IF i = 0 THEN b ELSE Noted(f[i - 1], r[i], m)]
    <3> HIDE DEF b, r
    <3> QED
      BY <2>1, HostsFunction, SMTT(30)
  <2> QED
    BY <2>2
<1>2. Is(hosts)
  <2> HIDE DEF Is
  <2> QED
    BY <1>1
<1>3. CacheToCome(c, m) = hosts[Len(q)]
  BY DEF CacheToCome
<1> HIDE DEF hosts
<1>4. Len(q) \in Nat
  OBVIOUS
<1> DEFINE S == {k \in Nat : k <= Len(q) => /\ hosts[k] \in HostBag
                                            /\ Balanced(hosts[k][h], q, k + 1, m, h, n)}
<1>5. 0 \in S
  <2>1. 0 \in 0 .. Len(q) /\ 0 + 1 = 1
    BY <1>4
  <2>2. hosts[0] = cache[c][m]
    BY <1>2, <2>1
  <2> QED
    BY <2>1, <2>2
<1>6. ASSUME NEW k \in Nat, k \in S PROVE k + 1 \in S
  <2> SUFFICES ASSUME k + 1 <= Len(q)
               PROVE  /\ hosts[k + 1] \in HostBag
                      /\ Balanced(hosts[k + 1][h], q, (k + 1) + 1, m, h, n)
    OBVIOUS
  <2>1. /\ k + 1 \in 0 .. Len(q) /\ k + 1 \in 1 .. Len(q) /\ k + 1 # 0 /\ (k + 1) - 1 = k
        /\ k <= Len(q)
    BY <1>4
  <2>2. hosts[k + 1] = Noted(hosts[k], q[k + 1], m)
    BY <1>2, <2>1
  <2>3. hosts[k] \in HostBag /\ Balanced(hosts[k][h], q, k + 1, m, h, n)
    BY <1>6, <2>1
  <2>4. q[k + 1] \in Queued
    BY <2>1
  <2>5. Noted(hosts[k], q[k + 1], m) \in HostBag
    BY <2>3, <2>4, NotedStaysABag
  <2>6. Balanced(Noted(hosts[k], q[k + 1], m)[h], q, (k + 1) + 1, m, h, n)
    BY <2>1, <2>3, BalancedNoted
  <2> QED
    BY <2>2, <2>5, <2>6
<1> HIDE DEF S
<1>7. Nat \subseteq S
  BY <1>5, <1>6, SetInduction
<1>8. hosts[Len(q)] \in HostBag /\ Balanced(hosts[Len(q)][h], q, Len(q) + 1, m, h, n)
  BY <1>4, <1>7, SMTT(30) DEF S
<1>9. hosts[Len(q)][h] \in Nat
  BY <1>8 DEF HostBag
<1>10. hosts[Len(q)][h] = n
  BY <1>8, <1>9, BalancedEnd
<1> QED
  BY <1>3, <1>10
-----------------------------------------------------------------------------
(* How the steps keep those balances.                                      *)
LEMMA AnsweredHasHosts ==
  ASSUME DInv, NEW c \in Client, NEW m \in Method, NEW h \in Host
  PROVE  /\ toClient[c] \in Seq(Queued) /\ Len(toClient[c]) \in Nat
         /\ cache[c][m] \in HostBag /\ cache[c][m][h] \in Nat
         /\ \A t \in Thread : pc[t] = "answered" => answer[t].hosts[h] \in Nat
<1>1. toClient[c] \in Seq(Queued)
  BY ClientIsConn DEF DInv, QueuesTyped
<1>2. Len(toClient[c]) \in Nat
  <2> DEFINE q == toClient[c]
  <2> HIDE DEF q
  <2>1. q \in Seq(Queued)
    BY <1>1 DEF q
  <2>2. Len(q) \in Nat
    BY <2>1
  <2> QED
    BY <2>2 DEF q
<1> QED
  BY <1>1, <1>2 DEF DInv, CallTypes, CallStages, HostBag, Responses

(* Nothing that the belief of client c about m is made of has changed, or  *)
(* only towards waiting for hosts.                                         *)
LEMMA ExactAfter ==
  ASSUME DInv, NEW c \in Client, NEW m \in Method, NEW h \in Host, Exact(c, m, h),
         Registrations(m, h)' = Registrations(m, h), toClient'[c] = toClient[c],
         cache'[c][m] = cache[c][m], m \in raced[c] => m \in raced'[c],
         c \in discoverers'[m] => c \in discoverers[m],
         HostsArrived(c, m) => HostsArrived(c, m)',
         \A t \in Thread : ClientOf[t] = c =>
           /\ pc[t] = "waiting" => want'[t] = want[t]
           /\ pc'[t] = "answered" =>
                /\ pc[t] = "answered" /\ want'[t] = want[t] /\ answer'[t] = answer[t]
                /\ t \notin stale' => t \notin stale
  PROVE  Exact(c, m, h)'
<1> DEFINE q == toClient[c]
           n == Cardinality(Registrations(m, h))
<1>1. ASSUME NEW i \in 1..Len(q), q[i].kind = "response" PROVE want'[q[i].rid] = want[q[i].rid]
  BY <1>1, QueuedAnswerIsDue
<1>2. AnswersBalanced(q, want', m, h, n)
  BY <1>1 DEF Exact, AnswersBalanced
<1>3. HostsQueued(q, want, m) => HostsQueued(q, want', m)
  BY <1>1 DEF HostsQueued
<1>4. ASSUME NEW t \in Thread, ClientOf[t] = c, pc'[t] = "answered", want'[t] = m, t \notin stale'
      PROVE  Balanced(answer'[t].hosts[h], q, 1, m, h, n)
  BY <1>4 DEF Exact
<1> HIDE DEF q, n
<1>5. (c \in discoverers[m] /\ m \notin raced[c] /\ ~ HostsQueued(q, want, m) /\ ~ HostsArrived(c, m)) =>
        Balanced(cache[c][m][h], q, 1, m, h, n)
  BY DEF Exact, q, n
<1>6. q = toClient'[c] /\ n = Cardinality(Registrations(m, h)')
  BY DEF q, n
<1>7. (c \in discoverers'[m] /\ m \notin raced'[c] /\ ~ HostsQueued(q, want', m) /\ ~ HostsArrived(c, m)') =>
        Balanced(cache'[c][m][h], q, 1, m, h, n)
  BY <1>3, <1>5
<1> QED
  BY <1>2, <1>4, <1>6, <1>7 DEF Exact

(* Before its first discovery of m, c has nothing to be exact about.       *)
LEMMA UnheardIsExact ==
  ASSUME DInv', NEW c \in Client, NEW m \in Method, NEW h \in Host,
         Unheard(c, m)', c \notin discoverers'[m]
  PROVE  Exact(c, m, h)'
<1> DEFINE q == toClient'[c]
<1>1. \A t \in Thread : (ClientOf[t] = c /\ want'[t] = m) => pc'[t] \notin {"waiting", "answered"}
  BY DEF Unheard
<1>2. \A i \in 1..Len(q) : ~ (q[i].kind = "response" /\ want'[q[i].rid] = m)
  <2> SUFFICES ASSUME NEW i \in 1..Len(q), q[i].kind = "response", want'[q[i].rid] = m PROVE FALSE
    OBVIOUS
  <2>1. q[i].rid \in Thread /\ ClientOf[q[i].rid] = c
    BY DEF DInv, Own, OwnAnswers
  <2>2. AnswerDue(q[i].rid, c \in connected', pc'[q[i].rid], q) /\ i \in Answers(q, q[i].rid)
    BY <2>1 DEF DInv, Due, Answers
  <2>3. pc'[q[i].rid] = "waiting"
    BY <2>2 DEF AnswerDue
  <2> QED
    BY <1>1, <2>1, <2>3
<1> QED
  BY <1>1, <1>2 DEF Exact, AnswersBalanced

(* The registry sends c something.                                         *)
LEMMA ExactGrows ==
  ASSUME DInv, NEW c \in Client, NEW m \in Method, NEW h \in Host, Exact(c, m, h),
         FiniteRegistrations, FiniteRegistrations', NEW ns \in Seq(Queued),
         toClient'[c] = toClient[c] \o ns,
         Count(ns, 1, "SERVICE_ONLINE", m, h) + Cardinality(Registrations(m, h)) =
           Count(ns, 1, "SERVICE_OFFLINE", m, h) + Cardinality(Registrations(m, h)'),
         AnswersBalanced(ns, want, m, h, Cardinality(Registrations(m, h)')),
         (c \in discoverers'[m] /\ m \notin raced[c] /\ ~ HostsQueued(toClient[c], want, m)
            /\ ~ HostsQueued(ns, want, m) /\ ~ HostsArrived(c, m)) =>
           Balanced(cache[c][m][h], toClient[c], 1, m, h, Cardinality(Registrations(m, h))),
         cache' = cache, raced' = raced, want' = want, answer' = answer, stale' = stale,
         \A t \in Thread : pc'[t] = "answered" <=> pc[t] = "answered"
  PROVE  Exact(c, m, h)'
<1> DEFINE q == toClient[c]
           n == Cardinality(Registrations(m, h))
           k == Cardinality(Registrations(m, h)')
<1>1. n \in Nat /\ k \in Nat /\ q \in Seq(Queued)
  BY AnsweredHasHosts, FS_CardinalityType DEF FiniteRegistrations
<1>2. /\ AnswersBalanced(q, want, m, h, n)
      /\ \A t \in Thread :
           (ClientOf[t] = c /\ pc[t] = "answered" /\ want[t] = m /\ t \notin stale) =>
             Balanced(answer[t].hosts[h], q, 1, m, h, n)
  BY DEF Exact
<1>3. cache[c][m][h] \in Nat /\ \A t \in Thread : pc[t] = "answered" => answer[t].hosts[h] \in Nat
  BY AnsweredHasHosts
<1>4. HostsArrived(c, m)' <=> HostsArrived(c, m)
  BY DEF HostsArrived
<1> HIDE DEF n, k
<1>5. Count(ns, 1, "SERVICE_ONLINE", m, h) + n = Count(ns, 1, "SERVICE_OFFLINE", m, h) + k
  BY DEF n, k
<1>6. AnswersBalanced(ns, want, m, h, k) /\ toClient'[c] = q \o ns
  BY DEF k
<1>7. (c \in discoverers'[m] /\ m \notin raced[c] /\ ~ HostsQueued(q, want, m)
         /\ ~ HostsQueued(ns, want, m) /\ ~ HostsArrived(c, m)) =>
        Balanced(cache[c][m][h], q, 1, m, h, n)
  BY DEF n
<1> HIDE DEF q
<1>8. AnswersBalanced(q \o ns, want, m, h, k)
  BY <1>1, <1>2, <1>5, <1>6, AnswersBalancedGrow
<1>9. ASSUME NEW x \in Nat, Balanced(x, q, 1, m, h, n) PROVE Balanced(x, q \o ns, 1, m, h, k)
  <2>1. 1 \in 1..Len(q) + 1
    BY <1>1
  <2> QED
    BY <1>1, <1>5, <1>9, <2>1, BalancedGrows
<1>10. HostsQueued(q, want, m) \/ HostsQueued(ns, want, m) => HostsQueued(q \o ns, want, m)
  <2>1. /\ Len(q) \in Nat /\ Len(ns) \in Nat /\ Len(q \o ns) = Len(q) + Len(ns)
        /\ \A i \in 1..Len(q) : (q \o ns)[i] = q[i]
        /\ \A i \in 1..Len(ns) : (q \o ns)[Len(q) + i] = ns[i]
    BY <1>1, ConcatAt
  <2>2. /\ \A i \in 1..Len(q) : i \in 1..Len(q \o ns)
        /\ \A i \in 1..Len(ns) : Len(q) + i \in 1..Len(q \o ns)
    BY <2>1
  <2> QED
    BY <2>1, <2>2 DEF HostsQueued
<1>11. (c \in discoverers'[m] /\ m \notin raced'[c] /\ ~ HostsQueued(q \o ns, want', m)
          /\ ~ HostsArrived(c, m)') =>
         Balanced(cache'[c][m][h], q \o ns, 1, m, h, k)
  BY <1>3, <1>4, <1>7, <1>9, <1>10
<1>12. \A t \in Thread :
         (ClientOf[t] = c /\ pc'[t] = "answered" /\ want'[t] = m /\ t \notin stale') =>
           Balanced(answer'[t].hosts[h], q \o ns, 1, m, h, k)
  BY <1>2, <1>3, <1>9
<1> QED
  BY <1>6, <1>8, <1>11, <1>12 DEF Exact, k

(* What the registry tells a client of what it changes keeps the balances. *)
LEMMA ServerKeepsExact ==
  ASSUME DInv, DInv', BInv, BInv', EInv, OneAddressEach, UNCHANGED clientVars, NEW p \in Conn,
         OnConnShutdown(p) \/ (p \notin Client /\ ProviderStep(p))
  PROVE  EInv'
<1> SUFFICES ASSUME NEW c \in Client \cap connected', NEW m \in Method, NEW h \in Host
             PROVE  Exact(c, m, h)'
  BY DEF EInv
<1>1. /\ FiniteRegistrations /\ FiniteRegistrations' /\ c \in connected /\ Told(c)
      /\ c \in discoverers'[m] <=> c \in discoverers[m]
  BY ServerTells DEF BInv
<1>2. Unheard(c, m)' /\ Exact(c, m, h)
  BY <1>1 DEF BInv, Beliefs, EInv
<1>3. /\ cache' = cache /\ raced' = raced /\ want' = want /\ answer' = answer /\ stale' = stale
      /\ pc' = pc
  BY DEF clientVars, threadVars, auxVars
<1>4. CASE c \notin discoverers[m]
  BY <1>1, <1>2, <1>4, UnheardIsExact
<1>5. CASE c \in discoverers[m]
  <2>1. PICK ns \in Seq(Notifications) :
          /\ toClient'[c] = toClient[c] \o ns
          /\ Count(ns, 1, "SERVICE_ONLINE", m, h) + Cardinality(Registrations(m, h)) =
               Count(ns, 1, "SERVICE_OFFLINE", m, h) + Cardinality(Registrations(m, h)')
    BY <1>1, <1>5 DEF Told
  <2>2. ns \in Seq(Queued) /\ \A i \in 1..Len(ns) : ns[i].kind = "notify"
    <3>1. Notifications \subseteq Queued /\ \A x \in Notifications : x.kind = "notify"
      BY DEF Queued, Notifications
    <3> HIDE DEF Queued
    <3>2. \A i \in 1..Len(ns) : ns[i] \in Notifications
      OBVIOUS
    <3>3. ns \in Seq(Queued)
      BY <3>1
    <3> QED
      BY <3>1, <3>2, <3>3
  <2>3. AnswersBalanced(ns, want, m, h, Cardinality(Registrations(m, h)'))
    BY <2>2 DEF AnswersBalanced
  <2>4. (c \in discoverers'[m] /\ m \notin raced[c] /\ ~ HostsQueued(toClient[c], want, m)
           /\ ~ HostsQueued(ns, want, m) /\ ~ HostsArrived(c, m)) =>
          Balanced(cache[c][m][h], toClient[c], 1, m, h, Cardinality(Registrations(m, h)))
    BY <1>2, <1>5 DEF Exact
  <2> QED
    BY <1>1, <1>2, <1>3, <2>1, <2>2, <2>3, <2>4, ExactGrows
<1> QED
  BY <1>4, <1>5

(* The steps of a thread of a client.                                      *)
LEMMA UserKeepsExact ==
  ASSUME DInv, BInv, EInv, NEW t \in Thread, NEW a \in Method,
         ReturnCached(t, a) \/ SendDiscovery(t, a) \/ Resume(t)
  PROVE  EInv'
<1>0. /\ CallTypes /\ FiniteRegistrations /\ pc[t] \in {"idle", "returned"}
      /\ UNCHANGED serverVars
      /\ cache' = cache /\ raced' = raced /\ answer' = answer /\ stale' = stale
      /\ want' = [want EXCEPT ![t] = a] \/ want' = want
      /\ pc' = [pc EXCEPT ![t] = "returned"] \/ pc' = [pc EXCEPT ![t] = "sent"]
           \/ pc' = [pc EXCEPT ![t] = "idle"]
  BY DEF DInv, BInv, ReturnCached, SendDiscovery, Resume, auxVars
<1>1. /\ connected' = connected /\ toClient' = toClient /\ discoverers' = discoverers
      /\ providerHost' = providerHost /\ providerMethods' = providerMethods
  BY <1>0 DEF serverVars, providerVars, discovererVars
<1>2. /\ pc'[t] \notin {"waiting", "answered"} /\ pc[t] \notin {"waiting", "answered"}
      /\ \A u \in Thread \ {t} : pc'[u] = pc[u] /\ want'[u] = want[u]
  BY <1>0 DEF CallTypes
<1>3. \A m \in Method, h \in Host : Registrations(m, h)' = Registrations(m, h)
  BY <1>0, <1>1, SameRegistrations
<1>4. ASSUME NEW c \in Client \cap connected', NEW m \in Method, NEW h \in Host PROVE Exact(c, m, h)'
  <2>1. Exact(c, m, h)
    BY <1>1, <1>4 DEF EInv
  <2>2. HostsArrived(c, m) => HostsArrived(c, m)'
    BY <1>0, <1>2 DEF HostsArrived
  <2> QED
    BY <1>0, <1>1, <1>2, <1>3, <2>1, <2>2, ExactAfter
<1> QED
  BY <1>4 DEF EInv

(* The answer installed is balanced as long as no notification was handled *)
(* since it arrived; one without hosts installs nothing.                   *)
LEMMA DiscoveredKeepsExact ==
  ASSUME DInv, BInv, EInv, NEW t \in Thread, Discovered(t)
  PROVE  EInv'
<1> DEFINE d == ClientOf[t]
           a == want[t]
<1>0. /\ CallTypes /\ FiniteRegistrations /\ pc[t] = "answered" /\ d \in Client /\ a \in Method
      /\ UNCHANGED serverVars /\ want' = want
      /\ answer' = [answer EXCEPT ![t] = NoAnswer] /\ stale' = stale \ {t}
      /\ \/ /\ answer[t].rcode # "RCODE_OK"
            /\ cache' = cache /\ raced' = raced /\ pc' = [pc EXCEPT ![t] = "idle"]
         \/ /\ cache' = [cache EXCEPT ![d][a] = answer[t].hosts]
            /\ raced' = [raced EXCEPT ![d] = IF t \in stale THEN @ \cup {a} ELSE @ \ {a}]
            /\ pc' = [pc EXCEPT ![t] = "returned"]
  BY ClientIsConn DEF DInv, BInv, CallTypes, Discovered
<1>1. /\ connected' = connected /\ toClient' = toClient /\ discoverers' = discoverers
      /\ providerHost' = providerHost /\ providerMethods' = providerMethods
  BY <1>0 DEF serverVars, providerVars, discovererVars
<1>2. /\ pc'[t] \notin {"waiting", "answered"}
      /\ \A u \in Thread \ {t} : pc'[u] = pc[u] /\ answer'[u] = answer[u]
      /\ \A c \in Client, m \in Method :
           (c # d \/ m # a) => cache'[c][m] = cache[c][m] /\ (m \in raced'[c] <=> m \in raced[c])
  BY <1>0 DEF CallTypes
<1>3. \A m \in Method, h \in Host : Registrations(m, h)' = Registrations(m, h)
  BY <1>0, <1>1, SameRegistrations
<1>4. ASSUME NEW c \in Client \cap connected', NEW m \in Method, NEW h \in Host PROVE Exact(c, m, h)'
  <2>1. Exact(c, m, h)
    BY <1>1, <1>4 DEF EInv
  <2>2. CASE /\ cache'[c][m] = cache[c][m] /\ (m \in raced[c] => m \in raced'[c])
             /\ c # d \/ m # a \/ answer[t].rcode # "RCODE_OK"
    <3>1. HostsArrived(c, m) => HostsArrived(c, m)'
      BY <1>0, <1>2, <2>2 DEF HostsArrived
    <3> QED
      BY <1>0, <1>1, <1>2, <1>3, <2>1, <2>2, <3>1, ExactAfter
  <2>3. CASE c = d /\ m = a /\ cache' = [cache EXCEPT ![d][a] = answer[t].hosts]
             /\ raced' = [raced EXCEPT ![d] = IF t \in stale THEN @ \cup {a} ELSE @ \ {a}]
    <3> DEFINE q == toClient[c]
               n == Cardinality(Registrations(m, h))
    <3>1. /\ cache'[c][m] = answer[t].hosts
          /\ m \notin raced'[c] => t \notin stale
      BY <1>0, <2>3 DEF CallTypes
    <3>2. m \notin raced'[c] => Balanced(cache'[c][m][h], q, 1, m, h, n)
      BY <1>0, <2>1, <2>3, <3>1 DEF Exact
    <3>3. ASSUME NEW u \in Thread, ClientOf[u] = c, pc'[u] = "answered", want'[u] = m, u \notin stale'
          PROVE  Balanced(answer'[u].hosts[h], q, 1, m, h, n)
      <4>1. u # t
        BY <1>2, <3>3
      <4>2. pc[u] = "answered" /\ answer'[u] = answer[u] /\ u \notin stale /\ want[u] = m
        BY <1>0, <1>2, <3>3, <4>1
      <4> QED
        BY <2>1, <3>3, <4>2 DEF Exact
    <3>4. AnswersBalanced(q, want, m, h, n)
      BY <2>1 DEF Exact
    <3>5. q = toClient'[c] /\ n = Cardinality(Registrations(m, h)') /\ want' = want
      BY <1>0, <1>1, <1>3
    <3> HIDE DEF q, n
    <3> QED
      BY <3>2, <3>3, <3>4, <3>5 DEF Exact
  <2>4. CASE c # d \/ m # a
    BY <1>2, <2>2, <2>4
  <2> QED
    BY <1>0, <2>2, <2>3, <2>4
<1> QED
  BY <1>4 DEF EInv

(* A client that hears of a method for the first time has nothing cached,  *)
(* and if it is told that nobody serves it, rightly so.                    *)
LEMMA FirstHeard ==
  ASSUME DInv, NEW c \in Client, NEW m \in Method, NEW h \in Host,
         Unheard(c, m), c \notin discoverers[m]
  PROVE  Balanced(cache[c][m][h], toClient[c], 1, m, h, 0)
<1> DEFINE q == toClient[c]
<1>1. q \in Seq(Queued) /\ Len(q) \in Nat
  BY AnsweredHasHosts
<1>2. \A i \in 1..Len(q), op \in {"SERVICE_ONLINE", "SERVICE_OFFLINE"} : ~ Says(q[i], op, m, h)
  BY DEF Unheard, Says
<1>3. cache[c][m][h] = 0
  BY DEF Unheard, NoHosts
<1> HIDE DEF q
<1>4. Count(q, 1, "SERVICE_ONLINE", m, h) = 0 /\ Count(q, 1, "SERVICE_OFFLINE", m, h) = 0
  BY <1>1, <1>2, NoneSaid
<1>5. Balanced(0, q, 1, m, h, 0)
  BY <1>4 DEF Balanced
<1> QED
  BY <1>3, <1>5 DEF q

(* The registry's answer names exactly what is registered at that moment.  *)
LEMMA HandleKeepsExact ==
  ASSUME DInv, BInv, EInv, RegistersOnce, NEW t \in Thread, HandleDiscovery(t)
  PROVE  EInv'
<1> DEFINE d == ClientOf[t]
           a == want[t]
           rsp == DiscoveryResponse(t, a)
<1>0. /\ CallTypes /\ FiniteRegistrations /\ Beliefs /\ IInv /\ QueuesTyped
      /\ d \in Client /\ d \in Conn /\ a \in Method /\ t \in Rid /\ pc[t] = "sent"
      /\ pc' = [pc EXCEPT ![t] = "waiting"]
      /\ cache' = cache /\ want' = want /\ answer' = answer /\ stale' = stale /\ raced' = raced
  BY ClientIsConn DEF DInv, BInv, CallTypes, HandleDiscovery, auxVars
<1>1. /\ connected' = connected /\ AddDiscoverer(d, a)
      /\ providerHost' = providerHost /\ providerMethods' = providerMethods
      /\ toClient' = [toClient EXCEPT ![d] = Append(@, rsp)]
  BY DEF HandleDiscovery, OnServiceRequest, OnRegistry, OnDiscovery, OnUnknownOperation, Request,
         Send, providerVars
<1>2. /\ toClient \in [Conn -> Seq(Queued)] /\ toClient[d] \in Seq(Queued)
      /\ rsp \in Queued /\ rsp.kind = "response" /\ rsp.rid = t
      /\ rsp.hosts = GetMethodHosts(a)
      /\ rsp.rcode # "RCODE_OK" => rsp.hosts = NoHosts
  <2>1. rsp \in Responses /\ rsp.rid = t
    BY <1>0, AnswersAreResponses
  <2>2. rsp.hosts = GetMethodHosts(a) /\ (rsp.rcode # "RCODE_OK" => rsp.hosts = NoHosts)
    BY DEF DiscoveryResponse, ServiceResponse
  <2> QED
    BY <1>0, <2>1, <2>2 DEF QueuesTyped, Queued, Responses
<1>3. /\ \A c \in Client \ {d} : toClient'[c] = toClient[c]
      /\ toClient'[d] = Append(toClient[d], rsp)
      /\ \A u \in Thread \ {t} : pc'[u] = pc[u]
      /\ pc'[t] = "waiting"
      /\ \A c \in Client, m \in Method :
           c \in discoverers'[m] => c \in discoverers[m] \/ (c = d /\ m = a)
  BY <1>0, <1>1, <1>2, ClientIsConn DEF CallTypes, AddDiscoverer, IInv, MapsTypeOK
<1>4. FiniteRegistrations' /\ \A m \in Method, h \in Host : Registrations(m, h)' = Registrations(m, h)
  BY <1>0, <1>1, SameRegistrations
<1>5. \A u \in Thread : (pc'[u] = "answered" <=> pc[u] = "answered")
  BY <1>0, <1>3
<1> HIDE DEF rsp
<1>6. ASSUME NEW c \in Client \cap connected', NEW m \in Method, NEW h \in Host PROVE Exact(c, m, h)'
  <2>1. Exact(c, m, h) /\ Unheard(c, m)
    BY <1>0, <1>1, <1>6 DEF EInv, Beliefs
  <2>2. CASE c # d
    <3>1. HostsArrived(c, m) => HostsArrived(c, m)'
      BY <1>0, <1>5 DEF HostsArrived
    <3>2. c \in discoverers'[m] => c \in discoverers[m]
      BY <1>3, <2>2
    <3>3. \A u \in Thread : ClientOf[u] = c =>
            /\ pc[u] = "waiting" => want'[u] = want[u]
            /\ pc'[u] = "answered" =>
                 /\ pc[u] = "answered" /\ want'[u] = want[u] /\ answer'[u] = answer[u]
                 /\ u \notin stale' => u \notin stale
      BY <1>0, <1>5
    <3> QED
      BY <1>0, <1>3, <1>4, <2>1, <2>2, <3>1, <3>2, <3>3, ExactAfter
  <2>3. CASE c = d
    <3> DEFINE n == Cardinality(Registrations(m, h))
               ns == <<rsp>>
    <3>1. n \in Nat /\ n = Cardinality(Registrations(m, h)')
      BY <1>0, <1>4, FS_CardinalityType DEF FiniteRegistrations
    <3>2. ~ Says(rsp, "SERVICE_ONLINE", m, h) /\ ~ Says(rsp, "SERVICE_OFFLINE", m, h)
      BY <1>2 DEF Says
    <3>3. m = a => rsp.hosts[h] = n
      BY <1>0, <1>2, AnswerIsExact
    <3> HIDE DEF n
    <3>4. /\ ns \in Seq(Queued) /\ Len(ns) = 1 /\ ns[1] = rsp
          /\ Count(ns, 1, "SERVICE_ONLINE", m, h) = 0 /\ Count(ns, 1, "SERVICE_OFFLINE", m, h) = 0
      BY <1>2, <3>1, <3>2, OneSaid
    <3>5. toClient'[c] = toClient[c] \o ns
      <4> DEFINE q == toClient[d]
      <4>1. q \in Seq(Queued) /\ toClient'[c] = Append(q, rsp)
        BY <1>2, <1>3, <2>3
      <4> HIDE DEF q
      <4>2. Append(q, rsp) = q \o ns
        BY <1>2, <4>1, AppendIsConcat
      <4> QED
        BY <2>3, <4>1, <4>2 DEF q
    <3> HIDE DEF ns
    <3>6. AnswersBalanced(ns, want, m, h, n)
      <4>1. 1..Len(ns) = {1} /\ 1 + 1 = Len(ns) + 1
        BY <3>4
      <4>2. want[rsp.rid] = m => Balanced(rsp.hosts[h], ns, Len(ns) + 1, m, h, n)
        <5>1. want[rsp.rid] = a
          BY <1>2
        <5>2. Balanced(n, ns, Len(ns) + 1, m, h, n)
          BY <3>1, <3>4, BalancedEnd
        <5> QED
          BY <3>3, <5>1, <5>2
      <4> QED
        BY <3>4, <4>1, <4>2 DEF AnswersBalanced
    <3>7. (c \in discoverers'[m] /\ m \notin raced[c] /\ ~ HostsQueued(toClient[c], want, m)
             /\ ~ HostsQueued(ns, want, m) /\ ~ HostsArrived(c, m)) =>
            Balanced(cache[c][m][h], toClient[c], 1, m, h, n)
      <4>1. CASE c \in discoverers[m]
        BY <2>1, <4>1 DEF Exact, n
      <4>2. ASSUME c \notin discoverers[m], c \in discoverers'[m], ~ HostsQueued(ns, want, m)
            PROVE  Balanced(cache[c][m][h], toClient[c], 1, m, h, n)
        <5>1. m = a
          BY <1>3, <4>2
        <5>2. rsp.rcode # "RCODE_OK"
          <6>1. 1 \in 1..Len(ns) /\ want[ns[1].rid] = m
            BY <1>2, <3>4, <5>1
          <6> QED
            BY <1>2, <3>4, <4>2, <6>1 DEF HostsQueued
        <5>3. n = 0
          BY <1>2, <3>3, <5>1, <5>2 DEF NoHosts
        <5>4. Balanced(cache[c][m][h], toClient[c], 1, m, h, 0)
          BY <2>1, <4>2, FirstHeard
        <5> QED
          BY <5>3, <5>4
      <4> QED
        BY <4>1, <4>2
    <3>8. /\ Count(ns, 1, "SERVICE_ONLINE", m, h) + Cardinality(Registrations(m, h)) =
               Count(ns, 1, "SERVICE_OFFLINE", m, h) + Cardinality(Registrations(m, h)')
          /\ AnswersBalanced(ns, want, m, h, Cardinality(Registrations(m, h)'))
      BY <3>1, <3>4, <3>6 DEF n
    <3>9. (c \in discoverers'[m] /\ m \notin raced[c] /\ ~ HostsQueued(toClient[c], want, m)
             /\ ~ HostsQueued(ns, want, m) /\ ~ HostsArrived(c, m)) =>
            Balanced(cache[c][m][h], toClient[c], 1, m, h, Cardinality(Registrations(m, h)))
      BY <3>7 DEF n
    <3> QED
      BY <1>0, <1>4, <1>5, <2>1, <3>4, <3>5, <3>8, <3>9, ExactGrows
  <2> QED
    BY <2>2, <2>3
<1> QED
  BY <1>6 DEF EInv

(* An answer arrives: nothing overtakes it, and what is behind it balances *)
(* it.                                                                     *)
LEMMA ResponseKeepsExact ==
  ASSUME DInv, BInv, EInv, NEW d \in Client, OnResponse(d)
  PROVE  EInv'
<1> DEFINE q == toClient[d]
           msg == Head(toClient[d])
           t == msg.rid
<1>0. /\ CallTypes /\ FiniteRegistrations /\ Receive(d) /\ msg.kind = "response"
      /\ answer' = [answer EXCEPT ![t] = msg] /\ pc' = [pc EXCEPT ![t] = "answered"]
      /\ cache' = cache /\ want' = want /\ stale' = stale /\ raced' = raced
  BY DEF DInv, BInv, OnResponse, auxVars
<1>1. t \in Thread /\ ClientOf[t] = d /\ pc[t] = "waiting"
  BY <1>0, AnswerMeetsItsCall
<1>2. /\ q \in Seq(Queued) /\ q # <<>> /\ toClient'[d] = Tail(q)
      /\ \A c \in Client \ {d} : toClient'[c] = toClient[c]
      /\ connected' = connected /\ discoverers' = discoverers
      /\ providerHost' = providerHost /\ providerMethods' = providerMethods
  BY <1>0, ClientIsConn DEF DInv, QueuesTyped, Receive, providerVars, discovererVars
<1>3. \A m \in Method, h \in Host : Registrations(m, h)' = Registrations(m, h)
  BY <1>0, <1>2, SameRegistrations
<1>4. /\ pc'[t] = "answered" /\ answer'[t] = msg
      /\ \A u \in Thread \ {t} : pc'[u] = pc[u] /\ answer'[u] = answer[u]
  <2> HIDE DEF msg
  <2> QED
    BY <1>0, <1>1 DEF CallTypes
<1>5. /\ Len(q) \in Nat /\ \A i \in 1..Len(q) : i = 1 \/ (i - 1 \in 1..Len(Tail(q)) /\ Tail(q)[i - 1] = q[i])
      /\ 1 \in 1..Len(q) /\ msg = q[1]
  <2> DEFINE r == q
  <2> HIDE DEF r
  <2>1. r \in Seq(Queued) /\ r # <<>>
    BY <1>2 DEF r
  <2>2. /\ Len(r) \in Nat /\ Len(r) >= 1 /\ Len(Tail(r)) = Len(r) - 1
        /\ \A i \in 1..Len(Tail(r)) : Tail(r)[i] = r[i + 1]
        /\ Head(r) = r[1]
    BY <2>1, TailAt
  <2>3. ASSUME NEW i \in 1..Len(r), i # 1 PROVE i - 1 \in 1..Len(Tail(r)) /\ Tail(r)[i - 1] = r[i]
    <3>1. i - 1 \in 1..Len(Tail(r)) /\ (i - 1) + 1 = i
      BY <2>2, <2>3
    <3> QED
      BY <2>2, <3>1
  <2> QED
    BY <2>2, <2>3 DEF r
<1>6. ASSUME NEW c \in Client \cap connected', NEW m \in Method, NEW h \in Host PROVE Exact(c, m, h)'
  <2>1. Exact(c, m, h)
    BY <1>2, <1>6 DEF EInv
  <2>2. CASE c # d
    <3>1. \A u \in Thread : ClientOf[u] = c => pc'[u] = pc[u] /\ answer'[u] = answer[u]
      BY <1>1, <1>4, <2>2
    <3>2. HostsArrived(c, m) => HostsArrived(c, m)'
      BY <1>0, <3>1 DEF HostsArrived
    <3> QED
      BY <1>0, <1>2, <1>3, <2>1, <2>2, <3>1, <3>2, ExactAfter
  <2>3. CASE c = d
    <3> DEFINE n == Cardinality(Registrations(m, h))
    <3>1. /\ AnswersBalanced(q, want, m, h, n)
          /\ \A u \in Thread :
               (ClientOf[u] = c /\ pc[u] = "answered" /\ want[u] = m /\ u \notin stale) =>
                 Balanced(answer[u].hosts[h], q, 1, m, h, n)
          /\ (c \in discoverers[m] /\ m \notin raced[c]
                /\ ~ HostsQueued(q, want, m) /\ ~ HostsArrived(c, m)) =>
               Balanced(cache[c][m][h], q, 1, m, h, n)
      BY <2>1, <2>3 DEF Exact
    <3>2. ~ Says(msg, "SERVICE_ONLINE", m, h) /\ ~ Says(msg, "SERVICE_OFFLINE", m, h)
      BY <1>0 DEF Says
    <3>3. want[t] = m => Balanced(msg.hosts[h], q, 1 + 1, m, h, n)
      BY <1>0, <1>5, <3>1 DEF AnswersBalanced
    <3>4. n = Cardinality(Registrations(m, h)')
      BY <1>3
    <3>5. msg = Head(q)
      OBVIOUS
    <3>6. HostsArrived(c, m) => HostsArrived(c, m)'
      BY <1>0, <1>1, <1>4 DEF HostsArrived
    <3>7. HostsQueued(q, want, m) => HostsQueued(Tail(q), want, m) \/ HostsArrived(c, m)'
      <4> SUFFICES ASSUME NEW i \in 1..Len(q), q[i].kind = "response", want[q[i].rid] = m,
                          q[i].rcode = "RCODE_OK"
                   PROVE  HostsQueued(Tail(q), want, m) \/ HostsArrived(c, m)'
        BY DEF HostsQueued
      <4>1. CASE i = 1
        <5>1. q[i] = msg
          BY <1>5, <4>1
        <5>2. want[t] = m /\ msg.rcode = "RCODE_OK"
          BY <5>1
        <5> HIDE DEF q, msg
        <5> QED
          BY <1>0, <1>1, <1>4, <2>3, <5>2 DEF HostsArrived
      <4>2. CASE i # 1
        <5>1. i - 1 \in 1..Len(Tail(q)) /\ Tail(q)[i - 1] = q[i]
          BY <1>5, <4>2
        <5> HIDE DEF q
        <5> QED
          BY <5>1 DEF HostsQueued
      <4> QED
        BY <4>1, <4>2
    <3> HIDE DEF q, n, msg
    <3>8. AnswersBalanced(Tail(q), want, m, h, n)
      BY <1>2, <3>1, BalancedAnswersTail
    <3>9. \A x : Balanced(x, q, 1, m, h, n) => Balanced(x, Tail(q), 1, m, h, n)
      <4>1. ~ Says(Head(q), "SERVICE_ONLINE", m, h) /\ ~ Says(Head(q), "SERVICE_OFFLINE", m, h)
        BY <3>2, <3>5
      <4> QED
        BY <1>2, <4>1, BalancedUnsaid
    <3>10. want[t] = m => Balanced(msg.hosts[h], Tail(q), 1, m, h, n)
      BY <1>2, <1>5, <3>3, BalancedTail
    <3>11. ASSUME NEW u \in Thread, ClientOf[u] = c, pc'[u] = "answered", want'[u] = m, u \notin stale'
           PROVE  Balanced(answer'[u].hosts[h], Tail(q), 1, m, h, n)
      <4>1. CASE u = t
        BY <1>0, <1>4, <3>10, <3>11, <4>1
      <4>2. CASE u # t
        BY <1>0, <1>4, <3>1, <3>9, <3>11, <4>2
      <4> QED
        BY <4>1, <4>2
    <3> HIDE DEF t
    <3>12. (c \in discoverers'[m] /\ m \notin raced'[c]
              /\ ~ HostsQueued(Tail(q), want, m) /\ ~ HostsArrived(c, m)') =>
             Balanced(cache'[c][m][h], Tail(q), 1, m, h, n)
      BY <1>0, <1>2, <3>1, <3>6, <3>7, <3>9
    <3>13. toClient'[c] = Tail(q) /\ want' = want
      BY <1>0, <1>2, <2>3
    <3> QED
      BY <3>4, <3>8, <3>11, <3>12, <3>13 DEF Exact
  <2> QED
    BY <2>2, <2>3
<1> QED
  BY <1>6 DEF EInv

(* A notification is noted, and the answers it has overtaken are outdated. *)
LEMMA NotificationKeepsExact ==
  ASSUME DInv, BInv, EInv, NEW d \in Client, OnNotification(d)
  PROVE  EInv'
<1> DEFINE q == toClient[d]
           msg == Head(toClient[d])
           a == msg.method
<1>0. /\ CallTypes /\ FiniteRegistrations /\ Beliefs /\ Receive(d) /\ msg.kind = "notify"
      /\ cache' = [cache EXCEPT ![d][a] = Noted(@, msg, a)]
      /\ stale' = stale \cup {t \in Thread : ClientOf[t] = d /\ pc[t] = "answered" /\ want[t] = a}
      /\ pc' = pc /\ want' = want /\ answer' = answer /\ raced' = raced
  BY DEF DInv, BInv, OnNotification, threadVars
<1>1. /\ q \in Seq(Queued) /\ q # <<>> /\ toClient'[d] = Tail(q)
      /\ \A c \in Client \ {d} : toClient'[c] = toClient[c]
      /\ connected' = connected /\ discoverers' = discoverers
      /\ providerHost' = providerHost /\ providerMethods' = providerMethods
  BY <1>0, ClientIsConn DEF DInv, QueuesTyped, Receive, providerVars, discovererVars
<1>2. \A m \in Method, h \in Host : Registrations(m, h)' = Registrations(m, h)
  BY <1>0, <1>1, SameRegistrations
<1>3. /\ Len(q) \in Nat /\ \A i \in 1..Len(q) : i = 1 \/ (i - 1 \in 1..Len(Tail(q)) /\ Tail(q)[i - 1] = q[i])
      /\ 1 \in 1..Len(q) /\ msg = q[1] /\ msg \in Queued
  <2> DEFINE r == q
  <2> HIDE DEF r
  <2>1. r \in Seq(Queued) /\ r # <<>>
    BY <1>1 DEF r
  <2>2. /\ Len(r) \in Nat /\ Len(r) >= 1 /\ Len(Tail(r)) = Len(r) - 1
        /\ \A i \in 1..Len(Tail(r)) : Tail(r)[i] = r[i + 1]
        /\ Head(r) = r[1] /\ Head(r) \in Queued
    BY <2>1, TailAt
  <2>3. ASSUME NEW i \in 1..Len(r), i # 1 PROVE i - 1 \in 1..Len(Tail(r)) /\ Tail(r)[i - 1] = r[i]
    <3>1. i - 1 \in 1..Len(Tail(r)) /\ (i - 1) + 1 = i
      BY <2>2, <2>3
    <3> QED
      BY <2>2, <3>1
  <2> QED
    BY <2>2, <2>3 DEF r
<1>4. msg \in Notifications /\ a \in Method
  BY <1>0, <1>3 DEF Queued, Responses, Notifications
<1>5. \A c \in Client, m \in Method :
        cache'[c][m] = IF c = d /\ m = a THEN Noted(cache[d][a], msg, a) ELSE cache[c][m]
  <2> HIDE DEF msg
  <2> QED
    BY <1>0, <1>4 DEF CallTypes
<1>6. ASSUME NEW c \in Client \cap connected', NEW m \in Method, NEW h \in Host PROVE Exact(c, m, h)'
  <2>1. Exact(c, m, h) /\ Backed(c, m, h)
    BY <1>0, <1>1, <1>6 DEF EInv, Beliefs
  <2>2. HostsArrived(c, m)' <=> HostsArrived(c, m)
    BY <1>0 DEF HostsArrived
  <2>3. CASE c # d
    <3>1. cache'[c][m] = cache[c][m] /\ \A t \in Thread : t \notin stale' => t \notin stale
      BY <1>0, <1>5, <2>3
    <3> QED
      BY <1>0, <1>1, <1>2, <2>1, <2>2, <2>3, <3>1, ExactAfter
  <2>4. CASE c = d
    <3> DEFINE n == Cardinality(Registrations(m, h))
    <3>1. /\ NotesCovered(q, m, h, n) /\ AnswersBalanced(q, want, m, h, n)
          /\ \A u \in Thread :
               (ClientOf[u] = c /\ pc[u] = "answered" /\ want[u] = m /\ u \notin stale) =>
                 Balanced(answer[u].hosts[h], q, 1, m, h, n)
          /\ (c \in discoverers[m] /\ m \notin raced[c]
                /\ ~ HostsQueued(q, want, m) /\ ~ HostsArrived(c, m)) =>
               Balanced(cache[c][m][h], q, 1, m, h, n)
      BY <2>1, <2>4 DEF Exact, Backed
    <3>2. n \in Nat /\ n = Cardinality(Registrations(m, h)')
      BY <1>0, <1>2, FS_CardinalityType DEF FiniteRegistrations
    <3>3. cache[c][m] \in HostBag
      BY <1>0 DEF CallTypes
    <3>4. msg = Head(q)
      OBVIOUS
    <3>5. HostsQueued(q, want, m) => HostsQueued(Tail(q), want, m)
      <4> SUFFICES ASSUME NEW i \in 1..Len(q), q[i].kind = "response", want[q[i].rid] = m,
                          q[i].rcode = "RCODE_OK"
                   PROVE  HostsQueued(Tail(q), want, m)
        BY DEF HostsQueued
      <4>1. i # 1
        BY <1>0, <1>3
      <4>2. i - 1 \in 1..Len(Tail(q)) /\ Tail(q)[i - 1] = q[i]
        BY <1>3, <4>1
      <4> HIDE DEF q
      <4> QED
        BY <4>2 DEF HostsQueued
    <3> HIDE DEF q, n, msg
    <3>6. AnswersBalanced(Tail(q), want, m, h, n)
      BY <1>1, <3>1, BalancedAnswersTail
    <3>7. ASSUME m # a, NEW x, Balanced(x, q, 1, m, h, n) PROVE Balanced(x, Tail(q), 1, m, h, n)
      <4>1. ~ Says(Head(q), "SERVICE_ONLINE", m, h) /\ ~ Says(Head(q), "SERVICE_OFFLINE", m, h)
        BY <3>4, <3>7 DEF Says
      <4> QED
        BY <1>1, <3>7, <4>1, BalancedUnsaid
    <3>8. Balanced(cache[c][m][h], q, 1, m, h, n) => Balanced(cache'[c][m][h], Tail(q), 1, m, h, n)
      <4> SUFFICES ASSUME Balanced(cache[c][m][h], q, 1, m, h, n)
                   PROVE  Balanced(cache'[c][m][h], Tail(q), 1, m, h, n)
        OBVIOUS
      <4>1. CASE m = a
        <5>1. cache'[c][m] = Noted(cache[c][m], q[1], m)
          BY <1>3, <1>5, <2>4, <4>1
        <5>2. Balanced(Noted(cache[c][m], q[1], m)[h], q, 1 + 1, m, h, n)
          BY <1>1, <1>3, <3>1, <3>2, <3>3, BalancedNoted
        <5>3. Balanced(Noted(cache[c][m], q[1], m)[h], Tail(q), 1, m, h, n)
          BY <1>1, <1>3, <5>2, BalancedTail
        <5> QED
          BY <5>1, <5>3
      <4>2. CASE m # a
        BY <1>5, <3>7, <4>2
      <4> QED
        BY <4>1, <4>2
    <3>9. (c \in discoverers'[m] /\ m \notin raced'[c]
             /\ ~ HostsQueued(Tail(q), want, m) /\ ~ HostsArrived(c, m)') =>
            Balanced(cache'[c][m][h], Tail(q), 1, m, h, n)
      BY <1>0, <1>1, <2>2, <3>1, <3>5, <3>8
    <3>10. ASSUME NEW u \in Thread, ClientOf[u] = c, pc'[u] = "answered", want'[u] = m, u \notin stale'
           PROVE  Balanced(answer'[u].hosts[h], Tail(q), 1, m, h, n)
      <4>1. m # a /\ pc[u] = "answered" /\ want[u] = m /\ u \notin stale /\ answer'[u] = answer[u]
        BY <1>0, <2>4, <3>10
      <4> QED
        BY <3>1, <3>7, <3>10, <4>1
    <3>11. toClient'[c] = Tail(q) /\ want' = want
      BY <1>0, <1>1, <2>4
    <3> HIDE DEF a
    <3> QED
      BY <3>2, <3>6, <3>9, <3>10, <3>11 DEF Exact
  <2> QED
    BY <2>3, <2>4
<1> QED
  BY <1>6 DEF EInv
-----------------------------------------------------------------------------
(* At the start nobody has discovered anything.                            *)
LEMMA ExactInit == DiscoveryInit => EInv
<1> SUFFICES ASSUME DiscoveryInit, NEW c \in Client, NEW m \in Method, NEW h \in Host
             PROVE  Exact(c, m, h)
  BY DEF EInv
<1>1. toClient[c] = <<>> /\ c \notin discoverers[m] /\ \A t \in Thread : pc[t] = "idle"
  BY ClientIsConn DEF DiscoveryInit
<1>2. AnswersBalanced(<<>>, want, m, h, Cardinality(Registrations(m, h)))
  BY DEF AnswersBalanced
<1> QED
  BY <1>1, <1>2 DEF Exact

(* Every step keeps the balances.                                          *)
LEMMA ExactStep ==
  ASSUME OneAddressEach, RegistersOnce, DInv, BInv, EInv, DiscoveryNext \/ UNCHANGED vars
  PROVE  EInv'
<1>0. DInv' /\ BInv'
  BY DiscoveryStepPreserves, BeliefsStep
<1>1. CASE UNCHANGED vars
  <2>1. /\ CallTypes /\ FiniteRegistrations /\ UNCHANGED serverVars /\ cache' = cache
        /\ raced' = raced /\ want' = want /\ answer' = answer /\ stale' = stale /\ pc' = pc
    BY <1>1 DEF DInv, BInv, vars, clientVars, threadVars, auxVars
  <2>2. /\ connected' = connected /\ toClient' = toClient /\ discoverers' = discoverers
        /\ providerHost' = providerHost /\ providerMethods' = providerMethods
    BY <2>1 DEF serverVars, providerVars, discovererVars
  <2>3. \A m \in Method, h \in Host : Registrations(m, h)' = Registrations(m, h)
    BY <2>1, <2>2, SameRegistrations
  <2>4. ASSUME NEW c \in Client \cap connected', NEW m \in Method, NEW h \in Host
        PROVE  Exact(c, m, h)'
    <3>1. Exact(c, m, h)
      BY <2>2 DEF EInv
    <3>2. HostsArrived(c, m) => HostsArrived(c, m)'
      BY <2>1 DEF HostsArrived
    <3> QED
      BY <2>1, <2>2, <2>3, <3>1, <3>2, ExactAfter
  <2> QED
    BY <2>4 DEF EInv
<1>2. ASSUME NEW t \in Thread, NEW m \in Method, ReturnCached(t, m) \/ SendDiscovery(t, m)
      PROVE  EInv'
  BY <1>2, UserKeepsExact
<1>3. ASSUME NEW t \in Thread, Resume(t) PROVE EInv'
  <2>1. want[t] \in Method
    BY DEF DInv, CallTypes
  <2> QED
    BY <1>3, <2>1, UserKeepsExact
<1>4. ASSUME NEW t \in Thread, HandleDiscovery(t) \/ Discovered(t) PROVE EInv'
  BY <1>4, HandleKeepsExact, DiscoveredKeepsExact
<1>5. ASSUME NEW c \in Client, OnResponse(c) \/ OnNotification(c) PROVE EInv'
  BY <1>5, ResponseKeepsExact, NotificationKeepsExact
<1>6. ASSUME NEW c \in Client, LoseRegistry(c) PROVE EInv'
  <2>1. c \in Conn /\ OnConnShutdown(c) /\ UNCHANGED clientVars
    BY <1>6, ClientIsConn DEF LoseRegistry
  <2> QED
    BY <1>0, <2>1, ServerKeepsExact
<1>7. ASSUME NEW p \in Conn \ Client, ProviderStep(p) PROVE EInv'
  <2>1. UNCHANGED clientVars
    BY <1>7 DEF ProviderStep
  <2> QED
    BY <1>0, <1>7, <2>1, ServerKeepsExact
<1> QED
  BY <1>1, <1>2, <1>3, <1>4, <1>5, <1>6, <1>7 DEF DiscoveryNext, IOThread

(* A settled method has no hosts on their way, so its cache is balanced.   *)
LEMMA SettledIsExact ==
  ASSUME DInv, BInv, EInv, RegistersOnce, NEW c \in Client \cap connected, NEW m \in Method,
         c \in discoverers[m], Settled(c, m), m \notin raced[c], NEW h \in Host
  PROVE  CacheToCome(c, m)[h] = GetMethodHosts(m)[h]
<1> DEFINE n == Cardinality(Registrations(m, h))
<1>1. /\ Exact(c, m, h) /\ NotesCovered(toClient[c], m, h, n) /\ FiniteRegistrations /\ IInv
  BY DEF EInv, BInv, Beliefs, Backed, DInv
<1>2. ~ HostsArrived(c, m)
  BY DEF HostsArrived, Settled
<1>3. ~ HostsQueued(toClient[c], want, m)
  <2> SUFFICES ASSUME NEW i \in 1..Len(toClient[c]), toClient[c][i].kind = "response",
                      want[toClient[c][i].rid] = m
               PROVE  FALSE
    BY DEF HostsQueued
  <2> QED
    BY QueuedAnswerIsDue DEF Settled
<1>4. Balanced(cache[c][m][h], toClient[c], 1, m, h, n)
  BY <1>1, <1>2, <1>3 DEF Exact
<1>5. n \in Nat /\ toClient[c] \in Seq(Queued) /\ cache[c][m] \in HostBag
  BY <1>1, AnsweredHasHosts, FS_CardinalityType DEF FiniteRegistrations
<1> HIDE DEF n
<1>6. CacheToCome(c, m)[h] = n
  BY <1>1, <1>4, <1>5, ToCome
<1>7. GetMethodHosts(m)[h] = n
  BY <1>1, AnswerIsExact DEF n
<1> QED
  BY <1>6, <1>7

(* Whoever has discovered a method is kept up to date by notifications     *)
(* alone, unless an outdated answer was installed: for any number of       *)
(* clients, threads, servers and methods, as long as each connection       *)
(* registers at one address and registers no method twice.                 *)
THEOREM CacheAlwaysFollowsRegistry ==
  OneAddressEach => (DiscoverySpec /\ []RegistersOnce => []CacheFollowsRegistry)
<1> SUFFICES ASSUME OneAddressEach
             PROVE  DiscoverySpec /\ []RegistersOnce => []CacheFollowsRegistry
  OBVIOUS
<1>1. RegistersOnce /\ DInv /\ BInv /\ EInv /\ [DiscoveryNext]_vars => EInv'
  BY ExactStep
<1>2. DInv /\ BInv /\ EInv /\ RegistersOnce => CacheFollowsRegistry
  <2> SUFFICES ASSUME DInv, BInv, EInv, RegistersOnce,
                      NEW c \in Client \cap connected, NEW m \in Method,
                      c \in discoverers[m], Settled(c, m), m \notin raced[c]
               PROVE  Usable(CacheToCome(c, m)) = Usable(GetMethodHosts(m))
    BY DEF CacheFollowsRegistry
  <2>1. \A h \in Host : CacheToCome(c, m)[h] = GetMethodHosts(m)[h]
    BY SettledIsExact
  <2> QED
    BY <2>1 DEF Usable
<1> QED
  BY <1>1, <1>2, ExactInit, BeliefsAreBacked, DiscoveryInvariantHolds, PTL DEF DiscoverySpec
=============================================================================
