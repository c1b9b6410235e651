-------------------------- MODULE ServiceDirectory --------------------------
(***************************************************************************)
(* What the registry centre promises, without its maps: a directory in     *)
(* which members offer services at one address each, and members seek      *)
(* services.  A member that leaves takes everything of it along.           *)
(***************************************************************************)
CONSTANTS Peer, Address, Service

VARIABLES
  members, \* peers with an open connection
  offers,  \* which member offers which service, and at which address
  seekers  \* which member is to be told about which service

directoryVars == <<members, offers, seekers>>

DirectoryInit ==
  /\ members = {}
  /\ offers = {}
  /\ seekers = {}

Join(p) ==
  /\ p \notin members
  /\ members' = members \cup {p}
  /\ UNCHANGED <<offers, seekers>>

(* A member is known under the address of its first offer.                 *)
Offer(p, a, s) ==
  /\ p \in members
  /\ \E b \in Address :
       /\ \A o \in offers : o.peer = p => o.address = b
       /\ (\A o \in offers : o.peer # p) => b = a
       /\ offers' = offers \cup {[peer |-> p, address |-> b, service |-> s]}
  /\ UNCHANGED <<members, seekers>>

Seek(p, s) ==
  /\ p \in members
  /\ seekers' = seekers \cup {<<p, s>>}
  /\ UNCHANGED <<members, offers>>

Leave(p) ==
  /\ p \in members
  /\ members' = members \ {p}
  /\ offers' = {o \in offers : o.peer # p}
  /\ seekers' = {x \in seekers : x[1] # p}

DirectoryNext ==
  \E p \in Peer :
    \/ Join(p)
    \/ \E s \in Service :
         \/ \E a \in Address : Offer(p, a, s)
         \/ Seek(p, s)
    \/ Leave(p)

DirectorySpec == DirectoryInit /\ [][DirectoryNext]_directoryVars

=============================================================================
