-------------------------- MODULE MCClientThreads ---------------------------
(* Two user threads and two clients, so that a callback run by one client  *)
(* may call through the other.  User threads are interchangeable, and so   *)
(* are clients: only invariants are checked, so both sets may be permuted. *)
EXTENDS ClientThreads, TLC

Symmetry == Permutations(Users) \cup Permutations(Clients)

=============================================================================
