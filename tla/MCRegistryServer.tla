-------------------------- MODULE MCRegistryServer --------------------------
(* Three connections: c1 and c2 belong to RPC servers, c3 to a discovery   *)
(* client.  c2 has the first address of c1 (it was restarted before its    *)
(* old connection was seen to close); c1 registers at two addresses, as    *)
(* RegistryClient::RegistryMethod(method, host) lets it.  Any of them may  *)
(* also discover.                                                          *)
EXTENDS RegistryServer, TLC

CONSTANTS c1, c2, c3, h1, h2

SharedHosts == (c1 :> {h1, h2}) @@ (c2 :> {h1}) @@ (c3 :> {})

(* Methods are interchangeable: invariants and properties of steps only.   *)
MethodsAlike == Permutations(Method)

=============================================================================
