---------------------------- MODULE MCDiscovery -----------------------------
(* One client process with two user threads, and two RPC servers, of which *)
(* p2 starts behind the address of p1 or behind one of its own.  Each      *)
(* registers one method in its life (MaxMethods), hence one address.       *)
EXTENDS Discovery, TLC

CONSTANTS c1, p1, p2, t1, t2, h1, h2

OneClient   == (t1 :> c1) @@ (t2 :> c1)
EitherHost  == (p1 :> {h1}) @@ (p2 :> {h1, h2}) @@ (c1 :> {})

=============================================================================
