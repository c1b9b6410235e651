-------------------------------- MODULE Gate --------------------------------
(***************************************************************************)
(* What MuduoClient::Connect promises with its CountDownLatch: it waits    *)
(* until the connection has come up, which happens once, and no longer     *)
(* (common/Net.hpp).                                                       *)
(***************************************************************************)
VARIABLES open, passed

GateInit == open = FALSE /\ passed = FALSE

Open == ~ open /\ open' = TRUE /\ UNCHANGED passed

Pass == open /\ ~ passed /\ passed' = TRUE /\ UNCHANGED open

GateNext == Open \/ Pass

GateSpec == GateInit /\ [][GateNext]_<<open, passed>> /\ WF_<<open, passed>>(Pass)

=============================================================================
