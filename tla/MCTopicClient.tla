--------------------------- MODULE MCTopicClient ----------------------------
(* A client process with one user thread on connection c1, and c2, a peer  *)
(* that may send the topic server any request at any moment.               *)
EXTENDS TopicClient, TLC

CONSTANTS c1, c2, t1, r

OneProcess == t1 :> c1

=============================================================================
