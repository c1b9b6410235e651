------------------------------ MODULE MCFraming ------------------------------
(***************************************************************************)
(* Fields of two bytes in base 5, so lengths run from -12 to 12: one       *)
(* frame at the limit, one above it and one whose length wraps.            *)
(***************************************************************************)
EXTENDS Framing

String(n, byte) == [i \in 1 .. n |-> byte]

MCIds    == {String(1, 1)}
MCBodies == {<<>>, String(1, 0), String(4, 0), String(9, 0)}

=============================================================================
