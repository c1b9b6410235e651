----------------------------- MODULE NetworkInt -----------------------------
(***************************************************************************)
(* Integers on the wire (muduo's net/Endian.h): two's complement, most     *)
(* significant byte first.  A byte is a digit in base Base, 256 in the     *)
(* code; a small base shows every case of the sign with few numbers.       *)
(***************************************************************************)
EXTENDS Integers, Sequences

CONSTANT Base

ASSUME BaseAssumption == Base \in Nat \ {0}

Byte == 0 .. Base - 1

(* Base to the power of n: how many values n bytes have. *)
Power(n) ==
  LET power[i \in 0 .. n] == IF i = 0 THEN 1 ELSE Base * power[i - 1]
  IN  power[n]

(* sockets::hostToNetwork of an integer of width bytes. *)
HostToNetwork(x, width) ==
  [i \in 1 .. width |-> (x \div Power(width - i)) % Base]

(* The number whose digits are the bytes of s. *)
Unsigned(s) ==
  LET unsigned[i \in 0 .. Len(s)] ==
        IF i = 0 THEN 0 ELSE Base * unsigned[i - 1] + s[i]
  IN  unsigned[Len(s)]

(* An integer of width bytes: what does not fit counts around to negative. *)
Signed(n, width) == IF 2 * n >= Power(width) THEN n - Power(width) ELSE n

(* sockets::networkToHost: the signed integer a string of bytes stands for. *)
NetworkToHost(s) == Signed(Unsigned(s), Len(s))

=============================================================================
