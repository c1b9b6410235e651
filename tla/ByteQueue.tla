------------------------------ MODULE ByteQueue ------------------------------
(***************************************************************************)
(* What a buffer promises: a queue of bytes, filled at the end and read at *)
(* the front, where either can be undone.                                  *)
(***************************************************************************)
EXTENDS Integers, Sequences

CONSTANTS Byte, MaxInput

VARIABLE queue

Input == UNION {[1 .. n -> Byte] : n \in 0 .. MaxInput}

QueueInit == queue = <<>>

Put(s)     == queue' = queue \o s
PutBack(s) == queue' = s \o queue
Take(n)    == queue' = SubSeq(queue, n + 1, Len(queue))
Undo(n)    == queue' = SubSeq(queue, 1, Len(queue) - n)

QueueNext ==
  \/ \E s \in Input : Put(s) \/ PutBack(s)
  \/ \E n \in 0 .. Len(queue) : Take(n) \/ Undo(n)

QueueSpec == QueueInit /\ [][QueueNext]_queue

=============================================================================
