------------------------------- MODULE Buffer -------------------------------
(***************************************************************************)
(* One muduo::net::Buffer and every operation a caller may make on it.     *)
(* The guards are the assertions of the code and the bounds of the model.  *)
(***************************************************************************)
EXTENDS BufferOps

CONSTANTS
  InitialSize,  \* argument of the constructor
  MaxInput,     \* bound: bytes written by one call
  MaxBytes,     \* bound: bytes of content
  MaxReserve,   \* bound: argument of shrink
  Widths        \* bytes of the integers, {1, 2, 4, 8} in the code

ASSUME CallAssumption ==
  /\ InitialSize \in Nat
  /\ MaxInput \in Nat
  /\ MaxBytes \in Nat
  /\ MaxReserve \in Nat
  /\ Widths \subseteq 1 .. MaxInput

VARIABLE buf

Strings(lengths) == UNION {[1 .. n -> Byte] : n \in lengths}

Init == buf = NewBuffer(InitialSize)

Fits(s) == ReadableBytes(buf) + Len(s) <= MaxBytes

(* append, and readFd, which appends what the socket holds. *)
AppendData(s) == /\ Fits(s)
             /\ buf' = AppendBytes(buf, s)

(* appendInt64 .. appendInt8: the digits of an integer of that width. *)
AppendInt == \E s \in Strings(Widths) : AppendData(s)

Prepend(s) == /\ Len(s) <= PrependableBytes(buf)
              /\ Fits(s)
              /\ buf' = PrependBytes(buf, s)

PrependInt == \E s \in Strings(Widths) : Prepend(s)

(* retrieve, retrieveUntil, retrieveAsString. *)
Remove(len) == /\ len <= ReadableBytes(buf)
               /\ buf' = Retrieve(buf, len)

(* readInt64 .. readInt8 and retrieveInt64 .. retrieveInt8. *)
ReadInt == \E width \in Widths : Remove(width)

RemoveAll == buf' = RetrieveAll(buf)

TakeBack(len) == /\ len <= ReadableBytes(buf)
                 /\ buf' = Unwrite(buf, len)

Reserve(len) == buf' = Shrink(buf, len)

Next ==
  \/ \E s \in Strings(0 .. MaxInput) : AppendData(s) \/ Prepend(s)
  \/ AppendInt
  \/ PrependInt
  \/ \E len \in 0 .. MaxBytes : Remove(len) \/ TakeBack(len)
  \/ ReadInt
  \/ RemoveAll
  \/ \E len \in 0 .. MaxReserve : Reserve(len)

Spec == Init /\ [][Next]_buf

-----------------------------------------------------------------------------

(* Type invariant: no sequence of calls takes an index of the buffer out   *)
(* of order or out of the vector.                                          *)
BufferTypeOK == WellFormed(buf)

(* What makeSpace and ensureWritableBytes assert, for every length they    *)
(* may be called with: there is room for len bytes afterwards, and when    *)
(* the content is moved it is moved down, so std::copy does not overwrite  *)
(* what it has still to copy.                                              *)
SpaceIsMade ==
  \A len \in 0 .. MaxInput :
    LET e == EnsureWritableBytes(buf, len) IN
    /\ WritableBytes(e) >= len
    /\ e.reader # buf.reader => kCheapPrepend < buf.reader

MaxOf(S) == CHOOSE x \in S : \A y \in S : y <= x

(* The vector stays within twice the content it ever has to hold, however  *)
(* long the buffer lives: space that was read is used again.               *)
SizeBounded ==
  buf.size <= kCheapPrepend + MaxOf({InitialSize, kInitialSize,
                                     2 * MaxBytes, MaxBytes + MaxReserve})

(* The vector grows only where the content and the bytes to add do not fit *)
(* into it, or where shrink asks for its reserve.                          *)
GrowsWhenFull ==
  [][buf'.size > buf.size =>
       \/ kCheapPrepend + ReadableBytes(buf') > buf.size
       \/ \E len \in 0 .. MaxReserve : Reserve(len)]_buf

(* However the content is moved about in memory, callers see a queue.      *)
Queue == INSTANCE ByteQueue WITH queue <- Contents(buf)
ImplementsByteQueue == Queue!QueueSpec

=============================================================================
