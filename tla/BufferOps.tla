------------------------------ MODULE BufferOps ------------------------------
(***************************************************************************)
(* muduo::net::Buffer (net/Buffer.h) as a value: a vector of bytes and the *)
(* two indexes into it.  The operators below are its member functions, as  *)
(* functions from buffer to buffer; the assertions they start with are the *)
(* guards of the actions of module Buffer, and of the decoder in Framing.  *)
(*                                                                         *)
(* Indexes are size_t in the code; memory runs out long before one of them *)
(* wraps, so they are naturals here.                                       *)
(***************************************************************************)
EXTENDS NetworkInt

CONSTANTS
  kCheapPrepend,  \* space kept in front of the content, 8 in the code
  kInitialSize    \* default size of the content, 1024 in the code

ASSUME BufferAssumption ==
  /\ kCheapPrepend \in Nat
  /\ kInitialSize \in Nat

(* The indexes are in the order the picture in Buffer.h draws, inside the  *)
(* vector.                                                                 *)
WellFormed(b) ==
  /\ b \in [size : Nat, reader : Nat, writer : Nat,
            mem : [0 .. b.size - 1 -> Byte]]
  /\ b.reader <= b.writer
  /\ b.writer <= b.size
  /\ kCheapPrepend <= b.size

(* A vector of n bytes, zero where the old one had none. *)
Resize(mem, old, n) == [i \in 0 .. n - 1 |-> IF i < old THEN mem[i] ELSE 0]

(* std::copy of the string s to position at. *)
CopyTo(mem, at, s) ==
  [i \in DOMAIN mem |-> IF i \in at .. at + Len(s) - 1
                        THEN s[i - at + 1] ELSE mem[i]]

NewBuffer(initialSize) ==
  [size   |-> kCheapPrepend + initialSize,
   reader |-> kCheapPrepend,
   writer |-> kCheapPrepend,
   mem    |-> Resize(<<>>, 0, kCheapPrepend + initialSize)]

ReadableBytes(b)    == b.writer - b.reader
WritableBytes(b)    == b.size - b.writer
PrependableBytes(b) == b.reader

(* What peek() points to, readableBytes() long. *)
Contents(b) == [i \in 1 .. ReadableBytes(b) |-> b.mem[b.reader + i - 1]]

RetrieveAll(b) == [size   |-> b.size,
                   reader |-> kCheapPrepend,
                   writer |-> kCheapPrepend,
                   mem    |-> b.mem]

Retrieve(b, len) ==
  IF len < ReadableBytes(b) THEN [b EXCEPT !.reader = @ + len]
                            ELSE RetrieveAll(b)

(* The string retrieveAsString returns, and the integer peekInt returns. *)
FirstBytes(b, len) == SubSeq(Contents(b), 1, len)
PeekInt(b, width)  == NetworkToHost(FirstBytes(b, width))

(* faulty: the space in front is not counted, so it is never used again. *)
MakeSpaceAtEnd(b, len) ==
  [size |-> b.writer + len, reader |-> b.reader, writer |-> b.writer,
   mem  |-> Resize(b.mem, b.size, b.writer + len)]

(* faulty: the indexes are moved and the content is not. *)
MakeSpaceUncopied(b, len) ==
  IF WritableBytes(b) + PrependableBytes(b) < len + kCheapPrepend
  THEN MakeSpaceAtEnd(b, len)
  ELSE [b EXCEPT !.reader = kCheapPrepend,
                 !.writer = kCheapPrepend + ReadableBytes(b)]

(* Grows the vector, unless the bytes already read leave room enough: then *)
(* the content moves to the front.                                         *)
MakeSpace(b, len) ==
  IF WritableBytes(b) + PrependableBytes(b) < len + kCheapPrepend
  THEN [size |-> b.writer + len, reader |-> b.reader, writer |-> b.writer,
        mem  |-> Resize(b.mem, b.size, b.writer + len)]
  ELSE [size   |-> b.size,
        reader |-> kCheapPrepend,
        writer |-> kCheapPrepend + ReadableBytes(b),
        mem    |-> CopyTo(b.mem, kCheapPrepend, Contents(b))]

EnsureWritableBytes(b, len) ==
  IF WritableBytes(b) < len THEN MakeSpace(b, len) ELSE b

HasWritten(b, len) == [b EXCEPT !.writer = @ + len]

AppendBytes(b, s) ==
  LET e == EnsureWritableBytes(b, Len(s))
  IN  HasWritten([e EXCEPT !.mem = CopyTo(e.mem, e.writer, s)], Len(s))

Unwrite(b, len) == [b EXCEPT !.writer = @ - len]

PrependBytes(b, s) ==
  [size   |-> b.size,
   reader |-> b.reader - Len(s),
   writer |-> b.writer,
   mem    |-> CopyTo(b.mem, b.reader - Len(s), s)]

(* A new buffer of the default size takes the content over, then the two   *)
(* are swapped.                                                            *)
Shrink(b, reserve) ==
  AppendBytes(EnsureWritableBytes(NewBuffer(kInitialSize),
                                  ReadableBytes(b) + reserve),
              Contents(b))

=============================================================================
