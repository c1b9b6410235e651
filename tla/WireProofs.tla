----------------------------- MODULE WireProofs -----------------------------
(***************************************************************************)
(* What travels over a connection: the buffer of muduo keeps its indexes   *)
(* in order, bounds its vector and implements a queue of bytes; an integer *)
(* is read as it was written; the framing hands on what was sent; and a    *)
(* receiver reads from a message what the sender set.  For every base,     *)
(* every size of the fields and the limits, and all messages.              *)
(***************************************************************************)
EXTENDS Buffer, Framing, Messages, SequenceTheorems, FiniteSetTheorems,
        WellFoundedInduction, TLAPS


-----------------------------------------------------------------------------
(* Buffer                                                                  *)

(* The strings a caller passes are sequences of bytes of their length.     *)
LEMMA StringIsSeq ==
  ASSUME NEW n \in Nat, NEW s \in [1 .. n -> Byte]
  PROVE  s \in Seq(Byte) /\ Len(s) = n /\ DOMAIN s = 1 .. n
<1>1. s \in Seq(Byte) BY SeqDef
<1> QED BY <1>1, LenProperties

(* The bytes of a well-formed buffer are a sequence.                       *)
LEMMA ContentsIsSeq ==
  ASSUME NEW b, WellFormed(b)
  PROVE  /\ Contents(b) \in Seq(Byte)
         /\ Len(Contents(b)) = ReadableBytes(b)
         /\ DOMAIN Contents(b) = 1 .. ReadableBytes(b)
         /\ ReadableBytes(b) \in Nat
         /\ \A i \in 1 .. ReadableBytes(b) : Contents(b)[i] = b.mem[b.reader + i - 1]
<1>1. ReadableBytes(b) \in Nat BY DEF WellFormed, ReadableBytes
<1>2. \A i \in 1 .. ReadableBytes(b) : b.mem[b.reader + i - 1] \in Byte
  BY DEF WellFormed, ReadableBytes
<1>3. Contents(b) \in [1 .. ReadableBytes(b) -> Byte]
  BY <1>1, <1>2 DEF Contents
<1> QED BY <1>1, <1>3, StringIsSeq DEF Contents

(* A new buffer is well-formed and empty.                                  *)
LEMMA NewBufferOK ==
  ASSUME NEW n \in Nat
  PROVE  /\ WellFormed(NewBuffer(n))
         /\ NewBuffer(n).size = kCheapPrepend + n
         /\ ReadableBytes(NewBuffer(n)) = 0
         /\ Contents(NewBuffer(n)) = <<>>
<1>1. 0 \in Byte BY BaseAssumption, BufferAssumption DEF Byte
<1>2. WellFormed(NewBuffer(n))
  BY <1>1, BufferAssumption DEF NewBuffer, Resize, WellFormed
<1>3. ReadableBytes(NewBuffer(n)) = 0
  BY BufferAssumption DEF NewBuffer, ReadableBytes
<1>4. Len(Contents(NewBuffer(n))) = 0 BY <1>2, <1>3, ContentsIsSeq
<1>5. Contents(NewBuffer(n)) = <<>> BY <1>2, <1>4, ContentsIsSeq, EmptySeq
<1> QED BY <1>2, <1>3, <1>5 DEF NewBuffer

(* makeSpace: what ensureWritableBytes relies on, the assertion it makes   *)
(* before it moves the content, and that the content stays the same.       *)
LEMMA EnsureWritableBytesOK ==
  ASSUME NEW b, WellFormed(b), NEW len \in Nat
  PROVE  LET e == EnsureWritableBytes(b, len) IN
         /\ WellFormed(e)
         /\ len <= WritableBytes(e)
         /\ ReadableBytes(e) = ReadableBytes(b)
         /\ Contents(e) = Contents(b)
         /\ e.reader # b.reader => kCheapPrepend < b.reader
         /\ e.size # b.size =>
              /\ e.size = b.writer + len
              /\ WritableBytes(b) + PrependableBytes(b) < len + kCheapPrepend
         /\ b.size <= e.size
<1> DEFINE e == EnsureWritableBytes(b, len)
<1>b. kCheapPrepend \in Nat /\ 0 \in Byte BY BaseAssumption, BufferAssumption DEF Byte
<1>1. CASE WritableBytes(b) >= len
  <2>1. e = b BY <1>1 DEF EnsureWritableBytes, WellFormed, WritableBytes
  <2> QED BY <2>1, <1>1 DEF WellFormed
<1>2. CASE /\ WritableBytes(b) < len
           /\ WritableBytes(b) + PrependableBytes(b) < len + kCheapPrepend
  <2>1. e = [size |-> b.writer + len, reader |-> b.reader, writer |-> b.writer,
             mem  |-> Resize(b.mem, b.size, b.writer + len)]
    BY <1>2 DEF EnsureWritableBytes, MakeSpace
  <2>2. /\ e.size = b.writer + len /\ e.reader = b.reader /\ e.writer = b.writer
        /\ e.mem = Resize(b.mem, b.size, b.writer + len)
    BY <2>1
  <2>3. e.mem \in [0 .. e.size - 1 -> Byte]
    BY <1>b, <2>2 DEF Resize, WellFormed
  <2>4. WellFormed(e) /\ b.size <= e.size
    BY <1>2, <2>1, <2>2, <2>3, <1>b DEF WellFormed, WritableBytes
  <2>5. \A i \in 1 .. ReadableBytes(b) :
          e.mem[e.reader + i - 1] = b.mem[b.reader + i - 1]
    BY <2>2, <2>4 DEF Resize, WellFormed, ReadableBytes
  <2>6. ReadableBytes(e) = ReadableBytes(b) BY <2>2 DEF ReadableBytes
  <2>7. Contents(e) = Contents(b) BY <2>5, <2>6 DEF Contents
  <2>8. len <= WritableBytes(e) BY <2>2 DEF WritableBytes, WellFormed
  <2> QED BY <1>2, <2>2, <2>4, <2>6, <2>7, <2>8
<1>3. CASE /\ WritableBytes(b) < len
           /\ WritableBytes(b) + PrependableBytes(b) >= len + kCheapPrepend
  <2> DEFINE m == CopyTo(b.mem, kCheapPrepend, Contents(b))
  <2>1. e = [size   |-> b.size,
             reader |-> kCheapPrepend,
             writer |-> kCheapPrepend + ReadableBytes(b),
             mem    |-> m]
    BY <1>3, <1>b DEF EnsureWritableBytes, MakeSpace, WellFormed, WritableBytes, PrependableBytes
  <2>2. /\ e.size = b.size /\ e.reader = kCheapPrepend
        /\ e.writer = kCheapPrepend + ReadableBytes(b) /\ e.mem = m
    BY <2>1
  <2>3. kCheapPrepend < b.reader
    BY <1>3, <1>b DEF WellFormed, WritableBytes, PrependableBytes
  <2>4. /\ Len(Contents(b)) = ReadableBytes(b)
        /\ \A i \in 1 .. ReadableBytes(b) :
             Contents(b)[i] = b.mem[b.reader + i - 1] /\ Contents(b)[i] \in Byte
        /\ ReadableBytes(b) \in Nat
    BY ContentsIsSeq DEF WellFormed, ReadableBytes
  <2>5. m = [i \in 0 .. b.size - 1 |->
               IF i \in kCheapPrepend .. kCheapPrepend + ReadableBytes(b) - 1
               THEN Contents(b)[i - kCheapPrepend + 1] ELSE b.mem[i]]
    BY <2>4 DEF CopyTo, WellFormed
  <2>6. m \in [0 .. b.size - 1 -> Byte]
    BY <2>4, <2>5, <1>b, SMTT(30) DEF WellFormed
  <2>7. WellFormed(e)
    BY <2>1, <2>2, <2>3, <2>6, <2>4, <1>b DEF WellFormed, ReadableBytes
  <2>8. ReadableBytes(e) = ReadableBytes(b) BY <2>2, <2>4, <1>b DEF ReadableBytes
  <2>9. \A i \in 1 .. ReadableBytes(b) :
          e.mem[e.reader + i - 1] = b.mem[b.reader + i - 1]
    <3> SUFFICES ASSUME NEW i \in 1 .. ReadableBytes(b)
                 PROVE  m[kCheapPrepend + i - 1] = b.mem[b.reader + i - 1]
      BY <2>2
    <3>1. kCheapPrepend + i - 1 \in 0 .. b.size - 1
      BY <2>3, <2>4, <1>b DEF WellFormed, ReadableBytes
    <3>2. kCheapPrepend + i - 1 \in kCheapPrepend .. kCheapPrepend + ReadableBytes(b) - 1
      BY <2>4, <1>b
    <3>3. m[kCheapPrepend + i - 1] = Contents(b)[(kCheapPrepend + i - 1) - kCheapPrepend + 1]
      BY <2>5, <3>1, <3>2
    <3>4. (kCheapPrepend + i - 1) - kCheapPrepend + 1 = i BY <1>b, <2>4
    <3> QED BY <3>3, <3>4, <2>4
  <2>10. Contents(e) = Contents(b) BY <2>8, <2>9 DEF Contents
  <2>11. len <= WritableBytes(e)
    BY <1>3, <2>2, <1>b DEF WellFormed, WritableBytes, PrependableBytes, ReadableBytes
  <2> QED BY <2>2, <2>3, <2>7, <2>8, <2>10, <2>11 DEF WellFormed
<1>4. /\ WritableBytes(b) \in Int
      /\ WritableBytes(b) + PrependableBytes(b) \in Int
  BY DEF WellFormed, WritableBytes, PrependableBytes
<1>5. \/ WritableBytes(b) >= len
      \/ /\ WritableBytes(b) < len
         /\ WritableBytes(b) + PrependableBytes(b) < len + kCheapPrepend
      \/ /\ WritableBytes(b) < len
         /\ WritableBytes(b) + PrependableBytes(b) >= len + kCheapPrepend
  BY <1>4, <1>b
<1> QED BY <1>1, <1>2, <1>3, <1>5

(* A buffer with another vector is otherwise the same. *)
LEMMA MemReplaced ==
  ASSUME NEW A, NEW x \in [size : Nat, reader : Nat, writer : Nat, mem : A], NEW v
  PROVE  [x EXCEPT !.mem = v]
           = [size |-> x.size, reader |-> x.reader, writer |-> x.writer, mem |-> v]
  OBVIOUS

(* append: the content grows by the string, at its end.                    *)
LEMMA AppendBytesOK ==
  ASSUME NEW b, WellFormed(b), NEW s \in Seq(Byte)
  PROVE  LET a == AppendBytes(b, s) IN
         /\ WellFormed(a)
         /\ ReadableBytes(a) = ReadableBytes(b) + Len(s)
         /\ Contents(a) = Contents(b) \o s
         /\ a.size = EnsureWritableBytes(b, Len(s)).size
<1> DEFINE e == EnsureWritableBytes(b, Len(s))
           m == CopyTo(e.mem, e.writer, s)
           a == AppendBytes(b, s)
<1>1. Len(s) \in Nat /\ \A i \in 1 .. Len(s) : s[i] \in Byte
  BY LenProperties, ElementOfSeq
<1>2. /\ WellFormed(e) /\ Len(s) <= WritableBytes(e)
      /\ ReadableBytes(e) = ReadableBytes(b) /\ Contents(e) = Contents(b)
  BY <1>1, EnsureWritableBytesOK
<1> HIDE DEF e
<1>3. a = [size |-> e.size, reader |-> e.reader,
           writer |-> e.writer + Len(s), mem |-> m]
  <2>1. [e EXCEPT !.mem = m]
          = [size |-> e.size, reader |-> e.reader, writer |-> e.writer, mem |-> m]
    <3> DEFINE A == [0 .. e.size - 1 -> Byte]
    <3>1. e \in [size : Nat, reader : Nat, writer : Nat, mem : A]
      BY <1>2 DEF WellFormed
    <3> HIDE DEF m, A
    <3> QED BY <3>1, MemReplaced
  <2>2. a = HasWritten([e EXCEPT !.mem = m], Len(s)) BY DEF AppendBytes, e
  <2> QED BY <2>1, <2>2 DEF HasWritten
<1> HIDE DEF a
<1>4. /\ a.size = e.size /\ a.reader = e.reader
      /\ a.writer = e.writer + Len(s) /\ a.mem = m
  BY <1>3
<1>5. m = [i \in 0 .. e.size - 1 |->
             IF i \in e.writer .. e.writer + Len(s) - 1
             THEN s[i - e.writer + 1] ELSE e.mem[i]]
  BY <1>2 DEF CopyTo, WellFormed
<1>6. m \in [0 .. e.size - 1 -> Byte]
  BY <1>1, <1>2, <1>5, SMTT(30) DEF WellFormed, WritableBytes
<1> HIDE DEF m
<1>7. WellFormed(a)
  BY <1>1, <1>2, <1>3, <1>4, <1>6 DEF WellFormed, WritableBytes
<1>8. ReadableBytes(a) = ReadableBytes(b) + Len(s) /\ ReadableBytes(b) \in Nat
  BY <1>1, <1>2, <1>4 DEF ReadableBytes, WellFormed
<1>9. /\ Contents(a) \in Seq(Byte) /\ Len(Contents(a)) = ReadableBytes(a)
      /\ \A i \in 1 .. ReadableBytes(a) : Contents(a)[i] = a.mem[a.reader + i - 1]
  BY <1>7, ContentsIsSeq
<1>10. /\ Contents(e) \in Seq(Byte) /\ Len(Contents(e)) = ReadableBytes(e)
       /\ \A i \in 1 .. ReadableBytes(e) : Contents(e)[i] = e.mem[e.reader + i - 1]
  BY <1>2, ContentsIsSeq
<1>11. /\ Contents(e) \o s \in Seq(Byte)
       /\ Len(Contents(e) \o s) = ReadableBytes(b) + Len(s)
       /\ \A i \in 1 .. ReadableBytes(b) + Len(s) : (Contents(e) \o s)[i]
            = IF i <= ReadableBytes(b) THEN Contents(e)[i] ELSE s[i - ReadableBytes(b)]
  <2> DEFINE c == Contents(e)
  <2>1. c \in Seq(Byte) /\ Len(c) = ReadableBytes(b) BY <1>2, <1>10
  <2> HIDE DEF c
  <2>2. /\ c \o s \in Seq(Byte) /\ Len(c \o s) = Len(c) + Len(s)
        /\ \A i \in 1 .. Len(c) + Len(s) :
             (c \o s)[i] = IF i <= Len(c) THEN c[i] ELSE s[i - Len(c)]
    BY <2>1, ConcatProperties
  <2> QED BY <2>1, <2>2 DEF c
<1>12. ASSUME NEW i \in 1 .. ReadableBytes(b) + Len(s)
       PROVE  Contents(a)[i] = (Contents(e) \o s)[i]
  <2>1. Contents(a)[i] = m[e.reader + i - 1] BY <1>8, <1>9, <1>4
  <2>2. e.reader \in Nat /\ e.writer = e.reader + ReadableBytes(b) /\ e.size \in Nat
        /\ e.writer + Len(s) <= e.size
    BY <1>2 DEF WellFormed, ReadableBytes, WritableBytes
  <2>3. e.reader + i - 1 \in 0 .. e.size - 1 BY <2>2, <1>1, <1>8
  <2>4. CASE i <= ReadableBytes(b)
    <3>1. e.reader + i - 1 \notin e.writer .. e.writer + Len(s) - 1
      BY <2>2, <2>4, <1>1, <1>8
    <3>2. m[e.reader + i - 1] = e.mem[e.reader + i - 1] BY <1>5, <2>3, <3>1
    <3>3. i \in 1 .. ReadableBytes(e) BY <2>4, <1>1, <1>2, <1>8
    <3> QED BY <2>1, <2>4, <3>2, <3>3, <1>10, <1>11
  <2>5. CASE i > ReadableBytes(b)
    <3>1. e.reader + i - 1 \in e.writer .. e.writer + Len(s) - 1
      BY <2>2, <2>5, <1>1, <1>8
    <3>2. m[e.reader + i - 1] = s[(e.reader + i - 1) - e.writer + 1]
      BY <1>5, <2>3, <3>1
    <3>3. (e.reader + i - 1) - e.writer + 1 = i - ReadableBytes(b)
      BY <2>2, <1>1, <1>8
    <3>4. ~ (i <= ReadableBytes(b)) BY <2>5, <1>1, <1>8
    <3> QED BY <2>1, <3>2, <3>3, <3>4, <1>11
  <2>6. i <= ReadableBytes(b) \/ i > ReadableBytes(b) BY <1>1, <1>8
  <2> QED BY <2>4, <2>5, <2>6
<1>13. Contents(a) = Contents(b) \o s
  <2>1. Len(Contents(a)) = Len(Contents(e) \o s) BY <1>8, <1>9, <1>11
  <2>2. \A i \in 1 .. Len(Contents(a)) : Contents(a)[i] = (Contents(e) \o s)[i]
    BY <1>8, <1>9, <1>12
  <2>3. Contents(a) = Contents(e) \o s BY <1>9, <1>11, <2>1, <2>2, SeqEqual
  <2> QED BY <2>3, <1>2
<1> QED BY <1>4, <1>7, <1>8, <1>13 DEF a, e

(* retrieve: the first len bytes are gone.                                 *)
LEMMA RetrieveOK ==
  ASSUME NEW b, WellFormed(b), NEW len \in 0 .. ReadableBytes(b)
  PROVE  LET r == Retrieve(b, len) IN
         /\ WellFormed(r)
         /\ r.size = b.size
         /\ ReadableBytes(r) = ReadableBytes(b) - len
         /\ Contents(r) = SubSeq(Contents(b), len + 1, Len(Contents(b)))
<1> DEFINE r == Retrieve(b, len)
           rest == SubSeq(Contents(b), len + 1, Len(Contents(b)))
<1>1. /\ Len(Contents(b)) = ReadableBytes(b) /\ ReadableBytes(b) \in Nat
      /\ \A i \in 1 .. ReadableBytes(b) : Contents(b)[i] = b.mem[b.reader + i - 1]
      /\ Contents(b) \in Seq(Byte)
  BY ContentsIsSeq
<1>2. \A i \in len + 1 .. Len(Contents(b)) : Contents(b)[i] \in Byte
  BY <1>1, ElementOfSeq
<1>3. /\ rest \in Seq(Byte) /\ Len(rest) = ReadableBytes(b) - len
      /\ \A i \in 1 .. ReadableBytes(b) - len : rest[i] = Contents(b)[len + i]
  <2>1. len + 1 \in Int /\ Len(Contents(b)) \in Int BY <1>1
  <2>2. /\ rest \in Seq(Byte)
        /\ Len(rest) = IF len + 1 <= Len(Contents(b))
                       THEN Len(Contents(b)) - (len + 1) + 1 ELSE 0
        /\ \A i \in 1 .. Len(Contents(b)) - (len + 1) + 1 :
             rest[i] = Contents(b)[len + 1 + i - 1]
    BY <1>2, <2>1, SubSeqProperties
  <2>3. \A i \in 1 .. ReadableBytes(b) - len : len + 1 + i - 1 = len + i OBVIOUS
  <2> QED BY <1>1, <2>2, <2>3
<1> HIDE DEF rest
<1>4. CASE len < ReadableBytes(b)
  <2>1. r = [b EXCEPT !.reader = b.reader + len] BY <1>4 DEF Retrieve
  <2>2. r = [size |-> b.size, reader |-> b.reader + len, writer |-> b.writer,
             mem |-> b.mem]
    BY <2>1 DEF WellFormed
  <2> HIDE DEF r
  <2>3. /\ r.size = b.size /\ r.reader = b.reader + len
        /\ r.writer = b.writer /\ r.mem = b.mem
    BY <2>2
  <2>4. WellFormed(r) BY <1>4, <2>2, <2>3 DEF WellFormed, ReadableBytes
  <2>5. ReadableBytes(r) = ReadableBytes(b) - len
    BY <2>3 DEF ReadableBytes, WellFormed
  <2>6. /\ Contents(r) \in Seq(Byte) /\ Len(Contents(r)) = ReadableBytes(r)
        /\ \A i \in 1 .. ReadableBytes(r) : Contents(r)[i] = r.mem[r.reader + i - 1]
    BY <2>4, ContentsIsSeq
  <2>7. ASSUME NEW i \in 1 .. Len(Contents(r)) PROVE Contents(r)[i] = rest[i]
    <3>1. i \in 1 .. ReadableBytes(b) - len BY <2>5, <2>6
    <3>2. Contents(r)[i] = b.mem[b.reader + len + i - 1] BY <2>3, <2>6
    <3>3. len + i \in 1 .. ReadableBytes(b) BY <3>1, <1>1
    <3>4. Contents(b)[len + i] = b.mem[b.reader + (len + i) - 1] BY <3>3, <1>1
    <3>5. b.reader + (len + i) - 1 = b.reader + len + i - 1 BY <3>1 DEF WellFormed
    <3> QED BY <3>1, <3>2, <3>4, <3>5, <1>3
  <2>8. Contents(r) = rest
    <3>1. Len(Contents(r)) = Len(rest) BY <2>5, <2>6, <1>3
    <3> QED BY <2>6, <2>7, <3>1, <1>3, SeqEqual
  <2> QED BY <2>3, <2>4, <2>5, <2>8 DEF rest, r
<1>5. CASE len = ReadableBytes(b)
  <2>1. r = RetrieveAll(b) BY <1>5, <1>1 DEF Retrieve
  <2>2. r.size = b.size /\ WellFormed(r) /\ ReadableBytes(r) = 0
    BY <2>1, BufferAssumption DEF RetrieveAll, WellFormed, ReadableBytes
  <2>3. Contents(r) = <<>>
    BY <2>2, ContentsIsSeq, EmptySeq
  <2>4. rest = <<>> BY <1>3, <1>5, <1>1, EmptySeq
  <2> QED BY <2>2, <2>3, <2>4, <1>5, <1>1 DEF rest
<1> QED BY <1>1, <1>4, <1>5

(* unwrite: the last len bytes are gone.                                   *)
LEMMA UnwriteOK ==
  ASSUME NEW b, WellFormed(b), NEW len \in 0 .. ReadableBytes(b)
  PROVE  LET u == Unwrite(b, len) IN
         /\ WellFormed(u)
         /\ u.size = b.size
         /\ ReadableBytes(u) = ReadableBytes(b) - len
         /\ Contents(u) = SubSeq(Contents(b), 1, Len(Contents(b)) - len)
<1> DEFINE u == Unwrite(b, len)
           rest == SubSeq(Contents(b), 1, Len(Contents(b)) - len)
<1>1. /\ Len(Contents(b)) = ReadableBytes(b) /\ ReadableBytes(b) \in Nat
      /\ \A i \in 1 .. ReadableBytes(b) : Contents(b)[i] = b.mem[b.reader + i - 1]
      /\ Contents(b) \in Seq(Byte)
  BY ContentsIsSeq
<1>2. u = [size |-> b.size, reader |-> b.reader, writer |-> b.writer - len,
           mem |-> b.mem]
  BY DEF Unwrite, WellFormed
<1> HIDE DEF u
<1>3. /\ u.size = b.size /\ u.reader = b.reader
      /\ u.writer = b.writer - len /\ u.mem = b.mem
  BY <1>2
<1>4. WellFormed(u) /\ ReadableBytes(u) = ReadableBytes(b) - len
  BY <1>2, <1>3 DEF WellFormed, ReadableBytes
<1>5. /\ Contents(u) \in Seq(Byte) /\ Len(Contents(u)) = ReadableBytes(u)
      /\ \A i \in 1 .. ReadableBytes(u) : Contents(u)[i] = u.mem[u.reader + i - 1]
  BY <1>4, ContentsIsSeq
<1>6. \A i \in 1 .. Len(Contents(b)) - len : Contents(b)[i] \in Byte
  BY <1>1, ElementOfSeq
<1>7. Len(Contents(b)) - len \in Int BY <1>1
<1>8. /\ rest \in Seq(Byte) /\ Len(rest) = ReadableBytes(b) - len
      /\ \A i \in 1 .. ReadableBytes(b) - len : rest[i] = Contents(b)[i]
  <2>1. /\ rest \in Seq(Byte)
        /\ Len(rest) = IF 1 <= Len(Contents(b)) - len
                       THEN Len(Contents(b)) - len - 1 + 1 ELSE 0
        /\ \A i \in 1 .. Len(Contents(b)) - len - 1 + 1 :
             rest[i] = Contents(b)[1 + i - 1]
    BY <1>6, <1>7, SubSeqProperties
  <2>2. \A i \in 1 .. ReadableBytes(b) - len : 1 + i - 1 = i OBVIOUS
  <2> QED BY <1>1, <2>1, <2>2
<1> HIDE DEF rest
<1>9. ASSUME NEW i \in 1 .. Len(Contents(u)) PROVE Contents(u)[i] = rest[i]
  <2>1. i \in 1 .. ReadableBytes(b) - len /\ i \in 1 .. ReadableBytes(b)
    BY <1>1, <1>4, <1>5
  <2>2. Contents(u)[i] = b.mem[b.reader + i - 1] BY <1>3, <1>5
  <2> QED BY <1>1, <1>8, <2>1, <2>2
<1>10. Contents(u) = rest
  <2>1. Len(Contents(u)) = Len(rest) BY <1>4, <1>5, <1>8
  <2> QED BY <1>5, <1>8, <1>9, <2>1, SeqEqual
<1> QED BY <1>3, <1>4, <1>10 DEF u, rest

(* prepend: the content grows by the string, at its front.                 *)
LEMMA PrependOK ==
  ASSUME NEW b, WellFormed(b), NEW s \in Seq(Byte), Len(s) <= PrependableBytes(b)
  PROVE  LET p == PrependBytes(b, s) IN
         /\ WellFormed(p)
         /\ p.size = b.size
         /\ ReadableBytes(p) = ReadableBytes(b) + Len(s)
         /\ Contents(p) = s \o Contents(b)
<1> DEFINE m == CopyTo(b.mem, b.reader - Len(s), s)
           p == PrependBytes(b, s)
           c == Contents(b)
<1>1. Len(s) \in Nat /\ \A i \in 1 .. Len(s) : s[i] \in Byte
  BY LenProperties, ElementOfSeq
<1>2. /\ Len(c) = ReadableBytes(b) /\ ReadableBytes(b) \in Nat
      /\ \A i \in 1 .. ReadableBytes(b) : c[i] = b.mem[b.reader + i - 1]
      /\ c \in Seq(Byte)
  BY ContentsIsSeq
<1> HIDE DEF c
<1>3. /\ p.size = b.size /\ p.reader = b.reader - Len(s)
      /\ p.writer = b.writer /\ p.mem = m
  BY DEF PrependBytes
<1>4. m = [i \in 0 .. b.size - 1 |->
             IF i \in b.reader - Len(s) .. b.reader - 1
             THEN s[i - (b.reader - Len(s)) + 1] ELSE b.mem[i]]
  BY <1>1 DEF CopyTo, WellFormed
<1>5. m \in [0 .. b.size - 1 -> Byte]
  <2>1. ASSUME NEW i \in 0 .. b.size - 1, i \in b.reader - Len(s) .. b.reader - 1
        PROVE  s[i - (b.reader - Len(s)) + 1] \in Byte
    <3>1. i - (b.reader - Len(s)) + 1 \in 1 .. Len(s)
      BY <2>1, <1>1 DEF WellFormed
    <3> QED BY <3>1, <1>1
  <2>2. ASSUME NEW i \in 0 .. b.size - 1 PROVE b.mem[i] \in Byte
    BY DEF WellFormed
  <2> HIDE DEF m
  <2> QED BY <1>4, <2>1, <2>2
<1> HIDE DEF m
<1>6. WellFormed(p) /\ ReadableBytes(p) = ReadableBytes(b) + Len(s)
  BY <1>1, <1>3, <1>5 DEF WellFormed, ReadableBytes, PrependBytes, PrependableBytes, m
<1> HIDE DEF p
<1>7. /\ Contents(p) \in Seq(Byte) /\ Len(Contents(p)) = ReadableBytes(p)
      /\ \A i \in 1 .. ReadableBytes(p) : Contents(p)[i] = p.mem[p.reader + i - 1]
  BY <1>6, ContentsIsSeq
<1>8. /\ s \o c \in Seq(Byte) /\ Len(s \o c) = Len(s) + Len(c)
      /\ \A i \in 1 .. Len(s) + Len(c) :
           (s \o c)[i] = IF i <= Len(s) THEN s[i] ELSE c[i - Len(s)]
  BY <1>2, ConcatProperties
<1>9. ASSUME NEW i \in 1 .. Len(s) + Len(c)
      PROVE  Contents(p)[i] = (s \o c)[i]
  <2>1. Contents(p)[i] = m[b.reader - Len(s) + i - 1] BY <1>1, <1>2, <1>3, <1>6, <1>7
  <2>2. b.reader - Len(s) + i - 1 \in 0 .. b.size - 1
    BY <1>1, <1>2 DEF WellFormed, ReadableBytes, PrependableBytes
  <2>3. CASE i <= Len(s)
    <3>1. b.reader - Len(s) + i - 1 \in b.reader - Len(s) .. b.reader - 1
      BY <2>3, <1>1, <1>2 DEF WellFormed
    <3>2. m[b.reader - Len(s) + i - 1]
            = s[(b.reader - Len(s) + i - 1) - (b.reader - Len(s)) + 1]
      BY <1>4, <2>2, <3>1
    <3>3. (b.reader - Len(s) + i - 1) - (b.reader - Len(s)) + 1 = i
      BY <1>1 DEF WellFormed
    <3> QED BY <2>1, <2>3, <3>2, <3>3, <1>8
  <2>4. CASE i > Len(s)
    <3>1. b.reader - Len(s) + i - 1 \notin b.reader - Len(s) .. b.reader - 1
      BY <2>4, <1>1, <1>2 DEF WellFormed
    <3>2. m[b.reader - Len(s) + i - 1] = b.mem[b.reader - Len(s) + i - 1]
      BY <1>4, <2>2, <3>1
    <3>3. i - Len(s) \in 1 .. ReadableBytes(b) BY <2>4, <1>1, <1>2
    <3>4. c[i - Len(s)] = b.mem[b.reader + (i - Len(s)) - 1] BY <3>3, <1>2
    <3>5. b.reader + (i - Len(s)) - 1 = b.reader - Len(s) + i - 1
      BY <1>1 DEF WellFormed
    <3>6. ~ (i <= Len(s)) BY <2>4, <1>1, <1>2
    <3> QED BY <2>1, <3>2, <3>4, <3>5, <3>6, <1>8
  <2>5. i <= Len(s) \/ i > Len(s) BY <1>1, <1>2
  <2> QED BY <2>3, <2>4, <2>5
<1>10. Contents(p) = s \o c
  <2>1. Len(Contents(p)) = Len(s \o c) BY <1>1, <1>2, <1>6, <1>7, <1>8
  <2>2. \A i \in 1 .. Len(Contents(p)) : Contents(p)[i] = (s \o c)[i]
    BY <2>1, <1>8, <1>9
  <2> QED BY <1>7, <1>8, <2>1, <2>2, SeqEqual
<1> QED BY <1>3, <1>6, <1>10 DEF p, c

(* shrink: the content is the same, the vector is as large as a new buffer *)
(* or as the content and the reserve need.                                 *)
LEMMA ShrinkOK ==
  ASSUME NEW b, WellFormed(b), NEW reserve \in Nat
  PROVE  LET s == Shrink(b, reserve) IN
         /\ WellFormed(s)
         /\ ReadableBytes(s) = ReadableBytes(b)
         /\ Contents(s) = Contents(b)
         /\ \/ s.size = kCheapPrepend + kInitialSize
            \/ s.size = kCheapPrepend + ReadableBytes(b) + reserve
<1> DEFINE n == NewBuffer(kInitialSize)
           k == ReadableBytes(b) + reserve
           e == EnsureWritableBytes(n, k)
           c == Contents(b)
           s == Shrink(b, reserve)
<1>1. /\ c \in Seq(Byte) /\ Len(c) = ReadableBytes(b) /\ ReadableBytes(b) \in Nat
  BY ContentsIsSeq
<1>2. /\ WellFormed(n) /\ n.size = kCheapPrepend + kInitialSize
      /\ n.writer = kCheapPrepend /\ ReadableBytes(n) = 0 /\ Contents(n) = <<>>
  BY NewBufferOK, BufferAssumption DEF NewBuffer
<1>3. s = AppendBytes(e, c) BY DEF Shrink
<1> HIDE DEF n, c, s
<1>4. /\ WellFormed(e)
      /\ ReadableBytes(b) + reserve <= WritableBytes(e)
      /\ ReadableBytes(e) = 0 /\ Contents(e) = <<>>
      /\ e.size = n.size \/ e.size = n.writer + (ReadableBytes(b) + reserve)
  <2>1. k \in Nat BY <1>1
  <2> HIDE DEF k
  <2>2. /\ WellFormed(e) /\ k <= WritableBytes(e)
        /\ ReadableBytes(e) = ReadableBytes(n) /\ Contents(e) = Contents(n)
        /\ e.size # n.size => e.size = n.writer + k
    BY <1>2, <2>1, EnsureWritableBytesOK
  <2> QED BY <1>2, <2>2 DEF k
<1> HIDE DEF e
<1>5. EnsureWritableBytes(e, Len(c)) = e
  BY <1>1, <1>4 DEF EnsureWritableBytes, WellFormed, WritableBytes
<1>6. /\ WellFormed(s) /\ ReadableBytes(s) = 0 + Len(c)
      /\ Contents(s) = <<>> \o c /\ s.size = e.size
  BY <1>1, <1>3, <1>4, <1>5, AppendBytesOK
<1>7. <<>> \o c = c BY <1>1, ConcatEmptySeq
<1> QED BY <1>1, <1>2, <1>4, <1>6, <1>7, BufferAssumption DEF s, c

-----------------------------------------------------------------------------

SizeLimit == kCheapPrepend + MaxOf({InitialSize, kInitialSize,
                                    2 * MaxBytes, MaxBytes + MaxReserve})

(* The bound of the content is part of what bounds the vector.             *)
Inv == /\ WellFormed(buf)
       /\ ReadableBytes(buf) <= MaxBytes
       /\ buf.size <= SizeLimit

(* SizeLimit is above each of the sizes the vector is ever given.          *)
LEMMA SizeLimitProperties ==
  /\ SizeLimit \in Nat
  /\ kCheapPrepend + InitialSize <= SizeLimit
  /\ kCheapPrepend + kInitialSize <= SizeLimit
  /\ kCheapPrepend + 2 * MaxBytes <= SizeLimit
  /\ kCheapPrepend + (MaxBytes + MaxReserve) <= SizeLimit
<1> DEFINE S == {InitialSize, kInitialSize, 2 * MaxBytes, MaxBytes + MaxReserve}
<1>1. S \subseteq Nat BY CallAssumption, BufferAssumption
<1>2. \E x \in S : \A y \in S : y <= x BY CallAssumption, BufferAssumption
<1>3. MaxOf(S) \in S /\ \A y \in S : y <= MaxOf(S) BY <1>2 DEF MaxOf
<1>4. MaxOf(S) \in Nat BY <1>1, <1>3
<1>5. SizeLimit = kCheapPrepend + MaxOf(S) BY DEF SizeLimit
<1>6. \A y \in S : y \in Nat /\ kCheapPrepend + y <= kCheapPrepend + MaxOf(S)
  BY <1>1, <1>3, <1>4, BufferAssumption
<1>7. /\ InitialSize \in S /\ kInitialSize \in S
      /\ 2 * MaxBytes \in S /\ MaxBytes + MaxReserve \in S
  OBVIOUS
<1> HIDE DEF S
<1>8. \A y \in S : kCheapPrepend + y <= SizeLimit BY <1>5, <1>6
<1>9. SizeLimit \in Nat BY <1>4, <1>5, BufferAssumption
<1> QED BY <1>7, <1>8, <1>9

(* The strings of the actions are sequences of bytes, no longer than the   *)
(* bound.                                                                  *)
LEMMA StringsAreInputs ==
  ASSUME NEW lengths, lengths \subseteq 0 .. MaxInput, NEW s \in Strings(lengths)
  PROVE  s \in Seq(Byte) /\ Len(s) \in Nat /\ s \in Queue!Input
<1>1. PICK n \in lengths : s \in [1 .. n -> Byte] BY DEF Strings
<1>2. n \in 0 .. MaxInput BY <1>1
<1>3. n \in Nat BY <1>2, CallAssumption
<1>4. s \in Queue!Input BY <1>1, <1>2 DEF Queue!Input
<1> QED BY <1>1, <1>3, <1>4, StringIsSeq

(* A new buffer satisfies the invariant.                                   *)
LEMMA InitInv ==
  ASSUME Init PROVE Inv
<1>1. InitialSize \in Nat /\ buf = NewBuffer(InitialSize) BY CallAssumption DEF Init
<1>2. /\ WellFormed(buf) /\ buf.size = kCheapPrepend + InitialSize
      /\ ReadableBytes(buf) = 0
  BY <1>1, NewBufferOK
<1> QED BY <1>2, SizeLimitProperties, CallAssumption DEF Inv

(* A string appended makes the vector grow only where it must, and never   *)
(* past the limit.                                                         *)
LEMMA AppendStep ==
  ASSUME Inv, NEW s \in Seq(Byte), AppendData(s)
  PROVE  /\ Inv'
         /\ buf'.size > buf.size => kCheapPrepend + ReadableBytes(buf') > buf.size
         /\ Contents(buf)' = Contents(buf) \o s
<1> DEFINE e == EnsureWritableBytes(buf, Len(s))
<1>1. /\ WellFormed(buf') /\ ReadableBytes(buf') = ReadableBytes(buf) + Len(s)
      /\ Contents(buf') = Contents(buf) \o s /\ buf'.size = e.size
  BY AppendBytesOK DEF AppendData, Inv
<1>2. Len(s) \in Nat BY LenProperties
<1>3. e.size # buf.size =>
        /\ e.size = buf.writer + Len(s)
        /\ WritableBytes(buf) + PrependableBytes(buf) < Len(s) + kCheapPrepend
  BY <1>2, EnsureWritableBytesOK DEF Inv
<1> HIDE DEF e
<1>4. /\ ReadableBytes(buf) \in Nat
      /\ ReadableBytes(buf) = buf.writer - buf.reader
      /\ buf.writer \in Nat /\ buf.reader \in Nat /\ buf.size \in Nat
      /\ buf.writer <= buf.size
      /\ WritableBytes(buf) = buf.size - buf.writer
      /\ PrependableBytes(buf) = buf.reader
  BY DEF Inv, WellFormed, ReadableBytes, WritableBytes, PrependableBytes
<1>5. ReadableBytes(buf) + Len(s) <= MaxBytes BY DEF AppendData, Fits
<1>6. buf'.size <= SizeLimit
  <2>1. CASE e.size = buf.size BY <2>1, <1>1 DEF Inv
  <2>2. CASE e.size # buf.size
    <3>1. buf.writer + Len(s) <= kCheapPrepend + 2 * MaxBytes
      BY <2>2, <1>2, <1>3, <1>4, <1>5, CallAssumption, BufferAssumption
    <3> QED BY <2>2, <3>1, <1>1, <1>2, <1>3, <1>4, SizeLimitProperties, CallAssumption, BufferAssumption, SMTT(30)
  <2> QED BY <2>1, <2>2
<1>7. Inv' BY <1>1, <1>5, <1>6 DEF Inv
<1>8. ASSUME buf'.size > buf.size
      PROVE  kCheapPrepend + ReadableBytes(buf') > buf.size
  <2>1. e.size # buf.size BY <1>1, <1>4, <1>8
  <2> QED BY <2>1, <1>1, <1>2, <1>3, <1>4, BufferAssumption, SMTT(30)
<1> QED BY <1>1, <1>7, <1>8

(* Prepending puts the string in front and leaves the vector its size.     *)
LEMMA PrependStep ==
  ASSUME Inv, NEW s \in Seq(Byte), Prepend(s)
  PROVE  /\ Inv'
         /\ buf'.size = buf.size
         /\ Contents(buf)' = s \o Contents(buf)
<1>1. /\ WellFormed(buf') /\ ReadableBytes(buf') = ReadableBytes(buf) + Len(s)
      /\ Contents(buf') = s \o Contents(buf) /\ buf'.size = buf.size
  BY PrependOK DEF Prepend, Inv
<1> QED BY <1>1 DEF Inv, Prepend, Fits

(* Removing bytes leaves the vector its size and takes no more than there  *)
(* are.                                                                    *)
LEMMA RemoveStep ==
  ASSUME Inv, NEW len \in Nat, Remove(len)
  PROVE  /\ Inv'
         /\ buf'.size = buf.size
         /\ len \in 0 .. Len(Contents(buf))
         /\ Contents(buf)' = SubSeq(Contents(buf), len + 1, Len(Contents(buf)))
<1>1. /\ ReadableBytes(buf) \in Nat /\ ReadableBytes(buf) = Len(Contents(buf))
  BY ContentsIsSeq DEF Inv
<1>2. len \in 0 .. ReadableBytes(buf) BY <1>1 DEF Remove
<1>3. /\ WellFormed(buf') /\ buf'.size = buf.size
      /\ ReadableBytes(buf') = ReadableBytes(buf) - len
      /\ Contents(buf') = SubSeq(Contents(buf), len + 1, Len(Contents(buf)))
  BY <1>2, RetrieveOK DEF Remove, Inv
<1> QED BY <1>1, <1>2, <1>3, CallAssumption DEF Inv

(* Unwriting leaves the vector its size and takes no more than there are.  *)
LEMMA TakeBackStep ==
  ASSUME Inv, NEW len \in Nat, TakeBack(len)
  PROVE  /\ Inv'
         /\ buf'.size = buf.size
         /\ len \in 0 .. Len(Contents(buf))
         /\ Contents(buf)' = SubSeq(Contents(buf), 1, Len(Contents(buf)) - len)
<1>1. /\ ReadableBytes(buf) \in Nat /\ ReadableBytes(buf) = Len(Contents(buf))
  BY ContentsIsSeq DEF Inv
<1>2. len \in 0 .. ReadableBytes(buf) BY <1>1 DEF TakeBack
<1>3. /\ WellFormed(buf') /\ buf'.size = buf.size
      /\ ReadableBytes(buf') = ReadableBytes(buf) - len
      /\ Contents(buf') = SubSeq(Contents(buf), 1, Len(Contents(buf)) - len)
  BY <1>2, UnwriteOK DEF TakeBack, Inv
<1> QED BY <1>1, <1>2, <1>3, CallAssumption DEF Inv

(* Removing everything leaves the vector its size and no bytes.            *)
LEMMA RemoveAllStep ==
  ASSUME Inv, RemoveAll
  PROVE  /\ Inv'
         /\ buf'.size = buf.size
         /\ Contents(buf)' = SubSeq(Contents(buf), Len(Contents(buf)) + 1, Len(Contents(buf)))
         /\ Len(Contents(buf)) \in 0 .. Len(Contents(buf))
<1>1. /\ ReadableBytes(buf) \in Nat /\ ReadableBytes(buf) = Len(Contents(buf))
  BY ContentsIsSeq DEF Inv
<1>2. buf' = Retrieve(buf, ReadableBytes(buf)) BY <1>1 DEF RemoveAll, Retrieve
<1>3. Remove(ReadableBytes(buf)) BY <1>1, <1>2 DEF Remove
<1> QED BY <1>1, <1>3, RemoveStep

(* Shrinking keeps the content.                                            *)
LEMMA ReserveStep ==
  ASSUME Inv, NEW len \in 0 .. MaxReserve, Reserve(len)
  PROVE  /\ Inv'
         /\ Contents(buf)' = Contents(buf)
<1>1. len \in Nat BY CallAssumption
<1>2. /\ WellFormed(buf') /\ ReadableBytes(buf') = ReadableBytes(buf)
      /\ Contents(buf') = Contents(buf)
      /\ \/ buf'.size = kCheapPrepend + kInitialSize
         \/ buf'.size = kCheapPrepend + ReadableBytes(buf) + len
  BY <1>1, ShrinkOK DEF Reserve, Inv
<1>3. ReadableBytes(buf) \in Nat /\ ReadableBytes(buf) <= MaxBytes
  BY ContentsIsSeq DEF Inv
<1>4. buf'.size <= SizeLimit
  BY <1>2, <1>3, SizeLimitProperties, CallAssumption, BufferAssumption
<1> QED BY <1>2, <1>3, <1>4 DEF Inv

(* Every step keeps the invariant, is a step of the queue of bytes, and    *)
(* grows the vector only when it is full or shrink asks for it.            *)
LEMMA NextStep ==
  ASSUME Inv, Next
  PROVE  /\ Inv'
         /\ Queue!QueueNext \/ UNCHANGED Contents(buf)
         /\ buf'.size > buf.size =>
              \/ kCheapPrepend + ReadableBytes(buf') > buf.size
              \/ \E len \in 0 .. MaxReserve : Reserve(len)
<1> USE CallAssumption
<1>0. buf.size \in Nat BY DEF Inv, WellFormed
<1>1. ASSUME NEW lengths, lengths \subseteq 0 .. MaxInput,
             NEW s \in Strings(lengths), AppendData(s)
      PROVE  /\ Inv' /\ Queue!QueueNext
             /\ buf'.size > buf.size => kCheapPrepend + ReadableBytes(buf') > buf.size
  <2>1. s \in Seq(Byte) /\ s \in Queue!Input BY <1>1, StringsAreInputs
  <2>2. Queue!Put(s) BY <1>1, <2>1, AppendStep DEF Queue!Put
  <2> QED BY <1>1, <2>1, <2>2, AppendStep DEF Queue!QueueNext
<1>2. ASSUME NEW lengths, lengths \subseteq 0 .. MaxInput,
             NEW s \in Strings(lengths), Prepend(s)
      PROVE  Inv' /\ Queue!QueueNext /\ buf'.size = buf.size
  <2>1. s \in Seq(Byte) /\ s \in Queue!Input BY <1>2, StringsAreInputs
  <2>2. Queue!PutBack(s) BY <1>2, <2>1, PrependStep DEF Queue!PutBack
  <2> QED BY <1>2, <2>1, <2>2, PrependStep DEF Queue!QueueNext
<1>3. ASSUME NEW len \in Nat, Remove(len)
      PROVE  Inv' /\ Queue!QueueNext /\ buf'.size = buf.size
  <2>1. Queue!Take(len) BY <1>3, RemoveStep DEF Queue!Take
  <2> QED BY <1>3, <2>1, RemoveStep DEF Queue!QueueNext
<1>4. ASSUME NEW len \in Nat, TakeBack(len)
      PROVE  Inv' /\ Queue!QueueNext /\ buf'.size = buf.size
  <2>1. Queue!Undo(len) BY <1>4, TakeBackStep DEF Queue!Undo
  <2> QED BY <1>4, <2>1, TakeBackStep DEF Queue!QueueNext
<1>5. ASSUME RemoveAll
      PROVE  Inv' /\ Queue!QueueNext /\ buf'.size = buf.size
  <2>1. Queue!Take(Len(Contents(buf))) BY <1>5, RemoveAllStep DEF Queue!Take
  <2> QED BY <1>5, <2>1, RemoveAllStep DEF Queue!QueueNext
<1>6. CASE \E s \in Strings(0 .. MaxInput) : AppendData(s) \/ Prepend(s)
  <2>1. PICK s \in Strings(0 .. MaxInput) : AppendData(s) \/ Prepend(s) BY <1>6
  <2>2. CASE AppendData(s) BY <2>2, <1>1
  <2>3. CASE Prepend(s) BY <2>3, <1>0, <1>2
  <2> QED BY <2>1, <2>2, <2>3
<1>7. Widths \subseteq 0 .. MaxInput OBVIOUS
<1>8. CASE AppendInt
  <2>1. PICK s \in Strings(Widths) : AppendData(s) BY <1>8 DEF AppendInt
  <2> QED BY <2>1, <1>1, <1>7
<1>9. CASE PrependInt
  <2>1. PICK s \in Strings(Widths) : Prepend(s) BY <1>9 DEF PrependInt
  <2>2. Inv' /\ Queue!QueueNext /\ buf'.size = buf.size BY <2>1, <1>2, <1>7
  <2> QED BY <2>2, <1>0
<1>10. CASE \E len \in 0 .. MaxBytes : Remove(len) \/ TakeBack(len)
  <2>1. PICK len \in 0 .. MaxBytes : Remove(len) \/ TakeBack(len) BY <1>10
  <2>2. len \in Nat BY <2>1
  <2>3. CASE Remove(len) BY <2>2, <2>3, <1>0, <1>3
  <2>4. CASE TakeBack(len) BY <2>2, <2>4, <1>0, <1>4
  <2> QED BY <2>1, <2>3, <2>4
<1>11. CASE ReadInt
  <2>1. PICK width \in Widths : Remove(width) BY <1>11 DEF ReadInt
  <2>2. width \in Nat BY <2>1
  <2> QED BY <2>1, <2>2, <1>0, <1>3
<1>12. CASE RemoveAll BY <1>0, <1>5, <1>12
<1>13. CASE \E len \in 0 .. MaxReserve : Reserve(len)
  BY <1>13, ReserveStep
<1> QED BY <1>6, <1>8, <1>9, <1>10, <1>11, <1>12, <1>13 DEF Next

(* The invariant holds in every state.                                     *)
THEOREM Invariance == Spec => []Inv
<1>1. Init => Inv BY InitInv
<1>2. Inv /\ [Next]_buf => Inv'
  <2>1. ASSUME Inv, Next PROVE Inv' BY <2>1, NextStep
  <2>2. ASSUME Inv, UNCHANGED buf PROVE Inv' BY <2>2 DEF Inv
  <2> QED BY <2>1, <2>2
<1> QED BY <1>1, <1>2, PTL DEF Spec

(* No sequence of calls takes an index of the buffer out of order or out   *)
(* of its vector, for every size and base.                                 *)
THEOREM BufferIsWellFormed == Spec => []BufferTypeOK
<1>1. Inv => BufferTypeOK BY DEF Inv, BufferTypeOK
<1> QED BY <1>1, Invariance, PTL

(* makeSpace keeps what it asserts and ensureWritableBytes what it         *)
(* promises, in every state and for every length.                          *)
THEOREM AssertionsHold == Spec => []SpaceIsMade
<1>1. Inv => SpaceIsMade
  BY EnsureWritableBytesOK, CallAssumption DEF Inv, SpaceIsMade
<1> QED BY <1>1, Invariance, PTL

(* The vector never outgrows twice the content it is made to hold.         *)
THEOREM VectorIsBounded == Spec => []SizeBounded
<1>1. Inv => SizeBounded BY DEF Inv, SizeBounded, SizeLimit
<1> QED BY <1>1, Invariance, PTL

(* The vector grows only when the content does not fit, or for shrink.     *)
THEOREM GrowthIsNeeded == Spec => GrowsWhenFull
<1> DEFINE A == buf'.size > buf.size =>
                  \/ kCheapPrepend + ReadableBytes(buf') > buf.size
                  \/ \E len \in 0 .. MaxReserve : Reserve(len)
<1>1. Inv /\ [Next]_buf => [A]_buf
  <2>1. ASSUME Inv, Next PROVE A BY <2>1, NextStep
  <2> QED BY <2>1
<1> QED BY <1>1, Invariance, PTL DEF Spec, GrowsWhenFull

(* Whatever is moved and resized inside, the buffer is a queue of bytes.   *)
THEOREM BufferImplementsByteQueue == Spec => ImplementsByteQueue
<1>1. Init => Queue!QueueInit
  BY CallAssumption, NewBufferOK DEF Init, Queue!QueueInit
<1>2. Inv /\ [Next]_buf => [Queue!QueueNext]_(Contents(buf))
  <2>1. ASSUME Inv, Next PROVE Queue!QueueNext \/ UNCHANGED Contents(buf)
    BY <2>1, NextStep
  <2>2. UNCHANGED buf => UNCHANGED Contents(buf) OBVIOUS
  <2> QED BY <2>1, <2>2
<1> QED BY <1>1, <1>2, Invariance, PTL DEF Spec, ImplementsByteQueue, Queue!QueueSpec

-----------------------------------------------------------------------------
(* NetworkInt: an integer is read as it was written                        *)

(* Induction over the naturals, for a set: the least number outside it     *)
(* would be the successor of one inside.                                   *)
LEMMA SetInduction ==
  ASSUME NEW S, 0 \in S, \A n \in Nat : n \in S => n + 1 \in S
  PROVE  Nat \subseteq S
<1> DEFINE T == Nat \ S
<1>1. SUFFICES ASSUME T # {} PROVE FALSE
  OBVIOUS
<1>2. IsWellFoundedOn(OpToRel(<, Nat), Nat)
  BY NatLessThanWellFounded
<1>3. T \subseteq Nat
  OBVIOUS
<1>4. \E x \in T : \A y \in T : ~ (<<y, x>> \in OpToRel(<, Nat))
  <2> HIDE DEF T
  <2> QED BY <1>1, <1>2, <1>3, WFMin
<1>5. PICK x \in T : \A y \in T : ~ (<<y, x>> \in OpToRel(<, Nat))
  BY <1>4
<1>6. x \in Nat /\ x # 0 /\ x - 1 \in Nat /\ x - 1 < x
  OBVIOUS
<1>7. x - 1 \in S
  BY <1>5, <1>6 DEF OpToRel
<1>8. (x - 1) + 1 \in S
  BY <1>6, <1>7
<1> QED BY <1>6, <1>8

(* Two functions on 0 .. n and on 0 .. n + 1 that satisfy ... *)
LEMMA PowerFunction ==
  ASSUME NEW n \in Nat
  PROVE  \E p : /\ p = [i \in 0 .. n |-> IF i = 0 THEN 1 ELSE Base * p[i - 1]]
               /\ Power(n) = p[n]
<1> DEFINE Is(k, p) == p = [i \in 0 .. k |-> IF i = 0 THEN 1 ELSE Base * p[i - 1]]
           S == {k \in Nat : \E p : Is(k, p)}
<1>1. 0 \in S
  <2> DEFINE p == [i \in 0 .. 0 |-> 1]
  <2>1. p = [i \in 0 .. 0 |-> IF i = 0 THEN 1 ELSE Base * p[i - 1]]
    OBVIOUS
  <2> HIDE DEF p
  <2> QED BY <2>1
<1>2. ASSUME NEW k \in Nat, k \in S PROVE k + 1 \in S
  <2>1. PICK p : Is(k, p)
    BY <1>2
  <2> DEFINE q == [i \in 0 .. k + 1 |-> IF i = k + 1 THEN Base * p[k] ELSE p[i]]
  <2>2. ASSUME NEW i \in 0 .. k + 1
        PROVE  q[i] = IF i = 0 THEN 1 ELSE Base * q[i - 1]
    <3>1. CASE i = k + 1 BY <3>1
    <3>2. CASE i # k + 1
      <4>1. i \in 0 .. k BY <3>2
      <4>2. q[i] = p[i] BY <3>2
      <4>3. p[i] = IF i = 0 THEN 1 ELSE Base * p[i - 1] BY <2>1, <4>1
      <4>4. i # 0 => q[i - 1] = p[i - 1] BY <4>1
      <4> QED BY <4>2, <4>3, <4>4
    <3> QED BY <3>1, <3>2
  <2>3. Is(k + 1, q) BY <2>2
  <2> HIDE DEF q
  <2> QED BY <2>3
<1> HIDE DEF S
<1>3. Nat \subseteq S BY <1>1, <1>2, SetInduction
<1>4. \E p : Is(n, p) BY <1>3 DEF S
<1> DEFINE power == CHOOSE p : Is(n, p)
<1>5. Is(n, power) BY <1>4
<1>6. Power(n) = power[n] BY DEF Power
<1> HIDE DEF power
<1> QED BY <1>5, <1>6

(* The recursive function that Power evaluates satisfies its equation.     *)
LEMMA PowerStep ==
  /\ Power(0) = 1
  /\ \A n \in Nat : Power(n + 1) = Base * Power(n)
<1>1. Power(0) = 1
  <2>1. PICK p : p = [i \in 0 .. 0 |-> IF i = 0 THEN 1 ELSE Base * p[i - 1]] /\ Power(0) = p[0]
    BY PowerFunction
  <2> QED BY <2>1
<1>2. ASSUME NEW n \in Nat PROVE Power(n + 1) = Base * Power(n)
  <2> DEFINE Is(k, p) == p = [i \in 0 .. k |-> IF i = 0 THEN 1 ELSE Base * p[i - 1]]
  <2>1. PICK p : Is(n, p) /\ Power(n) = p[n]
    BY PowerFunction
  <2>2. PICK q : Is(n + 1, q) /\ Power(n + 1) = q[n + 1]
    <3>1. n + 1 \in Nat OBVIOUS
    <3> QED BY <3>1, PowerFunction
  <2> DEFINE S == {k \in Nat : k \in 0 .. n => p[k] = q[k]}
  <2>3. 0 \in S
    BY <2>1, <2>2
  <2>4. ASSUME NEW k \in Nat, k \in S PROVE k + 1 \in S
    <3>1. CASE k + 1 \in 0 .. n
      <4>1. p[k + 1] = Base * p[k] BY <2>1, <3>1
      <4>2. q[k + 1] = Base * q[k] BY <2>2, <3>1
      <4> QED BY <2>4, <3>1, <4>1, <4>2
    <3> QED BY <3>1
  <2> HIDE DEF S
  <2>5. n \in S BY <2>3, <2>4, SetInduction
  <2>6. q[n + 1] = Base * q[n] BY <2>2
  <2> QED BY <2>1, <2>2, <2>5, <2>6 DEF S
<1> QED BY <1>1, <1>2

(* Powers are positive.                                                    *)
LEMMA PowerIsNat == \A n \in Nat : Power(n) \in Nat \ {0}
<1> DEFINE S == {n \in Nat : Power(n) \in Nat \ {0}}
<1>1. 0 \in S BY PowerStep
<1>2. ASSUME NEW n \in Nat, n \in S PROVE n + 1 \in S
  <2>1. Power(n + 1) = Base * Power(n) BY PowerStep
  <2>2. \A a, b \in Nat \ {0} : a * b \in Nat \ {0} OBVIOUS
  <2> QED BY <1>2, <2>1, <2>2, BaseAssumption
<1> HIDE DEF S
<1>3. Nat \subseteq S BY <1>1, <1>2, SetInduction
<1> QED BY <1>3 DEF S

(* What dividing by a positive number gives.                               *)
LEMMA Division ==
  ASSUME NEW x \in Int, NEW d \in Nat \ {0}
  PROVE  /\ x \div d \in Int
         /\ x % d \in 0 .. d - 1
         /\ x = d * (x \div d) + (x % d)
<1>1. x \div d \in Int OBVIOUS
<1>2. x % d \in 0 .. d - 1 OBVIOUS
<1>3. d \in Int /\ d > 0 OBVIOUS
<1> DEFINE m == d * (x \div d)
           r == x % d
<1>4. r = x - m BY <1>3
<1>5. m \in Int /\ r \in Int BY <1>1, <1>2, <1>3
<1> HIDE DEF m, r
<1>6. x = m + r BY <1>4, <1>5
<1>7. x = d * (x \div d) + (x % d) BY <1>6 DEF m, r
<1> QED BY <1>1, <1>2, <1>7

(* Quotient and remainder are the only ones there are.                     *)
LEMMA Quotient ==
  ASSUME NEW x \in Int, NEW d \in Nat \ {0}, NEW q \in Int, NEW r \in 0 .. d - 1,
         x = d * q + r
  PROVE  q = x \div d /\ r = x % d
OBVIOUS

(* Dividing twice is dividing by the product.                              *)
LEMMA DivDiv ==
  ASSUME NEW x \in Int, NEW p \in Nat \ {0}, NEW b \in Nat \ {0}
  PROVE  (x \div p) \div b = x \div (b * p)
<1> DEFINE q == x \div p
           r == x % p
           t == q \div b
           v == q % b
<1>1. q \in Int /\ r \in 0 .. p - 1 /\ x = p * q + r BY Division
<1>2. t \in Int /\ v \in 0 .. b - 1 /\ q = b * t + v BY <1>1, Division
<1> HIDE DEF q, r, t, v
<1>3. x = p * (b * t + v) + r BY <1>1, <1>2
<1>4. x = (b * p) * t + (p * v + r) BY <1>1, <1>2, <1>3
<1>5. p * v + r \in 0 .. b * p - 1
  <2>1. p * v >= 0 /\ p * v \in Int BY <1>2
  <2>2. p * v <= p * (b - 1) BY <1>2
  <2>3. p * (b - 1) = b * p - p BY <1>2
  <2>4. b * p \in Int OBVIOUS
  <2> QED BY <1>1, <2>1, <2>2, <2>3, <2>4
<1>6. b * p \in Nat \ {0} OBVIOUS
<1>7. t = x \div (b * p) BY <1>2, <1>4, <1>5, <1>6, Quotient
<1> QED BY <1>7 DEF t, q

(* An integer in network order is a string of its width.                   *)
LEMMA HostToNetworkIsSeq ==
  ASSUME NEW x \in Int, NEW width \in Nat
  PROVE  /\ HostToNetwork(x, width) \in Seq(Byte)
         /\ Len(HostToNetwork(x, width)) = width
         /\ \A i \in 1 .. width :
              HostToNetwork(x, width)[i] = (x \div Power(width - i)) % Base
<1>1. ASSUME NEW i \in 1 .. width PROVE (x \div Power(width - i)) % Base \in Byte
  <2>1. width - i \in Nat OBVIOUS
  <2>2. x \div Power(width - i) \in Int BY <2>1, PowerIsNat, Division
  <2> QED BY <2>2, BaseAssumption, Division DEF Byte
<1>2. HostToNetwork(x, width) \in [1 .. width -> Byte] BY <1>1 DEF HostToNetwork
<1>3. HostToNetwork(x, width) \in Seq(Byte) BY <1>2, SeqDef
<1>4. Len(HostToNetwork(x, width)) = width BY <1>2, <1>3, LenProperties
<1> QED BY <1>3, <1>4 DEF HostToNetwork

(* The recursive function that Unsigned evaluates satisfies its equation.  *)
LEMMA UnsignedFunction ==
  ASSUME NEW s \in Seq(Int)
  PROVE  \E u \in [0 .. Len(s) -> Int] :
           /\ \A i \in 0 .. Len(s) : u[i] = IF i = 0 THEN 0 ELSE Base * u[i - 1] + s[i]
           /\ Unsigned(s) = u[Len(s)]
<1> DEFINE Is(k, u) == u = [i \in 0 .. k |-> IF i = 0 THEN 0 ELSE Base * u[i - 1] + s[i]]
           S == {k \in Nat : k <= Len(s) => \E u \in [0 .. k -> Int] : Is(k, u)}
<1>1. 0 \in S
  <2> DEFINE u == [i \in 0 .. 0 |-> 0]
  <2>1. u \in [0 .. 0 -> Int] /\ Is(0, u) OBVIOUS
  <2> HIDE DEF u
  <2> QED BY <2>1
<1>2. ASSUME NEW k \in Nat, k \in S PROVE k + 1 \in S
  <2>0. k + 1 \in Nat OBVIOUS
  <2> SUFFICES ASSUME k + 1 <= Len(s) PROVE \E v \in [0 .. k + 1 -> Int] : Is(k + 1, v)
    BY <2>0
  <2>a. k <= Len(s) OBVIOUS
  <2>1. PICK u \in [0 .. k -> Int] : Is(k, u)
    BY <1>2, <2>a
  <2> DEFINE v == [i \in 0 .. k + 1 |-> IF i = k + 1 THEN Base * u[k] + s[k + 1] ELSE u[i]]
  <2>2. Base * u[k] + s[k + 1] \in Int BY BaseAssumption
  <2>3. v \in [0 .. k + 1 -> Int] BY <2>2
  <2>4. ASSUME NEW i \in 0 .. k + 1
        PROVE  v[i] = IF i = 0 THEN 0 ELSE Base * v[i - 1] + s[i]
    <3>1. CASE i = k + 1
      <4>1. i # 0 /\ i - 1 = k /\ k \in 0 .. k + 1 /\ k # k + 1 BY <3>1
      <4>2. v[i] = Base * u[k] + s[i] BY <3>1
      <4>3. v[i - 1] = u[k] BY <4>1
      <4> QED BY <4>1, <4>2, <4>3
    <3>2. CASE i # k + 1
      <4>1. i \in 0 .. k BY <3>2
      <4>2. v[i] = u[i] BY <3>2
      <4>3. u[i] = IF i = 0 THEN 0 ELSE Base * u[i - 1] + s[i] BY <2>1, <4>1
      <4>4. i # 0 => v[i - 1] = u[i - 1] BY <4>1
      <4> QED BY <4>2, <4>3, <4>4
    <3> QED BY <3>1, <3>2
  <2>5. Is(k + 1, v) BY <2>4
  <2> HIDE DEF v
  <2> QED BY <2>3, <2>5
<1> HIDE DEF S
<1>3. Nat \subseteq S BY <1>1, <1>2, SetInduction
<1>4. \E u \in [0 .. Len(s) -> Int] : Is(Len(s), u) BY <1>3, SMTT(30) DEF S
<1> DEFINE unsigned == CHOOSE u : Is(Len(s), u)
<1>5. Is(Len(s), unsigned) BY <1>4
<1>6. Unsigned(s) = unsigned[Len(s)] BY DEF Unsigned
<1> HIDE DEF unsigned
<1>7. unsigned \in [0 .. Len(s) -> Int]
  <2> DEFINE T == {k \in Nat : k <= Len(s) => unsigned[k] \in Int}
  <2>1. 0 \in T BY <1>5
  <2>2. ASSUME NEW k \in Nat, k \in T PROVE k + 1 \in T
    <3> SUFFICES ASSUME k + 1 <= Len(s) PROVE unsigned[k + 1] \in Int
      OBVIOUS
    <3>1. k + 1 # 0 /\ (k + 1) - 1 = k /\ k + 1 \in 0 .. Len(s) OBVIOUS
    <3>2. unsigned[k + 1] = Base * unsigned[k] + s[k + 1] BY <1>5, <3>1
    <3> QED BY <2>2, <3>2, BaseAssumption
  <2> HIDE DEF T
  <2>3. Nat \subseteq T BY <2>1, <2>2, SetInduction
  <2>4. \A i \in 0 .. Len(s) : unsigned[i] \in Int BY <2>3 DEF T
  <2> QED BY <2>4, <1>5
<1> QED BY <1>5, <1>6, <1>7

(* The digits of an integer stand for it, but for what its width cuts off. *)
LEMMA UnsignedOfInt ==
  ASSUME NEW x \in Int, NEW width \in Nat
  PROVE  Unsigned(HostToNetwork(x, width)) = x % Power(width)
<1> DEFINE s == HostToNetwork(x, width)
           q(i) == x \div Power(width - i)
           high == x \div Power(width)
<1>1. /\ s \in Seq(Int) /\ Len(s) = width
      /\ \A i \in 1 .. width : s[i] = q(i) % Base
  BY HostToNetworkIsSeq, BaseAssumption DEF Byte
<1> HIDE DEF s
<1>2. PICK u \in [0 .. width -> Int] :
        /\ \A i \in 0 .. width : u[i] = IF i = 0 THEN 0 ELSE Base * u[i - 1] + s[i]
        /\ Unsigned(s) = u[width]
  BY <1>1, UnsignedFunction
<1>3. \A i \in 0 .. width : q(i) \in Int /\ Power(i) \in Int
  <2> SUFFICES ASSUME NEW i \in 0 .. width PROVE q(i) \in Int /\ Power(i) \in Int
    OBVIOUS
  <2>1. width - i \in Nat OBVIOUS
  <2>2. Power(width - i) \in Nat \ {0} /\ Power(i) \in Nat \ {0} BY <2>1, PowerIsNat
  <2> QED BY <2>2, Division
<1>4. \A i \in 1 .. width : q(i - 1) = q(i) \div Base
  <2> SUFFICES ASSUME NEW i \in 1 .. width PROVE q(i - 1) = q(i) \div Base
    OBVIOUS
  <2>1. width - i \in Nat /\ width - (i - 1) = (width - i) + 1 OBVIOUS
  <2>2. Power(width - (i - 1)) = Base * Power(width - i) BY <2>1, PowerStep
  <2>3. Power(width - i) \in Nat \ {0} BY <2>1, PowerIsNat
  <2> QED BY <2>2, <2>3, DivDiv, BaseAssumption
<1>5. high \in Int /\ q(0) = high
  <2>1. width - 0 = width OBVIOUS
  <2> QED BY <2>1, <1>3
<1>6. q(width) = x
  <2>1. Power(width - width) = 1 BY PowerStep
  <2> QED BY <2>1
<1> HIDE DEF q, high
<1> DEFINE S == {i \in Nat : i <= width => u[i] = q(i) - Power(i) * high}
<1>7. 0 \in S
  <2>1. u[0] = 0 BY <1>2
  <2>2. Power(0) = 1 BY PowerStep
  <2> QED BY <2>1, <2>2, <1>5
<1>8. ASSUME NEW i \in Nat, i \in S PROVE i + 1 \in S
  <2> SUFFICES ASSUME i + 1 <= width PROVE u[i + 1] = q(i + 1) - Power(i + 1) * high
    OBVIOUS
  <2>1. /\ i \in 0 .. width /\ i + 1 \in 1 .. width /\ i + 1 \in 0 .. width
        /\ i + 1 # 0 /\ (i + 1) - 1 = i
    OBVIOUS
  <2>2. u[i + 1] = Base * u[i] + s[i + 1] BY <1>2, <2>1
  <2>3. s[i + 1] = q(i + 1) % Base BY <1>1, <2>1
  <2>4. q(i) = q(i + 1) \div Base BY <1>4, <2>1
  <2>5. q(i + 1) \in Int /\ q(i) \in Int /\ Power(i) \in Int BY <1>3, <2>1
  <2>6. q(i + 1) = Base * q(i) + s[i + 1] BY <2>3, <2>4, <2>5, Division, BaseAssumption
  <2>7. Power(i + 1) = Base * Power(i) BY PowerStep
  <2>8. u[i] = q(i) - Power(i) * high BY <1>8, <2>1
  <2>9. \A b, a, p, h, d \in Int : b * (a - p * h) + d = (b * a + d) - (b * p) * h
    OBVIOUS
  <2>10. s[i + 1] \in Int /\ Base \in Int BY <1>1, <2>1, BaseAssumption
  <2>11. Base * (q(i) - Power(i) * high) + s[i + 1]
           = (Base * q(i) + s[i + 1]) - (Base * Power(i)) * high
    BY <2>5, <2>9, <2>10, <1>5, SMTT(30)
  <2> QED BY <2>2, <2>6, <2>7, <2>8, <2>11
<1> HIDE DEF S
<1>9. Nat \subseteq S BY <1>7, <1>8, SetInduction
<1>10. u[width] = x - Power(width) * high BY <1>9, <1>6 DEF S
<1>11. x = Power(width) * high + (x % Power(width)) BY PowerIsNat, Division DEF high
<1>12. x % Power(width) \in Int /\ Power(width) * high \in Int
  <2>1. Power(width) \in Nat \ {0} BY PowerIsNat
  <2>2. x % Power(width) \in 0 .. Power(width) - 1 BY <2>1, Division
  <2> QED BY <2>1, <2>2, <1>5
<1> DEFINE m == Power(width) * high
           r == x % Power(width)
<1>13. u[width] = x - m /\ x = m + r /\ m \in Int /\ r \in Int BY <1>10, <1>11, <1>12
<1> HIDE DEF m, r
<1>14. u[width] = r BY <1>13
<1>15. u[width] = x % Power(width) BY <1>14 DEF r
<1> QED BY <1>2, <1>15 DEF s

(* What hostToNetwork wrote networkToHost reads, as long as it fits. *)
THEOREM NetworkOrderReadsBack ==
  ASSUME NEW width \in Nat, NEW x \in Int
  PROVE  /\ NetworkToHost(HostToNetwork(x, width)) = Signed(x % Power(width), width)
         /\ (- Power(width) <= 2 * x /\ 2 * x < Power(width)) =>
              NetworkToHost(HostToNetwork(x, width)) = x
<1> DEFINE p == Power(width)
           r == x % Power(width)
<1>1. p \in Nat \ {0} BY PowerIsNat
<1>2. NetworkToHost(HostToNetwork(x, width)) = IF 2 * r >= p THEN r - p ELSE r
  BY UnsignedOfInt, HostToNetworkIsSeq DEF NetworkToHost, Signed
<1>3. ASSUME x \in 0 .. p - 1 PROVE r = x
  <2>1. x = p * 0 + x BY <1>1, <1>3
  <2> QED BY <1>1, <1>3, <2>1, Quotient
<1>4. ASSUME x + p \in 0 .. p - 1 PROVE r = x + p
  <2>1. x = p * (-1) + (x + p) BY <1>1, <1>4
  <2> QED BY <1>1, <1>4, <2>1, Quotient
<1> HIDE DEF p, r
<1>5. ASSUME - p <= 2 * x, 2 * x < p PROVE (IF 2 * r >= p THEN r - p ELSE r) = x
  <2>1. CASE x >= 0 BY <2>1, <1>1, <1>3, <1>5
  <2>2. CASE x < 0 BY <2>2, <1>1, <1>4, <1>5
  <2> QED BY <2>1, <2>2
<1> QED BY <1>2, <1>5 DEF Signed, p, r

-----------------------------------------------------------------------------
(* Sequences of sequences, joined                                          *)

IsFlatten(k, ss, f) ==
  f = [i \in 1 .. k |-> IF i = 1 THEN ss[i] ELSE f[i - 1] \o ss[i]]

(* The equation of a join has one solution.                                *)
LEMMA FlattenUnique ==
  ASSUME NEW n \in Nat, NEW ss, NEW f, NEW g, IsFlatten(n, ss, f), IsFlatten(n, ss, g)
  PROVE  f = g
<1> DEFINE T == {k \in Nat : k + 1 <= n => f[k + 1] = g[k + 1]}
<1>1. 0 \in T BY DEF IsFlatten
<1>2. ASSUME NEW k \in Nat, k \in T PROVE k + 1 \in T
  <2> SUFFICES ASSUME k + 2 <= n PROVE f[k + 2] = g[k + 2]
    OBVIOUS
  <2>1. k + 2 # 1 /\ (k + 2) - 1 = k + 1 /\ k + 1 <= n /\ k + 2 \in 1 .. n OBVIOUS
  <2>2. f[k + 2] = f[k + 1] \o ss[k + 2] BY <2>1 DEF IsFlatten
  <2>3. g[k + 2] = g[k + 1] \o ss[k + 2] BY <2>1 DEF IsFlatten
  <2> QED BY <1>2, <2>1, <2>2, <2>3
<1> HIDE DEF T
<1>3. Nat \subseteq T BY <1>1, <1>2, SetInduction
<1>4. ASSUME NEW i \in 1 .. n PROVE f[i] = g[i]
  <2>1. i - 1 \in T /\ (i - 1) + 1 = i BY <1>3
  <2> QED BY <2>1 DEF T
<1> QED BY <1>4 DEF IsFlatten

(* The recursive function that FlattenSeq evaluates satisfies its          *)
(* equation.                                                               *)
LEMMA FlattenFunction ==
  ASSUME NEW V, NEW ss \in Seq(Seq(V)), ss # <<>>
  PROVE  \E f : /\ IsFlatten(Len(ss), ss, f)
                /\ f \in [1 .. Len(ss) -> Seq(V)]
                /\ SeqExt!FlattenSeq(ss) = f[Len(ss)]
<1> DEFINE S == {k \in Nat : k + 1 <= Len(ss) =>
                    \E f \in [1 .. k + 1 -> Seq(V)] : IsFlatten(k + 1, ss, f)}
<1>s. Len(ss) \in Nat /\ Len(ss) > 0 /\ \A i \in 1 .. Len(ss) : ss[i] \in Seq(V)
  OBVIOUS
<1>1. 0 \in S
  <2> DEFINE f == [i \in 1 .. 1 |-> ss[1]]
  <2>1. f \in [1 .. 1 -> Seq(V)] BY <1>s
  <2>2. IsFlatten(1, ss, f) BY DEF IsFlatten
  <2> HIDE DEF f
  <2> QED BY <2>1, <2>2
<1>2. ASSUME NEW k \in Nat, k \in S PROVE k + 1 \in S
  <2> SUFFICES ASSUME k + 2 <= Len(ss)
               PROVE  \E f \in [1 .. k + 2 -> Seq(V)] : IsFlatten(k + 2, ss, f)
    OBVIOUS
  <2>1. PICK f \in [1 .. k + 1 -> Seq(V)] : IsFlatten(k + 1, ss, f)
    BY <1>2, <1>s
  <2> DEFINE g == [i \in 1 .. k + 2 |-> IF i = k + 2 THEN f[k + 1] \o ss[k + 2] ELSE f[i]]
  <2>2. ss[k + 2] \in Seq(V) BY <1>s
  <2>3. g \in [1 .. k + 2 -> Seq(V)] BY <2>2
  <2>4. ASSUME NEW i \in 1 .. k + 2
        PROVE  g[i] = IF i = 1 THEN ss[i] ELSE g[i - 1] \o ss[i]
    <3>1. CASE i = k + 2
      <4>1. i # 1 /\ i - 1 = k + 1 /\ k + 1 \in 1 .. k + 2 /\ k + 1 # k + 2 BY <3>1
      <4>2. g[i] = f[k + 1] \o ss[i] BY <3>1
      <4>3. g[i - 1] = f[k + 1] BY <4>1
      <4> QED BY <4>1, <4>2, <4>3
    <3>2. CASE i # k + 2
      <4>1. i \in 1 .. k + 1 BY <3>2
      <4>2. g[i] = f[i] BY <3>2
      <4>3. f[i] = IF i = 1 THEN ss[i] ELSE f[i - 1] \o ss[i] BY <2>1, <4>1 DEF IsFlatten
      <4>4. i # 1 => g[i - 1] = f[i - 1] BY <4>1
      <4> QED BY <4>2, <4>3, <4>4
    <3> QED BY <3>1, <3>2
  <2>5. IsFlatten(k + 2, ss, g) BY <2>4 DEF IsFlatten
  <2> HIDE DEF g
  <2> QED BY <2>3, <2>5
<1> HIDE DEF S
<1>3. Nat \subseteq S BY <1>1, <1>2, SetInduction
<1>4. \E f \in [1 .. Len(ss) -> Seq(V)] : IsFlatten(Len(ss), ss, f)
  <2>1. Len(ss) - 1 \in S BY <1>3, <1>s
  <2> QED BY <2>1, <1>s DEF S
<1>5. PICK f \in [1 .. Len(ss) -> Seq(V)] : IsFlatten(Len(ss), ss, f) BY <1>4
<1> DEFINE flatten == CHOOSE g : IsFlatten(Len(ss), ss, g)
<1>6. IsFlatten(Len(ss), ss, flatten) BY <1>5
<1>7. SeqExt!FlattenSeq(ss) = flatten[Len(ss)]
  BY <1>s DEF SeqExt!FlattenSeq, IsFlatten
<1> HIDE DEF flatten
<1>8. f = flatten BY <1>s, <1>5, <1>6, FlattenUnique
<1> QED BY <1>5, <1>7, <1>8

(* Nothing joined is nothing.                                              *)
LEMMA FlattenEmpty == SeqExt!FlattenSeq(<<>>) = <<>>
  BY DEF SeqExt!FlattenSeq

(* Joining one string more puts it at the end.                             *)
LEMMA FlattenAppend ==
  ASSUME NEW V, NEW ss \in Seq(Seq(V)), NEW s \in Seq(V)
  PROVE  SeqExt!FlattenSeq(Append(ss, s)) = SeqExt!FlattenSeq(ss) \o s
<1> DEFINE n == Len(ss)
           tt == Append(ss, s)
<1>1. n \in Nat /\ tt \in Seq(Seq(V)) /\ tt # <<>> /\ Len(tt) = n + 1 /\ tt[n + 1] = s
      /\ \A i \in 1 .. n : tt[i] = ss[i]
  BY AppendProperties
<1>2. PICK g : /\ IsFlatten(n + 1, tt, g)
               /\ SeqExt!FlattenSeq(tt) = g[n + 1]
  BY <1>1, FlattenFunction
<1>3. CASE ss = <<>>
  <2>1. n = 0 BY <1>3
  <2>2. SeqExt!FlattenSeq(tt) = s BY <1>1, <1>2, <2>1 DEF IsFlatten
  <2> QED BY <2>2, <1>3, FlattenEmpty
<1>4. CASE ss # <<>>
  <2>1. n > 0 BY <1>4
  <2>2. PICK f : IsFlatten(n, ss, f) /\ SeqExt!FlattenSeq(ss) = f[n]
    BY <1>4, FlattenFunction
  <2> DEFINE h == [i \in 1 .. n |-> g[i]]
  <2>3. ASSUME NEW i \in 1 .. n PROVE h[i] = IF i = 1 THEN ss[i] ELSE h[i - 1] \o ss[i]
    <3>1. i \in 1 .. n + 1 /\ tt[i] = ss[i] BY <1>1
    <3>2. g[i] = IF i = 1 THEN tt[i] ELSE g[i - 1] \o tt[i] BY <1>2, <3>1 DEF IsFlatten
    <3>3. i # 1 => h[i - 1] = g[i - 1] BY <1>1
    <3> QED BY <3>1, <3>2, <3>3
  <2>4. IsFlatten(n, ss, h) BY <2>3 DEF IsFlatten
  <2>5. f = h
    <3> HIDE DEF h, n
    <3> QED BY <1>1, <2>2, <2>4, FlattenUnique
  <2>6. f[n] = g[n] BY <2>1, <2>5, <1>1
  <2>7. n + 1 # 1 /\ (n + 1) - 1 = n BY <1>1, <2>1
  <2>8. g[n + 1] = g[n] \o tt[n + 1]
    <3>1. n + 1 \in 1 .. n + 1 BY <1>1
    <3>2. g[n + 1] = IF n + 1 = 1 THEN tt[n + 1] ELSE g[(n + 1) - 1] \o tt[n + 1]
      BY <1>2, <3>1 DEF IsFlatten
    <3> QED BY <2>7, <3>2
  <2> QED BY <1>1, <1>2, <2>2, <2>6, <2>8
<1> QED BY <1>3, <1>4

(* Strings joined are a string.                                            *)
LEMMA FlattenIsSeq ==
  ASSUME NEW V, NEW ss \in Seq(Seq(V))
  PROVE  SeqExt!FlattenSeq(ss) \in Seq(V)
<1>1. CASE ss = <<>>
  <2>1. <<>> \in Seq(V) OBVIOUS
  <2> QED BY <1>1, <2>1, FlattenEmpty
<1>2. CASE ss # <<>>
  <2>1. Len(ss) \in 1 .. Len(ss) BY <1>2
  <2>2. PICK f \in [1 .. Len(ss) -> Seq(V)] : SeqExt!FlattenSeq(ss) = f[Len(ss)]
    BY <1>2, FlattenFunction
  <2> QED BY <2>1, <2>2
<1> QED BY <1>1, <1>2

(* Joining one string more in front puts it at the front.                  *)
LEMMA FlattenCons ==
  ASSUME NEW V, NEW s \in Seq(V), NEW ss \in Seq(Seq(V))
  PROVE  SeqExt!FlattenSeq(<<s>> \o ss) = s \o SeqExt!FlattenSeq(ss)
<1> DEFINE S == {n \in Nat : \A tt \in Seq(Seq(V)) : Len(tt) = n =>
                   SeqExt!FlattenSeq(<<s>> \o tt) = s \o SeqExt!FlattenSeq(tt)}
<1>1. 0 \in S
  <2> SUFFICES ASSUME NEW tt \in Seq(Seq(V)), Len(tt) = 0
               PROVE  SeqExt!FlattenSeq(<<s>> \o tt) = s \o SeqExt!FlattenSeq(tt)
    OBVIOUS
  <2>1. tt = <<>> /\ <<s>> \o tt = Append(<<>>, s) /\ <<>> \in Seq(Seq(V)) OBVIOUS
  <2>2. SeqExt!FlattenSeq(Append(<<>>, s)) = <<>> \o s BY <2>1, FlattenAppend, FlattenEmpty
  <2> QED BY <2>1, <2>2, FlattenEmpty
<1>2. ASSUME NEW n \in Nat, n \in S PROVE n + 1 \in S
  <2>0. n + 1 \in Nat OBVIOUS
  <2> SUFFICES ASSUME NEW tt \in Seq(Seq(V)), Len(tt) = n + 1
               PROVE  SeqExt!FlattenSeq(<<s>> \o tt) = s \o SeqExt!FlattenSeq(tt)
    BY <2>0
  <2> DEFINE front == SubSeq(tt, 1, n)
             last  == tt[n + 1]
  <2>1. front \in Seq(Seq(V)) /\ Len(front) = n /\ last \in Seq(V) OBVIOUS
  <2>2. tt = Append(front, last) OBVIOUS
  <2> HIDE DEF front, last
  <2>3. <<s>> \in Seq(Seq(V)) OBVIOUS
  <2>4. <<s>> \o tt = Append(<<s>> \o front, last) BY <2>1, <2>2, <2>3
  <2>5. <<s>> \o front \in Seq(Seq(V)) BY <2>1, <2>3
  <2>6. SeqExt!FlattenSeq(<<s>> \o tt) = SeqExt!FlattenSeq(<<s>> \o front) \o last
    BY <2>1, <2>4, <2>5, FlattenAppend
  <2>7. SeqExt!FlattenSeq(<<s>> \o front) = s \o SeqExt!FlattenSeq(front) BY <1>2, <2>1
  <2>8. SeqExt!FlattenSeq(tt) = SeqExt!FlattenSeq(front) \o last BY <2>1, <2>2, FlattenAppend
  <2>9. SeqExt!FlattenSeq(front) \in Seq(V) BY <2>1, FlattenIsSeq
  <2>10. ASSUME NEW r \in Seq(V) PROVE (s \o r) \o last = s \o (r \o last)
    <3>1. s \in Seq(V) /\ r \in Seq(V) /\ last \in Seq(V) BY <2>1
    <3> HIDE DEF S
    <3> QED BY <3>1, ConcatAssociative, SMTT(30)
  <2> QED BY <2>6, <2>7, <2>8, <2>9, <2>10
<1> HIDE DEF S
<1>3. Nat \subseteq S BY <1>1, <1>2, SetInduction
<1>4. Len(ss) \in S BY <1>3
<1> QED BY <1>4 DEF S

-----------------------------------------------------------------------------
(* Framing: what begins with a frame                                       *)

(* A concatenation is cut back into its two parts.                         *)
LEMMA ConcatAccess ==
  ASSUME NEW V, NEW s \in Seq(V), NEW t \in Seq(V)
  PROVE  /\ s \o t \in Seq(V)
         /\ Len(s \o t) = Len(s) + Len(t)
         /\ SubSeq(s \o t, 1, Len(s)) = s
         /\ SubSeq(s \o t, Len(s) + 1, Len(s \o t)) = t
<1>1. s \o t \in Seq(V) /\ Len(s \o t) = Len(s) + Len(t)
      /\ \A i \in 1 .. Len(s) + Len(t) : (s \o t)[i] =
                     IF i <= Len(s) THEN s[i] ELSE t[i - Len(s)]
  BY ConcatProperties
<1>2. Len(s) \in Nat /\ Len(t) \in Nat BY LenProperties
<1> DEFINE u == s \o t
<1>u. u \in Seq(V) /\ Len(u) = Len(s) + Len(t) /\ \A i \in 1 .. Len(u) : u[i] \in V
  BY <1>1, ElementOfSeq
<1> HIDE DEF u
<1>3. /\ SubSeq(u, 1, Len(s)) \in Seq(V)
      /\ Len(SubSeq(u, 1, Len(s))) = Len(s)
      /\ \A i \in 1 .. Len(s) : SubSeq(u, 1, Len(s))[i] = u[i]
  BY <1>2, <1>u, SubSeqProperties
<1>4. SubSeq(u, 1, Len(s)) = s
  BY <1>1, <1>2, <1>3, SeqEqual DEF u
<1>5. /\ SubSeq(u, Len(s) + 1, Len(u)) \in Seq(V)
      /\ Len(SubSeq(u, Len(s) + 1, Len(u))) = Len(t)
      /\ \A i \in 1 .. Len(t) : SubSeq(u, Len(s) + 1, Len(u))[i] = u[Len(s) + i]
  BY <1>2, <1>u, SubSeqProperties
<1>6. \A i \in 1 .. Len(t) : u[Len(s) + i] = t[i]
  BY <1>1, <1>2 DEF u
<1>7. SubSeq(u, Len(s) + 1, Len(u)) = t
  BY <1>5, <1>6, SeqEqual
<1> QED BY <1>1, <1>4, <1>7 DEF u

(* b and w, joined, begin with f, and b is long enough for all of it.      *)
BeginsWith(b, w, f, r) == b \o w = f \o r /\ Len(f) <= Len(b)

(* When a buffer and what is on its way begin with a frame and the buffer  *)
(* holds as many bytes, the buffer begins with it.                         *)
LEMMA CommonPrefix ==
  ASSUME NEW b \in Seq(Byte), NEW w \in Seq(Byte), NEW f \in Seq(Byte), NEW r \in Seq(Byte),
         BeginsWith(b, w, f, r)
  PROVE  /\ SubSeq(b, Len(f) + 1, Len(b)) \in Seq(Byte)
         /\ b = f \o SubSeq(b, Len(f) + 1, Len(b))
         /\ SubSeq(b, Len(f) + 1, Len(b)) \o w = r
<1> USE DEF BeginsWith
<1> DEFINE rest == SubSeq(b, Len(f) + 1, Len(b))
<1>1. Len(b) \in Nat /\ Len(f) \in Nat /\ \A i \in 1 .. Len(b) : b[i] \in Byte
  BY LenProperties, ElementOfSeq
<1>2. /\ rest \in Seq(Byte)
      /\ Len(rest) = Len(b) - Len(f)
      /\ \A i \in 1 .. Len(b) - Len(f) : rest[i] = b[Len(f) + i]
  BY <1>1, SubSeqProperties
<1> HIDE DEF rest
<1>3. \A i \in 1 .. Len(f) : b[i] = f[i]
  <2> SUFFICES ASSUME NEW i \in 1 .. Len(f) PROVE b[i] = f[i]
    OBVIOUS
  <2>1. (b \o w)[i] = b[i] BY <1>1, ConcatProperties, LenProperties
  <2>2. (f \o r)[i] = f[i] BY <1>1, ConcatProperties, LenProperties
  <2> QED BY <2>1, <2>2
<1>4. /\ f \o rest \in Seq(Byte) /\ Len(f \o rest) = Len(f) + Len(rest)
      /\ \A i \in 1 .. Len(f) + Len(rest) : (f \o rest)[i] =
           IF i <= Len(f) THEN f[i] ELSE rest[i - Len(f)]
  BY <1>2, ConcatProperties
<1>5. \A i \in 1 .. Len(b) : (f \o rest)[i] = b[i]
  <2> SUFFICES ASSUME NEW i \in 1 .. Len(b) PROVE (f \o rest)[i] = b[i]
    OBVIOUS
  <2>1. CASE i <= Len(f) BY <2>1, <1>1, <1>2, <1>3, <1>4
  <2>2. CASE i > Len(f)
    <3>1. (f \o rest)[i] = rest[i - Len(f)] BY <2>2, <1>1, <1>2, <1>4
    <3>2. rest[i - Len(f)] = b[Len(f) + (i - Len(f))] BY <2>2, <1>1, <1>2
    <3>3. Len(f) + (i - Len(f)) = i BY <1>1
    <3> QED BY <3>1, <3>2, <3>3
  <2>3. i <= Len(f) \/ i > Len(f) BY <1>1
  <2> QED BY <2>1, <2>2, <2>3
<1>6. Len(f \o rest) = Len(b) BY <1>1, <1>2, <1>4
<1>7. b = f \o rest BY <1>4, <1>5, <1>6, SeqEqual
<1>8. (f \o rest) \o w = f \o (rest \o w) BY <1>2, ConcatAssociative, SMTT(30)
<1>9. rest \o w \in Seq(Byte) BY <1>2, ConcatProperties
<1>10. f \o (rest \o w) = f \o r BY <1>7, <1>8
<1>11. rest \o w = r BY <1>9, <1>10, ConcatSimplifications
<1> QED BY <1>2, <1>7, <1>11 DEF rest

(* Concatenation as a symbol of its own, which the provers leave alone.    *)
Then(s, t) == s \o t

(* Concatenation of strings, as an opaque operator.                        *)
LEMMA ThenProperties ==
  /\ \A s, t \in Seq(Byte) : Then(s, t) \in Seq(Byte)
  /\ \A s, t \in Seq(Byte) : Len(Then(s, t)) = Len(s) + Len(t)
  /\ \A s, t, u \in Seq(Byte) : Then(Then(s, t), u) = Then(s, Then(t, u))
<1>1. ASSUME NEW s \in Seq(Byte), NEW t \in Seq(Byte)
      PROVE  Then(s, t) \in Seq(Byte) /\ Len(Then(s, t)) = Len(s) + Len(t)
  BY ConcatProperties DEF Then
<1>2. ASSUME NEW s \in Seq(Byte), NEW t \in Seq(Byte), NEW u \in Seq(Byte)
      PROVE  Then(Then(s, t), u) = Then(s, Then(t, u))
  <2>1. (s \o t) \o u = s \o (t \o u) BY ConcatAssociative, SMTT(30)
  <2> QED BY <2>1 DEF Then
<1> QED BY <1>1, <1>2

Total(m) == 2 * FieldLength + Len(m.id) + Len(m.body)

(* A frame is its three fields, the identifier and the body, and its       *)
(* length is what the first field says and the field itself.               *)
LEMMA FrameIs ==
  ASSUME NEW m \in Message
  PROVE  /\ Len(m.id) \in Nat /\ Len(m.body) \in Nat
         /\ m.id \in Seq(Byte) /\ m.body \in Seq(Byte) /\ m.mtype \in Nat
         /\ Total(m) \in Nat
         /\ HostToNetwork(Total(m), FieldLength) \in Seq(Byte)
         /\ Len(HostToNetwork(Total(m), FieldLength)) = FieldLength
         /\ HostToNetwork(m.mtype, FieldLength) \in Seq(Byte)
         /\ Len(HostToNetwork(m.mtype, FieldLength)) = FieldLength
         /\ HostToNetwork(Len(m.id), FieldLength) \in Seq(Byte)
         /\ Len(HostToNetwork(Len(m.id), FieldLength)) = FieldLength
         /\ Frame(m) \in Seq(Byte)
         /\ Len(Frame(m)) = FieldLength + Total(m)
         /\ \A r \in Seq(Byte) :
              Frame(m) \o r = HostToNetwork(Total(m), FieldLength)
                              \o (HostToNetwork(m.mtype, FieldLength)
                                  \o (HostToNetwork(Len(m.id), FieldLength)
                                      \o (m.id \o (m.body \o r))))
<1> DEFINE h1 == HostToNetwork(Total(m), FieldLength)
           h2 == HostToNetwork(m.mtype, FieldLength)
           h3 == HostToNetwork(Len(m.id), FieldLength)
           name    == m.id
           content == m.body
<1>1. name \in Seq(Byte) /\ content \in Seq(Byte) /\ m.mtype \in Nat /\ FieldLength \in Nat
  BY FramingAssumption DEF Message
<1>2. Len(name) \in Nat /\ Len(content) \in Nat BY <1>1, LenProperties
<1>3. Total(m) = 2 * FieldLength + Len(name) + Len(content) BY DEF Total
<1>4. Total(m) \in Nat
  <2> HIDE DEF name, content
  <2> QED BY <1>1, <1>2, <1>3
<1>5. \A x \in Nat : /\ HostToNetwork(x, FieldLength) \in Seq(Byte)
                     /\ Len(HostToNetwork(x, FieldLength)) = FieldLength
  <2> SUFFICES ASSUME NEW x \in Nat
               PROVE  /\ HostToNetwork(x, FieldLength) \in Seq(Byte)
                      /\ Len(HostToNetwork(x, FieldLength)) = FieldLength
    OBVIOUS
  <2>1. x \in Int OBVIOUS
  <2> QED BY <2>1, <1>1, HostToNetworkIsSeq
<1>6. /\ h1 \in Seq(Byte) /\ Len(h1) = FieldLength
      /\ h2 \in Seq(Byte) /\ Len(h2) = FieldLength
      /\ h3 \in Seq(Byte) /\ Len(h3) = FieldLength
  BY <1>1, <1>2, <1>4, <1>5
<1>7. Frame(m) = Then(Then(Then(Then(h1, h2), h3), name), content) BY DEF Frame, Total, Then
<1> HIDE DEF h1, h2, h3, name, content
<1>8. /\ Frame(m) \in Seq(Byte)
      /\ Len(Frame(m)) = Len(h1) + Len(h2) + Len(h3) + Len(name) + Len(content)
      /\ \A r \in Seq(Byte) :
           Then(Frame(m), r) = Then(h1, Then(h2, Then(h3, Then(name, Then(content, r)))))
  <2>0. h1 \in Seq(Byte) /\ h2 \in Seq(Byte) /\ h3 \in Seq(Byte)
        /\ name \in Seq(Byte) /\ content \in Seq(Byte)
    BY <1>1, <1>6
  <2>1. Then(h1, h2) \in Seq(Byte) BY <2>0, ThenProperties
  <2>2. Then(Then(h1, h2), h3) \in Seq(Byte) BY <2>0, <2>1, ThenProperties
  <2>3. Then(Then(Then(h1, h2), h3), name) \in Seq(Byte) BY <2>0, <2>2, ThenProperties
  <2>4. Then(Then(Then(Then(h1, h2), h3), name), content) \in Seq(Byte) BY <2>0, <2>3, ThenProperties
  <2>5. Len(Then(Then(Then(Then(h1, h2), h3), name), content))
          = Len(h1) + Len(h2) + Len(h3) + Len(name) + Len(content)
    <3>1. Len(Then(h1, h2)) = Len(h1) + Len(h2) BY <2>0, ThenProperties
    <3>2. Len(Then(Then(h1, h2), h3)) = Len(Then(h1, h2)) + Len(h3) BY <2>0, <2>1, ThenProperties
    <3>3. Len(Then(Then(Then(h1, h2), h3), name)) = Len(Then(Then(h1, h2), h3)) + Len(name)
      BY <2>0, <2>2, ThenProperties
    <3>4. Len(Then(Then(Then(Then(h1, h2), h3), name), content)) = Len(Then(Then(Then(h1, h2), h3), name)) + Len(content)
      BY <2>0, <2>3, ThenProperties
    <3> QED BY <3>1, <3>2, <3>3, <3>4
  <2>6. ASSUME NEW r \in Seq(Byte)
        PROVE  Then(Then(Then(Then(Then(h1, h2), h3), name), content), r)
                 = Then(h1, Then(h2, Then(h3, Then(name, Then(content, r)))))
    <3>1. Then(content, r) \in Seq(Byte) BY <2>0, ThenProperties
    <3>2. Then(name, Then(content, r)) \in Seq(Byte) BY <2>0, <3>1, ThenProperties
    <3>3. Then(h3, Then(name, Then(content, r))) \in Seq(Byte) BY <2>0, <3>2, ThenProperties
    <3>4. Then(Then(Then(Then(Then(h1, h2), h3), name), content), r)
            = Then(Then(Then(Then(h1, h2), h3), name), Then(content, r))
      BY <2>0, <2>3, ThenProperties
    <3>5. Then(Then(Then(Then(h1, h2), h3), name), Then(content, r))
            = Then(Then(Then(h1, h2), h3), Then(name, Then(content, r)))
      BY <2>0, <2>2, <3>1, ThenProperties
    <3>6. Then(Then(Then(h1, h2), h3), Then(name, Then(content, r)))
            = Then(Then(h1, h2), Then(h3, Then(name, Then(content, r))))
      BY <2>0, <2>1, <3>2, ThenProperties
    <3>7. Then(Then(h1, h2), Then(h3, Then(name, Then(content, r))))
            = Then(h1, Then(h2, Then(h3, Then(name, Then(content, r)))))
      BY <2>0, <3>3, ThenProperties
    <3> QED BY <3>4, <3>5, <3>6, <3>7
  <2> QED BY <1>7, <2>4, <2>5, <2>6
<1>9. Len(Frame(m)) = FieldLength + Total(m) BY <1>1, <1>2, <1>3, <1>6, <1>8
<1>10. \A r \in Seq(Byte) : Frame(m) \o r = h1 \o (h2 \o (h3 \o (name \o (content \o r))))
  BY <1>8 DEF Then
<1> QED BY <1>1, <1>2, <1>4, <1>6, <1>8, <1>9, <1>10 DEF h1, h2, h3, name, content

(* Reading a field gives its bytes and leaves the rest.                    *)
LEMMA TakeInt32 ==
  ASSUME NEW h \in Seq(Byte), NEW t \in Seq(Byte), Len(h) = FieldLength
  PROVE  /\ PeekInt32(h \o t) = NetworkToHost(h)
         /\ RetrieveInt32(h \o t) = t
<1>1. SubSeq(h \o t, 1, FieldLength) = h BY ConcatAccess
<1>2. SubSeq(h \o t, FieldLength + 1, Len(h \o t)) = t BY ConcatAccess
<1> QED BY <1>1, <1>2 DEF PeekInt32, RetrieveInt32

(* Reading a string gives it and leaves the rest.                          *)
LEMMA TakeString ==
  ASSUME NEW s \in Seq(Byte), NEW t \in Seq(Byte)
  PROVE  /\ RetriveAsString(s \o t, Len(s)) = s
         /\ After(s \o t, Len(s)) = t
BY ConcatAccess DEF RetriveAsString, After

(* A field that is positive reads as it was written.                       *)
LEMMA FieldReadsBack ==
  ASSUME NEW x \in Nat, 2 * x < Power(FieldLength)
  PROVE  NetworkToHost(HostToNetwork(x, FieldLength)) = x
<1>1. FieldLength \in Nat /\ x \in Int BY FramingAssumption
<1>2. Power(FieldLength) \in Nat BY <1>1, PowerIsNat
<1>3. - Power(FieldLength) <= 2 * x
  <2> DEFINE p == Power(FieldLength)
  <2>1. p \in Nat BY <1>2
  <2> HIDE DEF p
  <2>2. - p <= 2 * x BY <2>1
  <2> QED BY <2>2 DEF p
<1> QED BY <1>1, <1>3, NetworkOrderReadsBack

(* The length of the body follows from the fields.                         *)
LEMMA TotalIs ==
  ASSUME NEW m \in Message
  PROVE  /\ Total(m) \in Nat /\ Len(m.id) \in Nat /\ Len(m.body) \in Nat
         /\ FieldLength \in Nat \ {0} /\ Power(FieldLength) \in Nat \ {0}
         /\ Total(m) - Len(m.id) - 2 * FieldLength = Len(m.body)
         /\ Len(m.id) <= Total(m)
         /\ Total(m) + FieldLength < Power(FieldLength)
<1> DEFINE i == Len(m.id)
           c == Len(m.body)
           p == Power(FieldLength)
<1>1. i \in Nat /\ c \in Nat BY FrameIs
<1>2. FieldLength \in Nat \ {0} /\ 3 * FieldLength + i + c < p BY FramingAssumption DEF Message
<1>3. p \in Nat \ {0} BY <1>2, PowerIsNat
<1>4. Total(m) = 2 * FieldLength + i + c BY DEF Total
<1> HIDE DEF i, c, p
<1>5. /\ Total(m) \in Nat /\ Total(m) - i - 2 * FieldLength = c
      /\ i <= Total(m) /\ Total(m) + FieldLength < p
  BY <1>1, <1>2, <1>3, <1>4
<1> QED BY <1>1, <1>2, <1>3, <1>5 DEF i, c, p

(* A frame whose length field is positive is decoded to the message, and   *)
(* what follows it stays.                                                  *)
LEMMA DecodeFrame ==
  ASSUME NEW m \in Message, NEW r \in Seq(Byte), 2 * Total(m) < Power(FieldLength)
  PROVE  Decode(Frame(m) \o r)
           = [mtype |-> m.mtype, id |-> m.id, body |-> m.body, rest |-> r]
<1> DEFINE h1 == HostToNetwork(Total(m), FieldLength)
           h2 == HostToNetwork(m.mtype, FieldLength)
           h3 == HostToNetwork(Len(m.id), FieldLength)
           t5 == m.body \o r
           t4 == m.id \o t5
           t3 == h3 \o t4
           t2 == h2 \o t3
           b  == h1 \o t2
<1>1. /\ h1 \in Seq(Byte) /\ Len(h1) = FieldLength
      /\ h2 \in Seq(Byte) /\ Len(h2) = FieldLength
      /\ h3 \in Seq(Byte) /\ Len(h3) = FieldLength
      /\ m.id \in Seq(Byte) /\ m.body \in Seq(Byte)
      /\ Len(m.id) \in Nat /\ Len(m.body) \in Nat /\ m.mtype \in Nat /\ Total(m) \in Nat
      /\ Frame(m) \o r = b
  BY FrameIs
<1>2. NetworkToHost(h1) = Total(m) BY <1>1, FieldReadsBack
<1>3. NetworkToHost(h2) = m.mtype
  <2>1. 2 * m.mtype < Power(FieldLength) BY FramingAssumption DEF Message
  <2> QED BY <1>1, <2>1, FieldReadsBack
<1>4. NetworkToHost(h3) = Len(m.id)
  <2>1. 2 * Len(m.id) < Power(FieldLength) BY TotalIs
  <2>2. Len(m.id) \in Nat BY TotalIs
  <2> QED BY <2>1, <2>2, FieldReadsBack
<1> HIDE DEF h1, h2, h3
<1>5. t5 \in Seq(Byte) BY <1>1, ConcatProperties
<1> HIDE DEF t5
<1>6. t4 \in Seq(Byte) BY <1>1, <1>5, ConcatProperties
<1>7. RetriveAsString(t4, Len(m.id)) = m.id /\ After(t4, Len(m.id)) = t5
  BY <1>1, <1>5, TakeString
<1> HIDE DEF t4
<1>8. t3 \in Seq(Byte) BY <1>1, <1>6, ConcatProperties
<1>9. PeekInt32(t3) = Len(m.id) /\ RetrieveInt32(t3) = t4 BY <1>1, <1>4, <1>6, TakeInt32
<1> HIDE DEF t3
<1>10. t2 \in Seq(Byte) BY <1>1, <1>8, ConcatProperties
<1>11. PeekInt32(t2) = m.mtype /\ RetrieveInt32(t2) = t3 BY <1>1, <1>3, <1>8, TakeInt32
<1> HIDE DEF t2
<1>12. PeekInt32(b) = Total(m) /\ RetrieveInt32(b) = t2 BY <1>1, <1>2, <1>10, TakeInt32
<1> HIDE DEF b
<1>13. RetriveAsString(t5, Len(m.body)) = m.body /\ After(t5, Len(m.body)) = r
  BY <1>1, TakeString DEF t5
<1>14. BodyLength(Total(m), Len(m.id)) = Len(m.body)
  BY TotalIs DEF BodyLength
<1>15. Decode(b) = [mtype |-> m.mtype, id |-> m.id, body |-> m.body, rest |-> r]
  BY <1>7, <1>9, <1>11, <1>12, <1>13, <1>14 DEF Decode
<1> QED BY <1>1, <1>15

(* The first field of a frame, whole in the buffer, gives its length with  *)
(* the sign it comes out with.                                             *)
LEMMA PeekFrame ==
  ASSUME NEW m \in Message, NEW b \in Seq(Byte), NEW w \in Seq(Byte), NEW r \in Seq(Byte),
         b \o w = Frame(m) \o r, FieldLength <= Len(b)
  PROVE  PeekInt32(b) = Signed(Total(m), FieldLength)
<1> DEFINE h1 == HostToNetwork(Total(m), FieldLength)
           t  == HostToNetwork(m.mtype, FieldLength)
                   \o (HostToNetwork(Len(m.id), FieldLength) \o (m.id \o (m.body \o r)))
<1>1. /\ h1 \in Seq(Byte) /\ Len(h1) = FieldLength /\ Total(m) \in Nat
      /\ Frame(m) \o r = h1 \o t
      /\ m.id \in Seq(Byte) /\ m.body \in Seq(Byte)
      /\ HostToNetwork(m.mtype, FieldLength) \in Seq(Byte)
      /\ HostToNetwork(Len(m.id), FieldLength) \in Seq(Byte)
  BY FrameIs
<1>2. t \in Seq(Byte)
  <2>1. m.body \o r \in Seq(Byte) BY <1>1, ConcatProperties
  <2>2. m.id \o (m.body \o r) \in Seq(Byte) BY <1>1, <2>1, ConcatProperties
  <2>3. HostToNetwork(Len(m.id), FieldLength) \o (m.id \o (m.body \o r)) \in Seq(Byte)
    BY <1>1, <2>2, ConcatProperties
  <2> QED BY <1>1, <2>3, ConcatProperties
<1>3. NetworkToHost(h1) = Signed(Total(m), FieldLength)
  <2>1. FieldLength \in Nat /\ Total(m) \in Int BY <1>1, FramingAssumption
  <2>2. NetworkToHost(h1) = Signed(Total(m) % Power(FieldLength), FieldLength)
    BY <2>1, NetworkOrderReadsBack
  <2> DEFINE p == Power(FieldLength)
             x == Total(m)
  <2>3. p \in Nat \ {0} BY <2>1, PowerIsNat
  <2>4. x < p BY TotalIs
  <2>5. x \in Nat BY <1>1
  <2> HIDE DEF p, x
  <2>6. x \in 0 .. p - 1 /\ x = p * 0 + x BY <2>3, <2>4, <2>5
  <2>7. x \in Int /\ 0 \in Int BY <2>5
  <2>8. x = x % p BY <2>3, <2>6, <2>7, Quotient
  <2> QED BY <2>2, <2>8 DEF p, x
<1> HIDE DEF h1, t
<1>4. BeginsWith(b, w, h1, t) /\ h1 \in Seq(Byte) BY <1>1 DEF BeginsWith
<1> DEFINE rest == SubSeq(b, Len(h1) + 1, Len(b))
<1>5. rest \in Seq(Byte) BY <1>2, <1>4, CommonPrefix
<1>6. b = h1 \o rest BY <1>2, <1>4, CommonPrefix
<1> HIDE DEF rest
<1> QED BY <1>1, <1>3, <1>5, <1>6, TakeInt32

(* How the lengths of a frame relate to the limits.                        *)
LEMMA FrameLengths ==
  ASSUME NEW m \in Message
  PROVE  /\ FieldLength \in Nat \ {0} /\ Power(FieldLength) \in Nat /\ MaxDataSize \in Nat
         /\ Total(m) \in Nat
         /\ Len(Frame(m)) = Total(m) + FieldLength
         /\ Total(m) + FieldLength < Power(FieldLength)
         /\ FieldLength <= MaxDataSize
         /\ 2 * MaxDataSize < Power(FieldLength)
<1>1. /\ FieldLength \in Nat \ {0} /\ MaxDataSize \in Nat
      /\ FieldLength <= MaxDataSize /\ 2 * MaxDataSize < Power(FieldLength)
  BY FramingAssumption
<1>2. Len(Frame(m)) = FieldLength + Total(m) BY FrameIs
<1>3. /\ Power(FieldLength) \in Nat /\ Total(m) \in Nat
      /\ Total(m) + FieldLength < Power(FieldLength)
  BY TotalIs
<1>4. Len(Frame(m)) = Total(m) + FieldLength BY <1>1, <1>2, <1>3
<1> QED BY <1>1, <1>3, <1>4

(* CanProcessed accepts only a frame that is whole in the buffer and whose *)
(* length is positive; a backlog over the limit that it does not accept    *)
(* begins with a frame over the limit.                                     *)
LEMMA WhenProcessed ==
  ASSUME NEW m \in Message, NEW b \in Seq(Byte), NEW w \in Seq(Byte), NEW r \in Seq(Byte),
         b \o w = Frame(m) \o r
  PROVE  /\ CanProcessed(b) => 2 * Total(m) < Power(FieldLength) /\ Len(Frame(m)) <= Len(b)
         /\ ~ CanProcessed(b) /\ MaxDataSize < Len(b) => MaxDataSize < Len(Frame(m))
<1> DEFINE t == Total(m)
           p == Power(FieldLength)
           n == Signed(Signed(t, FieldLength) + FieldLength, FieldLength)
<1>1. /\ FieldLength \in Nat \ {0} /\ p \in Nat /\ t \in Nat /\ MaxDataSize \in Nat
      /\ Len(Frame(m)) = t + FieldLength /\ t + FieldLength < p
      /\ FieldLength <= MaxDataSize /\ 2 * MaxDataSize < p
  BY FrameLengths
<1>2. Len(b) \in Nat BY LenProperties
<1>3. FieldLength <= Len(b) =>
        (CanProcessed(b) <=> ~ (n < 0 \/ Len(b) < n))
  BY PeekFrame, <1>1, <1>2 DEF CanProcessed, LessUnsigned, ReadableSize
<1> DEFINE s == Signed(t, FieldLength)
<1>4. s = (IF 2 * t >= p THEN t - p ELSE t)
      /\ n = IF 2 * (s + FieldLength) >= p THEN (s + FieldLength) - p ELSE s + FieldLength
  BY DEF Signed
<1>5. CanProcessed(b) => FieldLength <= Len(b) BY <1>1, <1>2 DEF CanProcessed, ReadableSize
<1> HIDE DEF t, p, s, n
<1>6. CASE 2 * t >= p
  <2>1. n = (t - p) + FieldLength BY <1>1, <1>4, <1>6
  <2>2. n < 0 BY <1>1, <2>1
  <2>3. ~ CanProcessed(b) BY <1>3, <1>5, <2>2
  <2>4. MaxDataSize < Len(Frame(m)) BY <1>1, <1>6
  <2> QED BY <2>3, <2>4
<1>7. CASE 2 * t < p /\ 2 * (t + FieldLength) >= p
  <2>1. n = (t + FieldLength) - p BY <1>1, <1>4, <1>7
  <2>2. n < 0 BY <1>1, <2>1
  <2>3. ~ CanProcessed(b) BY <1>3, <1>5, <2>2
  <2>4. MaxDataSize < Len(Frame(m)) BY <1>1, <1>7
  <2> QED BY <2>3, <2>4
<1>8. CASE 2 * t < p /\ 2 * (t + FieldLength) < p
  <2>1. n = t + FieldLength BY <1>1, <1>4, <1>8
  <2>2. CanProcessed(b) => Len(Frame(m)) <= Len(b) BY <1>1, <1>2, <1>3, <1>5, <2>1
  <2>3. ~ CanProcessed(b) /\ MaxDataSize < Len(b) => MaxDataSize < Len(Frame(m))
    BY <1>1, <1>2, <1>3, <2>1
  <2> QED BY <1>8, <2>2, <2>3 DEF t, p
<1>9. 2 * t >= p \/ (2 * t < p /\ 2 * (t + FieldLength) >= p)
      \/ (2 * t < p /\ 2 * (t + FieldLength) < p)
  BY <1>1
<1> QED BY <1>6, <1>7, <1>8, <1>9

-----------------------------------------------------------------------------
(* Framing: the frames of many messages                                    *)

(* The values of a function along a sequence, which Frames and Parsed join. *)
Image(g, s) == [i \in DOMAIN s |-> g[s[i]]]

MapsAlong(g, V, W) ==
  \A s \in Seq(V), x \in V :
    /\ Image(g, s) \in Seq(W)
    /\ Image(g, Append(s, x)) = Append(Image(g, s), g[x])
    /\ Image(g, <<x>> \o s) = <<g[x]>> \o Image(g, s)

(* Images of sequences under a function, one element at a time.            *)
LEMMA MapSeq ==
  ASSUME NEW V, NEW W, NEW g \in [V -> W]
  PROVE  MapsAlong(g, V, W)
<1> SUFFICES ASSUME NEW s \in Seq(V), NEW x \in V
             PROVE  /\ Image(g, s) \in Seq(W)
                    /\ Image(g, Append(s, x)) = Append(Image(g, s), g[x])
                    /\ Image(g, <<x>> \o s) = <<g[x]>> \o Image(g, s)
  BY DEF MapsAlong
<1> DEFINE M(t) == [i \in DOMAIN t |-> g[t[i]]]
<1>1. ASSUME NEW t \in Seq(V) PROVE M(t) \in Seq(W) /\ Len(M(t)) = Len(t)
  <2>1. Len(t) \in Nat /\ DOMAIN t = 1 .. Len(t) /\ \A i \in 1 .. Len(t) : t[i] \in V
    BY LenProperties, ElementOfSeq
  <2>2. M(t) \in [1 .. Len(t) -> W] BY <2>1
  <2>3. M(t) \in Seq(W) BY <2>1, <2>2, SeqDef
  <2> QED BY <2>1, <2>2, <2>3, LenProperties
<1>2. \A t \in Seq(V) : \A i \in 1 .. Len(t) : M(t)[i] = g[t[i]]
  BY LenProperties
<1>3. /\ Append(s, x) \in Seq(V) /\ Len(Append(s, x)) = Len(s) + 1 /\ Len(s) \in Nat
      /\ \A i \in 1 .. Len(s) : Append(s, x)[i] = s[i]
      /\ Append(s, x)[Len(s) + 1] = x
  BY AppendProperties, LenProperties
<1>4. g[x] \in W OBVIOUS
<1>5. M(Append(s, x)) = Append(M(s), g[x])
  <2>1. /\ Append(M(s), g[x]) \in Seq(W) /\ Len(Append(M(s), g[x])) = Len(s) + 1
        /\ \A i \in 1 .. Len(s) : Append(M(s), g[x])[i] = M(s)[i]
        /\ Append(M(s), g[x])[Len(s) + 1] = g[x]
    BY <1>1, <1>4, AppendProperties
  <2>2. M(Append(s, x)) \in Seq(W) /\ Len(M(Append(s, x))) = Len(s) + 1 BY <1>1, <1>3
  <2>3. ASSUME NEW i \in 1 .. Len(s) + 1 PROVE M(Append(s, x))[i] = Append(M(s), g[x])[i]
    <3>1. M(Append(s, x))[i] = g[Append(s, x)[i]] BY <1>2, <1>3
    <3>2. i \in 1 .. Len(s) \/ i = Len(s) + 1 BY <1>3
    <3> HIDE DEF M
    <3> QED BY <1>2, <1>3, <2>1, <3>1, <3>2
  <2> HIDE DEF M
  <2> QED BY <2>1, <2>2, <2>3, SeqEqual
<1>6. /\ <<x>> \in Seq(V) /\ <<x>> \o s \in Seq(V) /\ Len(<<x>> \o s) = 1 + Len(s)
      /\ \A i \in 1 .. 1 + Len(s) : (<<x>> \o s)[i] = IF i <= 1 THEN <<x>>[i] ELSE s[i - 1]
  <2>1. <<x>> \in Seq(V) /\ Len(<<x>>) = 1 OBVIOUS
  <2> QED BY <2>1, ConcatProperties
<1>7. M(<<x>> \o s) = <<g[x]>> \o M(s)
  <2>1. /\ <<g[x]>> \in Seq(W) /\ <<g[x]>> \o M(s) \in Seq(W)
        /\ Len(<<g[x]>> \o M(s)) = 1 + Len(s)
        /\ \A i \in 1 .. 1 + Len(s) :
             (<<g[x]>> \o M(s))[i] = IF i <= 1 THEN <<g[x]>>[i] ELSE M(s)[i - 1]
    <3>1. <<g[x]>> \in Seq(W) /\ Len(<<g[x]>>) = 1 BY <1>4
    <3> QED BY <1>1, <3>1, ConcatProperties
  <2>2. M(<<x>> \o s) \in Seq(W) /\ Len(M(<<x>> \o s)) = 1 + Len(s) BY <1>1, <1>6
  <2>3. ASSUME NEW i \in 1 .. 1 + Len(s) PROVE M(<<x>> \o s)[i] = (<<g[x]>> \o M(s))[i]
    <3>1. M(<<x>> \o s)[i] = g[(<<x>> \o s)[i]] BY <1>2, <1>6
    <3>2. i = 1 \/ (i - 1 \in 1 .. Len(s) /\ ~ (i <= 1)) BY <1>3
    <3>3. CASE i = 1 BY <3>1, <3>3, <1>6, <2>1
    <3>4. CASE i - 1 \in 1 .. Len(s) /\ ~ (i <= 1)
      <4>1. M(s)[i - 1] = g[s[i - 1]] BY <1>2, <3>4
      <4>2. (<<x>> \o s)[i] = s[i - 1] BY <1>6, <3>4
      <4>3. (<<g[x]>> \o M(s))[i] = M(s)[i - 1] BY <2>1, <3>4
      <4> QED BY <3>1, <4>1, <4>2, <4>3
    <3> QED BY <3>2, <3>3, <3>4
  <2> HIDE DEF M
  <2> QED BY <2>1, <2>2, <2>3, SeqEqual
<1> QED BY <1>1, <1>5, <1>7 DEF Image

(* What joining them does at both ends of s. *)
JoinsImages(g, V, W) ==
  /\ SeqExt!FlattenSeq(Image(g, <<>>)) = <<>>
  /\ \A s \in Seq(V) : SeqExt!FlattenSeq(Image(g, s)) \in Seq(W)
  /\ \A s \in Seq(V), x \in V :
       SeqExt!FlattenSeq(Image(g, Append(s, x))) = SeqExt!FlattenSeq(Image(g, s)) \o g[x]
  /\ \A s \in Seq(V), x \in V :
       SeqExt!FlattenSeq(Image(g, <<x>> \o s)) = g[x] \o SeqExt!FlattenSeq(Image(g, s))

(* Joined images of sequences, one element at a time.                      *)
LEMMA FlattenImage ==
  ASSUME NEW V, NEW W, NEW g \in [V -> Seq(W)]
  PROVE  JoinsImages(g, V, W)
<1>1. SeqExt!FlattenSeq(Image(g, <<>>)) = <<>>
  <2>1. Image(g, <<>>) = <<>> BY DEF Image
  <2> QED BY <2>1, FlattenEmpty
<1>2. ASSUME NEW s \in Seq(V), NEW x \in V
      PROVE  /\ SeqExt!FlattenSeq(Image(g, s)) \in Seq(W)
             /\ SeqExt!FlattenSeq(Image(g, Append(s, x)))
                  = SeqExt!FlattenSeq(Image(g, s)) \o g[x]
             /\ SeqExt!FlattenSeq(Image(g, <<x>> \o s))
                  = g[x] \o SeqExt!FlattenSeq(Image(g, s))
  <2> DEFINE ss == Image(g, s)
             y  == g[x]
  <2>1. y \in Seq(W) OBVIOUS
  <2>0. /\ Image(g, s) \in Seq(Seq(W))
        /\ Image(g, Append(s, x)) = Append(Image(g, s), g[x])
        /\ Image(g, <<x>> \o s) = <<g[x]>> \o Image(g, s)
    <3> DEFINE U == Seq(W)
    <3>1. g \in [V -> U] OBVIOUS
    <3> HIDE DEF U
    <3>2. MapsAlong(g, V, U) BY <3>1, MapSeq
    <3> QED BY <3>2 DEF MapsAlong, U
  <2>2. ss \in Seq(Seq(W)) BY <2>0
  <2>3. Image(g, Append(s, x)) = Append(ss, y) BY <2>0
  <2>4. Image(g, <<x>> \o s) = <<y>> \o ss BY <2>0
  <2> HIDE DEF ss, y
  <2>5. SeqExt!FlattenSeq(Append(ss, y)) = SeqExt!FlattenSeq(ss) \o y
    BY <2>1, <2>2, FlattenAppend
  <2>6. SeqExt!FlattenSeq(<<y>> \o ss) = y \o SeqExt!FlattenSeq(ss)
    BY <2>1, <2>2, FlattenCons
  <2>7. SeqExt!FlattenSeq(ss) \in Seq(W) BY <2>2, FlattenIsSeq
  <2> QED BY <2>3, <2>4, <2>5, <2>6, <2>7 DEF ss, y
<1>3. ASSUME NEW s \in Seq(V) PROVE SeqExt!FlattenSeq(Image(g, s)) \in Seq(W)
  <2>1. CASE s = <<>>
    <3>1. <<>> \in Seq(W) OBVIOUS
    <3> QED BY <2>1, <3>1, <1>1
  <2>2. CASE s # <<>>
    <3>1. s[1] \in V BY <2>2
    <3> QED BY <3>1, <1>2
  <2> QED BY <2>1, <2>2
<1> QED BY <1>1, <1>2, <1>3 DEF JoinsImages

(* The bytes of a sequence of messages, one message at either end.         *)
LEMMA FramesIs ==
  /\ Frames(<<>>) = <<>>
  /\ \A s \in Seq(Message) : Frames(s) \in Seq(Byte)
  /\ \A s \in Seq(Message), m \in Message :
       /\ Frames(Append(s, m)) = Frames(s) \o Frame(m)
       /\ Frames(<<m>> \o s) = Frame(m) \o Frames(s)
<1> DEFINE g == [m \in Message |-> Frame(m)]
<1>1. g \in [Message -> Seq(Byte)] /\ \A m \in Message : g[m] = Frame(m) BY FrameIs
<1>2. ASSUME NEW s \in Seq(Message) PROVE Frames(s) = SeqExt!FlattenSeq(Image(g, s))
  <2>1. \A i \in DOMAIN s : s[i] \in Message BY LenProperties, ElementOfSeq
  <2>2. Image(g, s) = [i \in DOMAIN s |-> Frame(s[i])] BY <2>1 DEF Image
  <2> QED BY <2>2 DEF Frames
<1> HIDE DEF g
<1>3. JoinsImages(g, Message, Byte) BY <1>1, FlattenImage
<1>4. <<>> \in Seq(Message) OBVIOUS
<1>5. ASSUME NEW s \in Seq(Message), NEW m \in Message
      PROVE  Append(s, m) \in Seq(Message) /\ <<m>> \o s \in Seq(Message)
  <2>1. <<m>> \in Seq(Message) OBVIOUS
  <2> QED BY <2>1, ConcatProperties, AppendProperties
<1> QED BY <1>1, <1>2, <1>3, <1>4, <1>5, ZenonT(60) DEF JoinsImages

(* What is handed on of a sequence of messages, one message at its end.    *)
LEMMA ParsedIs ==
  /\ Parsed(<<>>) = <<>>
  /\ \A s \in Seq(Message) : Parsed(s) \in Seq(Message)
  /\ \A s \in Seq(Message), m \in Message :
       /\ Good(m) => Parsed(Append(s, m)) = Append(Parsed(s), m)
       /\ ~ Good(m) => Parsed(Append(s, m)) = Parsed(s)
<1> DEFINE g == [m \in Message |-> IF Good(m) THEN <<m>> ELSE <<>>]
<1>1. /\ g \in [Message -> Seq(Message)]
      /\ \A m \in Message : g[m] = IF Good(m) THEN <<m>> ELSE <<>>
  OBVIOUS
<1>2. ASSUME NEW s \in Seq(Message) PROVE Parsed(s) = SeqExt!FlattenSeq(Image(g, s))
  <2>1. \A i \in DOMAIN s : s[i] \in Message BY LenProperties, ElementOfSeq
  <2>2. Image(g, s) = [i \in DOMAIN s |-> IF Good(s[i]) THEN <<s[i]>> ELSE <<>>]
    BY <2>1 DEF Image
  <2> QED BY <2>2 DEF Parsed
<1> HIDE DEF g
<1>3. JoinsImages(g, Message, Message) BY <1>1, FlattenImage
<1>4. <<>> \in Seq(Message) OBVIOUS
<1>5. ASSUME NEW s \in Seq(Message), NEW m \in Message
      PROVE  /\ Parsed(s) \in Seq(Message)
             /\ Parsed(Append(s, m)) = Parsed(s) \o g[m]
  <2>1. Append(s, m) \in Seq(Message) BY AppendProperties
  <2> QED BY <1>2, <1>3, <2>1, ZenonT(60) DEF JoinsImages
<1>6. ASSUME NEW s \in Seq(Message), NEW m \in Message
      PROVE  /\ Good(m) => Parsed(Append(s, m)) = Append(Parsed(s), m)
             /\ ~ Good(m) => Parsed(Append(s, m)) = Parsed(s)
  <2> DEFINE q == Parsed(s)
  <2>1. q \in Seq(Message) /\ Parsed(Append(s, m)) = q \o g[m] BY <1>5
  <2> HIDE DEF q
  <2>2. q \o <<m>> = Append(q, m) BY <2>1, AppendIsConcat
  <2>3. q \o <<>> = q BY <2>1, ConcatEmptySeq
  <2>4. g[m] = IF Good(m) THEN <<m>> ELSE <<>> BY <1>1
  <2> QED BY <2>1, <2>2, <2>3, <2>4 DEF q
<1>7. Parsed(<<>>) = <<>> BY <1>2, <1>3, <1>4 DEF JoinsImages
<1>8. \A s \in Seq(Message) : Parsed(s) \in Seq(Message) BY <1>2, <1>3 DEF JoinsImages
<1> QED BY <1>6, <1>7, <1>8

-----------------------------------------------------------------------------
(* Framing: the decoder stays in step with the sender                      *)

(* A sequence is its first elements and the others.                        *)
LEMMA SubSeqEnds ==
  ASSUME NEW V, NEW s \in Seq(V), NEW n \in 0 .. Len(s)
  PROVE  /\ SubSeq(s, 1, n) \in Seq(V)
         /\ SubSeq(s, n + 1, Len(s)) \in Seq(V)
         /\ SubSeq(s, 1, n) \o SubSeq(s, n + 1, Len(s)) = s
<1>1. Len(s) \in Nat /\ \A i \in 1 .. Len(s) : s[i] \in V BY LenProperties, ElementOfSeq
<1>2. /\ SubSeq(s, 1, n) \in Seq(V)
      /\ SubSeq(s, n + 1, Len(s)) \in Seq(V)
  BY <1>1, SubSeqProperties
<1>3. SubSeq(s, 1, n) \o SubSeq(s, n + 1, Len(s)) = SubSeq(s, 1, Len(s))
  <2>1. 1 \in 1 .. Len(s) + 1 /\ n \in 1 - 1 .. Len(s) /\ Len(s) \in n .. Len(s) BY <1>1
  <2> QED BY <2>1, ConcatAdjacentSubSeq
<1>4. SubSeq(s, 1, Len(s)) = s BY SubSeqFull
<1> QED BY <1>2, <1>3, <1>4

(* One more message is sent: what was decoded and what is to come of it.   *)
LEMMA SendGrows ==
  ASSUME NEW s \in Seq(Message), NEW x \in Message, NEW n \in 0 .. Len(s)
  PROVE  /\ n \in 0 .. Len(Append(s, x))
         /\ SubSeq(Append(s, x), 1, n) = SubSeq(s, 1, n)
         /\ SubSeq(Append(s, x), n + 1, Len(Append(s, x)))
              = Append(SubSeq(s, n + 1, Len(s)), x)
<1> DEFINE t == Append(s, x)
<1>1. Len(s) \in Nat /\ \A i \in 1 .. Len(s) : s[i] \in Message BY LenProperties, ElementOfSeq
<1>2. t \in Seq(Message) /\ Len(t) = Len(s) + 1
      /\ (\A i \in 1 .. Len(s) : t[i] = s[i]) /\ t[Len(s) + 1] = x
  BY AppendProperties
<1> HIDE DEF t
<1>3. \A i \in 1 .. Len(t) : t[i] \in Message BY <1>2, ElementOfSeq
<1>4. SubSeq(t, 1, n) = SubSeq(s, 1, n)
  <2>1. /\ SubSeq(t, 1, n) \in Seq(Message) /\ Len(SubSeq(t, 1, n)) = n
        /\ \A i \in 1 .. n : SubSeq(t, 1, n)[i] = t[i]
    BY <1>1, <1>2, <1>3, SubSeqProperties
  <2>2. /\ SubSeq(s, 1, n) \in Seq(Message) /\ Len(SubSeq(s, 1, n)) = n
        /\ \A i \in 1 .. n : SubSeq(s, 1, n)[i] = s[i]
    BY <1>1, SubSeqProperties
  <2>3. \A i \in 1 .. n : t[i] = s[i] BY <1>1, <1>2
  <2> QED BY <2>1, <2>2, <2>3, SeqEqual
<1>5. SubSeq(t, n + 1, Len(t)) = SubSeq(t, n + 1, Len(t) - 1) \o <<t[Len(t)]>>
  <2>1. n + 1 \in 1 .. Len(t) /\ Len(t) \in n + 1 .. Len(t) BY <1>1, <1>2
  <2> QED BY <1>2, <2>1, SubSeqRecursiveSecond
<1>6. SubSeq(t, n + 1, Len(t) - 1) = SubSeq(s, n + 1, Len(s))
  <2>0. Len(t) - 1 = Len(s) BY <1>1, <1>2
  <2> DEFINE k == Len(s) - n
  <2>k. k \in Nat BY <1>1
  <2>1. /\ SubSeq(t, n + 1, Len(s)) \in Seq(Message) /\ Len(SubSeq(t, n + 1, Len(s))) = k
        /\ \A i \in 1 .. k : SubSeq(t, n + 1, Len(s))[i] = t[n + i]
    <3>1. \A i \in n + 1 .. Len(s) : t[i] \in Message BY <1>1, <1>2, <1>3
    <3>2. /\ SubSeq(t, n + 1, Len(s)) \in Seq(Message)
          /\ Len(SubSeq(t, n + 1, Len(s))) = IF n + 1 <= Len(s) THEN Len(s) - (n + 1) + 1 ELSE 0
          /\ \A i \in 1 .. Len(s) - (n + 1) + 1 :
               SubSeq(t, n + 1, Len(s))[i] = t[n + 1 + i - 1]
      BY <1>1, <3>1, SubSeqProperties
    <3> QED BY <1>1, <3>2
  <2>2. /\ SubSeq(s, n + 1, Len(s)) \in Seq(Message) /\ Len(SubSeq(s, n + 1, Len(s))) = k
        /\ \A i \in 1 .. k : SubSeq(s, n + 1, Len(s))[i] = s[n + i]
    <3>1. \A i \in n + 1 .. Len(s) : s[i] \in Message BY <1>1
    <3>2. /\ SubSeq(s, n + 1, Len(s)) \in Seq(Message)
          /\ Len(SubSeq(s, n + 1, Len(s))) = IF n + 1 <= Len(s) THEN Len(s) - (n + 1) + 1 ELSE 0
          /\ \A i \in 1 .. Len(s) - (n + 1) + 1 :
               SubSeq(s, n + 1, Len(s))[i] = s[n + 1 + i - 1]
      BY <1>1, <3>1, SubSeqProperties
    <3> QED BY <1>1, <3>2
  <2>3. \A i \in 1 .. k : t[n + i] = s[n + i] BY <1>1, <1>2
  <2> HIDE DEF k
  <2>4. SubSeq(t, n + 1, Len(s)) = SubSeq(s, n + 1, Len(s)) BY <2>k, <2>1, <2>2, <2>3, SeqEqual
  <2> QED BY <2>0, <2>4
<1>7. t[Len(t)] = x BY <1>2
<1>8. SubSeq(s, n + 1, Len(s)) \in Seq(Message) BY SubSeqEnds
<1>9. SubSeq(s, n + 1, Len(s)) \o <<x>> = Append(SubSeq(s, n + 1, Len(s)), x)
  BY <1>8, AppendIsConcat
<1>10. n \in 0 .. Len(t) BY <1>1, <1>2
<1> QED BY <1>4, <1>5, <1>6, <1>7, <1>9, <1>10 DEF t

(* The n messages decoded so far, and the bytes of the others.             *)
Decoded(n) ==
  /\ n \in 0 .. Len(sent)
  /\ handled = Parsed(SubSeq(sent, 1, n))
  /\ link # "closed" => basebuf \o wire = Frames(SubSeq(sent, n + 1, Len(sent)))

(* The receiver's inductive invariant: the decoder stands at the beginning *)
(* of a frame, it runs only while the connection is entered, and a         *)
(* connection that is not up yet has received nothing.                     *)
FramingInv ==
  /\ FramingTypeOK
  /\ known <=> link \in {"up", "halved"}
  /\ loop = "decode" => link \in {"up", "halved"}
  /\ link = "connecting" => basebuf = <<>>
  /\ \E n \in 0 .. Len(sent) : Decoded(n)
  /\ RefusedForAReason

(* What is not empty begins with the next message.                         *)
LEMMA NextFrame ==
  ASSUME FramingTypeOK, NEW n, Decoded(n), link # "closed", basebuf # <<>>
  PROVE  /\ n + 1 \in 1 .. Len(sent)
         /\ sent[n + 1] \in Message
         /\ SubSeq(sent, n + 2, Len(sent)) \in Seq(Message)
         /\ Frames(SubSeq(sent, n + 2, Len(sent))) \in Seq(Byte)
         /\ basebuf \o wire = Frame(sent[n + 1]) \o Frames(SubSeq(sent, n + 2, Len(sent)))
<1> DEFINE tail == SubSeq(sent, n + 2, Len(sent))
<1>1. sent \in Seq(Message) /\ basebuf \in Seq(Byte) /\ wire \in Seq(Byte)
      /\ n \in 0 .. Len(sent)
      /\ basebuf \o wire = Frames(SubSeq(sent, n + 1, Len(sent)))
  BY DEF FramingTypeOK, Decoded
<1>2. Len(sent) \in Nat /\ \A i \in 1 .. Len(sent) : sent[i] \in Message
  BY <1>1, LenProperties, ElementOfSeq
<1>3. n # Len(sent)
  <2> SUFFICES ASSUME n = Len(sent) PROVE FALSE OBVIOUS
  <2>1. SubSeq(sent, n + 1, Len(sent)) = <<>> BY <1>1, <1>2, SubSeqEmpty
  <2>2. basebuf \o wire = <<>> BY <1>1, <2>1, FramesIs
  <2> QED BY <1>1, <2>2, ConcatEqualIffEmpty, ConcatEmptySeq
<1>4. n + 1 \in 1 .. Len(sent) /\ sent[n + 1] \in Message BY <1>1, <1>2, <1>3
<1>5. tail \in Seq(Message) BY <1>1, <1>2, SubSeqProperties
<1>6. SubSeq(sent, n + 1, Len(sent)) = <<sent[n + 1]>> \o SubSeq(sent, (n + 1) + 1, Len(sent))
  BY <1>1, <1>2, <1>4, SubSeqRecursiveFirst
<1>7. (n + 1) + 1 = n + 2 BY <1>1, <1>2
<1>8. SubSeq(sent, n + 1, Len(sent)) = <<sent[n + 1]>> \o tail BY <1>6, <1>7
<1> HIDE DEF tail
<1>9. Frames(<<sent[n + 1]>> \o tail) = Frame(sent[n + 1]) \o Frames(tail)
  BY <1>4, <1>5, FramesIs
<1>10. Frames(tail) \in Seq(Byte) BY <1>5, FramesIs
<1> QED BY <1>1, <1>4, <1>5, <1>8, <1>9, <1>10 DEF tail

(* A frame that can be processed is the next message, whole.               *)
LEMMA DecodeNext ==
  ASSUME FramingTypeOK, NEW n, Decoded(n), link # "closed", CanProcessed(basebuf)
  PROVE  LET m == sent[n + 1]
             rest == Decode(basebuf).rest
         IN  /\ n + 1 \in 1 .. Len(sent)
             /\ m \in Message
             /\ Decode(basebuf) = [mtype |-> m.mtype, id |-> m.id, body |-> m.body,
                                   rest |-> rest]
             /\ rest \in Seq(Byte)
             /\ rest \o wire = Frames(SubSeq(sent, (n + 1) + 1, Len(sent)))
             /\ Good(m) => Parsed(SubSeq(sent, 1, n + 1))
                             = Append(Parsed(SubSeq(sent, 1, n)), m)
             /\ ~ Good(m) => Parsed(SubSeq(sent, 1, n + 1)) = Parsed(SubSeq(sent, 1, n))
<1> DEFINE m == sent[n + 1]
           r  == Frames(SubSeq(sent, n + 2, Len(sent)))
           rest == SubSeq(basebuf, Len(Frame(m)) + 1, Len(basebuf))
<1>1. sent \in Seq(Message) /\ basebuf \in Seq(Byte) /\ wire \in Seq(Byte) /\ n \in 0 .. Len(sent)
  BY DEF FramingTypeOK, Decoded
<1>2. basebuf # <<>>
  <2>1. FieldLength \in Nat \ {0} BY FramingAssumption
  <2>2. Len(basebuf) >= FieldLength BY DEF CanProcessed, ReadableSize
  <2> QED BY <2>1, <2>2, <1>1
<1>3. /\ n + 1 \in 1 .. Len(sent) /\ m \in Message /\ r \in Seq(Byte)
      /\ basebuf \o wire = Frame(m) \o r
  BY <1>2, NextFrame
<1>4. Frame(m) \in Seq(Byte) BY <1>3, FrameIs
<1> HIDE DEF r, m
<1>5. 2 * Total(m) < Power(FieldLength) /\ Len(Frame(m)) <= Len(basebuf)
  BY <1>1, <1>3, WhenProcessed
<1>6. rest \in Seq(Byte) /\ basebuf = Frame(m) \o rest /\ rest \o wire = r
  <2> DEFINE f == Frame(m)
  <2>1. /\ f \in Seq(Byte) /\ r \in Seq(Byte) /\ basebuf \in Seq(Byte) /\ wire \in Seq(Byte)
        /\ BeginsWith(basebuf, wire, f, r)
    BY <1>1, <1>3, <1>4, <1>5 DEF BeginsWith
  <2> HIDE DEF f
  <2>2. /\ SubSeq(basebuf, Len(f) + 1, Len(basebuf)) \in Seq(Byte)
        /\ basebuf = f \o SubSeq(basebuf, Len(f) + 1, Len(basebuf))
        /\ SubSeq(basebuf, Len(f) + 1, Len(basebuf)) \o wire = r
    BY <2>1, CommonPrefix
  <2> QED BY <2>2 DEF f
<1> HIDE DEF rest
<1>7. Decode(basebuf) = [mtype |-> m.mtype, id |-> m.id, body |-> m.body, rest |-> rest]
  BY <1>3, <1>5, <1>6, DecodeFrame
<1>8. Decode(basebuf).rest = rest BY <1>7
<1>9. Len(sent) \in Nat /\ (n + 1) + 1 = n + 2 BY <1>1, LenProperties
<1>10. rest \o wire = Frames(SubSeq(sent, (n + 1) + 1, Len(sent))) BY <1>6, <1>9 DEF r
<1>11. SubSeq(sent, 1, n + 1) = Append(SubSeq(sent, 1, n), m) /\ SubSeq(sent, 1, n) \in Seq(Message)
  <2>1. SubSeq(sent, 1, n + 1) = SubSeq(sent, 1, (n + 1) - 1) \o <<m>>
    <3>1. 1 \in 1 .. Len(sent) /\ n + 1 \in 1 .. Len(sent) BY <1>3, <1>9
    <3> QED BY <1>1, <3>1, SubSeqRecursiveSecond DEF m
  <2>2. (n + 1) - 1 = n BY <1>1, <1>9
  <2>3. SubSeq(sent, 1, n) \in Seq(Message) BY <1>1, SubSeqEnds
  <2>4. SubSeq(sent, 1, n) \o <<m>> = Append(SubSeq(sent, 1, n), m) BY <1>3, <2>3, AppendIsConcat
  <2> QED BY <2>1, <2>2, <2>3, <2>4
<1>12. /\ Good(m) => Parsed(SubSeq(sent, 1, n + 1)) = Append(Parsed(SubSeq(sent, 1, n)), m)
       /\ ~ Good(m) => Parsed(SubSeq(sent, 1, n + 1)) = Parsed(SubSeq(sent, 1, n))
  BY <1>3, <1>11, ParsedIs
<1> QED BY <1>3, <1>6, <1>7, <1>8, <1>10, <1>12 DEF m

(* Nothing sent and nothing received satisfies the invariant.              *)
LEMMA FramingInitInv == FramingInit => FramingInv
<1> SUFFICES ASSUME FramingInit PROVE FramingInv OBVIOUS
<1>1. <<>> \in Seq(Message) /\ <<>> \in Seq(Byte) /\ Len(<<>>) = 0 OBVIOUS
<1>2. FramingTypeOK BY <1>1 DEF FramingInit, FramingTypeOK
<1>3. SubSeq(sent, 1, 0) = <<>> /\ SubSeq(sent, 0 + 1, Len(sent)) = <<>>
  BY <1>1, SubSeqEmpty DEF FramingInit
<1>4. basebuf \o wire = <<>>
  <2>1. <<>> \o <<>> = <<>> BY <1>1, ConcatEmptySeq
  <2> QED BY <2>1 DEF FramingInit
<1>5. Decoded(0)
  <2>1. 0 \in 0 .. Len(sent) BY <1>1 DEF FramingInit
  <2>2. handled = Parsed(SubSeq(sent, 1, 0)) BY <1>3, ParsedIs DEF FramingInit
  <2>3. basebuf \o wire = Frames(SubSeq(sent, 0 + 1, Len(sent))) BY <1>3, <1>4, FramesIs
  <2> QED BY <2>1, <2>2, <2>3 DEF Decoded
<1>6. RefusedForAReason BY DEF FramingInit, RefusedForAReason
<1> QED BY <1>1, <1>2, <1>5, <1>6 DEF FramingInv, FramingInit

(* The connection comes up: no message is affected.                        *)
LEMMA FramingConnectedStep == FramingInv /\ OnConnected => FramingInv'
<1> SUFFICES ASSUME FramingInv, OnConnected PROVE FramingInv' OBVIOUS
<1>1. FramingTypeOK' BY DEF FramingInv, FramingTypeOK, OnConnected
<1>2. PICK n \in 0 .. Len(sent) : Decoded(n) BY DEF FramingInv
<1>3. Decoded(n)' BY <1>2 DEF Decoded, OnConnected
<1>4. n \in 0 .. Len(sent') BY <1>2 DEF OnConnected
<1>5. RefusedForAReason'
  <2>1. basebuf' = <<>> /\ link' = "up" BY DEF FramingInv, OnConnected
  <2>2. Len(<<>>) = 0 OBVIOUS
  <2>3. FieldLength \in Nat \ {0} /\ MaxDataSize \in Nat BY FramingAssumption
  <2>4. Len(basebuf') = 0 BY <2>1, <2>2
  <2> QED BY <2>1, <2>3, <2>4 DEF RefusedForAReason, CanProcessed, ReadableSize
<1> QED BY <1>1, <1>3, <1>4, <1>5 DEF FramingInv, OnConnected

(* The connection goes: what was on its way does not matter any more.      *)
LEMMA FramingDisconnectedStep == FramingInv /\ OnDisconnected => FramingInv'
<1> SUFFICES ASSUME FramingInv, OnDisconnected PROVE FramingInv' OBVIOUS
<1>0. <<>> \in Seq(Byte) OBVIOUS
<1>1. FramingTypeOK' BY <1>0 DEF FramingInv, FramingTypeOK, OnDisconnected
<1>2. PICK n \in 0 .. Len(sent) : Decoded(n) BY DEF FramingInv
<1>3. Decoded(n)' BY <1>2 DEF Decoded, OnDisconnected
<1>4. n \in 0 .. Len(sent') BY <1>2 DEF OnDisconnected
<1>5. RefusedForAReason' BY DEF RefusedForAReason, OnDisconnected
<1> QED BY <1>1, <1>3, <1>4, <1>5 DEF FramingInv, OnDisconnected

(* Send: one frame more at the end of what is on its way.                  *)
LEMMA FramingSendStep ==
  ASSUME FramingInv, NEW m \in Message, Send(m)
  PROVE  FramingInv'
<1>1. /\ sent \in Seq(Message) /\ wire \in Seq(Byte) /\ basebuf \in Seq(Byte)
      /\ Frame(m) \in Seq(Byte)
  BY FrameIs DEF FramingInv, FramingTypeOK
<1>2. sent' \in Seq(Message) /\ wire' \in Seq(Byte)
  BY <1>1, AppendProperties, ConcatProperties DEF Send
<1>3. FramingTypeOK' BY <1>2 DEF FramingInv, FramingTypeOK, Send
<1>4. PICK n \in 0 .. Len(sent) : Decoded(n) BY DEF FramingInv
<1>5. /\ n \in 0 .. Len(sent')
      /\ SubSeq(sent', 1, n) = SubSeq(sent, 1, n)
      /\ SubSeq(sent', n + 1, Len(sent')) = Append(SubSeq(sent, n + 1, Len(sent)), m)
  <2>1. sent' = Append(sent, m) BY DEF Send
  <2>2. n \in 0 .. Len(Append(sent, m)) BY <1>1, SendGrows
  <2>3. SubSeq(Append(sent, m), 1, n) = SubSeq(sent, 1, n) BY <1>1, SendGrows
  <2>4. SubSeq(Append(sent, m), n + 1, Len(Append(sent, m)))
          = Append(SubSeq(sent, n + 1, Len(sent)), m)
    BY <1>1, SendGrows
  <2> QED BY <2>1, <2>2, <2>3, <2>4
<1>6. basebuf' \o wire' = Frames(SubSeq(sent', n + 1, Len(sent')))
  <2> DEFINE q == SubSeq(sent, n + 1, Len(sent))
  <2>1. q \in Seq(Message) BY <1>1, SubSeqEnds
  <2>2. basebuf \o wire = Frames(q) BY <1>4 DEF Decoded, Send
  <2> HIDE DEF q
  <2>3. Frames(Append(q, m)) = Frames(q) \o Frame(m) BY <2>1, FramesIs
  <2>4. (basebuf \o wire) \o Frame(m) = basebuf \o (wire \o Frame(m))
    BY <1>1, ConcatAssociative
  <2>5. basebuf' \o wire' = Frames(Append(q, m)) BY <2>2, <2>3, <2>4 DEF Send
  <2> QED BY <1>5, <2>5 DEF q
<1>7. Decoded(n)' BY <1>4, <1>5, <1>6 DEF Decoded, Send
<1>8. RefusedForAReason'
  <2>1. \A i \in DOMAIN sent : i \in DOMAIN sent' /\ sent'[i] = sent[i]
    BY <1>1, AppendProperties, LenProperties DEF Send
  <2>2. link' = link /\ loop' = loop /\ basebuf' = basebuf BY DEF Send
  <2> QED BY <2>1, <2>2 DEF FramingInv, RefusedForAReason
<1> QED BY <1>3, <1>5, <1>7, <1>8 DEF FramingInv, Send

(* Bytes move from the wire into the buffer.                               *)
LEMMA FramingReceiveStep ==
  ASSUME FramingInv, NEW n \in 1 .. MaxRead, Receive(n)
  PROVE  FramingInv'
<1>1. wire \in Seq(Byte) /\ basebuf \in Seq(Byte) /\ n \in 0 .. Len(wire)
  BY FramingAssumption, LenProperties DEF FramingInv, FramingTypeOK, Receive
<1> DEFINE x == SubSeq(wire, 1, n)
           y == SubSeq(wire, n + 1, Len(wire))
<1>2. x \in Seq(Byte) /\ y \in Seq(Byte) /\ x \o y = wire BY <1>1, SubSeqEnds
<1>3. basebuf' = basebuf \o x /\ wire' = y BY DEF Receive
<1> HIDE DEF x, y
<1>4. basebuf' \in Seq(Byte) /\ wire' \in Seq(Byte) BY <1>1, <1>2, <1>3, ConcatProperties
<1>5. FramingTypeOK' BY <1>4 DEF FramingInv, FramingTypeOK, Receive
<1>6. (basebuf \o x) \o y = basebuf \o (x \o y)
  <2>1. basebuf \in Seq(Byte) /\ x \in Seq(Byte) /\ y \in Seq(Byte) BY <1>1, <1>2
  <2> QED BY <2>1, ConcatAssociative
<1>7. basebuf' \o wire' = basebuf \o wire BY <1>2, <1>3, <1>6
<1>8. PICK k \in 0 .. Len(sent) : Decoded(k) BY DEF FramingInv
<1>9. Decoded(k)' BY <1>7, <1>8 DEF Decoded, Receive
<1>10. k \in 0 .. Len(sent') BY <1>8 DEF Receive
<1>11. RefusedForAReason' BY DEF FramingInv, RefusedForAReason, Receive
<1> QED BY <1>5, <1>9, <1>10, <1>11 DEF FramingInv, Receive

(* The loop leaves an incomplete frame, and gives the connection up over   *)
(* the limit.                                                              *)
LEMMA FramingIncompleteStep == FramingInv /\ Incomplete => FramingInv'
<1> SUFFICES ASSUME FramingInv, Incomplete PROVE FramingInv' OBVIOUS
<1>1. link' \in {"up", "halved"} /\ link \in {"up", "halved"}
  BY DEF FramingInv, Incomplete, Shutdown
<1>2. FramingTypeOK' BY <1>1 DEF FramingInv, FramingTypeOK, Incomplete
<1>3. PICK n \in 0 .. Len(sent) : Decoded(n) BY DEF FramingInv
<1>4. Decoded(n)' BY <1>1, <1>3 DEF Decoded, Incomplete
<1>5. n \in 0 .. Len(sent') BY <1>3 DEF Incomplete
<1>6. RefusedForAReason'
  <2>0. UNCHANGED <<sent, basebuf>> /\ loop' = "rest" BY DEF Incomplete
  <2>1. CASE ReadableSize(basebuf) > MaxDataSize
    <3>1. link' = "halved" BY <2>1 DEF Incomplete, Shutdown
    <3>2. MaxDataSize \in Nat BY FramingAssumption
    <3>3. basebuf \in Seq(Byte) /\ wire \in Seq(Byte) /\ sent \in Seq(Message)
      BY DEF FramingInv, FramingTypeOK
    <3>4. basebuf # <<>> BY <2>1, <3>2, <3>3 DEF ReadableSize
    <3>5. /\ n + 1 \in 1 .. Len(sent) /\ sent[n + 1] \in Message
          /\ Frames(SubSeq(sent, n + 2, Len(sent))) \in Seq(Byte)
          /\ basebuf \o wire = Frame(sent[n + 1]) \o Frames(SubSeq(sent, n + 2, Len(sent)))
      <4>1. FramingTypeOK /\ link # "closed" BY <1>1 DEF FramingInv
      <4> QED BY <1>3, <3>4, <4>1, NextFrame
    <3>6. ~ CanProcessed(basebuf) /\ MaxDataSize < Len(basebuf)
      BY <2>1, <3>2, <3>3 DEF Incomplete, ReadableSize
    <3>7. MaxDataSize < Len(Frame(sent[n + 1])) BY <3>3, <3>5, <3>6, WhenProcessed
    <3>8. Frame(sent[n + 1]) \in Seq(Byte) BY <3>5, FrameIs
    <3>9. ~ Acceptable(sent[n + 1]) BY <3>2, <3>7, <3>8, LenProperties DEF Acceptable
    <3>10. n + 1 \in DOMAIN sent BY <3>3, <3>5, LenProperties
    <3> QED BY <2>0, <3>1, <3>9, <3>10 DEF RefusedForAReason
  <2>2. CASE ~ (ReadableSize(basebuf) > MaxDataSize)
    <3>1. link' = link BY <2>2 DEF Incomplete
    <3>2. basebuf \in Seq(Byte) /\ MaxDataSize \in Nat BY FramingAssumption DEF FramingInv, FramingTypeOK
    <3>3. ~ CanProcessed(basebuf) /\ ReadableSize(basebuf) <= MaxDataSize
      BY <2>2, <3>2, LenProperties DEF Incomplete, ReadableSize
    <3>4. link = "halved" => \E i \in DOMAIN sent : ~ Acceptable(sent[i])
      BY DEF FramingInv, RefusedForAReason
    <3> QED BY <2>0, <3>1, <3>3, <3>4 DEF RefusedForAReason
  <2> QED BY <2>1, <2>2
<1> QED BY <1>1, <1>2, <1>4, <1>5, <1>6 DEF FramingInv, Incomplete

(* The loop takes a frame that does not parse and gives the connection up. *)
LEMMA FramingBadMessageStep == FramingInv /\ BadMessage => FramingInv'
<1> SUFFICES ASSUME FramingInv, BadMessage PROVE FramingInv' OBVIOUS
<1> DEFINE rest == Decode(basebuf).rest
<1>1. link' = "halved" /\ link \in {"up", "halved"} /\ loop' = "rest"
      /\ basebuf' = rest /\ UNCHANGED <<role, known, sent, wire, handled>>
      /\ CanProcessed(basebuf)
      /\ ~ (Decode(basebuf).mtype \in KnownTypes /\ Parses(Decode(basebuf).body))
  BY DEF FramingInv, BadMessage, Shutdown
<1>2. PICK n \in 0 .. Len(sent) : Decoded(n) BY DEF FramingInv
<1> DEFINE m == sent[n + 1]
<1>3. FramingTypeOK /\ link # "closed" BY <1>1 DEF FramingInv
<1>4. /\ n + 1 \in 1 .. Len(sent)
      /\ m \in Message
      /\ Decode(basebuf) = [mtype |-> m.mtype, id |-> m.id, body |-> m.body, rest |-> rest]
      /\ rest \in Seq(Byte)
      /\ rest \o wire = Frames(SubSeq(sent, (n + 1) + 1, Len(sent)))
      /\ ~ Good(m) => Parsed(SubSeq(sent, 1, n + 1)) = Parsed(SubSeq(sent, 1, n))
  BY <1>1, <1>2, <1>3, DecodeNext
<1> HIDE DEF rest, m
<1>5. ~ Good(m)
  <2>1. Decode(basebuf).mtype = m.mtype /\ Decode(basebuf).body = m.body BY <1>4
  <2>2. m.mtype \in KnownTypes BY <1>4 DEF Message
  <2> QED BY <1>1, <2>1, <2>2 DEF Good
<1>6. FramingTypeOK' BY <1>1, <1>3, <1>4 DEF FramingTypeOK
<1>7. Decoded(n + 1)'
  <2>1. n + 1 \in 0 .. Len(sent) BY <1>2, <1>4
  <2> QED BY <1>1, <1>2, <1>4, <1>5, <2>1 DEF Decoded
<1>8. n + 1 \in 0 .. Len(sent') BY <1>7 DEF Decoded
<1>9. RefusedForAReason'
  <2>1. n + 1 \in DOMAIN sent BY <1>3, <1>4, LenProperties DEF FramingTypeOK
  <2>2. ~ Acceptable(sent[n + 1]) BY <1>5 DEF Acceptable, m
  <2> QED BY <1>1, <2>1, <2>2 DEF RefusedForAReason
<1> QED BY <1>1, <1>6, <1>7, <1>8, <1>9 DEF FramingInv

(* The loop takes a frame and hands its message on.                        *)
LEMMA FramingHandleStep ==
  ASSUME FramingInv, NEW r, HandleMessage(r)
  PROVE  FramingInv'
<1> DEFINE rest == Decode(basebuf).rest
           d == Decode(basebuf)
<1>1. loop = "decode" /\ link \in {"up", "halved"} /\ CanProcessed(basebuf)
      /\ d.mtype \in KnownTypes /\ Parses(d.body)
      /\ basebuf' = rest
      /\ handled' = Append(handled, [mtype |-> d.mtype, id |-> d.id, body |-> d.body])
      /\ UNCHANGED <<role, link, known, sent, wire, loop>>
  BY DEF FramingInv, HandleMessage
<1>2. PICK n \in 0 .. Len(sent) : Decoded(n) BY DEF FramingInv
<1> DEFINE m == sent[n + 1]
<1>3. FramingTypeOK /\ link # "closed" BY <1>1 DEF FramingInv
<1>4. /\ n + 1 \in 1 .. Len(sent)
      /\ m \in Message
      /\ d = [mtype |-> m.mtype, id |-> m.id, body |-> m.body, rest |-> rest]
      /\ rest \in Seq(Byte)
      /\ rest \o wire = Frames(SubSeq(sent, (n + 1) + 1, Len(sent)))
      /\ Good(m) => Parsed(SubSeq(sent, 1, n + 1)) = Append(Parsed(SubSeq(sent, 1, n)), m)
  BY <1>1, <1>2, <1>3, DecodeNext
<1> HIDE DEF rest, d, m
<1>5. d.mtype = m.mtype /\ d.id = m.id /\ d.body = m.body BY <1>4
<1>6. Good(m) BY <1>1, <1>5 DEF Good
<1>7. handled' = Append(handled, m)
  <2>1. m = [mtype |-> m.mtype, id |-> m.id, body |-> m.body] BY <1>4 DEF Message
  <2> QED BY <1>1, <1>5, <2>1
<1>8. handled' \in Seq(Message)
  <2>1. handled \in Seq(Message) BY <1>3 DEF FramingTypeOK
  <2> QED BY <1>4, <1>7, <2>1, AppendProperties
<1>9. FramingTypeOK' BY <1>1, <1>3, <1>4, <1>8 DEF FramingTypeOK
<1>10. Decoded(n + 1)'
  <2>1. n + 1 \in 0 .. Len(sent) BY <1>2, <1>4
  <2>2. handled' = Parsed(SubSeq(sent, 1, n + 1)) BY <1>2, <1>4, <1>6, <1>7 DEF Decoded
  <2> QED BY <1>1, <1>4, <2>1, <2>2 DEF Decoded
<1>11. n + 1 \in 0 .. Len(sent') BY <1>10 DEF Decoded
<1>12. RefusedForAReason' BY <1>1 DEF FramingInv, RefusedForAReason
<1> QED BY <1>1, <1>9, <1>10, <1>11, <1>12 DEF FramingInv

(* Every step of the connection preserves the invariant.                   *)
LEMMA FramingNextInv == FramingInv /\ [FramingNext]_framingVars => FramingInv'
<1> SUFFICES ASSUME FramingInv, [FramingNext]_framingVars PROVE FramingInv' OBVIOUS
<1>1. CASE OnConnected BY <1>1, FramingConnectedStep
<1>2. CASE OnDisconnected BY <1>2, FramingDisconnectedStep
<1>3. CASE \E m \in Message : Send(m) BY <1>3, FramingSendStep
<1>4. CASE \E n \in 1 .. MaxRead : Receive(n) BY <1>4, FramingReceiveStep
<1>5. CASE Incomplete BY <1>5, FramingIncompleteStep
<1>6. CASE BadMessage BY <1>6, FramingBadMessageStep
<1>7. CASE ServerHandles BY <1>7, FramingHandleStep DEF ServerHandles
<1>8. CASE ClientHandles BY <1>8, FramingHandleStep DEF ClientHandles
<1>9. CASE UNCHANGED framingVars
  BY <1>9 DEF FramingInv, FramingTypeOK, RefusedForAReason, Decoded, framingVars
<1> QED BY <1>1, <1>2, <1>3, <1>4, <1>5, <1>6, <1>7, <1>8, <1>9 DEF FramingNext

(* The inductive invariant of a connection holds in every reachable state. *)
LEMMA FramingInvariance == FramingSpec => []FramingInv
BY FramingInitInv, FramingNextInv, PTL DEF FramingSpec

(* Framing!DecodesWhatWasSent: types; the decoder hands on exactly the     *)
(* messages that were sent, in order and each once, leaving out only what  *)
(* does not parse, and the next byte it looks at begins a frame.           *)
THEOREM FramingDecodesWhatWasSent == FramingSpec => []DecodesWhatWasSent
<1>1. FramingInv => DecodesWhatWasSent BY DEF FramingInv, DecodesWhatWasSent, Decoded
<1> QED BY <1>1, FramingInvariance, PTL

(* Framing!RefusedForAReason: no segmentation of acceptable messages makes *)
(* the receiver give the connection up, and one that it kept holds no      *)
(* complete frame and no more bytes than the limit.                        *)
THEOREM ConnectionsAreRefusedForAReason == FramingSpec => []RefusedForAReason
<1>1. FramingInv => RefusedForAReason BY DEF FramingInv
<1> QED BY <1>1, FramingInvariance, PTL

-----------------------------------------------------------------------------
(* Messages                                                                *)

(* Messages: bodies as functions, and what their members are after a setter. *)

Keys(b) == DOMAIN b

(* A new body has no fields.                                               *)
LEMMA EmptyProperties == Keys(Empty) = {} /\ \A x : At(Empty, x) = Null
<1>1. DOMAIN Empty = {} BY DEF Empty
<1> QED BY <1>1 DEF At, Keys

(* Setting a field adds its key.                                           *)
LEMMA KeysPut == \A b, k, v : Keys(Put(b, k, v)) = Keys(b) \cup {k}
BY DEF Put, Keys

(* Setting a field changes that field only.                                *)
LEMMA AtPut == \A b, k, v, x : At(Put(b, k, v), x) = IF x = k THEN v ELSE At(b, x)
BY DEF Put, At

(* Reading a field of a body adds its key and no value.                    *)
LEMMA TouchProperties ==
  ASSUME NEW b, NEW ks
  PROVE  /\ Keys(Touch(b, ks)) = Keys(b) \cup ks
         /\ \A x : At(Touch(b, ks), x) = At(b, x)
BY DEF Touch, At, Keys

(* The kind, the value and the elements of the values the setters make.    *)
LEMMA KindsOfValues ==
  /\ Null.kind = "null" /\ Null.items = <<>>
  /\ \A s : Str(s).kind = "string"
  /\ \A s : Number(s).kind = "int"
  /\ \A s : Object(s).kind = "object"
  /\ \A h : HostObject(h).kind = "object" /\ HostObject(h).items = <<h>>
  /\ \A s : Array(s).kind = "array" /\ Array(s).items = s
BY DEF Null, Str, Number, Object, HostObject, Array

(* The getters' conversions give back what the setters put in.             *)
LEMMA ConversionsOfValues ==
  /\ AsString(Null) = ""
  /\ \A s : AsString(Str(s)) = s
  /\ \A s, enum : AsEnum(Number(s), enum) = s
BY DEF AsString, AsEnum, Null, Str, Number

(* A port comes out as it went in, although the message holds it signed.   *)
LEMMA EndpointOfAddress ==
  ASSUME NEW h \in Hosts
  PROVE  Endpoint(Address(h)) = h
<1>1. h.port \in 0 .. PortLimit - 1 /\ PortLimit \in Nat \ {0}
  BY MessagesAssumption DEF Hosts
<1>2. ToUint16(ToInt16(h.port)) = h.port
  <2> DEFINE p == h.port
             q == ToInt16(p)
  <2>1. p \in Nat /\ p \in 0 .. PortLimit - 1 /\ PortLimit \in Nat \ {0} BY <1>1
  <2>2. q = p \/ q = p - PortLimit BY DEF ToInt16
  <2> HIDE DEF p, q
  <2>3. ASSUME q = p PROVE ToUint16(q) = p
    <3>1. p = PortLimit * 0 + p BY <2>1
    <3>2. p \in Int /\ 0 \in Int BY <2>1
    <3>3. p = p % PortLimit BY <2>1, <3>1, <3>2, Quotient
    <3> QED BY <2>3, <3>3 DEF ToUint16
  <2>4. ASSUME q = p - PortLimit PROVE ToUint16(q) = p
    <3>1. q = PortLimit * (-1) + p BY <2>1, <2>4
    <3>2. q \in Int /\ -1 \in Int BY <2>1, <2>4
    <3>3. p = q % PortLimit BY <2>1, <3>1, <3>2, Quotient
    <3> QED BY <3>3 DEF ToUint16
  <2>5. ToUint16(q) = p BY <2>2, <2>3, <2>4
  <2> QED BY <2>5 DEF p, q
<1>3. Address(h).ip = h.ip /\ Address(h).port = ToInt16(h.port) BY DEF Address
<1>4. Endpoint(Address(h)) = [ip |-> h.ip, port |-> h.port] BY <1>2, <1>3 DEF Endpoint
<1> QED BY <1>4 DEF Hosts

(* ... and so does a list of hosts.                                        *)
LEMMA HostsReadBack ==
  ASSUME NEW hs \in Seq(Hosts), NEW b,
         At(b, "host").items = [i \in DOMAIN hs |-> Address(hs[i])]
  PROVE  Hosts_(b) = hs
<1> DEFINE items == At(b, "host").items
<1>1. DOMAIN items = DOMAIN hs /\ \A i \in DOMAIN hs : items[i] = Address(hs[i]) OBVIOUS
<1>2. DOMAIN hs = 1 .. Len(hs) /\ Len(hs) \in Nat /\ \A i \in 1 .. Len(hs) : hs[i] \in Hosts
  BY LenProperties, ElementOfSeq
<1> HIDE DEF items
<1>3. \A i \in DOMAIN items : Endpoint(items[i]) = hs[i] BY <1>1, <1>2, EndpointOfAddress
<1>4. Hosts_(b) = [i \in DOMAIN items |-> Endpoint(items[i])] BY DEF Hosts_, items
<1>5. Hosts_(b) = [i \in DOMAIN hs |-> hs[i]] BY <1>1, <1>3, <1>4
<1>6. hs = [i \in DOMAIN hs |-> hs[i]] BY <1>2
<1> QED BY <1>5, <1>6

(* CheckAccepts of any message.                                            *)
Accepted(t, b) ==
  \/ Check(t, b)
  \/ t = "REQUEST_RPC" /\ Params(b) = Null
  \/ t = "RESPONSE_RPC" /\ Result(b) = Null
  \/ t = "RESPONSE_SERVICE" /\ Rcode(b) # "OK"

(* A body that a message of type t may have, to be read as r.              *)
Sound(t, b, r) ==
  /\ t \in MessTypes
  /\ DOMAIN b \subseteq Members(t)
  /\ Reads(t, b) = r
  /\ Accepted(t, b)

(* The inductive invariant: a message is well formed from the sender's     *)
(* last setter to the receiver's getters, and again when it is sent on;    *)
(* the ids that were made are those of the numbers counted so far.         *)
MessagesInv ==
  /\ stage \in {"idle", "composed", "sent", "read", "refused"}
  /\ mtype \in MessTypes
  /\ stage \in {"composed", "sent", "read"} => Sound(mtype, body, meant)
  /\ stage \in {"idle", "refused"} => body = Empty
  /\ stage = "sent" => text \in {<<>>, <<body>>}
  /\ Len(text) <= 1
  /\ seq \in 1 .. MaxIds + 1
  /\ IsFiniteSet(ids)
  /\ Cardinality(ids) = seq - 1
  /\ ids \subseteq {Uuid(k) : k \in 1 .. seq - 1}

(* Different counters give different identifiers, while they fit their     *)
(* bytes.                                                                  *)
LEMMA UuidInjective ==
  ASSUME NEW j \in 1 .. MaxIds, NEW k \in 1 .. MaxIds, Uuid(j) = Uuid(k)
  PROVE  j = k
<1>1. IdBytes \in Nat /\ MaxIds \in Nat /\ MaxIds < Power(IdBytes) BY MessagesAssumption
<1>2. j \in Int /\ k \in Int BY <1>1
<1>3. j % Power(IdBytes) = k % Power(IdBytes)
  <2>1. Unsigned(HostToNetwork(j, IdBytes)) = j % Power(IdBytes) BY <1>1, <1>2, UnsignedOfInt
  <2>2. Unsigned(HostToNetwork(k, IdBytes)) = k % Power(IdBytes) BY <1>1, <1>2, UnsignedOfInt
  <2> QED BY <2>1, <2>2 DEF Uuid
<1> DEFINE p == Power(IdBytes)
<1>4. p \in Nat \ {0} BY <1>1, PowerIsNat
<1>5. MaxIds < p BY <1>1
<1>6. j % p = k % p BY <1>3
<1> HIDE DEF p
<1>7. ASSUME NEW x \in 1 .. MaxIds PROVE x % p = x
  <2>1. x \in Int /\ 0 \in Int /\ x \in 0 .. p - 1 /\ x = p * 0 + x BY <1>1, <1>4, <1>5
  <2> QED BY <1>4, <2>1, Quotient
<1> QED BY <1>6, <1>7

(* The part of a step that makes an id.                                    *)
LEMMA NewIdStep ==
  ASSUME MessagesInv, NewId
  PROVE  /\ seq' \in 1 .. MaxIds + 1
         /\ IsFiniteSet(ids')
         /\ Cardinality(ids') = seq' - 1
         /\ ids' \subseteq {Uuid(k) : k \in 1 .. seq' - 1}
<1>1. /\ seq \in 1 .. MaxIds /\ MaxIds \in Nat
      /\ seq' = seq + 1 /\ ids' = ids \cup {Uuid(seq)}
      /\ IsFiniteSet(ids) /\ Cardinality(ids) = seq - 1
      /\ ids \subseteq {Uuid(k) : k \in 1 .. seq - 1}
  <2>1. seq \in 1 .. MaxIds + 1 /\ seq <= MaxIds /\ MaxIds \in Nat
    BY MessagesAssumption DEF MessagesInv, NewId
  <2> QED BY <2>1 DEF MessagesInv, NewId
<1>2. Uuid(seq) \notin ids
  <2> SUFFICES ASSUME Uuid(seq) \in ids PROVE FALSE OBVIOUS
  <2>1. PICK k \in 1 .. seq - 1 : Uuid(seq) = Uuid(k) BY <1>1
  <2>2. k \in 1 .. MaxIds /\ k # seq BY <1>1
  <2> QED BY <1>1, <2>1, <2>2, UuidInjective
<1>3. IsFiniteSet(ids') /\ Cardinality(ids') = Cardinality(ids) + 1
  BY <1>1, <1>2, FS_AddElement
<1>4. ids' \subseteq {Uuid(k) : k \in 1 .. seq' - 1}
  <2> SUFFICES ASSUME NEW id \in ids' PROVE \E k \in 1 .. seq' - 1 : id = Uuid(k) OBVIOUS
  <2>1. CASE id = Uuid(seq) BY <1>1, <2>1
  <2>2. CASE id \in ids
    <3>1. PICK k \in 1 .. seq - 1 : id = Uuid(k) BY <1>1, <2>2
    <3>2. k \in 1 .. seq' - 1 BY <1>1
    <3> QED BY <3>1, <3>2
  <2> QED BY <1>1, <2>1, <2>2
<1> QED BY <1>1, <1>3, <1>4

(* A message that is well formed is composed.                              *)
LEMMA ComposeStep ==
  ASSUME MessagesInv, NEW t, NEW b, NEW r, Sound(t, b, r),
         Request(t, b, r) \/ Response(t, b, r)
  PROVE  MessagesInv'
<1>1. /\ stage = "idle" /\ stage' = "composed" /\ mtype' = t /\ body' = b /\ meant' = r
      /\ text' = text
  BY DEF Request, Response, Compose
<1>2. /\ seq' \in 1 .. MaxIds + 1
      /\ IsFiniteSet(ids')
      /\ Cardinality(ids') = seq' - 1
      /\ ids' \subseteq {Uuid(k) : k \in 1 .. seq' - 1}
  <2>1. CASE Request(t, b, r) BY <2>1, NewIdStep DEF Request
  <2>2. CASE Response(t, b, r)
    <3>1. seq' = seq /\ ids' = ids BY <2>2 DEF Response
    <3> QED BY <3>1 DEF MessagesInv
  <2> QED BY <2>1, <2>2
<1>3. Sound(mtype', body', meant') /\ mtype' \in MessTypes BY <1>1 DEF Sound
<1>4. Len(text') <= 1 BY <1>1 DEF MessagesInv
<1> QED BY <1>1, <1>2, <1>3, <1>4 DEF MessagesInv

(* A call, composed, is what its sender meant.                             *)
LEMMA CallStep == MessagesInv /\ ComposeCall => MessagesInv'
<1> SUFFICES ASSUME MessagesInv, ComposeCall PROVE MessagesInv' OBVIOUS
<1>1. PICK m \in Names, p \in {Null, Object("p")} :
        Request("REQUEST_RPC", SetParams(SetMethod(Empty, m), p), <<m, p>>)
  BY DEF ComposeCall
<1> DEFINE b == SetParams(SetMethod(Empty, m), p)
<1>2. /\ Keys(b) = {"method", "parameters"}
      /\ At(b, "method") = Str(m) /\ At(b, "parameters") = p
  BY EmptyProperties, KeysPut, AtPut DEF SetParams, SetMethod
<1> HIDE DEF b
<1>3. Method(b) = m /\ Params(b) = p BY <1>2, ConversionsOfValues DEF Method, Params
<1>4. Accepted("REQUEST_RPC", b)
  BY <1>2, <1>3, KindsOfValues DEF Accepted, Check, RpcRequestCheck, IsString
<1>5. Sound("REQUEST_RPC", b, <<m, p>>)
  BY <1>2, <1>3, <1>4 DEF Sound, Keys, MessTypes, Members, Reads
<1>6. Request("REQUEST_RPC", b, <<m, p>>) BY <1>1 DEF b
<1> QED BY <1>5, <1>6, ComposeStep

(* A result, composed, is what its sender meant.                           *)
LEMMA ResultStep == MessagesInv /\ ComposeResult => MessagesInv'
<1> SUFFICES ASSUME MessagesInv, ComposeResult PROVE MessagesInv' OBVIOUS
<1>1. PICK c \in {"OK", "NOT_FOUND_SERVICE", "INVAILED_PARAMS", "INTERNAL_ERROR"},
           r \in {Null, Number("33"), Object("r")} :
        /\ c = "OK" <=> r # Null
        /\ Response("RESPONSE_RPC", SetResult(SetRcode(Empty, c), r), <<c, r>>)
  BY DEF ComposeResult
<1> DEFINE b == SetResult(SetRcode(Empty, c), r)
<1>2. /\ Keys(b) = {"rcode", "result"}
      /\ At(b, "rcode") = Number(c) /\ At(b, "result") = r
  BY EmptyProperties, KeysPut, AtPut DEF SetResult, SetRcode
<1> HIDE DEF b
<1>3. Rcode(b) = c /\ Result(b) = r BY <1>2, ConversionsOfValues DEF Rcode, Result
<1>4. Accepted("RESPONSE_RPC", b)
  BY <1>1, <1>2, <1>3, KindsOfValues DEF Accepted, Check, RpcResponseCheck, IsInt
<1>5. Sound("RESPONSE_RPC", b, <<c, r>>)
  BY <1>2, <1>3, <1>4 DEF Sound, Keys, MessTypes, Members, Reads
<1>6. Response("RESPONSE_RPC", b, <<c, r>>) BY <1>1 DEF b
<1> QED BY <1>5, <1>6, ComposeStep

(* A topic request, composed, is what its sender meant.                    *)
LEMMA TopicRequestStep == MessagesInv /\ ComposeTopicRequest => MessagesInv'
<1> SUFFICES ASSUME MessagesInv, ComposeTopicRequest PROVE MessagesInv' OBVIOUS
<1>1. ASSUME NEW op, NEW k, NEW m,
             Request("REQUEST_TOPIC", SetTopicKey(SetTopicOperType(Empty, op), k), <<op, k, "">>),
             op # "PUBLISH"
      PROVE  MessagesInv'
  <2> DEFINE b == SetTopicKey(SetTopicOperType(Empty, op), k)
  <2>1. Keys(b) = {"optype", "topic_key"}
    BY EmptyProperties, KeysPut DEF SetTopicKey, SetTopicOperType
  <2>2. /\ At(b, "optype") = Number(op) /\ At(b, "topic_key") = Str(k)
        /\ At(b, "topic_message") = Null
    BY EmptyProperties, AtPut DEF SetTopicKey, SetTopicOperType
  <2>3. Request("REQUEST_TOPIC", b, <<op, k, "">>) BY <1>1
  <2> HIDE DEF b
  <2>4. TopicOperType(b) = op /\ TopicKey(b) = k /\ TopicMeassage(b) = ""
    BY <2>2, ConversionsOfValues DEF TopicOperType, TopicKey, TopicMeassage
  <2>5. Accepted("REQUEST_TOPIC", b)
    BY <1>1, <2>2, <2>4, KindsOfValues DEF Accepted, Check, TopicRequestCheck, IsString, IsInt
  <2>6. Sound("REQUEST_TOPIC", b, <<op, k, "">>)
    BY <2>1, <2>4, <2>5 DEF Sound, Keys, MessTypes, Members, Reads
  <2> QED BY <2>3, <2>6, ComposeStep
<1>2. ASSUME NEW op, NEW k, NEW m,
             Request("REQUEST_TOPIC",
                     SetTopicMeassage(SetTopicKey(SetTopicOperType(Empty, op), k), m),
                     <<op, k, m>>)
      PROVE  MessagesInv'
  <2> DEFINE b == SetTopicMeassage(SetTopicKey(SetTopicOperType(Empty, op), k), m)
  <2>1. Keys(b) = {"optype", "topic_key", "topic_message"}
    BY EmptyProperties, KeysPut DEF SetTopicKey, SetTopicOperType, SetTopicMeassage
  <2>2. /\ At(b, "optype") = Number(op) /\ At(b, "topic_key") = Str(k)
        /\ At(b, "topic_message") = Str(m)
    BY EmptyProperties, AtPut DEF SetTopicKey, SetTopicOperType, SetTopicMeassage
  <2>3. Request("REQUEST_TOPIC", b, <<op, k, m>>) BY <1>2
  <2> HIDE DEF b
  <2>4. TopicOperType(b) = op /\ TopicKey(b) = k /\ TopicMeassage(b) = m
    BY <2>2, ConversionsOfValues DEF TopicOperType, TopicKey, TopicMeassage
  <2>5. Accepted("REQUEST_TOPIC", b)
    BY <2>2, KindsOfValues DEF Accepted, Check, TopicRequestCheck, IsString, IsInt
  <2>6. Sound("REQUEST_TOPIC", b, <<op, k, m>>)
    BY <2>1, <2>4, <2>5 DEF Sound, Keys, MessTypes, Members, Reads
  <2> QED BY <2>3, <2>6, ComposeStep
<1> QED BY <1>1, <1>2 DEF ComposeTopicRequest

(* The answer to a topic request, composed, is what its sender meant.      *)
LEMMA TopicResponseStep == MessagesInv /\ ComposeTopicResponse => MessagesInv'
<1> SUFFICES ASSUME MessagesInv, ComposeTopicResponse PROVE MessagesInv' OBVIOUS
<1>1. PICK c \in {"OK", "NOT_FOUND_TOPIC", "INVALID_OPTYPE"} :
        Response("RESPONSE_TOPIC", SetRcode(Empty, c), <<c>>)
  BY DEF ComposeTopicResponse
<1> DEFINE b == SetRcode(Empty, c)
<1>2. Keys(b) = {"rcode"} /\ At(b, "rcode") = Number(c)
  BY EmptyProperties, KeysPut, AtPut DEF SetRcode
<1> HIDE DEF b
<1>3. Rcode(b) = c BY <1>2, ConversionsOfValues DEF Rcode
<1>4. Accepted("RESPONSE_TOPIC", b)
  BY <1>2, KindsOfValues DEF Accepted, Check, JsonResponseCheck, IsInt
<1>5. Sound("RESPONSE_TOPIC", b, <<c>>)
  BY <1>2, <1>3, <1>4 DEF Sound, Keys, MessTypes, Members, Reads
<1>6. Response("RESPONSE_TOPIC", b, <<c>>) BY <1>1 DEF b
<1> QED BY <1>5, <1>6, ComposeStep

(* A service request with a host, composed, is what its sender meant.      *)
LEMMA HostRequestStep == MessagesInv /\ ComposeHostRequest => MessagesInv'
<1> SUFFICES ASSUME MessagesInv, ComposeHostRequest PROVE MessagesInv' OBVIOUS
<1>1. PICK op \in {"REGISRY", "ONLINE", "OFFLINE"}, m \in Names, h \in Hosts :
        Request("REQUEST_SERVICE",
                SetServiceOperType(SetHostMeassage(SetMethod(Empty, m), h), op), <<op, m, h>>)
  BY DEF ComposeHostRequest
<1> DEFINE b == SetServiceOperType(SetHostMeassage(SetMethod(Empty, m), h), op)
<1>2. /\ Keys(b) = {"method", "host", "optype"}
      /\ At(b, "method") = Str(m) /\ At(b, "optype") = Number(op)
      /\ At(b, "host") = HostObject(Address(h))
  BY EmptyProperties, KeysPut, AtPut DEF SetServiceOperType, SetHostMeassage, SetMethod
<1> HIDE DEF b
<1>3. ServiceOperType(b) = op /\ Method(b) = m
  BY <1>2, ConversionsOfValues DEF ServiceOperType, Method
<1>4. HostMeassage(b) = h
  <2>1. At(b, "host").items = <<Address(h)>> BY <1>2, KindsOfValues
  <2>2. Hosts_(b)[1] = Endpoint(Address(h)) BY <2>1 DEF Hosts_
  <2>3. At(b, "host").items # <<>> BY <2>1
  <2> QED BY <2>2, <2>3, EndpointOfAddress DEF HostMeassage
<1>5. Accepted("REQUEST_SERVICE", b)
  BY <1>2, KindsOfValues DEF Accepted, Check, ServiceRequestCheck, IsString, IsInt
<1>6. Sound("REQUEST_SERVICE", b, <<op, m, h>>)
  BY <1>2, <1>3, <1>4, <1>5 DEF Sound, Keys, MessTypes, Members, Reads
<1>7. Request("REQUEST_SERVICE", b, <<op, m, h>>) BY <1>1 DEF b
<1> QED BY <1>6, <1>7, ComposeStep

(* A discovery, composed without a host, is what its sender meant.         *)
LEMMA DiscoveryStep == MessagesInv /\ ComposeDiscovery => MessagesInv'
<1> SUFFICES ASSUME MessagesInv, ComposeDiscovery PROVE MessagesInv' OBVIOUS
<1> DEFINE nowhere == [ip |-> "", port |-> 0]
<1>1. PICK m \in Names :
        Request("REQUEST_SERVICE", SetServiceOperType(SetMethod(Empty, m), "DISCOVERY"),
                <<"DISCOVERY", m, nowhere>>)
  BY DEF ComposeDiscovery
<1> DEFINE b == SetServiceOperType(SetMethod(Empty, m), "DISCOVERY")
<1>2. /\ Keys(b) = {"method", "optype"}
      /\ At(b, "method") = Str(m) /\ At(b, "optype") = Number("DISCOVERY")
      /\ At(b, "host") = Null
  BY EmptyProperties, KeysPut, AtPut DEF SetServiceOperType, SetMethod
<1> HIDE DEF b
<1>3. ServiceOperType(b) = "DISCOVERY" /\ Method(b) = m
  BY <1>2, ConversionsOfValues DEF ServiceOperType, Method
<1>4. HostMeassage(b) = nowhere BY <1>2, KindsOfValues DEF HostMeassage
<1> HIDE DEF nowhere
<1>5. Accepted("REQUEST_SERVICE", b)
  BY <1>2, <1>3, KindsOfValues DEF Accepted, Check, ServiceRequestCheck, IsString, IsInt
<1>6. Sound("REQUEST_SERVICE", b, <<"DISCOVERY", m, nowhere>>)
  BY <1>2, <1>3, <1>4, <1>5 DEF Sound, Keys, MessTypes, Members, Reads
<1>7. Request("REQUEST_SERVICE", b, <<"DISCOVERY", m, nowhere>>) BY <1>1 DEF b
<1> QED BY <1>6, <1>7, ComposeStep

(* The registry's answer, composed, is what its sender meant.              *)
LEMMA RegistryResponseStep == MessagesInv /\ ComposeRegistryResponse => MessagesInv'
<1> SUFFICES ASSUME MessagesInv, ComposeRegistryResponse PROVE MessagesInv' OBVIOUS
<1>1. PICK c \in {"OK", "INVALID_OPTYPE"} :
        LET op == IF c = "OK" THEN "REGISRY" ELSE "UNKNOW" IN
        Response("RESPONSE_SERVICE", SetServiceOperType(SetRcode(Empty, c), op),
                 <<c, op, "", <<>>>>)
  BY DEF ComposeRegistryResponse
<1> DEFINE op == IF c = "OK" THEN "REGISRY" ELSE "UNKNOW"
           b  == SetServiceOperType(SetRcode(Empty, c), op)
<1>0. op \in {"REGISRY", "UNKNOW"} OBVIOUS
<1>1a. Response("RESPONSE_SERVICE", b, <<c, op, "", <<>>>>) BY <1>1
<1> HIDE DEF op
<1>2. /\ Keys(b) = {"rcode", "optype"}
      /\ At(b, "rcode") = Number(c) /\ At(b, "optype") = Number(op)
      /\ At(b, "method") = Null /\ At(b, "host") = Null
  BY EmptyProperties, KeysPut, AtPut DEF SetServiceOperType, SetRcode
<1> HIDE DEF b
<1>3. Rcode(b) = c /\ ServiceOperType(b) = op /\ Method(b) = ""
  BY <1>2, ConversionsOfValues DEF Rcode, ServiceOperType, Method
<1>4. Hosts_(b) = <<>> BY <1>2, KindsOfValues DEF Hosts_
<1>5. Accepted("RESPONSE_SERVICE", b)
  BY <1>0, <1>2, <1>3, KindsOfValues DEF Accepted, Check, ServiceResponseCheck, IsInt
<1>6. Sound("RESPONSE_SERVICE", b, <<c, op, "", <<>>>>)
  BY <1>2, <1>3, <1>4, <1>5 DEF Sound, Keys, MessTypes, Members, Reads
<1> QED BY <1>1a, <1>6, ComposeStep

(* The registry's answer with hosts, composed, is what its sender meant.   *)
LEMMA DiscoveryResponseStep == MessagesInv /\ ComposeDiscoveryResponse => MessagesInv'
<1> SUFFICES ASSUME MessagesInv, ComposeDiscoveryResponse PROVE MessagesInv' OBVIOUS
<1>1. PICK hs \in UNION {[1 .. n -> Hosts] : n \in 0 .. MaxHosts}, m \in Names :
        LET b == SetServiceOperType(Empty, "DISCOVERY") IN
        IF hs = <<>>
        THEN Response("RESPONSE_SERVICE", SetRcode(b, "NOT_FOUND_SERVICE"),
                      <<"NOT_FOUND_SERVICE", "DISCOVERY", "", <<>>>>)
        ELSE Response("RESPONSE_SERVICE", SetHosts(SetMethod(SetRcode(b, "OK"), m), hs),
                      <<"OK", "DISCOVERY", m, hs>>)
  BY DEF ComposeDiscoveryResponse
<1>2. hs \in Seq(Hosts)
  <2>1. PICK n \in 0 .. MaxHosts : hs \in [1 .. n -> Hosts] BY <1>1
  <2>2. MaxHosts \in Nat BY MessagesAssumption
  <2>3. n \in Nat BY <2>2
  <2> QED BY <2>1, <2>3, SeqDef
<1> DEFINE b0 == SetServiceOperType(Empty, "DISCOVERY")
           b1 == SetRcode(b0, "NOT_FOUND_SERVICE")
           b2 == SetMethod(SetRcode(b0, "OK"), m)
           b3 == SetHosts(b2, hs)
<1>2a. hs = <<>> => Response("RESPONSE_SERVICE", b1, <<"NOT_FOUND_SERVICE", "DISCOVERY", "", <<>>>>)
  BY <1>1
<1>2b. hs # <<>> => Response("RESPONSE_SERVICE", b3, <<"OK", "DISCOVERY", m, hs>>)
  BY <1>1
<1>3. CASE hs = <<>>
  <2>1. Response("RESPONSE_SERVICE", b1, <<"NOT_FOUND_SERVICE", "DISCOVERY", "", <<>>>>)
    BY <1>2a, <1>3
  <2>2. /\ Keys(b1) = {"rcode", "optype"}
        /\ At(b1, "rcode") = Number("NOT_FOUND_SERVICE")
        /\ At(b1, "optype") = Number("DISCOVERY")
        /\ At(b1, "method") = Null /\ At(b1, "host") = Null
    BY EmptyProperties, KeysPut, AtPut DEF SetServiceOperType, SetRcode
  <2> HIDE DEF b1
  <2>3. Rcode(b1) = "NOT_FOUND_SERVICE" /\ ServiceOperType(b1) = "DISCOVERY" /\ Method(b1) = ""
    BY <2>2, ConversionsOfValues DEF Rcode, ServiceOperType, Method
  <2>4. Hosts_(b1) = <<>> BY <2>2, KindsOfValues DEF Hosts_
  <2>5. Accepted("RESPONSE_SERVICE", b1) BY <2>3 DEF Accepted
  <2>6. Sound("RESPONSE_SERVICE", b1, <<"NOT_FOUND_SERVICE", "DISCOVERY", "", <<>>>>)
    BY <2>2, <2>3, <2>4, <2>5 DEF Sound, Keys, MessTypes, Members, Reads
  <2> QED BY <2>1, <2>6, ComposeStep
<1>4. CASE hs # <<>>
  <2>1. Response("RESPONSE_SERVICE", b3, <<"OK", "DISCOVERY", m, hs>>) BY <1>2b, <1>4
  <2>2. /\ Keys(b2) = {"rcode", "optype", "method"}
        /\ At(b2, "rcode") = Number("OK") /\ At(b2, "optype") = Number("DISCOVERY")
        /\ At(b2, "method") = Str(m) /\ At(b2, "host") = Null
    BY EmptyProperties, KeysPut, AtPut DEF SetServiceOperType, SetRcode, SetMethod
  <2> HIDE DEF b2
  <2> DEFINE items == [i \in DOMAIN hs |-> Address(hs[i])]
  <2>3. items \in Seq({Address(h) : h \in Hosts})
    <3>1. DOMAIN hs = 1 .. Len(hs) /\ Len(hs) \in Nat /\ \A i \in 1 .. Len(hs) : hs[i] \in Hosts
      BY <1>2, LenProperties, ElementOfSeq
    <3>2. items \in [1 .. Len(hs) -> {Address(h) : h \in Hosts}] BY <3>1
    <3> QED BY <3>1, <3>2, SeqDef
  <2>4. At(b2, "host").items \o items = items
    <3>1. At(b2, "host").items = <<>> BY <2>2, KindsOfValues
    <3>2. <<>> \o items = items BY <2>3, ConcatEmptySeq
    <3> QED BY <3>1, <3>2
  <2>5. b3 = Put(b2, "host", Array(items)) BY <1>4, <2>4 DEF SetHosts
  <2> HIDE DEF b3, items
  <2>6. /\ Keys(b3) = {"rcode", "optype", "method", "host"}
        /\ At(b3, "rcode") = Number("OK") /\ At(b3, "optype") = Number("DISCOVERY")
        /\ At(b3, "method") = Str(m) /\ At(b3, "host") = Array(items)
    BY <2>2, <2>5, KeysPut, AtPut
  <2>7. Rcode(b3) = "OK" /\ ServiceOperType(b3) = "DISCOVERY" /\ Method(b3) = m
    BY <2>6, ConversionsOfValues DEF Rcode, ServiceOperType, Method
  <2>8. Hosts_(b3) = hs
    <3>1. At(b3, "host").items = [i \in DOMAIN hs |-> Address(hs[i])] BY <2>6, KindsOfValues DEF items
    <3> QED BY <1>2, <3>1, HostsReadBack
  <2>9. Accepted("RESPONSE_SERVICE", b3)
    BY <2>6, KindsOfValues DEF Accepted, Check, ServiceResponseCheck, IsInt, IsString
  <2>10. Sound("RESPONSE_SERVICE", b3, <<"OK", "DISCOVERY", m, hs>>)
    BY <2>6, <2>7, <2>8, <2>9 DEF Sound, Keys, MessTypes, Members, Reads
  <2> QED BY <2>1, <2>10, ComposeStep
<1> QED BY <1>3, <1>4

(* A publication that was read and is sent on is what its first sender     *)
(* meant.                                                                  *)
LEMMA ForwardStep == MessagesInv /\ Forward => MessagesInv'
<1> SUFFICES ASSUME MessagesInv, Forward PROVE MessagesInv' OBVIOUS
<1>1. /\ stage = "read" /\ stage' = "composed" /\ mtype = "REQUEST_TOPIC"
      /\ body' = Touch(body, Members(mtype))
      /\ UNCHANGED <<mtype, text, meant, seq, ids>>
  BY DEF Forward
<1>2. Sound("REQUEST_TOPIC", body, meant) BY <1>1 DEF MessagesInv
<1> DEFINE b == Touch(body, Members("REQUEST_TOPIC"))
<1>3. DOMAIN b \subseteq Members("REQUEST_TOPIC") BY <1>2, TouchProperties DEF Sound, Keys
<1>4. \A x : At(b, x) = At(body, x) BY TouchProperties
<1> HIDE DEF b
<1>5. Reads("REQUEST_TOPIC", b) = Reads("REQUEST_TOPIC", body)
  BY <1>4 DEF Reads, TopicOperType, TopicKey, TopicMeassage
<1>6. Accepted("REQUEST_TOPIC", b)
  <2>1. Check("REQUEST_TOPIC", body) BY <1>2 DEF Sound, Accepted
  <2>2. Check("REQUEST_TOPIC", b)
    BY <1>4, <2>1 DEF Check, TopicRequestCheck, IsString, IsInt, TopicOperType
  <2> QED BY <2>2 DEF Accepted
<1>7. Sound(mtype', body', meant') BY <1>1, <1>2, <1>3, <1>5, <1>6 DEF Sound, b
<1> QED BY <1>1, <1>7 DEF MessagesInv

(* Before anything is composed the invariant holds.                        *)
LEMMA MessagesInitInv == MessagesInit => MessagesInv
<1> SUFFICES ASSUME MessagesInit PROVE MessagesInv OBVIOUS
<1>1. Len(<<>>) = 0 OBVIOUS
<1>2. MaxIds \in Nat BY MessagesAssumption
<1> QED BY <1>1, <1>2, FS_EmptySet DEF MessagesInit, MessagesInv

(* Every step of a message preserves the invariant.                        *)
LEMMA MessagesNextInv == MessagesInv /\ [MessagesNext]_messagesVars => MessagesInv'
<1> SUFFICES ASSUME MessagesInv, [MessagesNext]_messagesVars PROVE MessagesInv' OBVIOUS
<1>1. CASE Serialize
  <2>1. /\ stage = "composed" /\ stage' = "sent" /\ text' \in {<<>>, <<body>>}
        /\ UNCHANGED <<mtype, body, meant, seq, ids>>
    BY <1>1 DEF Serialize
  <2>2. Len(text') <= 1
    <3>1. Len(<<>>) = 0 /\ Len(<<body>>) = 1 OBVIOUS
    <3> QED BY <2>1, <3>1
  <2> QED BY <2>1, <2>2 DEF MessagesInv
<1>2. CASE Unserialize
  <2>1. /\ stage = "sent" /\ text \in {<<>>, <<body>>} /\ UNCHANGED <<mtype, text, meant, seq, ids>>
    BY <1>2 DEF Unserialize, MessagesInv
  <2>2. CASE text = <<>>
    <3>1. stage' = "refused" /\ body' = Empty BY <1>2, <2>2 DEF Unserialize
    <3> QED BY <2>1, <3>1 DEF MessagesInv
  <2>3. CASE text # <<>>
    <3>1. text = <<body>> BY <2>1, <2>3
    <3>2. stage' = "read" /\ body' = body BY <1>2, <2>3, <3>1 DEF Unserialize
    <3> QED BY <2>1, <3>2 DEF MessagesInv
  <2> QED BY <2>2, <2>3
<1>3. CASE Done
  <2>1. Len(<<>>) = 0 OBVIOUS
  <2> QED BY <1>3, <2>1 DEF Done, MessagesInv
<1>4. CASE UNCHANGED messagesVars BY <1>4 DEF messagesVars, MessagesInv
<1> QED BY <1>1, <1>2, <1>3, <1>4, CallStep, ResultStep, TopicRequestStep, TopicResponseStep,
       HostRequestStep, DiscoveryStep, RegistryResponseStep, DiscoveryResponseStep, ForwardStep
    DEF MessagesNext

(* The inductive invariant of messages holds in every reachable state.     *)
LEMMA MessagesInvariance == MessagesSpec => []MessagesInv
BY MessagesInitInv, MessagesNextInv, PTL DEF MessagesSpec

(* Messages!ReadsBack: types; a receiver reads what the sender set, also   *)
(* of a publication that was sent on, a port comes out as it went in, and  *)
(* a well-formed message passes its Check.                                 *)
THEOREM ReceiversReadWhatWasSet == MessagesSpec => []ReadsBack
<1>1. MessagesInv => ReadsBack
  <2> SUFFICES ASSUME MessagesInv PROVE ReadsBack OBVIOUS
  <2>1. DOMAIN body \subseteq Members(mtype)
    <3>1. CASE stage \in {"composed", "sent", "read"} BY <3>1 DEF MessagesInv, Sound
    <3>2. CASE stage \in {"idle", "refused"} BY <3>2, EmptyProperties DEF MessagesInv, Keys
    <3> QED BY <3>1, <3>2 DEF MessagesInv
  <2>2. DOMAIN body \subseteq UNION {Members(t) : t \in MessTypes} BY <2>1 DEF MessagesInv
  <2>3. MessagesTypeOK BY <2>1, <2>2 DEF MessagesInv, MessagesTypeOK
  <2>4. stage = "read" => Reads(mtype, body) = meant /\ CheckAccepts
    BY DEF MessagesInv, Sound, Accepted, CheckAccepts
  <2> QED BY <2>3, <2>4 DEF ReadsBack
<1> QED BY <1>1, MessagesInvariance, PTL

(* Messages!IdsAreNew: no two requests have the same id, whatever the      *)
(* random bytes before the counter are.                                    *)
THEOREM IdentifiersAreNew == MessagesSpec => []IdsAreNew
<1>1. MessagesInv => IdsAreNew BY DEF MessagesInv, IdsAreNew
<1> QED BY <1>1, MessagesInvariance, PTL

=============================================================================
