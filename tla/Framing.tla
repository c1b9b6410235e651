------------------------------- MODULE Framing -------------------------------
(***************************************************************************)
(* Messages over one TCP connection, from Send at one end to the message   *)
(* callback at the other (common/Net.hpp: LVProtocol, MuduoConnection and  *)
(* the receive loops of MuduoServer and MuduoClient).  TCP delivers the    *)
(* bytes in order, in pieces of any size.  MuduoBuffer hands every call to *)
(* a muduo::net::Buffer, which is a queue of bytes (module Buffer), so     *)
(* basebuf is the sequence of the bytes in it.                             *)
(*                                                                         *)
(*   |--len--|--mtype--|--id_len--|--id--|--body--|                        *)
(*                                                                         *)
(* The receiver's callbacks run in its loop thread: bytes arrive while the *)
(* loop is at rest, and are decoded frame by frame before more arrive.     *)
(***************************************************************************)
EXTENDS NetworkInt

CONSTANTS
  FieldLength,  \* bytes of len, mtype and id_len, 4 each in the code
  MaxDataSize,  \* bytes of an unfinished frame that are tolerated, 1 << 16
  Ids, Bodies,  \* strings of bytes
  KnownTypes,   \* the types MessageFactory::Create knows
  MaxMessages,  \* bound: messages sent
  MaxRead       \* bound: bytes one callback finds in the buffer

(* The limit and the types fit the signed fields with room to spare; a     *)
(* frame may be too long for its length field to be positive, but no       *)
(* string is so long that the count comes around to positive again.        *)
ASSUME FramingAssumption ==
  /\ FieldLength \in Nat \ {0}
  /\ MaxDataSize \in Nat
  /\ FieldLength <= MaxDataSize
  /\ 2 * MaxDataSize < Power(FieldLength)
  /\ KnownTypes \subseteq Nat
  /\ \A t \in KnownTypes : 2 * t < Power(FieldLength)
  /\ Ids \subseteq Seq(Byte)
  /\ Bodies \subseteq Seq(Byte)
  /\ \A id \in Ids, body \in Bodies :
       3 * FieldLength + Len(id) + Len(body) < Power(FieldLength)
  /\ MaxMessages \in Nat
  /\ MaxRead \in Nat

SeqExt == INSTANCE SequencesExt

Message == [mtype : KnownTypes, id : Ids, body : Bodies]

VARIABLES
  role,    \* which receive loop: "server" or "client"
  link,    \* "connecting", "up", "halved" (we have shut down), "closed"
  known,   \* the connection is in _conns, or in the client's _conn
  sent,    \* messages given to Send at the other end
  wire,    \* bytes on their way
  basebuf, \* readable bytes of the connection's buffer
  loop,    \* "rest" or "decode"
  handled  \* messages given to _cb_message

framingVars == <<role, link, known, sent, wire, basebuf, loop, handled>>

-----------------------------------------------------------------------------
(* LVProtocol *)

Frame(m) ==
  LET total == 2 * FieldLength + Len(m.id) + Len(m.body)
  IN  HostToNetwork(total, FieldLength)
      \o HostToNetwork(m.mtype, FieldLength)
      \o HostToNetwork(Len(m.id), FieldLength)
      \o m.id \o m.body

(* size_t < int32_t: the signed operand, a sum that may have come around,  *)
(* is converted, so a negative one is larger than every size.              *)
LessUnsigned(size, n) == n < 0 \/ size < n

ReadableSize(b)    == Len(b)
PeekInt32(b)       == NetworkToHost(SubSeq(b, 1, FieldLength))
RetrieveInt32(b)   == SubSeq(b, FieldLength + 1, Len(b))
After(b, len)      == SubSeq(b, len + 1, Len(b))
RetriveAsString(b, len) == SubSeq(b, 1, len)

CanProcessed(b) ==
  /\ ReadableSize(b) >= FieldLength
  /\ ~ LessUnsigned(ReadableSize(b), Signed(PeekInt32(b) + FieldLength, FieldLength))

(* The body of a frame, from what its length fields say. *)
BodyLength(total, idLen) == total - idLen - 2 * FieldLength

(* faulty: the body is read and stays in the buffer. *)
DecodeKeepsBody(b) ==
  LET total  == PeekInt32(b)
      idLen  == PeekInt32(RetrieveInt32(RetrieveInt32(b)))
      atId   == RetrieveInt32(RetrieveInt32(RetrieveInt32(b)))
      atBody == After(atId, idLen)
  IN  [mtype |-> PeekInt32(RetrieveInt32(b)),
       id    |-> RetriveAsString(atId, idLen),
       body  |-> RetriveAsString(atBody, BodyLength(total, idLen)),
       rest  |-> atBody]

(* LVProtocol::OnMessage up to the fields of the frame. *)
Decode(b) ==
  LET total  == PeekInt32(b)
      atType == RetrieveInt32(b)
      atLen  == RetrieveInt32(atType)
      idLen  == PeekInt32(atLen)
      atId   == RetrieveInt32(atLen)
      atBody == After(atId, idLen)
      body   == BodyLength(total, idLen)
  IN  [mtype |-> PeekInt32(atType),
       id    |-> RetriveAsString(atId, idLen),
       body  |-> RetriveAsString(atBody, body),
       rest  |-> After(atBody, body)]

(* Whether JsonUtil::UnSerialize parses the body: JsonMessage::Serialize   *)
(* returns the empty string when the writer fails, everything else is the  *)
(* text of a JSON value.                                                   *)
Parses(body) == body # <<>>

-----------------------------------------------------------------------------

FramingInit ==
  /\ role \in {"server", "client"}
  /\ link = "connecting"
  /\ known = FALSE
  /\ sent = <<>>
  /\ wire = <<>>
  /\ basebuf = <<>>
  /\ loop = "rest"
  /\ handled = <<>>

(* OnConnection with connect->connected(): the server enters the           *)
(* connection in _conns, the client sets _conn.                            *)
OnConnected ==
  /\ link = "connecting"
  /\ link' = "up"
  /\ known' = TRUE
  /\ UNCHANGED <<role, sent, wire, basebuf, loop, handled>>

(* OnConnection when the connection has gone: the server takes it out of   *)
(* _conns, the client resets _conn.  What was on its way is lost.          *)
OnDisconnected ==
  /\ link \in {"up", "halved"}
  /\ loop = "rest"
  /\ link' = "closed"
  /\ known' = FALSE
  /\ wire' = <<>>
  /\ UNCHANGED <<role, sent, basebuf, loop, handled>>

(* MuduoConnection::Send at the other end. *)
Send(m) ==
  /\ link \in {"up", "halved"}
  /\ Len(sent) < MaxMessages
  /\ sent' = Append(sent, m)
  /\ wire' = wire \o Frame(m)
  /\ UNCHANGED <<role, link, known, basebuf, loop, handled>>

(* muduo reads the socket into the buffer and calls the message callback.  *)
Receive(n) ==
  /\ link \in {"up", "halved"}
  /\ loop = "rest"
  /\ n <= Len(wire)
  /\ basebuf' = basebuf \o SubSeq(wire, 1, n)
  /\ wire' = SubSeq(wire, n + 1, Len(wire))
  /\ loop' = "decode"
  /\ UNCHANGED <<role, link, known, sent, handled>>

(* MuduoConnection::Shutdown: no more is sent, what arrives is still read. *)
Shutdown == link' = "halved"

(* faulty: the size is tested before the frame is. *)
IncompleteSizeFirst ==
  /\ loop = "decode"
  /\ \/ ReadableSize(basebuf) > MaxDataSize /\ Shutdown
     \/ ~ CanProcessed(basebuf) /\ UNCHANGED link
  /\ loop' = "rest"
  /\ UNCHANGED <<role, known, sent, wire, basebuf, handled>>

(* The frame is not complete. *)
Incomplete ==
  /\ loop = "decode"
  /\ ~ CanProcessed(basebuf)
  /\ IF ReadableSize(basebuf) > MaxDataSize THEN Shutdown ELSE UNCHANGED link
  /\ loop' = "rest"
  /\ UNCHANGED <<role, known, sent, wire, basebuf, handled>>

(* The frame is taken out, and is no message. *)
BadMessage ==
  /\ loop = "decode"
  /\ CanProcessed(basebuf)
  /\ LET m == Decode(basebuf) IN
     /\ ~ (m.mtype \in KnownTypes /\ Parses(m.body))
     /\ basebuf' = m.rest
  /\ Shutdown
  /\ loop' = "rest"
  /\ UNCHANGED <<role, known, sent, wire, handled>>

(* faulty: one message for each callback. *)
HandleMessageOnce(r) ==
  /\ role = r
  /\ loop = "decode"
  /\ CanProcessed(basebuf)
  /\ LET m == Decode(basebuf) IN
     /\ m.mtype \in KnownTypes /\ Parses(m.body)
     /\ basebuf' = m.rest
     /\ handled' = Append(handled, [mtype |-> m.mtype, id |-> m.id, body |-> m.body])
  /\ loop' = "rest"
  /\ UNCHANGED <<role, link, known, sent, wire>>

(* The message is handed to _cb_message, by the server with the connection *)
(* it finds in _conns, by the client with _conn.                           *)
HandleMessage(r) ==
  /\ role = r
  /\ loop = "decode"
  /\ CanProcessed(basebuf)
  /\ LET m == Decode(basebuf) IN
     /\ m.mtype \in KnownTypes /\ Parses(m.body)
     /\ basebuf' = m.rest
     /\ handled' = Append(handled, [mtype |-> m.mtype, id |-> m.id, body |-> m.body])
  /\ UNCHANGED <<role, link, known, sent, wire, loop>>

ServerHandles == HandleMessage("server") /\ known
ClientHandles == HandleMessage("client")

FramingNext ==
  \/ OnConnected
  \/ OnDisconnected
  \/ \E m \in Message : Send(m)
  \/ \E n \in 1 .. MaxRead : Receive(n)
  \/ Incomplete
  \/ BadMessage
  \/ ServerHandles
  \/ ClientHandles

Loop == Incomplete \/ BadMessage \/ ServerHandles \/ ClientHandles

(* The loop thread runs its callbacks, and TCP delivers what was sent as   *)
(* long as the connection is up.                                           *)
Fairness == WF_framingVars(Loop) /\ WF_framingVars(\E n \in 1 .. MaxRead : Receive(n))

FramingSpec == FramingInit /\ [][FramingNext]_framingVars /\ Fairness

-----------------------------------------------------------------------------

FramingTypeOK ==
  /\ role \in {"server", "client"}
  /\ link \in {"connecting", "up", "halved", "closed"}
  /\ known \in BOOLEAN
  /\ sent \in Seq(Message)
  /\ wire \in Seq(Byte)
  /\ basebuf \in Seq(Byte)
  /\ loop \in {"rest", "decode"}
  /\ handled \in Seq(Message)

Good(m) == Parses(m.body)

(* What the receiver is to hand on of these messages, and their bytes. *)
Parsed(messages) ==
  SeqExt!FlattenSeq([i \in DOMAIN messages |->
                       IF Good(messages[i]) THEN <<messages[i]>> ELSE <<>>])
Frames(messages) == SeqExt!FlattenSeq([i \in DOMAIN messages |-> Frame(messages[i])])

(* Types; whatever the segmentation, the loop decodes exactly what was     *)
(* sent, in order and each once, leaving out only what does not parse; and *)
(* the next byte it will look at is the first of a frame.  A length that   *)
(* does not fit the signed field never makes it read something else, and   *)
(* the connection it decodes for is known to the handler.                  *)
DecodesWhatWasSent ==
  /\ FramingTypeOK
  /\ loop = "decode" => known
  /\ \E n \in 0 .. Len(sent) :
       /\ handled = Parsed(SubSeq(sent, 1, n))
       /\ link # "closed" =>
            basebuf \o wire = Frames(SubSeq(sent, n + 1, Len(sent)))

Acceptable(m) == Good(m) /\ Len(Frame(m)) <= MaxDataSize

(* A connection is given up only because a message did not parse or is     *)
(* larger than the limit: no segmentation of acceptable messages does it.  *)
(* One that was not given up holds, at rest, no complete frame and no more *)
(* bytes than the limit.                                                   *)
RefusedForAReason ==
  /\ link = "halved" => \E i \in DOMAIN sent : ~ Acceptable(sent[i])
  /\ loop = "rest" /\ link = "up" =>
       ~ CanProcessed(basebuf) /\ ReadableSize(basebuf) <= MaxDataSize

(* Every acceptable message that is sent is handled, however the bytes are *)
(* cut, if the connection lasts and everything before it is acceptable.    *)
AcceptableAreHandled ==
  \A n \in 1 .. MaxMessages :
    Len(sent) >= n ~> \/ Len(handled) >= n
                      \/ link = "closed"
                      \/ \E i \in 1 .. n : i <= Len(sent) /\ ~ Acceptable(sent[i])

=============================================================================
