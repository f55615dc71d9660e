----------------------------- MODULE FrameCodec -----------------------------
(***************************************************************************)
(* The frames of the protocol byte by byte (src/src/protocol.c and the      *)
(* big-endian helpers of utils.h): how a message is built, how the parser   *)
(* cuts a byte stream into frames, and how app_handle_frame and the file     *)
(* module read their payloads.                                             *)
(*                                                                         *)
(* A message is a shape with numbers and texts; one shape stands for all    *)
(* message types whose payload looks alike.  The widths of the fields are   *)
(* those of the code, a byte has Base values instead of 256.  The peer is   *)
(* taken to build its frames like this client: protocol.c mirrors the       *)
(* server's.                                                               *)
(***************************************************************************)
EXTENDS Integers, Sequences, SequencesExt

CONSTANTS
  Base,        \* values of a byte
  Magic,       \* the two bytes of PROTO_MAGIC
  MaxPayload,  \* PROTO_MAX_PAYLOAD
  ZeroChar,    \* the character '0'
  Radix,       \* 10
  MaxSize,     \* UINT64_MAX
  NameMax,     \* limits of the sender and the file name of an INIT frame
  UsersMax,    \* the buffer of ui_display_online_users, NUL included
  Message,     \* the messages the peer sends
  MaxSent      \* bound on their number

Byte == 0..Base-1

HeaderSize == 5

Shape == {"empty", "text", "pair", "init", "tid", "chunk", "error", "users"}

ASSUME CodecAssumption ==
  /\ Base \in Nat \ 0..7 /\ Magic \in Byte \X Byte /\ MaxPayload \in Nat
  /\ ZeroChar \in Nat \ {0} /\ Radix \in Nat \ {0, 1} /\ ZeroChar + Radix <= Base
  /\ MaxSize \in Nat /\ NameMax \in Nat /\ UsersMax \in Nat \ {0} /\ MaxSent \in Nat

VARIABLES
  sent,     \* history: the messages the peer sent
  unsent,   \* what conn_send_all has still to send of the last of them
  wire,     \* bytes sent but not received
  rbuf,     \* app->rbuf[0 .. rbuf_len-1]
  handled,  \* history: what the handlers read
  running   \* app->running

vars == <<sent, unsent, wire, rbuf, handled, running>>

-----------------------------------------------------------------------------
(* Numbers. *)

(* The values of two bytes and of four. *)
Half == Base * Base
Word == Half * Half

(* utils_write_u16_be, u32 and u64; a wider number loses its high bytes. *)
WriteU16(n) == <<(n \div Base) % Base, n % Base>>
WriteU32(n) == WriteU16(n \div Half) \o WriteU16(n)
WriteU64(n) == WriteU32(n \div Word) \o WriteU32(n)

Rest(s, n) == SubSeq(s, n + 1, Len(s))

(* utils_read_u16_be, u32 and u64 read the head of what they are given. *)
ReadU16(bytes) == bytes[1] * Base + bytes[2]
ReadU32(bytes) == ReadU16(bytes) * Half + ReadU16(Rest(bytes, 2))
ReadU64(bytes) == ReadU32(bytes) * Word + ReadU32(Rest(bytes, 4))

(* The %llu of file_cmd_sendfile. *)
Decimal(n) ==
  LET digits[m \in 0..n] ==
        IF m < Radix THEN <<ZeroChar + m>>
        ELSE Append(digits[m \div Radix], ZeroChar + (m % Radix))
  IN  digits[n]

NaN == -1

(* Mutant: the last value before an overflow is refused as well. *)
DigitAppendedEarly(n, char) ==
  LET d == char - ZeroChar
  IN  IF n = NaN \/ d \notin 0..Radix-1 \/ n >= (MaxSize - d) \div Radix
      THEN NaN ELSE n * Radix + d

(* One round of utils_parse_u64_range. *)
DigitAppended(n, char) ==
  LET d == char - ZeroChar
  IN  IF n = NaN \/ d \notin 0..Radix-1 \/ n > (MaxSize - d) \div Radix
      THEN NaN ELSE n * Radix + d

ParseNumber(chars) ==
  LET value[k \in 0..Len(chars)] ==
        IF k = 0 THEN 0 ELSE DigitAppended(value[k-1], chars[k])
  IN  IF chars = <<>> THEN NaN ELSE value[Len(chars)]

-----------------------------------------------------------------------------
(* Building a frame. *)

Text(chars) == Append(chars, 0)

Texts(names) == FlattenSeq([i \in 1..Len(names) |-> Text(names[i])])

Payload(m) ==
  CASE m.shape = "empty" -> <<>>
    [] m.shape = "text"  -> Text(m.text)
    [] m.shape = "pair"  -> Text(m.first) \o Text(m.second)
    [] m.shape = "init"  -> Text(m.sender) \o Text(m.file) \o Text(Decimal(m.size))
    [] m.shape = "tid"   -> WriteU32(m.tid)
    [] m.shape = "chunk" -> WriteU32(m.tid) \o WriteU64(m.offset) \o m.data
    [] m.shape = "error" -> WriteU16(m.code) \o <<0>> \o Text(m.text)
    [] m.shape = "users" -> WriteU16(Len(m.names)) \o <<0, 0>> \o Texts(m.names)

(* The messages the peer can mean to send: their texts are C strings, their numbers
   and payloads are not wider than the fields for them, names respect their
   limits, and a list of users fits the buffer it is displayed from. *)
Char == Byte \ {0}

Fits(m) ==
  /\ m \in [shape : {"empty"}]
            \cup [shape : {"text"}, text : Seq(Char)]
            \cup [shape : {"pair"}, first : Seq(Char), second : Seq(Char)]
            \cup [shape : {"init"}, sender : Seq(Char), file : Seq(Char), size : 0..MaxSize]
            \cup [shape : {"tid"}, tid : 0..Word-1]
            \cup [shape : {"chunk"}, tid : 0..Word-1, offset : 0..Word*Word-1, data : Seq(Byte)]
            \cup [shape : {"error"}, code : 0..Half-1, text : Seq(Char)]
            \cup [shape : {"users"}, names : Seq(Seq(Char) \ {<<>>})]
  /\ m.shape = "init" => {Len(m.sender), Len(m.file)} \subseteq 1..NameMax
  /\ m.shape = "users" => Len(Texts(m.names)) + 1 < UsersMax
  /\ Len(Payload(m)) < Half

ASSUME MessageAssumption == \A m \in Message : Fits(m)

(* The type byte: one value per shape. *)
TypeByte(shape) ==
  CASE shape = "empty" -> 0 [] shape = "text" -> 1 [] shape = "pair" -> 2
    [] shape = "init" -> 3  [] shape = "tid" -> 4  [] shape = "chunk" -> 5
    [] shape = "error" -> 6 [] shape = "users" -> 7

Builds(m) == Len(Payload(m)) <= MaxPayload + (IF m.shape = "text" THEN 1 ELSE 0)

(* The length field has two bytes.  protocol_build_frame copies as many bytes as
   it says, the other builders copy the payload they were given. *)
Build(m) ==
  LET field == Len(Payload(m)) % Half
      short == m.shape \in {"empty", "text", "tid"}
  IN  Magic \o <<TypeByte(m.shape)>> \o WriteU16(field) \o
        (IF short THEN SubSeq(Payload(m), 1, field) ELSE Payload(m))

-----------------------------------------------------------------------------
(* Reading the payload of a frame. *)

Nuls(s) == {i \in 1..Len(s) : s[i] = 0}

(* A C string; the builders always end one with a NUL. *)
CString(s) ==
  IF Nuls(s) = {} THEN s ELSE SubSeq(s, 1, (CHOOSE i \in Nuls(s) : \A j \in Nuls(s) : i <= j) - 1)

AfterString(s) == Rest(s, Len(CString(s)) + 1)

Ignored == [shape |-> "ignored"]

(* file_parse_init_payload: three terminated texts, the last one a number. *)
ReadInit(payload) ==
  LET second == AfterString(payload)
      third  == AfterString(second)
      size   == ParseNumber(CString(third))
  IN  IF \/ Nuls(payload) = {} \/ Nuls(second) = {} \/ Nuls(third) = {}
         \/ Len(CString(payload)) \notin 1..NameMax \/ Len(CString(second)) \notin 1..NameMax
         \/ size = NaN
      THEN Ignored
      ELSE [shape |-> "init", sender |-> CString(payload), file |-> CString(second),
            size |-> size]

(* Mutant: the offset is read as a 32-bit number. *)
ReadChunkNarrow(payload) ==
  IF Len(payload) < 12 THEN Ignored
  ELSE [shape |-> "chunk", tid |-> ReadU32(payload),
        offset |-> ReadU32(Rest(payload, 8)), data |-> Rest(payload, 12)]

(* recv_handle_chunk; file_handle_frame has sorted out payloads of 4 bytes. *)
ReadChunk(payload) ==
  IF Len(payload) < 12 THEN Ignored
  ELSE [shape |-> "chunk", tid |-> ReadU32(payload),
        offset |-> ReadU64(Rest(payload, 4)), data |-> Rest(payload, 12)]

ReadTid(payload) ==
  IF Len(payload) # 4 THEN Ignored ELSE [shape |-> "tid", tid |-> ReadU32(payload)]

ReadError(payload) ==
  IF Len(payload) < 3 THEN Ignored
  ELSE [shape |-> "error", code |-> ReadU16(payload),
        text |-> CString(Rest(payload, 3))]

(* Mutant: the first name follows the separator at once. *)
ReadUsersEarly(payload) ==
  LET from[k \in 0..ReadU16(payload)] ==
        IF k = 0 THEN [names |-> <<>>, rest |-> Rest(payload, 3)]
        ELSE LET name == CString(from[k-1].rest)
             IN  IF name = <<>> THEN from[k-1]
                 ELSE [names |-> Append(from[k-1].names, name),
                       rest  |-> AfterString(from[k-1].rest)]
  IN  [shape |-> "users", names |-> from[ReadU16(payload)].names]

(* ui_display_online_users: as many names as the count says, none after an empty
   one; a name the buffer has no room for is left out. *)
ReadUsers(payload) ==
  LET count == ReadU16(payload)
      from[k \in 0..count] ==
        IF k = 0 THEN [names |-> <<>>, used |-> 0, rest |-> Rest(payload, 4)]
        ELSE LET was  == from[k-1]
                 name == CString(was.rest)
                 used == was.used + (IF k > 1 THEN 1 ELSE 0) + Len(name)
             IN  IF name = <<>> THEN was
                 ELSE IF was.used + Len(name) + 2 >= UsersMax
                 THEN [was EXCEPT !.rest = AfterString(was.rest)]
                 ELSE [names |-> Append(was.names, name), used |-> used,
                       rest |-> AfterString(was.rest)]
  IN  [shape |-> "users", names |-> from[count].names]

(* How the server reads two texts. *)
ReadPair(payload) ==
  [shape |-> "pair", first |-> CString(payload), second |-> CString(AfterString(payload))]

(* app_handle_frame and file_handle_frame. *)
Read(type, payload) ==
  CASE type = TypeByte("empty") -> [shape |-> "empty"]
    [] type = TypeByte("text")  -> [shape |-> "text", text |-> CString(payload)]
    [] type = TypeByte("pair")  -> ReadPair(payload)
    [] type = TypeByte("init")  -> IF Len(payload) = 4 THEN Ignored ELSE ReadInit(payload)
    [] type = TypeByte("tid")   -> ReadTid(payload)
    [] type = TypeByte("chunk") -> ReadChunk(payload)
    [] type = TypeByte("error") -> ReadError(payload)
    [] type = TypeByte("users") -> ReadUsers(payload)

-----------------------------------------------------------------------------
(* Cutting the stream. *)

(* Mutant: a frame that ends with the buffer counts as incomplete. *)
ParseLate(bytes) ==
  IF Len(bytes) < HeaderSize THEN 0
  ELSE IF SubSeq(bytes, 1, 2) # Magic THEN -1
  ELSE LET total == HeaderSize + ReadU16(Rest(bytes, 3))
       IN  IF Len(bytes) <= total THEN 0 ELSE total

(* protocol_parse: the bytes of the frame at the head, 0 for an incomplete one,
   -1 when the magic is missing. *)
Parse(bytes) ==
  IF Len(bytes) < HeaderSize THEN 0
  ELSE IF SubSeq(bytes, 1, 2) # Magic THEN -1
  ELSE LET total == HeaderSize + ReadU16(Rest(bytes, 3))
       IN  IF Len(bytes) < total THEN 0 ELSE total

(* The rounds of the loop of app_dispatch, no more than headers fit into the buffer.
   After a protocol error the buffer is left as it is. *)
Dispatched(buf) ==
  LET loop[k \in 0..Len(buf) \div HeaderSize] ==
        IF k = 0 THEN [msgs |-> <<>>, rest |-> buf, ok |-> TRUE]
        ELSE LET was == loop[k-1]
                 n   == Parse(was.rest)
             IN  IF n = 0 \/ ~was.ok THEN was
                 ELSE IF n < 0 THEN [was EXCEPT !.rest = buf, !.ok = FALSE]
                 ELSE [was EXCEPT !.msgs = Append(@, Read(was.rest[3],
                                             SubSeq(was.rest, HeaderSize + 1, n))),
                                  !.rest = Rest(@, n)]
  IN  loop[Len(buf) \div HeaderSize]

-----------------------------------------------------------------------------
Init ==
  /\ sent = <<>> /\ unsent = <<>> /\ wire = <<>> /\ rbuf = <<>>
  /\ handled = <<>> /\ running = TRUE

(* A message is built and given to conn_send_all. *)
PeerSends(m) ==
  /\ unsent = <<>> /\ Len(sent) < MaxSent /\ Builds(m)
  /\ sent' = Append(sent, m) /\ unsent' = Build(m)
  /\ UNCHANGED <<wire, rbuf, handled, running>>

(* Mutant: a partial write is taken for a whole one. *)
LeftAfterNone(n) == <<>>

(* What conn_send_all goes on with when send took n bytes. *)
LeftAfter(n) == Rest(unsent, n)

(* One round of conn_send_all. *)
SendSome(n) ==
  /\ wire' = wire \o SubSeq(unsent, 1, n) /\ unsent' = LeftAfter(n)
  /\ UNCHANGED <<sent, rbuf, handled, running>>

(* app_handle_socket: recv returns n bytes. *)
Receive(n) ==
  LET r == Dispatched(rbuf \o SubSeq(wire, 1, n))
  IN  /\ running
      /\ wire' = Rest(wire, n) /\ rbuf' = r.rest
      /\ handled' = handled \o r.msgs /\ running' = r.ok
      /\ UNCHANGED <<sent, unsent>>

Next ==
  \/ \E m \in Message : PeerSends(m)
  \/ \E n \in 1..Len(unsent) : SendSome(n)
  \/ \E n \in 1..Len(wire) : Receive(n)

Spec == Init /\ [][Next]_vars

-----------------------------------------------------------------------------
(* Typing. *)
TypeOK ==
  /\ sent \in Seq(Message) /\ handled \in Seq(Message \cup {Ignored})
  /\ unsent \in Seq(Byte) /\ wire \in Seq(Byte) /\ rbuf \in Seq(Byte) /\ running \in BOOLEAN

(* Messages survive the wire: through the builders, any cutting of the stream by
   recv, protocol_parse, app_dispatch and the readers of the payloads, every
   message is handled once, in order, with the numbers and texts it was sent
   with - also when its data looks like the start of a frame. *)
Channel == INSTANCE FrameFifo

MessagesSurvive == Channel!Spec

(* Between two calls the buffer holds the head of the next frame, never a whole
   one and never a byte of an old one: with the bytes under way it is exactly
   what the peer built for the messages that are still to be handled. *)
BufferAligned ==
  /\ running
  /\ rbuf \o wire \o unsent = FlattenSeq([i \in 1..Len(sent)-Len(handled) |-> Build(sent[Len(handled)+i])])
  /\ Len(handled) < Len(sent) => Len(rbuf) < Len(Build(sent[Len(handled)+1]))

=============================================================================
