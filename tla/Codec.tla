-------------------------------- MODULE Codec --------------------------------
(***************************************************************************)
(* The bytes of packets: what packet_builder.hpp writes, and what          *)
(* packet_parser.hpp and deserializer.hpp make of a receive buffer.  It is *)
(* the detail behind the records of Tftp, which the endpoints are modelled *)
(* with; in particular it shows what a parser finds in a buffer that the   *)
(* datagram after its own was received into.                               *)
(***************************************************************************)
EXTENDS Tftp, Loops, SequencesExt

CONSTANTS
    ByteBase,    \* values of a byte: 256 in the code
    BufferSize,  \* MAX_RECV_PACKET_SIZE: 1024 in the code
    Texts,       \* file names, modes, options and messages, without the final 0
    Numbers,     \* block numbers and error codes
    Payloads     \* blocks, as sequences of bytes

Byte == 0 .. ByteBase - 1

ASSUME CodecAssumption ==
    /\ ByteBase \in Nat /\ ByteBase > 5
    /\ BufferSize \in Nat
    /\ Texts \subseteq Seq(Byte \ {0})
    /\ Numbers \subseteq 0 .. ByteBase * ByteBase - 1
    /\ Payloads \subseteq Seq(Byte)

\* The structures of packet.hpp, and the null pointer.
Null == [op |-> "INVALID"]

FileReq ==
    [op : {"RRQ", "WRQ"}, filename : Texts, mode : Texts,
     options : UNION {[names -> Texts] :
                        names \in {N \in SUBSET Texts : IsFiniteSet(N)}}]

Structure ==
    FileReq
    \cup [op : {"DATA"}, block_no : Numbers, data : Payloads]
    \cup [op : {"ACK"}, block_no : Numbers]
    \cup [op : {"ERROR"}, error_code : Numbers, message : Texts]
-----------------------------------------------------------------------------
\* packet_builder

OpCode == [INVALID |-> 0, RRQ |-> 1, WRQ |-> 2, DATA |-> 3, ACK |-> 4, ERROR |-> 5]

\* Mutant: the bytes of the host, not of the network.
write_uint16_swapped(n) == <<n % ByteBase, n \div ByteBase>>

write_uint16(n) == <<n \div ByteBase, n % ByteBase>>

write_string(text) == Append(text, 0)

\* Names and values of options, in the order of the map, which no property
\* depends on.
option_strings(options) ==
    LET names == SetToSeq(DOMAIN options)
    IN  [k \in 1 .. 2 * Len(names) |->
           IF k % 2 = 1 THEN names[(k + 1) \div 2] ELSE options[names[k \div 2]]]

\* write_string for one text after the other.
write_strings(texts) ==
    Fold([text \in Seq(Byte) |-> [bytes \in Seq(Byte) |-> bytes \o write_string(text)]],
         << >>, texts)

\* InvalidPacket stands for bytes that are no packet.
build_packet(p) ==
    write_uint16(OpCode[p.op]) \o
    CASE p.op \in {"RRQ", "WRQ"} -> write_strings(<<p.filename, p.mode>> \o option_strings(p.options))
      [] p.op = "DATA"           -> write_uint16(p.block_no) \o p.data
      [] p.op = "ACK"            -> write_uint16(p.block_no)
      [] p.op = "ERROR"          -> write_uint16(p.error_code) \o write_string(p.message)
      [] p.op = "INVALID"        -> <<0, 0>>
-----------------------------------------------------------------------------
\* deserializer and packet_parser, on the bytes after the opcode.  Null stands
\* for deserialize_error.

read_uint16(bytes) == bytes[1] * ByteBase + bytes[2]

\* The strings read_string returns one after the other, when the last byte is
\* the 0 that ends the last of them.
read_strings(bytes) ==
    LET zeros == {i \in DOMAIN bytes : bytes[i] = 0}
        ending(k) == IF k = 0 THEN 0 ELSE Nth(zeros, k)
    IN  [k \in 1 .. Cardinality(zeros) |-> SubSeq(bytes, ending(k - 1) + 1, ending(k) - 1)]

Terminated(bytes) == bytes # << >> /\ Last(bytes) = 0

\* emplace: the first value of an option stays.
options_of(strings) ==
    LET names == {k \in 3 .. Len(strings) : k % 2 = 1}
    IN  [name \in {strings[k] : k \in names} |->
           strings[1 + CHOOSE k \in names :
                         /\ strings[k] = name
                         /\ \A j \in names : strings[j] = name => k <= j]]

parse_file_req(op, bytes) ==
    LET s == read_strings(bytes)
    IN  IF Terminated(bytes) /\ Len(s) >= 2 /\ Len(s) % 2 = 0
        THEN [op |-> op, filename |-> s[1], mode |-> s[2], options |-> options_of(s)]
        ELSE Null

parse_data(bytes) ==
    IF Len(bytes) >= 2
    THEN [op |-> "DATA", block_no |-> read_uint16(bytes),
          data |-> SubSeq(bytes, 3, Len(bytes))]
    ELSE Null

\* Mutant: ensure_all_read is not called.
parse_ack_prefix(bytes) ==
    IF Len(bytes) >= 2 THEN [op |-> "ACK", block_no |-> read_uint16(bytes)] ELSE Null

parse_ack(bytes) ==
    IF Len(bytes) = 2 THEN [op |-> "ACK", block_no |-> read_uint16(bytes)] ELSE Null

parse_error(bytes) ==
    LET text == SubSeq(bytes, 3, Len(bytes))
    IN  IF Terminated(text) /\ Len(read_strings(text)) = 1
        THEN [op |-> "ERROR", error_code |-> read_uint16(bytes),
              message |-> read_strings(text)[1]]
        ELSE Null

\* packet_parser::parse_packet on the bytes of a buffer.
parse(bytes) ==
    LET rest == SubSeq(bytes, 3, Len(bytes))
        op == IF Len(bytes) >= 2 THEN read_uint16(bytes) ELSE 0
    IN  CASE op = OpCode.RRQ   -> parse_file_req("RRQ", rest)
          [] op = OpCode.WRQ   -> parse_file_req("WRQ", rest)
          [] op = OpCode.DATA  -> parse_data(rest)
          [] op = OpCode.ACK   -> parse_ack(rest)
          [] op = OpCode.ERROR -> parse_error(rest)
          [] OTHER             -> Null
-----------------------------------------------------------------------------
\* The buffer of an endpoint.

VARIABLES
    buffer,  \* m_in_packet_data
    size,    \* bytes_received, for the handler that runs next
    last,    \* the packet received last
    own      \* size is that of the packet received last

vars == <<buffer, size, last, own>>

Init ==
    /\ buffer = [i \in 1 .. BufferSize |-> 0]
    /\ size = 0
    /\ last = Null
    /\ own = FALSE

\* The bytes of p are written over the buffer.  A datagram too long for it is
\* left out: none of the packets the endpoints exchange is.
Overlaid(p) ==
    LET bytes == build_packet(p)
    IN  [i \in 1 .. BufferSize |-> IF i <= Len(bytes) THEN bytes[i] ELSE buffer[i]]

\* A datagram arrives and its handler is the next to run.
Receive(p) ==
    /\ Len(build_packet(p)) <= BufferSize
    /\ buffer' = Overlaid(p)
    /\ size' = Len(build_packet(p))
    /\ last' = p
    /\ own' = TRUE

\* A datagram arrives, on another receive operation, before that handler.
Overtake(p) ==
    /\ size > 0
    /\ Len(build_packet(p)) <= BufferSize
    /\ buffer' = Overlaid(p)
    /\ last' = p
    /\ own' = FALSE
    /\ UNCHANGED size

Next == \E p \in Structure \cup {Null} : Receive(p) \/ Overtake(p)

Spec == Init /\ [][Next]_vars
-----------------------------------------------------------------------------
Parsed == parse(SubSeq(buffer, 1, size))

\* What one side builds the other side parses, whatever the buffer held before:
\* numbers of both bytes, empty texts and blocks, any set of options.
RoundTrip == own => Parsed = last

\* The record Tftp has for p.
Abstracted(p) ==
    [CASE p.op = "DATA"            -> DataPacket(p.block_no, 0, Len(p.data))
       [] p.op = "ACK"             -> AckPacket(p.block_no)
       [] p.op = "ERROR"           -> ErrorPacket(p.error_code)
       [] p.op \in {"RRQ", "WRQ"}  -> RequestPacket(p.op)
       [] p.op = "INVALID"         -> InvalidPacket
     EXCEPT !.len = Len(build_packet(p))]

\* The parse_packet of Tftp says what the endpoints see, also when the size is
\* that of another datagram: the same number in a DATA, ACK or ERROR packet, a
\* block of the same length, with the bytes that were sent unless Tftp says
\* Garbled, and otherwise nothing but what endpoints ignore.
TftpIsSound ==
    LET seen == parse_packet(Abstracted(last), size)
    IN  size > 0 =>
        CASE seen.op = "DATA"  -> /\ Parsed.op = "DATA"
                                  /\ Parsed.block_no = seen.num
                                  /\ Len(Parsed.data) = DataSize(seen)
                                  /\ seen.data # Garbled => Parsed.data = last.data
          [] seen.op = "ACK"   -> Parsed.op = "ACK" /\ Parsed.block_no = seen.num
          [] seen.op = "ERROR" -> Parsed.op = "ERROR" /\ Parsed.error_code = seen.num
          [] OTHER             -> Parsed.op \in {"INVALID", "RRQ", "WRQ"}
=============================================================================
