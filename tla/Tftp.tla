-------------------------------- MODULE Tftp --------------------------------
(***************************************************************************)
(* The protocol vocabulary every TFTP endpoint of this repository shares:  *)
(* the constants of src/src/common/defs.hpp, the packets of packet.hpp as  *)
(* packet_builder.hpp puts them on the wire, and what packet_parser.hpp    *)
(* makes of a receive buffer.                                              *)
(*                                                                         *)
(* A packet keeps what the endpoints' control flow reads: its opcode, its  *)
(* 16-bit number (a block number or an error code), the identity of its    *)
(* payload and its length in bytes on the wire.  The bytes of a file block *)
(* are abstracted to the position of the block in the file.                *)
(***************************************************************************)
EXTENDS Integers

CONSTANTS
    DEFAULT_RETRY_COUNTER,  \* 5 in the code
    DEFAULT_DATA_SIZE,      \* 512 in the code
    BlockModulus,           \* std::uint16_t block numbers: 2^16 in the code
    TextLength,             \* bytes of a packet that carries text, longer than
                            \* its header: a request or an ERROR
    Garbled                 \* the payload of a block whose bytes were mixed up

ASSUME TftpAssumption ==
    /\ DEFAULT_RETRY_COUNTER \in Nat \ {0}
    /\ DEFAULT_DATA_SIZE \in Nat \ {0}
    /\ BlockModulus \in Nat \ {0}
    /\ TextLength \in Nat
    /\ Garbled \notin Int

ERRCODE_UNDEFINED == 0
ERRCODE_FILE_NOT_FOUND == 1
ERRCODE_ACCESS_VIOLATION == 2
ERRCODE_DISK_FULL == 3

Opcode == {"RRQ", "WRQ", "DATA", "ACK", "ERROR"}

\* Opcode and number, two bytes each, open every DATA, ACK and ERROR packet.
HeaderSize == 4

Packet == [op : Opcode \cup {"INVALID"}, num : Nat,
           data : Int \cup {Garbled}, len : Nat]

DataPacket(block_no, payload, size) ==
    [op |-> "DATA", num |-> block_no, data |-> payload, len |-> HeaderSize + size]

AckPacket(block_no) ==
    [op |-> "ACK", num |-> block_no, data |-> 0, len |-> HeaderSize]

ErrorPacket(error_code) ==
    [op |-> "ERROR", num |-> error_code, data |-> 0, len |-> TextLength]

\* op is "RRQ" or "WRQ"; the file name and the mode are one fixed text.
RequestPacket(op) ==
    [op |-> op, num |-> 0, data |-> 0, len |-> TextLength]

\* Bytes no packet of the protocol starts with; also "no packet yet".
InvalidPacket == [op |-> "INVALID", num |-> 0, data |-> 0, len |-> HeaderSize]

\* Mutant: a counter wider than the 16 bits of the wire.
NextBlockUnwrapped(n) == n + 1

\* The std::uint16_t that follows n: it wraps to 0.
NextBlock(n) == IF n + 1 < BlockModulus THEN n + 1 ELSE 0

(***************************************************************************)
(* parse_packet on a buffer whose first bytes are those of packet p, with  *)
(* "bytes" the size the receive operation reported.  The two differ when   *)
(* another datagram was received into the buffer after that operation      *)
(* completed.  A DATA packet takes whatever follows its header, so a wrong *)
(* size cuts its payload or lengthens it by stale bytes; every other       *)
(* packet must end exactly where the buffer does (ensure_all_read, and the *)
(* terminating zero read_string looks for).  InvalidPacket stands for the  *)
(* null pointer.                                                           *)
(***************************************************************************)
parse_packet(p, bytes) ==
    CASE p.op = "DATA" /\ bytes >= HeaderSize ->
            DataPacket(p.num, IF bytes = p.len THEN p.data ELSE Garbled,
                       bytes - HeaderSize)
      [] p.op \in Opcode \ {"DATA"} /\ bytes = p.len -> p
      [] OTHER -> InvalidPacket

DataSize(p) == p.len - HeaderSize
=============================================================================
