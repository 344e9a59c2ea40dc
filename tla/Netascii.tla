------------------------------ MODULE Netascii ------------------------------
(***************************************************************************)
(* src/src/common/netascii_io.hpp: a transfer in netascii mode.  The       *)
(* netascii_reader of the sender turns the characters of its file into     *)
(* those of the wire, one packet with each read; the netascii_writer of    *)
(* the receiver turns the packets back, one with each write.  Both keep    *)
(* one character between calls, so that the ends of packets do not matter. *)
(*                                                                         *)
(* The packets arrive in order and once: that is what Transfer promises.   *)
(* The sender may also be any other program, and send any characters.      *)
(***************************************************************************)
EXTENDS Tftp, Loops, SequencesExt

CONSTANTS
    CR, LF, NUL,        \* the characters the translation knows
    Ordinary,           \* all others
    MaxLength           \* bound: characters of the file, and of what another
                        \* program sends

ASSUME NetasciiAssumption ==
    /\ CR # LF /\ NUL \notin {CR, LF} /\ Ordinary \cap {CR, LF, NUL} = {}
    /\ MaxLength \in Nat

Char == {CR, LF, NUL} \cup Ordinary

VARIABLES
    source,          \* the sender's file; <<>> for another program
    readable,        \* characters m_peer_reader gives before its file ends
                     \* or a read of it fails
    room,            \* characters m_peer_writer takes before a write fails
    pos,             \* characters taken from m_peer_reader
    m_pending_char,  \* NUL when there is none
    wire,            \* the characters of the packets sent
    ended,           \* m_last_packet_sent: a packet was not full
    taken,           \* characters of the wire given to the writer
    m_pending_cr,
    out,             \* characters given to m_peer_writer
    failed,          \* a write returned false
    other            \* the sender is another program

readerVars == <<source, readable, pos, m_pending_char>>
wireVars == <<wire, ended>>
writerVars == <<room, taken, m_pending_cr, out, failed>>
netasciiVars == <<readerVars, wireVars, writerVars, other>>

NetasciiInit ==
    /\ other \in BOOLEAN
    /\ source \in IF other THEN {<< >>} ELSE SeqOf(Char, MaxLength)
    /\ readable \in 0 .. Len(source)
    /\ room \in 0 .. MaxLength
    /\ pos = 0
    /\ m_pending_char = NUL
    /\ wire = << >>
    /\ ended = FALSE
    /\ taken = 0
    /\ m_pending_cr = FALSE
    /\ out = << >>
    /\ failed = FALSE
-----------------------------------------------------------------------------
\* A netascii_reader within a read: what it took from its file, what is left of
\* a pair of characters, and the packet so far.
Reading == [pos : 0 .. readable, pending : {CR, LF, NUL}, buffer : Seq(Char)]

\* read_char, with the character appended to the buffer by read.  A read that
\* fails returns false, which is the 0 that also stands for the end of the file.
read_char(r) ==
    IF r.pending # NUL
    THEN [r EXCEPT !.buffer = Append(@, IF r.pending = LF THEN LF ELSE NUL),
                   !.pending = NUL]
    ELSE IF r.pos = readable THEN r
    ELSE LET c == source[r.pos + 1]
         IN  [pos     |-> r.pos + 1,
              pending |-> IF c \in {CR, LF} THEN c ELSE NUL,
              buffer  |-> Append(r.buffer, IF c = LF THEN CR ELSE c)]

\* The loop of read: once a read_char has returned 0 the others would too.
Filled(pending) ==
    Fold([turn \in 1 .. DEFAULT_DATA_SIZE |-> [r \in Reading |-> read_char(r)]],
         [pos |-> pos, pending |-> pending, buffer |-> << >>],
         [turn \in 1 .. DEFAULT_DATA_SIZE |-> turn])

\* The next packet goes out when the one before was written and acknowledged.
Acknowledged == ~ended /\ ~failed /\ taken = Len(wire)

\* The packet is sent; it is the last if it is not full.
Sends(packet) ==
    /\ wire' = wire \o packet
    /\ ended' = (Len(packet) < DEFAULT_DATA_SIZE)

\* Mutant: what is left of a pair of characters is dropped between packets.
read_forgetting ==
    /\ ~other /\ Acknowledged
    /\ LET r == Filled(NUL)
       IN  Sends(r.buffer) /\ pos' = r.pos /\ m_pending_char' = r.pending
    /\ UNCHANGED <<source, readable, writerVars, other>>

\* The sender reads a packet and sends it.
read ==
    /\ ~other /\ Acknowledged
    /\ LET r == Filled(m_pending_char)
       IN  Sends(r.buffer) /\ pos' = r.pos /\ m_pending_char' = r.pending
    /\ UNCHANGED <<source, readable, writerVars, other>>

\* Another program sends a packet.
OtherSends ==
    /\ other /\ Acknowledged
    /\ \E packet \in SeqOf(Char, DEFAULT_DATA_SIZE) :
          /\ Len(wire) + Len(packet) <= MaxLength
          /\ Sends(packet)
    /\ UNCHANGED <<readerVars, writerVars, other>>
-----------------------------------------------------------------------------
\* A netascii_writer within a write; ok until m_peer_writer refuses a character.
Writing == [cr : BOOLEAN, out : Seq(Char), ok : BOOLEAN]

\* The writer w gives c to m_peer_writer, which may refuse it.
Put(w, c) ==
    IF Len(w.out) < room THEN [w EXCEPT !.out = Append(@, c)]
                         ELSE [w EXCEPT !.ok = FALSE]

\* Mutant: a character other than LF or NUL makes up a pair with a pending CR.
write_char_pairing(w, c) ==
    IF ~w.ok THEN w
    ELSE IF c = CR THEN [(IF w.cr THEN Put(w, CR) ELSE w) EXCEPT !.cr = TRUE]
    ELSE IF c = LF THEN Put([w EXCEPT !.cr = FALSE], LF)
    ELSE IF w.cr THEN [Put(w, CR) EXCEPT !.cr = FALSE]
    ELSE Put(w, c)

\* One turn of the loop of write.
write_char(w, c) ==
    IF ~w.ok THEN w
    ELSE IF c = CR THEN [(IF w.cr THEN Put(w, CR) ELSE w) EXCEPT !.cr = TRUE]
    ELSE IF c = LF THEN Put([w EXCEPT !.cr = FALSE], LF)
    ELSE IF c = NUL /\ w.cr THEN
         LET v == Put(w, CR) IN IF v.ok THEN [v EXCEPT !.cr = FALSE] ELSE v
    ELSE Put(w, c)

\* The loop of write, over the packet that arrived.
Written(pending_cr) ==
    Fold([c \in Char |-> [w \in Writing |-> write_char(w, c)]],
         [cr |-> pending_cr, out |-> out, ok |-> TRUE],
         SubSeq(wire, taken + 1, Len(wire)))

\* Mutant: a CR that ended the packet before is forgotten.
write_forgetting ==
    /\ taken < Len(wire)
    /\ LET w == Written(FALSE)
       IN  m_pending_cr' = w.cr /\ out' = w.out /\ failed' = ~w.ok
    /\ taken' = Len(wire)
    /\ UNCHANGED <<readerVars, wireVars, room, other>>

\* The receiver writes the packet that arrived.  After a failure no other is
\* sent.  To write an empty one, the last of a file, is to do nothing.
write ==
    /\ taken < Len(wire)
    /\ LET w == Written(m_pending_cr)
       IN  m_pending_cr' = w.cr /\ out' = w.out /\ failed' = ~w.ok
    /\ taken' = Len(wire)
    /\ UNCHANGED <<readerVars, wireVars, room, other>>

NetasciiNext == read \/ OtherSends \/ write

NetasciiSpec == NetasciiInit /\ [][NetasciiNext]_netasciiVars
-----------------------------------------------------------------------------
\* The encoding the two classes stand for: of a character, and of a sequence.
Encoded(c) == CASE c = CR -> <<CR, NUL>> [] c = LF -> <<CR, LF>> [] OTHER -> <<c>>

Encoding(s) == Fold([c \in Char |-> [e \in Seq(Char) |-> e \o Encoded(c)]], << >>, s)

\* What the writer was given.
Taken == SubSeq(wire, 1, taken)

\* What the reader puts on the wire is the encoding of its file, whatever
\* characters the ends of packets fall between, and all of it when the last
\* packet is out and no read has failed.
WireIsNetascii ==
    ~other => /\ IsPrefix(wire, Encoding(source))
              /\ ended /\ readable = Len(source) => wire = Encoding(source)

\* What was encoded is decoded to what it was: the receiver's file begins like
\* the sender's at any time, and in the end it is the sender's as far as that
\* could be read, although nobody closes the writer.
FileIsRestored ==
    ~other => /\ IsPrefix(out, source)
              /\ ~failed /\ ended /\ taken = Len(wire) =>
                    out = SubSeq(source, 1, readable)

\* Line feeds and ordinary characters: those whose place in a file does not
\* depend on others.
text(s) == Picked(s, {i \in DOMAIN s : s[i] \in Ordinary \cup {LF}})

\* Whatever another program sends, a CR with nothing after it included, line
\* feeds and ordinary characters arrive, in order and once.
TextSurvives == ~failed => text(out) = text(Taken)
=============================================================================
