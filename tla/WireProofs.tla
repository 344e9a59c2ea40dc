----------------------------- MODULE WireProofs -----------------------------
(***************************************************************************)
(* Proofs about the bytes on the wire.                                     *)
(*                                                                         *)
(* Netascii: what the reader of a file sends is the netascii encoding of   *)
(* the file, and the writer restores the file from it.  NetasciiInv says   *)
(* where each of the two stands in the encoding: every position of the     *)
(* file has one in the encoding (EndOf), from which the reader is at most  *)
(* the second of a pair away and the writer a pending CR.                  *)
(*                                                                         *)
(* Codec: what one side builds the other side parses, and the records of   *)
(* Tftp are right about a buffer two datagrams were received into.         *)
(* CodecInv says which bytes of the buffer are those of the last packet;   *)
(* the rest is what the parser makes of bytes that agree with those of a   *)
(* packet as far as both go, one kind of packet after the other.           *)
(*                                                                         *)
(* The first half cites only the assumptions of Netascii and Tftp, the     *)
(* second only those of Codec and Tftp.                                    *)
(***************************************************************************)
EXTENDS Netascii, Codec, CommonProofs

-----------------------------------------------------------------------------
\* The encoding of a text.

\* A character is encoded by one or two.
LEMMA EncodedType == \A c \in Char : Encoded(c) \in Seq(Char)
  <1> SUFFICES ASSUME NEW c \in Char PROVE Encoded(c) \in Seq(Char)
    OBVIOUS
  <1>1. CR \in Char /\ LF \in Char /\ NUL \in Char
    BY DEF Char
  <1>2. CASE c = CR
    <2>1. Encoded(c) = <<CR, NUL>>
      BY <1>2, NetasciiAssumption DEF Encoded
    <2> QED
      BY <1>1, <2>1
  <1>3. CASE c = LF /\ c # CR
    <2>1. Encoded(c) = <<CR, LF>>
      BY <1>3, NetasciiAssumption DEF Encoded
    <2> QED
      BY <1>1, <2>1
  <1>4. CASE c \notin {CR, LF}
    <2>1. Encoded(c) = <<c>>
      BY <1>4 DEF Encoded
    <2> QED
      BY <2>1
  <1> QED
    BY <1>2, <1>3, <1>4

\* The turn of a loop that encodes a sequence.
EncodingStep == [c \in Char |-> [e \in Seq(Char) |-> e \o Encoded(c)]]

LEMMA EncodingStepType ==
    IsTurn(EncodingStep, Char, Seq(Char)) /\ << >> \in Seq(Char)
  <1>1. ASSUME NEW c \in Char, NEW e \in Seq(Char) PROVE e \o Encoded(c) \in Seq(Char)
    BY EncodedType, ConcatProperties
  <1> QED
    BY <1>1, EmptySeq DEF EncodingStep, IsTurn

\* Of nothing it is nothing, and one character more adds what encodes it.
LEMMA EncodingOfNothing == Encoding(<< >>) = << >>
  <1>1. Encoding(<< >>) = Fold(EncodingStep, << >>, << >>)
    BY DEF Encoding, EncodingStep
  <1> QED
    BY <1>1, EncodingStepType, FoldOfNothing, Zenon

LEMMA EncodingOfAppend ==
    ASSUME NEW s \in Seq(Char), NEW c \in Char, NEW t, Grown(s, c, t)
    PROVE  /\ Encoding(s) \in Seq(Char)
           /\ Encoding(t) = Encoding(s) \o Encoded(c)
  <1>1. \A u : Encoding(u) = Fold(EncodingStep, << >>, u)
    BY Zenon DEF Encoding, EncodingStep
  <1>2. PICK x, step : x = << >> /\ step = EncodingStep
    OBVIOUS
  <1>3. Fold(step, x, s) \in Seq(Char) /\ Fold(step, x, t) = step[c][Fold(step, x, s)]
    <2>1. IsTurn(step, Char, Seq(Char)) /\ x \in Seq(Char)
      BY <1>2, EncodingStepType
    <2> QED
      BY <2>1, FoldOfAppend
  <1>4. \A e \in Seq(Char) : EncodingStep[c][e] = e \o Encoded(c)
    BY DEF EncodingStep
  <1> QED
    BY <1>1, <1>2, <1>3, <1>4, Zenon

\* The encoding of the first k characters of s, and where it ends.
Upto(s, k) == Encoding(SubSeq(s, 1, k))

EndOf(s, k) == Len(Upto(s, k))

LEMMA UptoNext ==
    ASSUME NEW s \in Seq(Char), NEW k \in 0 .. Len(s) - 1
    PROVE  /\ Upto(s, k) \in Seq(Char)
           /\ Upto(s, k + 1) = Upto(s, k) \o Encoded(s[k + 1])
  <1>1. PICK t, u, c : t = SubSeq(s, 1, k) /\ u = SubSeq(s, 1, k + 1) /\ c = s[k + 1]
    OBVIOUS
  <1>2. t \in Seq(Char) /\ c \in Char /\ Grown(t, c, u)
    BY <1>1 DEF Grown
  <1>3. Encoding(t) \in Seq(Char) /\ Encoding(u) = Encoding(t) \o Encoded(c)
    BY <1>2, EncodingOfAppend
  <1> QED
    BY <1>1, <1>3 DEF Upto

\* s is how t begins, said character by character.
Starts(s, t) == Len(s) <= Len(t) /\ \A i \in 1 .. Len(s) : s[i] = t[i]

LEMMA StartsIsPrefix ==
    ASSUME NEW S, NEW s \in Seq(S), NEW t \in Seq(S)
    PROVE  IsPrefix(s, t) <=> Starts(s, t)
  <1>1. PICK n : n = Len(s)
    OBVIOUS
  <1>2. SubSeq(s, 1, n) = s
    BY <1>1
  <1>3. ASSUME n <= Len(t)
        PROVE  SubSeq(t, 1, n) = s <=> \A i \in 1 .. n : s[i] = t[i]
    <2>1. PICK u : u = SubSeq(t, 1, n)
      OBVIOUS
    <2>2. u \in Seq(S) /\ Len(u) = n /\ \A i \in 1 .. n : u[i] = t[i]
      BY <1>1, <1>3, <2>1
    <2>3. (\A i \in 1 .. n : s[i] = t[i]) => u = s
      BY <1>1, <2>2, SeqEqual
    <2> QED
      BY <2>1, <2>2, <2>3
  <1> QED
    BY <1>1, <1>2, <1>3 DEF IsPrefix, Starts

\* The encoding of one character more begins with that of the others, and ends
\* with what encodes it.
LEMMA UptoStep ==
    ASSUME NEW s \in Seq(Char), NEW k \in 0 .. Len(s) - 1
    PROVE  /\ Upto(s, k) \in Seq(Char) /\ Upto(s, k + 1) \in Seq(Char)
           /\ EndOf(s, k) \in Nat /\ s[k + 1] \in Char
           /\ \A i \in 1 .. EndOf(s, k) : Upto(s, k + 1)[i] = Upto(s, k)[i]
           /\ s[k + 1] \notin {CR, LF} =>
                 /\ EndOf(s, k + 1) = EndOf(s, k) + 1
                 /\ Upto(s, k + 1)[EndOf(s, k) + 1] = s[k + 1]
           /\ s[k + 1] \in {CR, LF} =>
                 /\ EndOf(s, k + 1) = EndOf(s, k) + 2
                 /\ Upto(s, k + 1)[EndOf(s, k) + 1] = CR
                 /\ Upto(s, k + 1)[EndOf(s, k) + 2] = IF s[k + 1] = LF THEN LF ELSE NUL
  <1>1. PICK e, f, c, d : e = Upto(s, k) /\ f = Upto(s, k + 1) /\ c = s[k + 1] /\ d = Encoded(c)
    OBVIOUS
  <1>2. e \in Seq(Char) /\ f = e \o d /\ c \in Char
    <2>1. Upto(s, k) \in Seq(Char) /\ Upto(s, k + 1) = Upto(s, k) \o Encoded(s[k + 1])
      BY UptoNext, Zenon
    <2>2. s[k + 1] \in Char
      OBVIOUS
    <2> QED
      BY <1>1, <2>1, <2>2, Zenon
  <1>3. d \in Seq(Char)
    BY <1>1, <1>2, EncodedType
  <1>4. /\ f \in Seq(Char) /\ Len(f) = Len(e) + Len(d) /\ Len(e) \in Nat /\ Len(d) \in Nat
        /\ \A i \in 1 .. Len(e) + Len(d) : f[i] = IF i <= Len(e) THEN e[i] ELSE d[i - Len(e)]
    BY <1>2, <1>3, ConcatProperties
  <1>5. \A i \in 1 .. Len(e) : f[i] = e[i]
    BY <1>4
  <1>6. CASE c \notin {CR, LF}
    <2>1. d = <<c>>
      BY <1>1, <1>6 DEF Encoded
    <2>2. Len(d) = 1 /\ d[1] = c
      BY <2>1
    <2>3. Len(f) = Len(e) + 1 /\ f[Len(e) + 1] = c
      BY <1>4, <2>2
    <2> QED
      BY <1>1, <1>2, <1>4, <1>5, <1>6, <2>3 DEF EndOf
  <1>7. CASE c \in {CR, LF}
    <2>1. d = <<CR, IF c = LF THEN LF ELSE NUL>>
      <3>1. CASE c = CR
        BY <1>1, <3>1, NetasciiAssumption DEF Encoded
      <3>2. CASE c = LF
        BY <1>1, <3>2, NetasciiAssumption DEF Encoded
      <3> QED
        BY <1>7, <3>1, <3>2
    <2>2. Len(d) = 2 /\ d[1] = CR /\ d[2] = IF c = LF THEN LF ELSE NUL
      BY <2>1
    <2>3. Len(f) = Len(e) + 2 /\ f[Len(e) + 1] = CR /\ f[Len(e) + 2] = d[2]
      BY <1>4, <2>2
    <2> QED
      BY <1>1, <1>2, <1>4, <1>5, <1>7, <2>2, <2>3 DEF EndOf
  <1> QED
    BY <1>6, <1>7

\* The encodings of the beginnings of s are beginnings of that of s.
LEMMA UptoStarts ==
    ASSUME NEW s \in Seq(Char)
    PROVE  /\ Upto(s, 0) = << >> /\ EndOf(s, 0) = 0
           /\ Upto(s, Len(s)) = Encoding(s) /\ Encoding(s) \in Seq(Char)
           /\ \A k \in 0 .. Len(s) : EndOf(s, k) \in Nat
           /\ \A k \in 0 .. Len(s) : Starts(Upto(s, k), Encoding(s))
           /\ \A j, k \in 0 .. Len(s) : j < k => EndOf(s, j) < EndOf(s, k)
  <1>n. PICK n : n = Len(s)
    OBVIOUS
  <1>1. n \in Nat /\ SubSeq(s, 1, 0) = << >> /\ SubSeq(s, 1, n) = s
    BY <1>n
  <1>2. Upto(s, 0) = << >> /\ EndOf(s, 0) = 0
    BY <1>1, EncodingOfNothing, EmptySeq DEF Upto, EndOf
  <1>3. Upto(s, n) = Encoding(s)
    BY <1>1 DEF Upto
  <1>4. \A k \in 0 .. n : Upto(s, k) \in Seq(Char) /\ EndOf(s, k) \in Nat
    <2>1. ASSUME NEW k \in 0 .. n PROVE Upto(s, k) \in Seq(Char)
      <3>1. CASE k = 0
        BY <3>1, <1>2, EmptySeq, Zenon
      <3>2. CASE k # 0
        <4>1. PICK j : j = k - 1
          OBVIOUS
        <4>2. j \in 0 .. Len(s) - 1 /\ j + 1 = k
          BY <4>1, <3>2, <1>n, <1>1
        <4>3. Upto(s, j + 1) \in Seq(Char)
          BY <4>2, UptoStep
        <4> QED
          BY <4>2, <4>3
      <3> QED
        BY <3>1, <3>2
    <2> QED
      BY <2>1 DEF EndOf
  <1> DEFINE K == {m \in 0 .. n : \A k \in 0 .. m :
                      /\ Starts(Upto(s, k), Upto(s, m))
                      /\ k < m => EndOf(s, k) < EndOf(s, m)}
  <1>5. 0 \in K
    BY <1>1, <1>2 DEF Starts
  <1>6. ASSUME NEW m \in 0 .. n, m \in K, m < n PROVE m + 1 \in K
    <2>1. \A k \in 0 .. m : Starts(Upto(s, k), Upto(s, m))
                            /\ (k < m => EndOf(s, k) < EndOf(s, m))
      BY <1>6
    <2>2. m \in 0 .. Len(s) - 1
      BY <1>6, <1>n, <1>1
    <2>3. /\ EndOf(s, m) < EndOf(s, m + 1) /\ EndOf(s, m) \in Nat /\ EndOf(s, m + 1) \in Nat
          /\ \A i \in 1 .. EndOf(s, m) : Upto(s, m + 1)[i] = Upto(s, m)[i]
      <3>1. /\ EndOf(s, m) \in Nat
            /\ EndOf(s, m + 1) = EndOf(s, m) + 1 \/ EndOf(s, m + 1) = EndOf(s, m) + 2
        BY <2>2, UptoStep
      <3>2. \A i \in 1 .. EndOf(s, m) : Upto(s, m + 1)[i] = Upto(s, m)[i]
        BY <2>2, UptoStep
      <3> QED
        BY <3>1, <3>2
    <2>4. Starts(Upto(s, m), Upto(s, m + 1))
      BY <2>3 DEF Starts, EndOf
    <2>5. ASSUME NEW k \in 0 .. m + 1
          PROVE  /\ Starts(Upto(s, k), Upto(s, m + 1))
                 /\ k < m + 1 => EndOf(s, k) < EndOf(s, m + 1)
      <3>1. CASE k = m + 1
        BY <3>1, <2>3 DEF Starts, EndOf
      <3>2. CASE k # m + 1
        <4>1. k \in 0 .. m /\ k \in 0 .. n
          BY <3>2, <1>1
        <4>2. EndOf(s, k) \in Nat
          BY <4>1, <1>4
        <4>3. Starts(Upto(s, k), Upto(s, m)) /\ (k < m => EndOf(s, k) < EndOf(s, m))
          BY <2>1, <4>1
        <4>4. EndOf(s, k) < EndOf(s, m + 1)
          BY <2>3, <4>1, <4>2, <4>3
        <4>5. Starts(Upto(s, k), Upto(s, m + 1))
          BY <4>2, <4>3, <2>3, <2>4 DEF Starts, EndOf
        <4> QED
          BY <4>4, <4>5
      <3> QED
        BY <3>1, <3>2
    <2>6. m + 1 \in 0 .. n
      BY <1>1, <1>6
    <2> QED
      BY <2>5, <2>6
  <1>7. 0 .. n \subseteq K
    <2> HIDE DEF K
    <2> QED
      BY <1>1, <1>5, <1>6, Induction
  <1>8. ASSUME NEW k \in 0 .. n PROVE Starts(Upto(s, k), Encoding(s))
    <2>1. n \in K /\ k \in 0 .. n
      BY <1>1, <1>7
    <2> QED
      BY <2>1, <1>3
  <1>9. ASSUME NEW j \in 0 .. n, NEW k \in 0 .. n, j < k PROVE EndOf(s, j) < EndOf(s, k)
    <2>1. k \in K /\ j \in 0 .. k
      BY <1>7, <1>9
    <2> QED
      BY <2>1, <1>9
  <1>10. n \in 0 .. n
    BY <1>1
  <1>11. Encoding(s) \in Seq(Char)
    BY <1>3, <1>4, <1>10
  <1> QED
    BY <1>n, <1>2, <1>3, <1>4, <1>8, <1>9, <1>11

\* Where the encoding of s goes on behind that of its first p characters.
LEMMA EncodingAt ==
    ASSUME NEW s \in Seq(Char), NEW p \in 0 .. Len(s)
    PROVE  /\ EndOf(s, p) \in Nat /\ EndOf(s, p) <= Len(Encoding(s))
           /\ p # Len(s) =>
                 /\ s[p + 1] \in Char /\ p + 1 \in 0 .. Len(s)
                 /\ s[p + 1] \notin {CR, LF} =>
                       /\ EndOf(s, p + 1) = EndOf(s, p) + 1
                       /\ Encoding(s)[EndOf(s, p) + 1] = s[p + 1]
                 /\ s[p + 1] \in {CR, LF} =>
                       /\ EndOf(s, p + 1) = EndOf(s, p) + 2
                       /\ Encoding(s)[EndOf(s, p) + 1] = CR
                       /\ Encoding(s)[EndOf(s, p) + 2] = IF s[p + 1] = LF THEN LF ELSE NUL
  <1>1. PICK n, e : n = Len(s) /\ e = Encoding(s)
    OBVIOUS
  <1>2. n \in Nat /\ p \in 0 .. n
    BY <1>1
  <1>3. \A k \in 0 .. n : EndOf(s, k) \in Nat /\ Starts(Upto(s, k), e)
    BY <1>1, UptoStarts
  <1>4. EndOf(s, p) \in Nat /\ EndOf(s, p) <= Len(e)
    BY <1>2, <1>3 DEF Starts, EndOf
  <1>5. ASSUME p # n
        PROVE  /\ p + 1 \in 0 .. n /\ p \in 0 .. n - 1
               /\ \A i \in 1 .. EndOf(s, p + 1) : Upto(s, p + 1)[i] = e[i]
    <2>1. p + 1 \in 0 .. n /\ p \in 0 .. n - 1
      BY <1>2, <1>5
    <2>2. Starts(Upto(s, p + 1), e)
      BY <2>1, <1>3
    <2> QED
      BY <2>1, <2>2 DEF Starts, EndOf
  <1>6. ASSUME p # n, s[p + 1] \notin {CR, LF}
        PROVE  EndOf(s, p + 1) = EndOf(s, p) + 1 /\ e[EndOf(s, p) + 1] = s[p + 1]
    <2>1. /\ EndOf(s, p + 1) = EndOf(s, p) + 1
          /\ Upto(s, p + 1)[EndOf(s, p) + 1] = s[p + 1]
      BY <1>1, <1>5, <1>6, UptoStep
    <2> QED
      BY <1>4, <1>5, <1>6, <2>1
  <1>7. ASSUME p # n, s[p + 1] \in {CR, LF}
        PROVE  /\ EndOf(s, p + 1) = EndOf(s, p) + 2 /\ e[EndOf(s, p) + 1] = CR
               /\ e[EndOf(s, p) + 2] = IF s[p + 1] = LF THEN LF ELSE NUL
    <2>1. /\ EndOf(s, p + 1) = EndOf(s, p) + 2
          /\ Upto(s, p + 1)[EndOf(s, p) + 1] = CR
          /\ Upto(s, p + 1)[EndOf(s, p) + 2] = IF s[p + 1] = LF THEN LF ELSE NUL
      BY <1>1, <1>5, <1>7, UptoStep
    <2> QED
      BY <1>4, <1>5, <1>7, <2>1
  <1>8. p # n => s[p + 1] \in Char
    BY <1>1, <1>2, <1>5
  <1> QED
    BY <1>1, <1>4, <1>5, <1>6, <1>7, <1>8

-----------------------------------------------------------------------------
\* A transfer in netascii mode.

\* After a failure there is nothing left to write.
NetasciiTypeOK ==
    /\ source \in Seq(Char) /\ readable \in 0 .. Len(source) /\ room \in Nat
    /\ pos \in 0 .. readable /\ m_pending_char \in {CR, LF, NUL}
    /\ wire \in Seq(Char) /\ ended \in BOOLEAN
    /\ taken \in 0 .. Len(wire) /\ m_pending_cr \in BOOLEAN
    /\ out \in Seq(Char) /\ failed \in BOOLEAN /\ other \in BOOLEAN
    /\ failed => taken = Len(wire)

\* A reader that took p characters of its file has put n characters on the wire:
\* those that encode them, but for the second of a pair that is pending.
ReaderAt(p, pending, n) ==
    /\ pending = NUL => n = EndOf(source, p)
    /\ pending # NUL => p # 0 /\ pending = source[p] /\ n + 1 = EndOf(source, p)

\* The n-th and further characters of the encoding are those of chars.
Continues(n, chars) ==
    /\ n + Len(chars) <= Len(Encoding(source))
    /\ \A i \in 1 .. Len(chars) : chars[i] = Encoding(source)[n + i]

\* r is a reader that has gone so far in a read of turns characters, with n
\* characters sent before: it has them, or there are no more.
ReadSoFar(turns, r, n) ==
    /\ r \in Reading
    /\ ReaderAt(r.pos, r.pending, n + Len(r.buffer))
    /\ Continues(n, r.buffer)
    /\ \/ Len(r.buffer) = turns
       \/ Len(r.buffer) < turns /\ r.pos = readable /\ r.pending = NUL

\* That of the file does so as long as there is something to read.
LEMMA EncodingGoesOn ==
    ASSUME NetasciiTypeOK, NEW p \in 0 .. readable
    PROVE  /\ EndOf(source, p) \in Nat /\ EndOf(source, p) <= Len(Encoding(source))
           /\ p # readable =>
                 LET c == source[p + 1] IN
                 /\ c \in Char /\ p + 1 \in 0 .. readable
                 /\ c \notin {CR, LF} =>
                       /\ EndOf(source, p + 1) = EndOf(source, p) + 1
                       /\ Encoding(source)[EndOf(source, p) + 1] = c
                 /\ c \in {CR, LF} =>
                       /\ EndOf(source, p + 1) = EndOf(source, p) + 2
                       /\ Encoding(source)[EndOf(source, p) + 1] = CR
                       /\ Encoding(source)[EndOf(source, p) + 2] = IF c = LF THEN LF ELSE NUL
  <1>1. /\ source \in Seq(Char) /\ p \in 0 .. Len(source)
        /\ p # readable => p + 1 \in 0 .. readable /\ p # Len(source)
    BY DEF NetasciiTypeOK
  <1> QED
    BY <1>1, EncodingAt

\* One turn of the loop of read.
LEMMA ReadCharType ==
    ASSUME NetasciiTypeOK, NEW r \in Reading PROVE read_char(r) \in Reading
  <1>1. /\ r.pos \in 0 .. readable /\ r.pending \in {CR, LF, NUL} /\ r.buffer \in Seq(Char)
        /\ readable \in Nat
    BY DEF Reading, NetasciiTypeOK
  <1>2. CR \in Char /\ LF \in Char /\ NUL \in Char
    BY DEF Char
  <1>3. CASE r.pending # NUL
    <2>1. Append(r.buffer, IF r.pending = LF THEN LF ELSE NUL) \in Seq(Char)
      BY <1>1, <1>2
    <2> QED
      BY <1>3, <2>1 DEF read_char, Reading
  <1>4. CASE r.pending = NUL /\ r.pos = readable
    BY <1>4 DEF read_char
  <1>5. CASE r.pending = NUL /\ r.pos # readable
    <2>1. source[r.pos + 1] \in Char /\ r.pos + 1 \in 0 .. readable
      BY <1>1, <1>5, EncodingGoesOn
    <2>2. Append(r.buffer, IF source[r.pos + 1] = LF THEN CR ELSE source[r.pos + 1]) \in Seq(Char)
      BY <1>1, <1>2, <2>1
    <2> QED
      BY <1>5, <2>1, <2>2 DEF read_char, Reading
  <1> QED
    BY <1>3, <1>4, <1>5

LEMMA ReadChar ==
    ASSUME NetasciiTypeOK, NEW n \in Nat, NEW turns \in Nat, NEW r, ReadSoFar(turns, r, n)
    PROVE  ReadSoFar(turns + 1, read_char(r), n)
  <1>1. PICK b, q, e : b = Len(r.buffer) /\ q = read_char(r) /\ e = Encoding(source)
    OBVIOUS
  <1>2. /\ r \in Reading /\ r.pos \in 0 .. readable /\ r.pending \in {CR, LF, NUL}
        /\ r.buffer \in Seq(Char) /\ b \in Nat /\ readable \in Nat
        /\ ReaderAt(r.pos, r.pending, n + b)
        /\ n + b <= Len(e) /\ \A i \in 1 .. b : r.buffer[i] = e[n + i]
        /\ b = turns \/ (b < turns /\ r.pos = readable /\ r.pending = NUL)
    BY <1>1 DEF ReadSoFar, Reading, NetasciiTypeOK, Continues
  <1>3. q \in Reading
    BY <1>1, <1>2, ReadCharType
  <1>4. NUL \notin {CR, LF} /\ CR # LF
    BY NetasciiAssumption
  <1>5. e \in Seq(Char)
    BY <1>1, UptoStarts DEF NetasciiTypeOK
  <1>6. ASSUME NEW c, q.buffer = Append(r.buffer, c), n + b + 1 <= Len(e), c = e[n + b + 1],
               ReaderAt(q.pos, q.pending, n + b + 1), b = turns
        PROVE  ReadSoFar(turns + 1, q, n)
    <2>0. c \in Char
      BY <1>2, <1>5, <1>6
    <2>1. /\ Len(q.buffer) = b + 1 /\ q.buffer[b + 1] = c
          /\ \A i \in 1 .. b : q.buffer[i] = r.buffer[i]
      <3>1. PICK s, t : s = r.buffer /\ t = q.buffer
        OBVIOUS
      <3>2. s \in Seq(Char) /\ t = Append(s, c) /\ b = Len(s)
        BY <1>1, <1>2, <1>6, <3>1
      <3>3. Len(t) = b + 1 /\ t[b + 1] = c /\ \A i \in 1 .. b : t[i] = s[i]
        BY <2>0, <3>2
      <3> QED
        BY <3>1, <3>3
    <2>2. q.buffer[b + 1] = e[n + (b + 1)]
      BY <1>2, <1>6, <2>1
    <2>3. Continues(n, q.buffer)
      BY <1>1, <1>2, <1>6, <2>1, <2>2 DEF Continues
    <2>4. ReaderAt(q.pos, q.pending, n + Len(q.buffer))
      BY <1>2, <1>6, <2>1
    <2> QED
      BY <1>3, <1>6, <2>1, <2>3, <2>4 DEF ReadSoFar
  <1>7. CASE r.pending # NUL
    <2>1. q.pos = r.pos /\ q.pending = NUL
          /\ q.buffer = Append(r.buffer, IF r.pending = LF THEN LF ELSE NUL)
      BY <1>1, <1>2, <1>7 DEF read_char, Reading
    <2>2. r.pos # 0 /\ r.pending = source[r.pos] /\ n + b + 1 = EndOf(source, r.pos)
      BY <1>2, <1>7 DEF ReaderAt
    <2>3. PICK k : k = r.pos - 1
      OBVIOUS
    <2>4. k \in 0 .. readable /\ k # readable /\ k + 1 = r.pos
      BY <1>2, <2>2, <2>3
    <2>5. /\ EndOf(source, k) \in Nat /\ EndOf(source, k + 1) = EndOf(source, k) + 2
          /\ e[EndOf(source, k) + 2] = IF source[k + 1] = LF THEN LF ELSE NUL
      BY <1>1, <1>2, <1>7, <2>2, <2>4, EncodingGoesOn
    <2>6. EndOf(source, r.pos) <= Len(e)
      BY <1>1, <1>2, EncodingGoesOn
    <2>7. ReaderAt(q.pos, q.pending, n + b + 1)
      BY <2>1, <2>2 DEF ReaderAt
    <2>8. PICK c : c = IF r.pending = LF THEN LF ELSE NUL
      OBVIOUS
    <2>9. n + b + 1 <= Len(e) /\ c = e[n + b + 1]
      BY <1>2, <2>2, <2>4, <2>5, <2>6, <2>8
    <2>10. q.buffer = Append(r.buffer, c) /\ b = turns
      BY <1>2, <1>7, <2>1, <2>8
    <2> QED
      BY <1>1, <1>6, <2>7, <2>9, <2>10
  <1>8. CASE r.pending = NUL /\ r.pos = readable
    BY <1>1, <1>2, <1>8 DEF read_char, ReadSoFar, Continues
  <1>9. CASE r.pending = NUL /\ r.pos # readable
    <2>1. PICK c, k : c = source[r.pos + 1] /\ k = r.pos
      OBVIOUS
    <2>2. /\ q.pos = k + 1 /\ q.pending = IF c \in {CR, LF} THEN c ELSE NUL
          /\ q.buffer = Append(r.buffer, IF c = LF THEN CR ELSE c)
      BY <1>1, <1>9, <2>1 DEF read_char
    <2>3. k \in 0 .. readable /\ k # readable /\ k + 1 # 0 /\ n + b = EndOf(source, k)
      BY <1>2, <1>9, <2>1 DEF ReaderAt
    <2>4. k + 1 \in 0 .. readable /\ EndOf(source, k) \in Nat
      BY <2>3, EncodingGoesOn
    <2>5. EndOf(source, k + 1) <= Len(e) /\ EndOf(source, k + 1) \in Nat
      BY <1>1, <2>4, EncodingGoesOn
    <2>6. CASE c \in {CR, LF}
      <3>1. EndOf(source, k + 1) = EndOf(source, k) + 2 /\ e[EndOf(source, k) + 1] = CR
        BY <1>1, <2>1, <2>3, <2>6, EncodingGoesOn
      <3>2. ReaderAt(q.pos, q.pending, n + b + 1)
        BY <1>4, <2>1, <2>2, <2>3, <2>4, <2>6, <3>1 DEF ReaderAt
      <3>3. n + b + 1 <= Len(e) /\ CR = e[n + b + 1] /\ b = turns
        BY <1>2, <1>9, <2>3, <2>4, <2>5, <3>1
      <3>4. q.buffer = Append(r.buffer, CR)
        BY <1>4, <2>2, <2>6
      <3> QED
        BY <1>1, <1>6, <3>2, <3>3, <3>4
    <2>7. CASE c \notin {CR, LF}
      <3>1. EndOf(source, k + 1) = EndOf(source, k) + 1 /\ e[EndOf(source, k) + 1] = c
        BY <1>1, <2>1, <2>3, <2>7, EncodingGoesOn
      <3>2. ReaderAt(q.pos, q.pending, n + b + 1)
        BY <1>4, <2>1, <2>2, <2>3, <2>4, <2>7, <3>1 DEF ReaderAt
      <3>3. n + b + 1 <= Len(e) /\ c = e[n + b + 1] /\ b = turns
        BY <1>2, <1>9, <2>3, <2>4, <2>5, <3>1
      <3>4. q.buffer = Append(r.buffer, c)
        BY <1>4, <2>2, <2>7
      <3> QED
        BY <1>1, <1>6, <3>2, <3>3, <3>4
    <2> QED
      BY <2>6, <2>7
  <1> QED
    BY <1>1, <1>7, <1>8, <1>9

\* What read puts into a packet.
LEMMA PacketRead ==
    ASSUME NetasciiTypeOK, ReaderAt(pos, m_pending_char, Len(wire))
    PROVE  ReadSoFar(DEFAULT_DATA_SIZE, Filled(m_pending_char), Len(wire))
  <1> DEFINE D == DEFAULT_DATA_SIZE
             step == [turn \in 1 .. D |-> [r \in Reading |-> read_char(r)]]
             x == [pos |-> pos, pending |-> m_pending_char, buffer |-> << >>]
             turns == [turn \in 1 .. D |-> turn]
             n == Len(wire)
             I == {p \in (0 .. D) \X Reading : ReadSoFar(p[1], p[2], n)}
  <1>1. D \in Nat /\ n \in Nat
    BY TftpAssumption DEF NetasciiTypeOK
  <1>2. IsTurn(step, 1 .. D, Reading)
    BY ReadCharType DEF IsTurn
  <1>3. /\ turns \in Seq(1 .. D) /\ Len(turns) = D
        /\ \A k \in 1 .. D : turns[k] = k
    BY <1>1
  <1>4. x \in Reading /\ ReadSoFar(0, x, n)
    <2>1. x \in Reading
      BY EmptySeq DEF Reading, NetasciiTypeOK
    <2>2. Len(x.buffer) = 0 /\ n + Len(x.buffer) = n
      BY <1>1
    <2>3. pos \in 0 .. readable /\ EndOf(source, pos) \in Nat
          /\ EndOf(source, pos) <= Len(Encoding(source))
      BY EncodingGoesOn DEF NetasciiTypeOK
    <2>4. n <= Len(Encoding(source))
      <3>1. EndOf(source, pos) = n \/ EndOf(source, pos) = n + 1
        BY DEF ReaderAt
      <3>2. Len(Encoding(source)) \in Nat
        BY UptoStarts DEF NetasciiTypeOK
      <3> QED
        BY <1>1, <2>3, <3>1, <3>2
    <2>5. Continues(n, x.buffer)
      BY <2>2, <2>4 DEF Continues
    <2> QED
      BY <2>1, <2>2, <2>5 DEF ReadSoFar
  <1>5. \A k, y : <<k, y>> \in I <=> k \in 0 .. D /\ y \in Reading /\ ReadSoFar(k, y, n)
    OBVIOUS
  <1>6. \A k \in 1 .. D, y \in Reading : step[k][y] = read_char(y)
    OBVIOUS
  <1>7. Filled(m_pending_char) = Fold(step, x, turns)
    BY DEF Filled
  <1> HIDE DEF D, step, x, turns, n, I
  <1>8. <<0, x>> \in I
    BY <1>1, <1>4, <1>5
  <1>9. ASSUME NEW k \in 0 .. Len(turns) - 1, NEW y \in Reading, <<k, y>> \in I
        PROVE  <<k + 1, step[turns[k + 1]][y]>> \in I
    <2>1. k \in Nat /\ k + 1 \in 1 .. D /\ turns[k + 1] = k + 1 /\ ReadSoFar(k, y, n)
      BY <1>1, <1>3, <1>5, <1>9
    <2>2. step[turns[k + 1]][y] = read_char(y)
      BY <1>6, <2>1
    <2>3. ReadSoFar(k + 1, read_char(y), n) /\ read_char(y) \in Reading
      BY <1>1, <2>1, ReadChar, ReadCharType
    <2> QED
      BY <1>5, <2>1, <2>2, <2>3
  <1>10. <<Len(turns), Fold(step, x, turns)>> \in I
    BY <1>2, <1>3, <1>4, <1>8, <1>9, FoldInvariant
  <1>11. ReadSoFar(D, Fold(step, x, turns), n)
    BY <1>3, <1>5, <1>10
  <1> QED
    BY <1>7, <1>11 DEF D, n

\* A writer that was given n characters of the encoding, and gave on o: it has
\* those they encode, but for one whose pair is not complete.
WriterAt(cr, o, n) ==
    \E k \in 0 .. Len(source) :
       /\ o = SubSeq(source, 1, k)
       /\ ~cr => n = EndOf(source, k)
       /\ cr => k < Len(source) /\ source[k + 1] \in {CR, LF} /\ n = EndOf(source, k) + 1

\* w is a writer that was given n characters of the encoding, or that failed.
WrittenSoFar(n, w) ==
    /\ w \in Writing
    /\ w.ok => WriterAt(w.cr, w.out, n)
    /\ ~w.ok => Starts(w.out, source)

\* One turn of the loop of write.
LEMMA PutType ==
    ASSUME NEW w \in Writing, NEW c \in Char
    PROVE  /\ Put(w, c) \in Writing /\ Put(w, c).cr = w.cr
           /\ \/ Len(w.out) < room /\ Put(w, c).ok = w.ok /\ Put(w, c).out = Append(w.out, c)
              \/ ~(Len(w.out) < room) /\ Put(w, c).ok = FALSE /\ Put(w, c).out = w.out
  <1>1. w.out \in Seq(Char) /\ Append(w.out, c) \in Seq(Char)
    BY DEF Writing
  <1>2. CASE Len(w.out) < room
    BY <1>1, <1>2 DEF Put, Writing
  <1>3. CASE ~(Len(w.out) < room)
    BY <1>1, <1>3 DEF Put, Writing
  <1> QED
    BY <1>2, <1>3

\* Its cases: how the writer goes on.
LEMMA WriteCharCases ==
    ASSUME NetasciiTypeOK, NEW w \in Writing, NEW c \in Char
    PROVE  LET q == write_char(w, c)
               given(x, cr) == \/ q.ok = TRUE /\ q.out = Append(w.out, x) /\ q.cr = cr
                               \/ q.ok = FALSE /\ q.out = w.out
           IN  /\ q \in Writing
               /\ ~w.ok => q = w
               /\ w.ok /\ c = CR /\ ~w.cr => q.ok = TRUE /\ q.out = w.out /\ q.cr = TRUE
               /\ w.ok /\ c = CR /\ w.cr => given(CR, TRUE)
               /\ w.ok /\ c = LF => given(LF, FALSE)
               /\ w.ok /\ c = NUL /\ w.cr => given(CR, FALSE)
               /\ w.ok /\ c \notin {CR, LF} /\ ~(c = NUL /\ w.cr) => given(c, w.cr)
  <1>1. CR \in Char /\ LF \in Char /\ CR # LF /\ NUL \notin {CR, LF}
    BY NetasciiAssumption DEF Char
  <1>2. w.ok \in BOOLEAN /\ w.cr \in BOOLEAN /\ w.out \in Seq(Char)
    BY DEF Writing
  <1>3. PICK q : q = write_char(w, c)
    OBVIOUS
  <1>4. CASE ~w.ok
    BY <1>3, <1>4 DEF write_char
  <1>5. CASE w.ok /\ c = CR /\ ~w.cr
    <2>1. q = [w EXCEPT !.cr = TRUE]
      BY <1>1, <1>3, <1>5 DEF write_char
    <2> QED
      BY <1>1, <1>2, <1>3, <1>5, <2>1 DEF Writing
  <1>6. CASE w.ok /\ c = CR /\ w.cr
    <2>1. q = [Put(w, CR) EXCEPT !.cr = TRUE]
      BY <1>1, <1>3, <1>6 DEF write_char
    <2>2. PICK p : p = Put(w, CR)
      OBVIOUS
    <2>3. /\ p \in Writing
          /\ \/ p.ok = w.ok /\ p.out = Append(w.out, CR)
             \/ p.ok = FALSE /\ p.out = w.out
      BY <1>1, <2>2, PutType
    <2>4. q \in Writing /\ q.ok = p.ok /\ q.out = p.out /\ q.cr = TRUE
      BY <2>1, <2>2, <2>3 DEF Writing
    <2> QED
      BY <1>1, <1>2, <1>3, <1>6, <2>3, <2>4
  <1>7. CASE w.ok /\ c = LF
    <2>1. PICK v : v = [w EXCEPT !.cr = FALSE]
      OBVIOUS
    <2>2. v \in Writing /\ v.ok = w.ok /\ v.out = w.out /\ v.cr = FALSE
      BY <2>1 DEF Writing
    <2>3. q = Put(v, LF)
      BY <1>1, <1>3, <1>7, <2>1 DEF write_char
    <2>4. /\ q \in Writing /\ q.cr = FALSE
          /\ \/ q.ok = w.ok /\ q.out = Append(w.out, LF)
             \/ q.ok = FALSE /\ q.out = w.out
      <3>1. /\ Put(v, LF) \in Writing /\ Put(v, LF).cr = v.cr
            /\ \/ Put(v, LF).ok = v.ok /\ Put(v, LF).out = Append(v.out, LF)
               \/ Put(v, LF).ok = FALSE /\ Put(v, LF).out = v.out
        BY <1>1, <2>2, PutType
      <3> QED
        BY <2>2, <2>3, <3>1
    <2> QED
      BY <1>1, <1>2, <1>3, <1>7, <2>4
  <1>8. CASE w.ok /\ c = NUL /\ w.cr
    <2>1. PICK p : p = Put(w, CR)
      OBVIOUS
    <2>2. q = IF p.ok THEN [p EXCEPT !.cr = FALSE] ELSE p
      BY <1>1, <1>3, <1>8, <2>1 DEF write_char
    <2>3. /\ p \in Writing
          /\ \/ p.ok = w.ok /\ p.out = Append(w.out, CR)
             \/ p.ok = FALSE /\ p.out = w.out
      BY <1>1, <2>1, PutType
    <2>4. CASE p.ok
      <3>1. q = [p EXCEPT !.cr = FALSE]
        BY <2>2, <2>4
      <3>2. q \in Writing /\ q.ok = TRUE /\ q.out = p.out /\ q.cr = FALSE
        BY <2>3, <2>4, <3>1 DEF Writing
      <3> QED
        BY <1>1, <1>2, <1>3, <1>8, <2>3, <2>4, <3>2
    <2>5. CASE ~p.ok
      <3>1. q = p /\ p.out = w.out /\ p.ok = FALSE
        BY <1>2, <1>8, <2>2, <2>3, <2>5 DEF Writing
      <3> QED
        BY <1>1, <1>2, <1>3, <1>8, <2>3, <2>5, <3>1
    <2> QED
      BY <2>4, <2>5
  <1>9. CASE w.ok /\ c \notin {CR, LF} /\ ~(c = NUL /\ w.cr)
    <2>1. q = Put(w, c)
      BY <1>1, <1>3, <1>9 DEF write_char
    <2>2. /\ q \in Writing /\ q.cr = w.cr
          /\ \/ q.ok = w.ok /\ q.out = Append(w.out, c)
             \/ q.ok = FALSE /\ q.out = w.out
      BY <2>1, PutType
    <2> QED
      BY <1>1, <1>2, <1>3, <1>9, <2>2
  <1> QED
    BY <1>1, <1>2, <1>4, <1>5, <1>6, <1>7, <1>8, <1>9

\* What is given on is what begins the file.
LEMMA CharRestored ==
    ASSUME NetasciiTypeOK, NEW k \in 0 .. Len(source) - 1, NEW q \in Writing, NEW o,
           o = SubSeq(source, 1, k),
           \/ q.ok = TRUE /\ q.out = Append(o, source[k + 1]) /\ q.cr = FALSE
           \/ q.ok = FALSE /\ q.out = o
    PROVE  WrittenSoFar(EndOf(source, k + 1), q)
  <1>1. source \in Seq(Char) /\ k + 1 \in 0 .. Len(source) /\ k \in 0 .. Len(source)
    BY DEF NetasciiTypeOK
  <1>2. CASE q.ok = TRUE /\ q.out = Append(o, source[k + 1]) /\ q.cr = FALSE
    <2>1. q.out = SubSeq(source, 1, k + 1)
      BY <1>1, <1>2
    <2>2. WriterAt(q.cr, q.out, EndOf(source, k + 1))
      BY <1>1, <1>2, <2>1 DEF WriterAt
    <2> QED
      BY <1>2, <2>2 DEF WrittenSoFar
  <1>3. CASE q.ok = FALSE /\ q.out = o
    <2>1. Starts(o, source)
      BY <1>1 DEF Starts
    <2> QED
      BY <1>3, <2>1 DEF WrittenSoFar
  <1> QED
    BY <1>2, <1>3

LEMMA WriteChar ==
    ASSUME NetasciiTypeOK, NEW n \in Nat, n < Len(Encoding(source)), NEW w, WrittenSoFar(n, w)
    PROVE  WrittenSoFar(n + 1, write_char(w, Encoding(source)[n + 1]))
  <1>1. PICK c, q, e : c = Encoding(source)[n + 1] /\ q = write_char(w, c) /\ e = Encoding(source)
    OBVIOUS
  <1>2. source \in Seq(Char) /\ e \in Seq(Char) /\ c \in Char /\ c = e[n + 1] /\ n < Len(e)
    BY <1>1, UptoStarts DEF NetasciiTypeOK
  <1>3. w \in Writing /\ w.ok \in BOOLEAN /\ w.cr \in BOOLEAN
    BY DEF WrittenSoFar, Writing
  <1>4. NUL \notin {CR, LF} /\ CR # LF
    BY NetasciiAssumption
  <1>5. q \in Writing
    BY <1>1, <1>2, <1>3, WriteCharCases
  <1>6. CASE ~w.ok
    <2>1. q = w
      BY <1>1, <1>2, <1>3, <1>6, WriteCharCases
    <2> QED
      BY <1>1, <1>6, <2>1 DEF WrittenSoFar
  <1>7. CASE w.ok
    <2>1. PICK k \in 0 .. Len(source) :
              /\ w.out = SubSeq(source, 1, k)
              /\ ~w.cr => n = EndOf(source, k)
              /\ w.cr => k < Len(source) /\ source[k + 1] \in {CR, LF}
                        /\ n = EndOf(source, k) + 1
      BY <1>7 DEF WrittenSoFar, WriterAt
    <2>2. k \in 0 .. Len(source) - 1
      <3>1. k # Len(source)
        <4>1. EndOf(source, Len(source)) = Len(e)
          BY <1>1, <1>2, UptoStarts DEF EndOf
        <4> QED
          BY <1>2, <1>3, <2>1, <4>1
      <3> QED
        BY <1>2, <2>1, <3>1
    <2>3. PICK d, m : d = source[k + 1] /\ m = EndOf(source, k)
      OBVIOUS
    <2>4. /\ m \in Nat /\ d \in Char
          /\ d \notin {CR, LF} => EndOf(source, k + 1) = m + 1 /\ e[m + 1] = d
          /\ d \in {CR, LF} =>
                /\ EndOf(source, k + 1) = m + 2 /\ e[m + 1] = CR
                /\ e[m + 2] = IF d = LF THEN LF ELSE NUL
      <3>1. k \in 0 .. Len(source) /\ k # Len(source)
        BY <1>2, <2>2
      <3>2. /\ EndOf(source, k) \in Nat /\ source[k + 1] \in Char
            /\ source[k + 1] \notin {CR, LF} =>
                  /\ EndOf(source, k + 1) = EndOf(source, k) + 1
                  /\ Encoding(source)[EndOf(source, k) + 1] = source[k + 1]
            /\ source[k + 1] \in {CR, LF} =>
                  /\ EndOf(source, k + 1) = EndOf(source, k) + 2
                  /\ Encoding(source)[EndOf(source, k) + 1] = CR
                  /\ Encoding(source)[EndOf(source, k) + 2]
                        = IF source[k + 1] = LF THEN LF ELSE NUL
        BY <1>2, <3>1, EncodingAt
      <3> QED
        BY <1>1, <2>3, <3>2
    <2>5. CASE ~w.cr /\ d \notin {CR, LF}
      <3>1. c = d /\ n + 1 = EndOf(source, k + 1)
        BY <1>2, <2>1, <2>3, <2>4, <2>5
      <3>2. \/ q.ok = TRUE /\ q.out = Append(w.out, d) /\ q.cr = FALSE
            \/ q.ok = FALSE /\ q.out = w.out
        <4>1. w.cr = FALSE /\ c \notin {CR, LF} /\ ~(c = NUL /\ w.cr)
          BY <1>3, <2>5, <3>1
        <4>2. \/ q.ok = TRUE /\ q.out = Append(w.out, c) /\ q.cr = w.cr
              \/ q.ok = FALSE /\ q.out = w.out
          BY <1>1, <1>2, <1>3, <1>7, <4>1, WriteCharCases
        <4> QED
          BY <3>1, <4>1, <4>2
      <3>3. WrittenSoFar(EndOf(source, k + 1), q)
        BY <1>5, <2>1, <2>2, <2>3, <3>2, CharRestored
      <3> QED
        BY <1>1, <3>1, <3>3
    <2>6. CASE ~w.cr /\ d \in {CR, LF}
      <3>1. c = CR /\ n + 1 = m + 1 /\ k < Len(source)
        BY <1>2, <2>1, <2>2, <2>3, <2>4, <2>6
      <3>2. q.ok = TRUE /\ q.out = w.out /\ q.cr = TRUE
        BY <1>1, <1>2, <1>3, <1>7, <2>6, <3>1, WriteCharCases
      <3>3. WriterAt(q.cr, q.out, n + 1)
        BY <2>1, <2>3, <2>6, <3>1, <3>2 DEF WriterAt
      <3> QED
        BY <1>1, <1>5, <3>2, <3>3 DEF WrittenSoFar
    <2>7. CASE w.cr
      <3>1. d \in {CR, LF} /\ c = (IF d = LF THEN LF ELSE NUL) /\ n + 1 = EndOf(source, k + 1)
        BY <1>2, <2>1, <2>3, <2>4, <2>7
      <3>2. \/ q.ok = TRUE /\ q.out = Append(w.out, d) /\ q.cr = FALSE
            \/ q.ok = FALSE /\ q.out = w.out
        <4>1. CASE d = LF
          BY <1>1, <1>2, <1>3, <1>4, <1>7, <2>7, <3>1, <4>1, WriteCharCases
        <4>2. CASE d = CR
          BY <1>1, <1>2, <1>3, <1>4, <1>7, <2>7, <3>1, <4>2, WriteCharCases
        <4> QED
          BY <3>1, <4>1, <4>2
      <3>3. WrittenSoFar(EndOf(source, k + 1), q)
        BY <1>5, <2>1, <2>2, <2>3, <3>2, CharRestored
      <3> QED
        BY <1>1, <3>1, <3>3
    <2> QED
      BY <1>3, <2>5, <2>6, <2>7
  <1> QED
    BY <1>3, <1>6, <1>7

\* What holds of the writer, with the number of characters it was given, and is
\* kept by each turn, holds when it has written the packet.
LEMMA PacketWritten ==
    ASSUME NetasciiTypeOK, NEW I,
           <<taken, [cr |-> m_pending_cr, out |-> out, ok |-> TRUE]>> \in I,
           \A n \in taken .. Len(wire) - 1, w \in Writing :
               <<n, w>> \in I => <<n + 1, write_char(w, wire[n + 1])>> \in I
    PROVE  Written(m_pending_cr) \in Writing /\ <<Len(wire), Written(m_pending_cr)>> \in I
  <1> DEFINE step == [c \in Char |-> [w \in Writing |-> write_char(w, c)]]
             x == [cr |-> m_pending_cr, out |-> out, ok |-> TRUE]
             packet == SubSeq(wire, taken + 1, Len(wire))
             m == Len(wire) - taken
             J == {p \in (0 .. m) \X Writing : <<taken + p[1], p[2]>> \in I}
  <1>1. /\ m \in Nat /\ taken \in Nat /\ Len(wire) \in Nat /\ taken + m = Len(wire)
        /\ taken <= Len(wire) /\ wire \in Seq(Char)
    BY DEF NetasciiTypeOK
  <1>2. IsTurn(step, Char, Writing)
    <2>1. ASSUME NEW c \in Char, NEW w \in Writing PROVE write_char(w, c) \in Writing
      BY WriteCharCases
    <2> QED
      BY <2>1 DEF IsTurn
  <1>3. /\ packet \in Seq(Char) /\ Len(packet) = m
        /\ \A k \in 0 .. m - 1 :
              packet[k + 1] = wire[(taken + k) + 1] /\ packet[k + 1] \in Char
    <2>1. PICK l, t, u : l = Len(wire) /\ t = taken /\ u = packet
      OBVIOUS
    <2>2. /\ l \in Nat /\ t \in Nat /\ t <= l /\ wire \in Seq(Char) /\ m = l - t
          /\ \A i \in t + 1 .. l : wire[i] \in Char
      <3>1. l \in Nat /\ t \in Nat /\ m = l - t /\ wire \in Seq(Char) /\ t <= l
        BY <1>1, <2>1
      <3>2. \A i \in 1 .. l : wire[i] \in Char
        BY <2>1, <3>1
      <3> QED
        BY <3>1, <3>2
    <2>3. /\ u \in Seq(Char) /\ Len(u) = IF t + 1 <= l THEN l - (t + 1) + 1 ELSE 0
          /\ \A i \in 1 .. l - (t + 1) + 1 : u[i] = wire[(t + 1) + i - 1]
      BY <2>1, <2>2, SubSeqProperties
    <2>4. Len(u) = m
      BY <2>2, <2>3
    <2>5. ASSUME NEW k \in 0 .. m - 1 PROVE u[k + 1] = wire[(t + k) + 1] /\ u[k + 1] \in Char
      <3>1. k + 1 \in 1 .. l - (t + 1) + 1 /\ (t + 1) + (k + 1) - 1 = (t + k) + 1
            /\ (t + k) + 1 \in t + 1 .. l
        BY <2>2
      <3> QED
        BY <2>2, <2>3, <3>1
    <2> QED
      BY <2>1, <2>3, <2>4, <2>5
  <1>4. x \in Writing
    BY DEF Writing, NetasciiTypeOK
  <1>5. \A k, y : <<k, y>> \in J <=> k \in 0 .. m /\ y \in Writing /\ <<taken + k, y>> \in I
    OBVIOUS
  <1>6. \A c \in Char, y \in Writing : step[c][y] = write_char(y, c)
    OBVIOUS
  <1>7. Written(m_pending_cr) = Fold(step, x, packet) /\ <<taken, x>> \in I
    BY DEF Written
  <1> HIDE DEF step, x, packet, m, J
  <1>8. <<0, x>> \in J
    <2>1. taken + 0 = taken /\ 0 \in 0 .. m
      BY <1>1
    <2> QED
      BY <1>4, <1>5, <1>7, <2>1
  <1>9. ASSUME NEW k \in 0 .. Len(packet) - 1, NEW y \in Writing, <<k, y>> \in J
        PROVE  <<k + 1, step[packet[k + 1]][y]>> \in J
    <2>1. /\ k + 1 \in 0 .. m /\ taken + k \in taken .. Len(wire) - 1
          /\ taken + (k + 1) = (taken + k) + 1 /\ k \in 0 .. m - 1
      BY <1>1, <1>3
    <2>2. <<taken + k, y>> \in I
      BY <1>5, <1>9
    <2>3. <<(taken + k) + 1, write_char(y, wire[(taken + k) + 1])>> \in I
      BY <2>1, <2>2
    <2>4. packet[k + 1] = wire[(taken + k) + 1] /\ packet[k + 1] \in Char
      BY <1>3, <2>1
    <2>5. /\ step[packet[k + 1]][y] = write_char(y, wire[(taken + k) + 1])
          /\ step[packet[k + 1]][y] \in Writing
      BY <1>2, <1>6, <2>4 DEF IsTurn
    <2> QED
      BY <1>5, <2>1, <2>3, <2>5
  <1>10. /\ Fold(step, x, packet) \in Writing
         /\ <<Len(packet), Fold(step, x, packet)>> \in J
    BY <1>2, <1>3, <1>4, <1>8, <1>9, FoldInvariant
  <1> QED
    BY <1>1, <1>3, <1>5, <1>7, <1>10

\* One character more adds itself to the text, or nothing.
LEMMA TextOfAppend ==
    ASSUME NEW s \in Seq(Char), NEW c \in Char, NEW t, Grown(s, c, t)
    PROVE  /\ c \in Ordinary \cup {LF} => text(t) = Append(text(s), c)
           /\ c \notin Ordinary \cup {LF} => text(t) = text(s)
  <1>1. PICK X, n, I, J : /\ X = Ordinary \cup {LF} /\ n = Len(s)
                          /\ I = {i \in DOMAIN s : s[i] \in X} /\ J = {i \in DOMAIN t : t[i] \in X}
    OBVIOUS
  <1>2. /\ n \in Nat /\ DOMAIN s = 1 .. n /\ DOMAIN t = 1 .. n + 1 /\ t[n + 1] = c
        /\ \A i \in 1 .. n : t[i] = s[i]
    BY <1>1 DEF Grown
  <1>3. Within(I, s)
    BY <1>1, <1>2 DEF Within
  <1>4. text(s) = Picked(s, I) /\ text(t) = Picked(t, J)
    BY <1>1 DEF text
  <1>5. CASE c \in X
    <2>1. J = I \cup {Len(s) + 1}
      BY <1>1, <1>2, <1>5
    <2>2. Grown(Picked(s, I), c, Picked(t, I \cup {Len(s) + 1}))
      BY <1>3, PickedOfAppend
    <2> QED
      BY <1>1, <1>4, <1>5, <2>1, <2>2 DEF Grown
  <1>6. CASE c \notin X
    <2>1. J = I
      BY <1>1, <1>2, <1>6
    <2>2. Picked(t, I) = Picked(s, I)
      BY <1>3, PickedOfOthers
    <2> QED
      BY <1>1, <1>4, <1>6, <2>1, <2>2
  <1> QED
    BY <1>1, <1>5, <1>6

\* A turn of the loop of write gives on what it takes, if it is text.
TextSoFar(n, w) == w.ok => text(w.out) = text(SubSeq(wire, 1, n))

LEMMA WriteText ==
    ASSUME NetasciiTypeOK, NEW n \in 0 .. Len(wire) - 1, NEW w \in Writing, TextSoFar(n, w)
    PROVE  TextSoFar(n + 1, write_char(w, wire[n + 1]))
  <1>1. PICK c, q, s, t : /\ c = wire[n + 1] /\ q = write_char(w, c)
                          /\ s = SubSeq(wire, 1, n) /\ t = SubSeq(wire, 1, n + 1)
    OBVIOUS
  <1>2. s \in Seq(Char) /\ c \in Char /\ Grown(s, c, t)
    BY <1>1 DEF Grown, NetasciiTypeOK
  <1>3. w.out \in Seq(Char) /\ w.ok \in BOOLEAN /\ w.cr \in BOOLEAN /\ (w.ok => text(w.out) = text(s))
    BY <1>1 DEF TextSoFar, Writing
  <1>4. /\ c \in Ordinary \cup {LF} => text(t) = Append(text(s), c)
        /\ c \notin Ordinary \cup {LF} => text(t) = text(s)
    BY <1>2, TextOfAppend
  <1>5. CR # LF /\ NUL \notin {CR, LF} /\ CR \notin Ordinary /\ NUL \notin Ordinary
        /\ CR \in Char /\ LF \in Char
    BY NetasciiAssumption DEF Char
  <1>6. ASSUME NEW x \in Char, w.ok, q.ok = TRUE, q.out = Append(w.out, x),
               x = c \/ (x \notin Ordinary \cup {LF} /\ c \notin Ordinary \cup {LF})
        PROVE  text(q.out) = text(t)
    <2>1. PICK u, v : u = w.out /\ v = q.out
      OBVIOUS
    <2>2. u \in Seq(Char) /\ Grown(u, x, v)
      BY <1>3, <1>6, <2>1 DEF Grown
    <2>3. /\ x \in Ordinary \cup {LF} => text(v) = Append(text(u), x)
          /\ x \notin Ordinary \cup {LF} => text(v) = text(u)
      BY <2>2, TextOfAppend
    <2> QED
      BY <1>3, <1>4, <1>6, <2>1, <2>3
  <1>7. ASSUME q.ok PROVE text(q.out) = text(t)
    <2>1. w.ok /\ q \in Writing
      BY <1>1, <1>2, <1>7, WriteCharCases
    <2>2. q.ok = TRUE
      BY <1>7, <2>1 DEF Writing
    <2>3. CASE c = CR /\ ~w.cr
      <3>1. q.out = w.out
        BY <1>1, <1>2, <2>1, <2>3, WriteCharCases
      <3> QED
        BY <1>3, <1>4, <1>5, <2>1, <2>3, <3>1
    <2>4. CASE c = CR /\ w.cr
      <3>1. q.out = Append(w.out, CR)
        BY <1>1, <1>2, <2>1, <2>2, <2>4, WriteCharCases
      <3> QED
        BY <1>5, <1>6, <2>1, <2>2, <2>4, <3>1
    <2>5. CASE c = LF
      <3>1. q.out = Append(w.out, LF)
        BY <1>1, <1>2, <2>1, <2>2, <2>5, WriteCharCases
      <3> QED
        BY <1>5, <1>6, <2>1, <2>2, <2>5, <3>1
    <2>6. CASE c = NUL /\ w.cr
      <3>1. q.out = Append(w.out, CR)
        BY <1>1, <1>2, <2>1, <2>2, <2>6, WriteCharCases
      <3> QED
        BY <1>5, <1>6, <2>1, <2>2, <2>6, <3>1
    <2>7. CASE c \notin {CR, LF} /\ ~(c = NUL /\ w.cr)
      <3>1. q.out = Append(w.out, c)
        BY <1>1, <1>2, <2>1, <2>2, <2>7, WriteCharCases
      <3> QED
        BY <1>2, <1>6, <2>1, <2>2, <3>1
    <2> QED
      BY <1>3, <2>3, <2>4, <2>5, <2>6, <2>7
  <1> QED
    BY <1>1, <1>7 DEF TextSoFar

\* What is on the wire, and what is pending, is of the file's encoding.
ReaderInv ==
    ~other => /\ ReaderAt(pos, m_pending_char, Len(wire))
              /\ Continues(0, wire)
              /\ ended => pos = readable /\ m_pending_char = NUL

\* What the writer was given is decoded, but for a pending CR.
WriterInv ==
    ~other => IF failed THEN Starts(out, source) ELSE WriterAt(m_pending_cr, out, taken)

NetasciiInv == NetasciiTypeOK /\ ReaderInv /\ WriterInv /\ TextSurvives

LEMMA NetasciiInitInv == NetasciiInit => NetasciiInv
  <1> SUFFICES ASSUME NetasciiInit PROVE NetasciiInv
    OBVIOUS
  <1>1. source \in Seq(Char)
    <2>1. source = << >> \/ source \in SeqOf(Char, MaxLength)
      BY DEF NetasciiInit
    <2>2. ASSUME source \in SeqOf(Char, MaxLength) PROVE source \in Seq(Char)
      BY <2>2 DEF SeqOf
    <2> QED
      BY <2>1, <2>2, EmptySeq
  <1>2. PICK e : e = << >>
    OBVIOUS
  <1>3. e \in Seq(Char) /\ Len(e) = 0 /\ wire = e /\ out = e /\ SubSeq(e, 1, 0) = e
        /\ SubSeq(source, 1, 0) = e
    BY <1>1, <1>2 DEF NetasciiInit
  <1>4. NetasciiTypeOK
    <2>1. readable \in 0 .. Len(source) /\ room \in Nat /\ pos \in 0 .. readable
      BY <1>1, NetasciiAssumption DEF NetasciiInit
    <2>2. wire \in Seq(Char) /\ out \in Seq(Char) /\ taken \in 0 .. Len(wire)
      BY <1>3 DEF NetasciiInit
    <2> QED
      BY <1>1, <2>1, <2>2 DEF NetasciiInit, NetasciiTypeOK
  <1>5. EndOf(source, 0) = 0 /\ Len(Encoding(source)) \in Nat
    BY <1>1, UptoStarts
  <1>6. ReaderInv
    BY <1>3, <1>5 DEF ReaderInv, ReaderAt, Continues, NetasciiInit
  <1>7. WriterAt(m_pending_cr, out, taken)
    <2>1. 0 \in 0 .. Len(source)
      BY <1>1
    <2> QED
      BY <1>3, <1>5, <2>1 DEF WriterAt, NetasciiInit
  <1>8. WriterInv
    BY <1>7 DEF WriterInv, NetasciiInit
  <1>9. TextSurvives
    BY <1>3 DEF TextSurvives, Taken, NetasciiInit
  <1> QED
    BY <1>4, <1>6, <1>8, <1>9 DEF NetasciiInv

\* A packet is sent behind the others; the writer has nothing to do with it.
LEMMA PacketSent ==
    ASSUME NetasciiInv, NEW packet \in Seq(Char), Acknowledged, Sends(packet),
           UNCHANGED <<source, readable, writerVars, other>>,
           pos' \in 0 .. readable, m_pending_char' \in {CR, LF, NUL}
    PROVE  /\ NetasciiTypeOK' /\ WriterInv' /\ TextSurvives'
           /\ Len(wire') = Len(wire) + Len(packet)
           /\ \A i \in 1 .. Len(wire) + Len(packet) :
                 wire'[i] = IF i <= Len(wire) THEN wire[i] ELSE packet[i - Len(wire)]
  <1>1. PICK v, n, m : v = wire' /\ n = Len(wire) /\ m = Len(packet)
    OBVIOUS
  <1>2. wire \in Seq(Char) /\ n \in Nat /\ m \in Nat /\ taken = n /\ ~failed
    BY <1>1 DEF NetasciiInv, NetasciiTypeOK, Acknowledged
  <1>3. /\ v \in Seq(Char) /\ Len(v) = n + m
        /\ \A i \in 1 .. n + m : v[i] = IF i <= n THEN wire[i] ELSE packet[i - n]
    BY <1>1, <1>2, ConcatProperties DEF Sends
  <1>4. SubSeq(v, 1, n) = wire /\ SubSeq(wire, 1, n) = wire
    <2>1. PICK u : u = SubSeq(v, 1, n)
      OBVIOUS
    <2>2. u \in Seq(Char) /\ Len(u) = n /\ \A i \in 1 .. n : u[i] = wire[i]
      BY <1>2, <1>3, <2>1
    <2>3. u = wire
      BY <1>1, <1>2, <2>2, SeqEqual
    <2> QED
      BY <1>1, <1>2, <2>1, <2>3, SubSeqFull
  <1>5. taken' = taken /\ out' = out /\ failed' = failed /\ m_pending_cr' = m_pending_cr
        /\ source' = source /\ readable' = readable /\ room' = room /\ other' = other
    BY DEF writerVars
  <1>6. NetasciiTypeOK'
    <2>1. ended' \in BOOLEAN
      BY DEF Sends
    <2>2. taken' \in 0 .. Len(wire')
      BY <1>1, <1>2, <1>3, <1>5
    <2> QED
      BY <1>1, <1>2, <1>3, <1>5, <2>1, <2>2 DEF NetasciiInv, NetasciiTypeOK
  <1>7. WriterInv'
    BY <1>5 DEF NetasciiInv, WriterInv, WriterAt
  <1>8. TextSurvives'
    BY <1>1, <1>2, <1>4, <1>5 DEF NetasciiInv, TextSurvives, Taken
  <1> QED
    BY <1>1, <1>3, <1>6, <1>7, <1>8

LEMMA ReadInv == NetasciiInv /\ read => NetasciiInv'
  <1> SUFFICES ASSUME NetasciiInv, read PROVE NetasciiInv'
    OBVIOUS
  <1>1. NetasciiTypeOK /\ ~other /\ ReaderAt(pos, m_pending_char, Len(wire)) /\ Continues(0, wire)
    BY DEF NetasciiInv, ReaderInv, read
  <1>2. PICK r, n : r = Filled(m_pending_char) /\ n = Len(wire)
    OBVIOUS
  <1>3. ReadSoFar(DEFAULT_DATA_SIZE, r, n)
    BY <1>1, <1>2, PacketRead
  <1>4. /\ Acknowledged /\ Sends(r.buffer) /\ pos' = r.pos /\ m_pending_char' = r.pending
        /\ UNCHANGED <<source, readable, writerVars, other>>
    BY <1>2 DEF read
  <1>5. /\ r.buffer \in Seq(Char) /\ r.pos \in 0 .. readable /\ r.pending \in {CR, LF, NUL}
        /\ n \in Nat /\ wire \in Seq(Char)
    BY <1>1, <1>2, <1>3 DEF ReadSoFar, Reading, NetasciiTypeOK
  <1>6. /\ NetasciiTypeOK' /\ WriterInv' /\ TextSurvives'
        /\ Len(wire') = Len(wire) + Len(r.buffer)
        /\ \A i \in 1 .. Len(wire) + Len(r.buffer) :
              wire'[i] = IF i <= Len(wire) THEN wire[i] ELSE r.buffer[i - Len(wire)]
    BY <1>4, <1>5, PacketSent
  <1>7. ReaderAt(pos, m_pending_char, Len(wire))'
    <2>1. ReaderAt(r.pos, r.pending, n + Len(r.buffer))
      BY <1>3 DEF ReadSoFar
    <2> QED
      BY <1>2, <1>4, <1>6, <2>1 DEF ReaderAt
  <1>8. Continues(0, wire)'
    <2>1. PICK e, v, b, m : e = Encoding(source) /\ v = wire' /\ b = r.buffer /\ m = Len(r.buffer)
      OBVIOUS
    <2>2. /\ n + m <= Len(e) /\ \A i \in 1 .. m : b[i] = e[n + i]
          /\ \A i \in 1 .. n : wire[i] = e[i]
      BY <1>1, <1>2, <1>3, <2>1 DEF ReadSoFar, Continues
    <2>3. m \in Nat /\ Len(v) = n + m
      BY <1>2, <1>5, <1>6, <2>1
    <2>4. ASSUME NEW i \in 1 .. n + m PROVE v[i] = e[i]
      <3>1. v[i] = IF i <= n THEN wire[i] ELSE b[i - n]
        BY <1>2, <1>6, <2>1
      <3>2. CASE i <= n
        BY <1>5, <2>2, <2>3, <3>1, <3>2
      <3>3. CASE ~(i <= n)
        <4>1. i - n \in 1 .. m /\ n + (i - n) = i
          BY <1>5, <2>3, <3>3
        <4>2. b[i - n] = e[n + (i - n)]
          BY <2>2, <4>1
        <4> QED
          BY <3>1, <3>3, <4>1, <4>2
      <3> QED
        BY <3>2, <3>3
    <2>5. source' = source
      BY <1>4
    <2> QED
      BY <2>1, <2>2, <2>3, <2>4, <2>5 DEF Continues
  <1>9. (ended => pos = readable /\ m_pending_char = NUL)'
    <2>1. ended' => Len(r.buffer) < DEFAULT_DATA_SIZE
      BY <1>4 DEF Sends
    <2>2. Len(r.buffer) \in Nat /\ DEFAULT_DATA_SIZE \in Nat
      BY <1>5, TftpAssumption
    <2> QED
      BY <1>3, <1>4, <2>1, <2>2 DEF ReadSoFar
  <1> QED
    BY <1>6, <1>7, <1>8, <1>9 DEF NetasciiInv, ReaderInv

LEMMA OtherSendsInv == NetasciiInv /\ OtherSends => NetasciiInv'
  <1> SUFFICES ASSUME NetasciiInv, OtherSends PROVE NetasciiInv'
    OBVIOUS
  <1>1. PICK packet \in SeqOf(Char, DEFAULT_DATA_SIZE) : Sends(packet)
    BY DEF OtherSends
  <1>2. packet \in Seq(Char)
    BY DEF SeqOf
  <1>3. /\ other /\ Acknowledged /\ UNCHANGED <<source, readable, writerVars, other>>
        /\ pos' = pos /\ m_pending_char' = m_pending_char
    BY DEF OtherSends, readerVars
  <1>4. pos' \in 0 .. readable /\ m_pending_char' \in {CR, LF, NUL}
    BY <1>3 DEF NetasciiInv, NetasciiTypeOK
  <1>5. NetasciiTypeOK' /\ WriterInv' /\ TextSurvives'
    BY <1>1, <1>2, <1>3, <1>4, PacketSent
  <1>6. ReaderInv'
    BY <1>3 DEF ReaderInv
  <1> QED
    BY <1>5, <1>6 DEF NetasciiInv

LEMMA WriteInv == NetasciiInv /\ write => NetasciiInv'
  <1> SUFFICES ASSUME NetasciiInv, write PROVE NetasciiInv'
    OBVIOUS
  <1>1. /\ NetasciiTypeOK /\ taken < Len(wire) /\ taken \in Nat /\ Len(wire) \in Nat
        /\ failed = FALSE /\ m_pending_cr \in BOOLEAN /\ out \in Seq(Char)
    BY DEF NetasciiInv, NetasciiTypeOK, write
  <1>2. PICK x, w, n : /\ x = [cr |-> m_pending_cr, out |-> out, ok |-> TRUE]
                       /\ w = Written(m_pending_cr) /\ n = Len(wire)
    OBVIOUS
  <1>3. /\ m_pending_cr' = w.cr /\ out' = w.out /\ failed' = (~w.ok) /\ taken' = n
        /\ UNCHANGED <<readerVars, wireVars, room, other>>
    BY <1>2 DEF write
  <1>4. /\ source' = source /\ readable' = readable /\ pos' = pos /\ room' = room
        /\ m_pending_char' = m_pending_char /\ wire' = wire /\ ended' = ended /\ other' = other
    BY <1>3 DEF readerVars, wireVars
  <1>5. x \in Writing /\ x.ok = TRUE /\ x.cr = m_pending_cr /\ x.out = out
    BY <1>1, <1>2 DEF Writing
  <1>6t. taken \in 0 .. n
    BY <1>1, <1>2
  <1>6. w \in Writing /\ TextSoFar(n, w)
    <2> DEFINE I == {p \in (0 .. n) \X Writing : TextSoFar(p[1], p[2])}
    <2>1. \A k, y : <<k, y>> \in I <=> k \in 0 .. n /\ y \in Writing /\ TextSoFar(k, y)
      OBVIOUS
    <2>2. <<taken, x>> \in I
      <3>1. TextSoFar(taken, x)
        BY <1>1, <1>5 DEF NetasciiInv, TextSurvives, TextSoFar, Taken
      <3> QED
        BY <1>5, <1>6t, <2>1, <3>1
    <2>3. ASSUME NEW k \in taken .. Len(wire) - 1, NEW y \in Writing, <<k, y>> \in I
          PROVE  <<k + 1, write_char(y, wire[k + 1])>> \in I
      <3>1. k \in 0 .. Len(wire) - 1 /\ k + 1 \in 0 .. n /\ wire[k + 1] \in Char
        BY <1>1, <1>2 DEF NetasciiTypeOK
      <3>2. TextSoFar(k, y)
        BY <2>1, <2>3
      <3>3. TextSoFar(k + 1, write_char(y, wire[k + 1]))
        BY <1>1, <3>1, <3>2, WriteText
      <3>4. write_char(y, wire[k + 1]) \in Writing
        BY <1>1, <3>1, WriteCharCases
      <3> QED
        BY <2>1, <3>1, <3>3, <3>4
    <2> HIDE DEF I
    <2>4. w \in Writing /\ <<n, w>> \in I
      BY <1>1, <1>2, <2>2, <2>3, PacketWritten
    <2> QED
      BY <2>1, <2>4
  <1>7. NetasciiTypeOK'
    <2>1. w.cr \in BOOLEAN /\ w.out \in Seq(Char) /\ (~w.ok) \in BOOLEAN
      BY <1>6 DEF Writing
    <2>2. taken' \in 0 .. Len(wire') /\ taken' = Len(wire')
      BY <1>1, <1>2, <1>3, <1>4
    <2> QED
      BY <1>1, <1>3, <1>4, <2>1, <2>2 DEF NetasciiTypeOK
  <1>8. ReaderInv'
    BY <1>4 DEF NetasciiInv, ReaderInv, ReaderAt, Continues
  <1>9. TextSurvives'
    BY <1>3, <1>4, <1>6 DEF TextSoFar, TextSurvives, Taken
  <1>10. ASSUME ~other PROVE WrittenSoFar(n, w)
    <2> DEFINE I == {p \in (0 .. n) \X Writing : WrittenSoFar(p[1], p[2])}
    <2>1. \A k, y : <<k, y>> \in I <=> k \in 0 .. n /\ y \in Writing /\ WrittenSoFar(k, y)
      OBVIOUS
    <2>2. <<taken, x>> \in I
      <3>1. WriterAt(m_pending_cr, out, taken)
        BY <1>1, <1>10 DEF NetasciiInv, WriterInv
      <3>2. WrittenSoFar(taken, x)
        BY <1>5, <3>1 DEF WrittenSoFar
      <3> QED
        BY <1>5, <1>6t, <2>1, <3>2
    <2>3. ASSUME NEW k \in taken .. Len(wire) - 1, NEW y \in Writing, <<k, y>> \in I
          PROVE  <<k + 1, write_char(y, wire[k + 1])>> \in I
      <3>1. k \in Nat /\ k + 1 \in 1 .. Len(wire) /\ k + 1 \in 0 .. n /\ wire[k + 1] \in Char
        BY <1>1, <1>2 DEF NetasciiTypeOK
      <3>2. Len(wire) <= Len(Encoding(source)) /\ wire[k + 1] = Encoding(source)[k + 1]
        BY <1>10, <3>1 DEF NetasciiInv, ReaderInv, Continues
      <3>3. Len(Encoding(source)) \in Nat
        BY <1>1, UptoStarts DEF NetasciiTypeOK
      <3>4. k < Len(Encoding(source))
        BY <1>1, <3>1, <3>2, <3>3
      <3>5. WrittenSoFar(k, y)
        BY <2>1, <2>3
      <3>6. WrittenSoFar(k + 1, write_char(y, Encoding(source)[k + 1]))
        BY <1>1, <3>1, <3>4, <3>5, WriteChar
      <3>7. write_char(y, wire[k + 1]) \in Writing
        BY <1>1, <3>1, WriteCharCases
      <3> QED
        BY <2>1, <3>1, <3>2, <3>6, <3>7
    <2> HIDE DEF I
    <2>4. w \in Writing /\ <<n, w>> \in I
      BY <1>1, <1>2, <2>2, <2>3, PacketWritten
    <2> QED
      BY <2>1, <2>4
  <1>11. WriterInv'
    <2> SUFFICES ASSUME ~other
                 PROVE  IF failed' THEN Starts(out', source') ELSE WriterAt(m_pending_cr, out, taken)'
      BY <1>4 DEF WriterInv
    <2>1. WrittenSoFar(n, w)
      BY <1>10
    <2>2. CASE w.ok
      <3>1. WriterAt(w.cr, w.out, n) /\ ~failed'
        BY <1>3, <2>1, <2>2 DEF WrittenSoFar
      <3>2. WriterAt(m_pending_cr, out, taken)'
        BY <1>3, <1>4, <3>1 DEF WriterAt
      <3> QED
        BY <3>1, <3>2
    <2>3. CASE ~w.ok
      BY <1>3, <1>4, <2>1, <2>3 DEF WrittenSoFar
    <2> QED
      BY <2>2, <2>3
  <1> QED
    BY <1>7, <1>8, <1>9, <1>11 DEF NetasciiInv

LEMMA NetasciiNextInv == NetasciiInv /\ [NetasciiNext]_netasciiVars => NetasciiInv'
  <1> SUFFICES ASSUME NetasciiInv, [NetasciiNext]_netasciiVars PROVE NetasciiInv'
    OBVIOUS
  <1>1. CASE read
    BY <1>1, ReadInv
  <1>2. CASE OtherSends
    BY <1>2, OtherSendsInv
  <1>3. CASE write
    BY <1>3, WriteInv
  <1>4. CASE UNCHANGED netasciiVars
    <2>1. /\ source' = source /\ readable' = readable /\ pos' = pos /\ wire' = wire
          /\ m_pending_char' = m_pending_char /\ ended' = ended /\ room' = room
          /\ taken' = taken /\ m_pending_cr' = m_pending_cr /\ out' = out /\ failed' = failed
          /\ other' = other
      BY <1>4 DEF netasciiVars, readerVars, wireVars, writerVars
    <2>2. NetasciiTypeOK' /\ TextSurvives'
      BY <2>1 DEF NetasciiInv, NetasciiTypeOK, TextSurvives, Taken
    <2>3. ReaderInv' /\ WriterInv'
      BY <2>1 DEF NetasciiInv, ReaderInv, ReaderAt, Continues, WriterInv, WriterAt
    <2> QED
      BY <2>2, <2>3 DEF NetasciiInv
  <1> QED
    BY <1>1, <1>2, <1>3, <1>4 DEF NetasciiNext

\* The inductive invariant of a transfer in netascii mode: where in the encoding
\* of the file the reader and the writer are.
THEOREM NetasciiInvariance == NetasciiSpec => []NetasciiInv
  <1>1. NetasciiInit => NetasciiInv
    BY NetasciiInitInv
  <1>2. NetasciiInv /\ [NetasciiNext]_netasciiVars => NetasciiInv'
    BY NetasciiNextInv
  <1> QED
    BY <1>1, <1>2, PTL DEF NetasciiSpec

\* netascii_reader puts on the wire the encoding of its file, for every file and
\* every size of packets, and all of it in the end.
THEOREM ReaderEncodes == NetasciiSpec => []WireIsNetascii
  <1>1. ASSUME NetasciiInv PROVE WireIsNetascii
    <2> SUFFICES ASSUME ~other
                 PROVE  /\ IsPrefix(wire, Encoding(source))
                        /\ ended /\ readable = Len(source) => wire = Encoding(source)
      BY DEF WireIsNetascii
    <2>1. /\ source \in Seq(Char) /\ wire \in Seq(Char)
          /\ ReaderAt(pos, m_pending_char, Len(wire)) /\ Continues(0, wire)
          /\ ended => pos = readable /\ m_pending_char = NUL
      BY <1>1 DEF NetasciiInv, NetasciiTypeOK, ReaderInv
    <2>2. PICK e : e = Encoding(source)
      OBVIOUS
    <2>3. e \in Seq(Char) /\ EndOf(source, Len(source)) = Len(e)
      BY <2>1, <2>2, UptoStarts DEF EndOf
    <2>4. Len(wire) <= Len(e) /\ \A i \in 1 .. Len(wire) : wire[i] = e[i]
      BY <2>1, <2>2 DEF Continues
    <2>5. IsPrefix(wire, e)
      BY <2>1, <2>3, <2>4, StartsIsPrefix DEF Starts
    <2>6. ASSUME ended, readable = Len(source) PROVE wire = e
      <3>1. Len(wire) = Len(e)
        BY <2>1, <2>3, <2>6 DEF ReaderAt
      <3> QED
        BY <2>1, <2>3, <2>4, <3>1, SeqEqual
    <2> QED
      BY <2>2, <2>5, <2>6
  <1> QED
    BY <1>1, NetasciiInvariance, PTL

\* netascii_writer restores the file from packets of any size: what it has
\* written begins like the file, and in the end is all that could be read of it.
THEOREM WriterRestores == NetasciiSpec => []FileIsRestored
  <1>1. ASSUME NetasciiInv PROVE FileIsRestored
    <2> SUFFICES ASSUME ~other
                 PROVE  /\ IsPrefix(out, source)
                        /\ ~failed /\ ended /\ taken = Len(wire) =>
                              out = SubSeq(source, 1, readable)
      BY DEF FileIsRestored
    <2>1. /\ source \in Seq(Char) /\ out \in Seq(Char) /\ readable \in 0 .. Len(source)
          /\ m_pending_cr \in BOOLEAN /\ Len(source) \in Nat
          /\ ReaderAt(pos, m_pending_char, Len(wire))
          /\ ended => pos = readable /\ m_pending_char = NUL
          /\ failed => Starts(out, source)
          /\ ~failed => WriterAt(m_pending_cr, out, taken)
      BY <1>1 DEF NetasciiInv, NetasciiTypeOK, ReaderInv, WriterInv
    <2>2. CASE failed
      BY <2>1, <2>2, StartsIsPrefix
    <2>3. CASE ~failed
      <3>1. PICK k \in 0 .. Len(source) :
                /\ out = SubSeq(source, 1, k)
                /\ ~m_pending_cr => taken = EndOf(source, k)
                /\ m_pending_cr => /\ k < Len(source) /\ source[k + 1] \in {CR, LF}
                                  /\ taken = EndOf(source, k) + 1
        BY <2>1, <2>3 DEF WriterAt
      <3>2. Starts(out, source)
        BY <2>1, <3>1 DEF Starts
      <3>3. IsPrefix(out, source)
        BY <2>1, <3>2, StartsIsPrefix
      <3>4. ASSUME ended, taken = Len(wire) PROVE out = SubSeq(source, 1, readable)
        <4>1. EndOf(source, readable) = taken
          BY <2>1, <3>4 DEF ReaderAt
        <4>2. /\ \A j \in 0 .. Len(source) : EndOf(source, j) \in Nat
              /\ \A i, j \in 0 .. Len(source) : i < j => EndOf(source, i) < EndOf(source, j)
          BY <2>1, UptoStarts
        <4>3. CASE ~m_pending_cr
          <5>1. EndOf(source, k) = EndOf(source, readable)
            BY <3>1, <4>1, <4>3
          <5>2. ~(k < readable) /\ ~(readable < k)
            BY <2>1, <4>2, <5>1
          <5>3. k = readable
            BY <2>1, <5>2
          <5> QED
            BY <3>1, <5>3
        <4>4. CASE m_pending_cr
          <5>1. /\ k + 1 \in 0 .. Len(source)
                /\ EndOf(source, k + 1) = EndOf(source, k) + 2
            BY <2>1, <3>1, <4>4, EncodingAt
          <5>2. EndOf(source, readable) = EndOf(source, k) + 1
            BY <3>1, <4>1, <4>4
          <5>3. k < readable
            <6>1. k # readable
              BY <4>2, <5>2
            <6>2. ~(readable < k)
              BY <2>1, <4>2, <5>2
            <6> QED
              BY <2>1, <6>1, <6>2
          <5>4. ~(k + 1 < readable) /\ k + 1 # readable
            BY <2>1, <4>2, <5>1, <5>2
          <5> QED
            BY <2>1, <5>3, <5>4
        <4> QED
          BY <2>1, <4>3, <4>4
      <3> QED
        BY <3>3, <3>4
    <2> QED
      BY <2>1, <2>2, <2>3
  <1> QED
    BY <1>1, NetasciiInvariance, PTL

\* Line feeds and ordinary characters arrive in order and once, whatever
\* characters any program sends, in packets of any size.
THEOREM WriterKeepsText == NetasciiSpec => []TextSurvives
  <1>1. NetasciiInv => TextSurvives
    BY DEF NetasciiInv
  <1> QED
    BY <1>1, NetasciiInvariance, PTL

-----------------------------------------------------------------------------
\* Numbers.

\* What ByteBase is.
LEMMA ByteBaseType ==
    /\ ByteBase \in Nat /\ ByteBase > 5
    /\ ByteBase * ByteBase \in Nat /\ ByteBase <= ByteBase * ByteBase
    /\ Byte = 0 .. ByteBase - 1 /\ 0 \in Byte
  <1>1. ByteBase \in Nat /\ ByteBase > 5
    BY CodecAssumption
  <1>2. ByteBase * 0 + ByteBase <= ByteBase * ByteBase
    BY <1>1, ProductsAreOrdered
  <1>3. ByteBase * 0 = 0 /\ ByteBase * ByteBase \in Nat
    BY <1>1
  <1> QED
    BY <1>1, <1>2, <1>3 DEF Byte

\* A number of two bytes is read as it was written.
LEMMA NumberIsRead ==
    ASSUME NEW n \in 0 .. ByteBase * ByteBase - 1
    PROVE  \E h \in Byte, l \in Byte : write_uint16(n) = <<h, l>> /\ h * ByteBase + l = n
  <1>1. PICK M : M = ByteBase
    OBVIOUS
  <1>2. M \in Nat \ {0} /\ M * M \in Nat /\ n \in Nat /\ n < M * M
    BY <1>1, ByteBaseType
  <1> DEFINE q == n \div M
             r == n % M
  <1>3. q \in Int /\ r \in 0 .. M - 1 /\ n = M * q + r
    BY <1>2
  <1> HIDE DEF q, r
  <1>4. M * q \in Int /\ q * M = M * q
    BY <1>2, <1>3
  <1>5. q < M
    <2>1. CASE M < q
      <3>1. M * M + M <= M * q
        BY <1>2, <1>3, <2>1, ProductsAreOrdered
      <3> QED
        BY <1>2, <1>3, <1>4, <3>1
    <2>2. CASE M = q
      BY <1>2, <1>3, <2>2
    <2> QED
      BY <1>2, <1>3, <2>1, <2>2
  <1>6. q >= 0
    <2>1. CASE q < 0
      <3>1. M * q + M <= M * 0
        BY <1>2, <1>3, <2>1, ProductsAreOrdered
      <3>2. M * 0 = 0
        BY <1>2
      <3> QED
        BY <1>2, <1>3, <1>4, <3>1, <3>2
    <2> QED
      BY <1>3, <2>1
  <1>7. q \in Byte /\ r \in Byte /\ write_uint16(n) = <<q, r>>
    BY <1>1, <1>2, <1>3, <1>5, <1>6 DEF Byte, write_uint16, q, r
  <1> QED
    BY <1>1, <1>3, <1>4, <1>7

\* The codes of the packets, which are all different.
LEMMA OpCodes ==
    /\ OpCode.INVALID = 0 /\ OpCode.RRQ = 1 /\ OpCode.WRQ = 2
    /\ OpCode.DATA = 3 /\ OpCode.ACK = 4 /\ OpCode.ERROR = 5
    /\ OpCode["INVALID"] = 0 /\ OpCode["RRQ"] = 1 /\ OpCode["WRQ"] = 2
    /\ OpCode["DATA"] = 3 /\ OpCode["ACK"] = 4 /\ OpCode["ERROR"] = 5
    /\ \A op \in Opcode \cup {"INVALID"} : OpCode[op] \in 0 .. ByteBase * ByteBase - 1
  <1>1. /\ OpCode["INVALID"] = 0 /\ OpCode["RRQ"] = 1 /\ OpCode["WRQ"] = 2
        /\ OpCode["DATA"] = 3 /\ OpCode["ACK"] = 4 /\ OpCode["ERROR"] = 5
    BY DEF OpCode
  <1>2. /\ OpCode.INVALID = 0 /\ OpCode.RRQ = 1 /\ OpCode.WRQ = 2
        /\ OpCode.DATA = 3 /\ OpCode.ACK = 4 /\ OpCode.ERROR = 5
    BY DEF OpCode
  <1>3. \A k \in 0 .. 5 : k \in 0 .. ByteBase * ByteBase - 1
    BY ByteBaseType
  <1>4. ASSUME NEW op \in Opcode \cup {"INVALID"}
        PROVE  OpCode[op] \in 0 .. ByteBase * ByteBase - 1
    <2>1. OpCode[op] \in 0 .. 5
      BY <1>1 DEF Opcode
    <2> QED
      BY <1>3, <2>1
  <1> QED
    BY <1>1, <1>2, <1>4

-----------------------------------------------------------------------------
\* Strings, one after the other.

\* The turn of the loop that writes them.
StringStep == [string \in Seq(Byte) |-> [bytes \in Seq(Byte) |-> bytes \o write_string(string)]]

LEMMA StringStepType ==
    IsTurn(StringStep, Seq(Byte), Seq(Byte)) /\ << >> \in Seq(Byte)
  <1>1. ASSUME NEW string \in Seq(Byte), NEW bytes \in Seq(Byte)
        PROVE  bytes \o write_string(string) \in Seq(Byte)
    <2>1. write_string(string) \in Seq(Byte)
      BY ByteBaseType, AppendProperties DEF write_string
    <2> QED
      BY <2>1, ConcatProperties
  <1> QED
    BY <1>1, EmptySeq DEF StringStep, IsTurn

\* Where the k-th of the strings ends that the zeros end.
Ending(zeros, k) == IF k = 0 THEN 0 ELSE Nth(zeros, k)

Zeros(bytes) == {i \in DOMAIN bytes : bytes[i] = 0}

\* It is i in t, and what t has between the ends of two strings is w.
Holds(t, i, j, w) ==
    /\ i \in Nat /\ j \in Nat /\ j = i + Len(w) + 1 /\ j <= Len(t)
    /\ \A m \in 1 .. Len(w) : t[i + m] = w[m]

\* The bytes hold the first k of the strings s, and nothing else.
HoldsStrings(bytes, s, k) ==
    LET zeros == Zeros(bytes)
    IN  /\ Cardinality(zeros) = k
        /\ Ending(zeros, k) = Len(bytes)
        /\ \A j \in 1 .. k : Holds(bytes, Ending(zeros, j - 1), Ending(zeros, j), s[j])

\* more is bytes with the string w behind them.
Joined(bytes, w, more) == more = bytes \o write_string(w)

\* One string more.
LEMMA StringAdded ==
    ASSUME NEW s \in Seq(Seq(Byte \ {0})), NEW k \in 0 .. Len(s) - 1,
           NEW bytes \in Seq(Byte), HoldsStrings(bytes, s, k),
           NEW more, Joined(bytes, s[k + 1], more)
    PROVE  HoldsStrings(more, s, k + 1)
  <1>1. PICK w, v, n, c : w = s[k + 1] /\ v = write_string(w) /\ n = Len(bytes) /\ c = Len(w)
    OBVIOUS
  <1>2. w \in Seq(Byte \ {0}) /\ n \in Nat /\ c \in Nat
    BY <1>1
  <1>3. /\ v \in Seq(Byte) /\ Len(v) = c + 1 /\ v[c + 1] = 0
        /\ \A m \in 1 .. c : v[m] = w[m] /\ v[m] # 0
    <2>1. w \in Seq(Byte)
      BY <1>2
    <2>2. v = Append(w, 0) /\ 0 \in Byte
      BY <1>1, ByteBaseType DEF write_string
    <2>3. v \in Seq(Byte) /\ Len(v) = c + 1 /\ v[c + 1] = 0 /\ \A m \in 1 .. c : v[m] = w[m]
      BY <1>1, <2>1, <2>2, AppendProperties
    <2>4. \A m \in 1 .. c : w[m] # 0
      BY <1>1, <1>2
    <2> QED
      BY <2>3, <2>4
  <1>4. /\ more \in Seq(Byte) /\ Len(more) = n + c + 1
        /\ \A i \in 1 .. n + c + 1 : more[i] = IF i <= n THEN bytes[i] ELSE v[i - n]
    <2>1. more = bytes \o v
      BY <1>1, Zenon DEF Joined
    <2>2. /\ more \in Seq(Byte) /\ Len(more) = Len(bytes) + Len(v)
          /\ \A i \in 1 .. Len(bytes) + Len(v) :
                more[i] = IF i <= Len(bytes) THEN bytes[i] ELSE v[i - Len(bytes)]
      BY <1>3, <2>1, ConcatProperties
    <2>3. Len(bytes) + Len(v) = n + c + 1 /\ Len(bytes) = n
      BY <1>1, <1>2, <1>3
    <2> QED
      BY <2>2, <2>3, Zenon
  <1>5. \A i \in 1 .. n : more[i] = bytes[i]
    BY <1>2, <1>4
  <1>6. \A m \in 1 .. c + 1 : n + m \in 1 .. n + c + 1 /\ more[n + m] = v[m]
    <2>1. ASSUME NEW m \in 1 .. c + 1 PROVE n + m \in 1 .. n + c + 1 /\ more[n + m] = v[m]
      <3>1. n + m \in 1 .. n + c + 1 /\ ~ (n + m <= n) /\ (n + m) - n = m
        BY <1>2
      <3> QED
        BY <1>4, <3>1
    <2> QED
      BY <2>1
  <1>7. PICK Z, Y, e : Z = Zeros(bytes) /\ Y = Zeros(more) /\ e = n + c
    OBVIOUS
  <1>8. e \in Nat /\ n <= e /\ Z \in SUBSET (1 .. e) /\ Y = Z \cup {e + 1}
    <2>1. e \in Nat /\ n <= e /\ e + 1 = n + (c + 1) /\ c + 1 \in 1 .. c + 1
      BY <1>2, <1>7
    <2>2. Z = {i \in 1 .. n : bytes[i] = 0}
      BY <1>1, <1>7 DEF Zeros
    <2>3. Y = {i \in 1 .. e + 1 : more[i] = 0}
      BY <1>4, <1>7 DEF Zeros
    <2>4. more[e + 1] = 0 /\ e + 1 \in 1 .. e + 1
      <3>1. more[n + (c + 1)] = v[c + 1]
        BY <1>6, <2>1, Zenon
      <3>2. e + 1 \in 1 .. e + 1
        BY <2>1
      <3> QED
        BY <1>3, <2>1, <3>1, <3>2, Zenon
    <2>5. ASSUME NEW i \in 1 .. e + 1, i \notin 1 .. n, i # e + 1 PROVE more[i] # 0
      <3>1. PICK m : m = i - n
        OBVIOUS
      <3>2. m \in 1 .. c /\ n + m = i /\ m \in 1 .. c + 1
        BY <1>2, <2>1, <2>5, <3>1
      <3> QED
        BY <1>3, <1>6, <3>2
    <2>6. \A i \in 1 .. n : i \in 1 .. e /\ i \in 1 .. e + 1
      BY <1>2, <2>1
    <2>7. Y = Z \cup {e + 1}
      BY <1>5, <2>2, <2>3, <2>4, <2>5, <2>6
    <2>8. Z \in SUBSET (1 .. e)
      BY <2>2, <2>6
    <2> QED
      BY <2>1, <2>7, <2>8
  <1>9. /\ Cardinality(Z) = k /\ Ending(Z, k) = n
        /\ \A j \in 1 .. k : Holds(bytes, Ending(Z, j - 1), Ending(Z, j), s[j])
    BY <1>1, <1>7 DEF HoldsStrings
  <1>10. /\ Cardinality(Y) = k + 1 /\ Nth(Y, k + 1) = e + 1
         /\ \A j \in 1 .. k : Nth(Y, j) = Nth(Z, j)
    BY <1>8, <1>9, NthOfMore
  <1>11. \A j \in 0 .. k : Ending(Y, j) = Ending(Z, j)
    BY <1>10 DEF Ending
  <1>12. k \in Nat /\ k + 1 # 0 /\ (k + 1) - 1 = k
    OBVIOUS
  <1>13. Ending(Y, k + 1) = e + 1 /\ Len(more) = e + 1 /\ Ending(Y, k) = n
    BY <1>4, <1>7, <1>9, <1>10, <1>11, <1>12 DEF Ending
  <1>14. Holds(more, n, e + 1, w)
    <2>1. \A m \in 1 .. c : more[n + m] = w[m]
      <3>1. \A m \in 1 .. c : m \in 1 .. c + 1
        BY <1>2
      <3> QED
        BY <1>3, <1>6, <3>1, Zenon
    <2>2. e + 1 \in Nat /\ e + 1 = n + c + 1 /\ e + 1 <= Len(more) /\ c = Len(w)
      BY <1>1, <1>2, <1>7, <1>8, <1>13
    <2> QED
      BY <1>2, <2>1, <2>2, Zenon DEF Holds
  <1>15. ASSUME NEW j \in 1 .. k
         PROVE  Holds(more, Ending(Y, j - 1), Ending(Y, j), s[j])
    <2>1. PICK f, g, u : f = Ending(Z, j - 1) /\ g = Ending(Z, j) /\ u = s[j]
      OBVIOUS
    <2>2. Holds(bytes, f, g, u)
      BY <1>9, <2>1
    <2>3. u \in Seq(Byte \ {0}) /\ Len(u) \in Nat
      <3>1. j \in 1 .. Len(s)
        BY <1>12
      <3> QED
        BY <2>1, <3>1
    <2>4. Holds(more, f, g, u)
      <3>1. /\ f \in Nat /\ g \in Nat /\ g = f + Len(u) + 1 /\ g <= n
            /\ \A m \in 1 .. Len(u) : bytes[f + m] = u[m]
        BY <1>1, <2>2 DEF Holds
      <3>2. \A m \in 1 .. Len(u) : f + m \in 1 .. n
        BY <1>2, <2>3, <3>1
      <3>3. g <= Len(more)
        BY <1>2, <1>4, <3>1
      <3> QED
        BY <1>5, <3>1, <3>2, <3>3 DEF Holds
    <2>5. j \in 0 .. k /\ j - 1 \in 0 .. k
      BY <1>12
    <2> QED
      BY <1>11, <2>1, <2>4, <2>5
  <1>16. ASSUME NEW j \in 1 .. k + 1
         PROVE  Holds(more, Ending(Y, j - 1), Ending(Y, j), s[j])
    <2>1. CASE j = k + 1
      BY <1>1, <1>12, <1>13, <1>14, <2>1
    <2>2. CASE j # k + 1
      <3>1. j \in 1 .. k
        BY <1>12, <2>2
      <3> QED
        BY <1>15, <3>1
    <2> QED
      BY <2>1, <2>2
  <1> QED
    BY <1>7, <1>10, <1>13, <1>16 DEF HoldsStrings

\* Nothing holds no strings.
LEMMA NoStrings == \A s : HoldsStrings(<< >>, s, 0)
  <1>1. Zeros(<< >>) = {} /\ Len(<< >>) = 0
    BY DEF Zeros
  <1>2. PICK x : x = << >>
    OBVIOUS
  <1> QED
    BY <1>1, <1>2, FS_EmptySet DEF HoldsStrings, Ending

\* The loop leaves all of them behind each other.
LEMMA StringsWritten ==
    ASSUME NEW s \in Seq(Seq(Byte \ {0}))
    PROVE  /\ write_strings(s) \in Seq(Byte)
           /\ HoldsStrings(write_strings(s), s, Len(s))
  <1>1. PICK x, step, n : x = << >> /\ step = StringStep /\ n = Len(s)
    OBVIOUS
  <1>2. IsTurn(step, Seq(Byte), Seq(Byte)) /\ x \in Seq(Byte)
    BY <1>1, StringStepType
  <1>3. n \in Nat /\ s \in Seq(Seq(Byte)) /\ \A k \in 1 .. n : s[k] \in Seq(Byte)
    <2>1. \A k \in 1 .. n : s[k] \in Seq(Byte \ {0})
      BY <1>1
    <2>2. \A w \in Seq(Byte \ {0}) : w \in Seq(Byte)
      OBVIOUS
    <2>3. s = [k \in 1 .. n |-> s[k]] /\ n \in Nat
      BY <1>1
    <2> QED
      BY <2>1, <2>2, <2>3
  <1>4. write_strings(s) = Fold(step, x, s)
    BY <1>1, Zenon DEF write_strings, StringStep
  <1> DEFINE I == {p \in (0 .. n) \X Seq(Byte) : HoldsStrings(p[2], s, p[1])}
  <1>5. \A k, y : <<k, y>> \in I <=> k \in 0 .. n /\ y \in Seq(Byte) /\ HoldsStrings(y, s, k)
    OBVIOUS
  <1>6. HoldsStrings(x, s, 0)
    BY <1>1, NoStrings, Zenon
  <1>7. <<0, x>> \in I
    BY <1>2, <1>3, <1>5, <1>6
  <1>8. ASSUME NEW k \in 0 .. Len(s) - 1, NEW y \in Seq(Byte), <<k, y>> \in I
        PROVE  <<k + 1, step[s[k + 1]][y]>> \in I
    <2>1. k \in 0 .. n - 1 /\ k + 1 \in 0 .. n /\ k + 1 \in 1 .. n
      BY <1>1, <1>3
    <2>2. PICK w, z : w = s[k + 1] /\ z = step[w][y]
      OBVIOUS
    <2>3. w \in Seq(Byte)
      BY <1>3, <2>1, <2>2
    <2>4. z = y \o write_string(w)
      BY <1>1, <2>2, <2>3 DEF StringStep
    <2>5. z \in Seq(Byte)
      BY <1>2, <2>2, <2>3 DEF IsTurn
    <2>6. Joined(y, s[k + 1], z)
      BY <2>2, <2>4, Zenon DEF Joined
    <2>7. HoldsStrings(y, s, k)
      BY <1>5, <1>8, Zenon
    <2>8. HoldsStrings(z, s, k + 1)
      BY <2>6, <2>7, StringAdded
    <2> QED
      BY <1>5, <2>1, <2>2, <2>5, <2>8, Zenon
  <1>9. Fold(step, x, s) \in Seq(Byte) /\ <<Len(s), Fold(step, x, s)>> \in I
    <2> HIDE DEF I
    <2> QED
      BY <1>2, <1>3, <1>7, <1>8, FoldInvariant
  <1> QED
    BY <1>4, <1>5, <1>9, Zenon

\* And they are read as they were written.
LEMMA StringsRead ==
    ASSUME NEW s \in Seq(Seq(Byte \ {0})), NEW bytes \in Seq(Byte),
           HoldsStrings(bytes, s, Len(s))
    PROVE  /\ read_strings(bytes) = s
           /\ s # << >> => Terminated(bytes)
  <1>1. PICK Z, n, r : Z = Zeros(bytes) /\ n = Len(s) /\ r = read_strings(bytes)
    OBVIOUS
  <1>2. /\ Cardinality(Z) = n /\ Ending(Z, n) = Len(bytes)
        /\ \A j \in 1 .. n : Holds(bytes, Ending(Z, j - 1), Ending(Z, j), s[j])
    BY <1>1 DEF HoldsStrings
  <1>3. r = [k \in 1 .. n |-> SubSeq(bytes, Ending(Z, k - 1) + 1, Ending(Z, k) - 1)]
    <2>1. r = [k \in 1 .. Cardinality(Z) |->
                 SubSeq(bytes, Ending(Z, k - 1) + 1, Ending(Z, k) - 1)]
      BY <1>1, Zenon DEF read_strings, Zeros, Ending
    <2> QED
      BY <1>2, <2>1
  <1>4. n \in Nat /\ \A k \in 1 .. n : s[k] \in Seq(Byte \ {0})
    BY <1>1
  <1>5. ASSUME NEW k \in 1 .. n
        PROVE  SubSeq(bytes, Ending(Z, k - 1) + 1, Ending(Z, k) - 1) = s[k]
    <2>1. PICK f, g, w, v :
              f = Ending(Z, k - 1) /\ g = Ending(Z, k) /\ w = s[k] /\ v = SubSeq(bytes, f + 1, g - 1)
      OBVIOUS
    <2>2. /\ f \in Nat /\ g \in Nat /\ g = f + Len(w) + 1 /\ g <= Len(bytes)
          /\ \A m \in 1 .. Len(w) : bytes[f + m] = w[m]
      BY <1>2, <2>1 DEF Holds
    <2>3. w \in Seq(Byte) /\ Len(w) \in Nat
      BY <1>4, <2>1
    <2>4. /\ f + 1 \in 1 .. Len(bytes) + 1 /\ g - 1 \in 0 .. Len(bytes)
          /\ (g - 1) - (f + 1) + 1 = Len(w)
      BY <2>2, <2>3
    <2>5. v \in Seq(Byte) /\ Len(v) = Len(w) /\ \A m \in 1 .. Len(w) : v[m] = bytes[f + m]
      <3>1. PICK a, b : a = f + 1 /\ b = g - 1
        OBVIOUS
      <3>2. v = SubSeq(bytes, a, b)
        BY <2>1, <3>1, Zenon
      <3>3. /\ a \in Int /\ b \in Int /\ a <= b + 1 /\ b - a + 1 = Len(w)
            /\ \A i \in a .. b : i \in 1 .. Len(bytes)
            /\ \A m \in 1 .. Len(w) : a + m - 1 = f + m
        BY <2>2, <2>3, <3>1
      <3>4. \A i \in a .. b : bytes[i] \in Byte
        BY <3>3
      <3>5. /\ v \in Seq(Byte) /\ Len(v) = IF a <= b THEN b - a + 1 ELSE 0
            /\ \A m \in 1 .. b - a + 1 : v[m] = bytes[a + m - 1]
        BY <3>2, <3>3, <3>4, SubSeqProperties
      <3> QED
        BY <2>3, <3>3, <3>5
    <2>6. v = w
      BY <2>2, <2>3, <2>5, SeqEqual
    <2> QED
      BY <2>1, <2>6
  <1>6. r = s
    <2>1. s = [k \in 1 .. n |-> s[k]]
      BY <1>1
    <2>2. r = [k \in 1 .. n |-> s[k]]
      BY <1>3, <1>5, Zenon
    <2> QED
      BY <2>1, <2>2
  <1>7. ASSUME s # << >> PROVE Terminated(bytes)
    <2>1. n \in 1 .. n
      BY <1>1, <1>4, <1>7, EmptySeq
    <2>2. Len(bytes) = Nth(Z, n)
      BY <1>2, <2>1 DEF Ending
    <2>3. Z \in SUBSET (1 .. Len(bytes)) /\ Len(bytes) \in Nat
      BY <1>1 DEF Zeros
    <2>4. Nth(Z, n) \in Z
      BY <1>2, <2>1, <2>3, NthExists
    <2>5. Len(bytes) \in 1 .. Len(bytes) /\ bytes[Len(bytes)] = 0
      BY <1>1, <2>2, <2>3, <2>4 DEF Zeros
    <2> QED
      BY <2>5 DEF Terminated, Last
  <1> QED
    BY <1>1, <1>6, <1>7

-----------------------------------------------------------------------------
\* Numbers at the start of bytes that agree with those of a packet as far as both
\* go.

Agrees(bytes, packet) ==
    \A i \in 1 .. Len(bytes) : i <= Len(packet) => bytes[i] = packet[i]

\* packet is the number n with tail behind it.
Numbered(n, tail, packet) == packet = write_uint16(n) \o tail

\* What is behind a number.
Rest(bytes) == SubSeq(bytes, 3, Len(bytes))

\* Bytes with a number in front.
LEMMA NumberedType ==
    ASSUME NEW n \in 0 .. ByteBase * ByteBase - 1, NEW tail \in Seq(Byte), NEW packet,
           Numbered(n, tail, packet)
    PROVE  /\ packet \in Seq(Byte) /\ Len(packet) = Len(tail) + 2
           /\ packet[1] * ByteBase + packet[2] = n
           /\ \A i \in 1 .. Len(tail) : packet[i + 2] = tail[i]
  <1>1. PICK h \in Byte, l \in Byte : write_uint16(n) = <<h, l>> /\ h * ByteBase + l = n
    BY NumberIsRead
  <1>2. PICK v, c : v = write_uint16(n) /\ c = Len(tail)
    OBVIOUS
  <1>3. v \in Seq(Byte) /\ Len(v) = 2 /\ v[1] = h /\ v[2] = l /\ c \in Nat
    BY <1>1, <1>2
  <1>4. packet = v \o tail
    BY <1>2, Zenon DEF Numbered
  <1>5. /\ packet \in Seq(Byte) /\ Len(packet) = Len(v) + Len(tail)
        /\ \A i \in 1 .. Len(v) + Len(tail) :
              packet[i] = IF i <= Len(v) THEN v[i] ELSE tail[i - Len(v)]
    BY <1>3, <1>4, ConcatProperties
  <1>6. Len(v) + Len(tail) = c + 2
    BY <1>2, <1>3
  <1>7. 1 \in 1 .. c + 2 /\ 2 \in 1 .. c + 2
    BY <1>3
  <1>8. packet[1] = h /\ packet[2] = l
    BY <1>3, <1>5, <1>6, <1>7
  <1>9. ASSUME NEW i \in 1 .. c PROVE packet[i + 2] = tail[i]
    <2>1. i + 2 \in 1 .. c + 2 /\ ~ (i + 2 <= 2) /\ (i + 2) - 2 = i
      BY <1>3
    <2> QED
      BY <1>3, <1>5, <1>6, <2>1
  <1> QED
    BY <1>1, <1>2, <1>5, <1>6, <1>8, <1>9

\* What is behind the number, byte by byte.
LEMMA RestType ==
    ASSUME NEW bytes \in Seq(Byte), Len(bytes) >= 2
    PROVE  /\ Rest(bytes) \in Seq(Byte) /\ Len(Rest(bytes)) = Len(bytes) - 2
           /\ \A i \in 1 .. Len(bytes) - 2 : Rest(bytes)[i] = bytes[i + 2]
  <1>1. PICK n, r : n = Len(bytes) /\ r = Rest(bytes)
    OBVIOUS
  <1>2. n \in Nat /\ n >= 2 /\ r = SubSeq(bytes, 3, n)
    BY <1>1 DEF Rest
  <1>3. \A i \in 3 .. n : bytes[i] \in Byte
    BY <1>1, <1>2
  <1>4. /\ r \in Seq(Byte) /\ Len(r) = IF 3 <= n THEN n - 3 + 1 ELSE 0
        /\ \A i \in 1 .. n - 3 + 1 : r[i] = bytes[3 + i - 1]
    BY <1>2, <1>3, SubSeqProperties
  <1>5. /\ n - 3 + 1 = n - 2 /\ ~ (3 <= n) => n - 2 = 0
        /\ \A i \in 1 .. n - 2 : 3 + i - 1 = i + 2
    BY <1>2
  <1> QED
    BY <1>1, <1>4, <1>5

\* Bytes that agree with a packet have the same number in front, and agree with
\* it behind the number.
LEMMA NumberAgrees ==
    ASSUME NEW n \in 0 .. ByteBase * ByteBase - 1, NEW tail \in Seq(Byte), NEW packet,
           Numbered(n, tail, packet),
           NEW bytes \in Seq(Byte), Len(bytes) >= 2, Agrees(bytes, packet)
    PROVE  /\ read_uint16(bytes) = n
           /\ Rest(bytes) \in Seq(Byte) /\ Len(Rest(bytes)) = Len(bytes) - 2
           /\ Agrees(Rest(bytes), tail)
           /\ Len(bytes) = Len(packet) => Rest(bytes) = tail
  <1>1. PICK m, r, c : m = Len(bytes) /\ r = Rest(bytes) /\ c = Len(tail)
    OBVIOUS
  <1>2. m \in Nat /\ m >= 2 /\ c \in Nat
    BY <1>1
  <1>3. /\ packet \in Seq(Byte) /\ Len(packet) = c + 2
        /\ packet[1] * ByteBase + packet[2] = n
        /\ \A i \in 1 .. c : packet[i + 2] = tail[i]
    BY <1>1, NumberedType
  <1>4. /\ r \in Seq(Byte) /\ Len(r) = m - 2
        /\ \A i \in 1 .. m - 2 : r[i] = bytes[i + 2]
    BY <1>1, RestType
  <1>5. \A i \in 1 .. m : i <= c + 2 => bytes[i] = packet[i]
    BY <1>1, <1>3 DEF Agrees
  <1>6. bytes[1] = packet[1] /\ bytes[2] = packet[2]
    <2>1. 1 \in 1 .. m /\ 1 <= c + 2 /\ 2 \in 1 .. m /\ 2 <= c + 2
      BY <1>2
    <2> QED
      BY <1>5, <2>1
  <1>7. read_uint16(bytes) = n
    BY <1>3, <1>6, Zenon DEF read_uint16
  <1>8. ASSUME NEW i \in 1 .. m - 2, i <= c PROVE r[i] = tail[i]
    <2>1. i + 2 \in 1 .. m /\ i + 2 <= c + 2 /\ i \in 1 .. c
      BY <1>2, <1>8
    <2> QED
      BY <1>3, <1>4, <1>5, <2>1
  <1>9. Agrees(r, tail)
    BY <1>1, <1>4, <1>8 DEF Agrees
  <1>10. ASSUME m = c + 2 PROVE r = tail
    <2>1. Len(r) = c /\ m - 2 = c
      BY <1>2, <1>4, <1>10
    <2>2. \A i \in 1 .. Len(r) : r[i] = tail[i]
      BY <1>2, <1>8, <2>1
    <2> QED
      BY <1>1, <1>4, <2>1, <2>2, SeqEqual
  <1> QED
    BY <1>1, <1>3, <1>4, <1>7, <1>9, <1>10

\* A string is read where its bytes end and nowhere else.
LEMMA TextAgrees ==
    ASSUME NEW string \in Seq(Byte \ {0}), NEW bytes \in Seq(Byte),
           Agrees(bytes, write_string(string))
    PROVE  /\ write_string(string) \in Seq(Byte)
           /\ Len(write_string(string)) = Len(string) + 1
           /\ Len(bytes) = Len(string) + 1 =>
                 Terminated(bytes) /\ read_strings(bytes) = <<string>>
           /\ Len(bytes) # Len(string) + 1 =>
                 ~ (Terminated(bytes) /\ Len(read_strings(bytes)) = 1)
  <1>1. PICK v, n, c : v = write_string(string) /\ n = Len(bytes) /\ c = Len(string)
    OBVIOUS
  <1>2. n \in Nat /\ c \in Nat /\ string \in Seq(Byte) /\ \A i \in 1 .. c : string[i] # 0
    BY <1>1
  <1>3. /\ v \in Seq(Byte) /\ Len(v) = c + 1 /\ v[c + 1] = 0
        /\ \A i \in 1 .. c : v[i] = string[i]
    <2>1. v = Append(string, 0) /\ 0 \in Byte
      BY <1>1, ByteBaseType DEF write_string
    <2> QED
      BY <1>1, <1>2, <2>1, AppendProperties
  <1>4. \A i \in 1 .. n : i <= c + 1 => bytes[i] = v[i]
    BY <1>1, <1>3 DEF Agrees
  <1>5. ASSUME n = c + 1 PROVE Terminated(bytes) /\ read_strings(bytes) = <<string>>
    <2>1. bytes = v
      <3>1. \A i \in 1 .. Len(bytes) : bytes[i] = v[i]
        BY <1>1, <1>2, <1>4, <1>5
      <3> QED
        BY <1>1, <1>3, <1>5, <3>1, SeqEqual
    <2>2. PICK s, x : s = <<string>> /\ x = << >>
      OBVIOUS
    <2>3. s \in Seq(Seq(Byte \ {0})) /\ Len(s) = 1 /\ s[1] = string /\ s # << >>
      BY <2>2
    <2>4. x \in Seq(Byte)
      BY <2>2
    <2>5. HoldsStrings(x, s, 0)
      BY <2>2, NoStrings, Zenon
    <2>6. Joined(x, s[0 + 1], bytes)
      <3>1. x \o v = v
        BY <1>3, <2>2, ConcatEmptySeq
      <3>2. s[0 + 1] = string
        BY <2>3
      <3> QED
        BY <1>1, <2>1, <3>1, <3>2, Zenon DEF Joined
    <2>7. HoldsStrings(bytes, s, 0 + 1)
      <3>1. 0 \in 0 .. Len(s) - 1
        BY <2>3
      <3> QED
        BY <2>3, <2>4, <2>5, <2>6, <3>1, StringAdded
    <2>8. HoldsStrings(bytes, s, Len(s))
      BY <2>3, <2>7
    <2> QED
      BY <2>2, <2>3, <2>8, StringsRead, Zenon
  <1>6. ASSUME n # c + 1, Terminated(bytes), Len(read_strings(bytes)) = 1 PROVE FALSE
    <2>1. PICK Z, r : Z = Zeros(bytes) /\ r = read_strings(bytes)
      OBVIOUS
    <2>2. n \in 1 .. n /\ bytes[n] = 0
      BY <1>1, <1>2, <1>6, EmptySeq DEF Terminated, Last
    <2>3. n > c + 1
      <3>1. CASE n <= c
        <4>1. n \in 1 .. c /\ n <= c + 1
          BY <1>2, <2>2, <3>1
        <4> QED
          BY <1>2, <1>3, <1>4, <2>2, <4>1
      <3> QED
        BY <1>2, <1>6, <3>1
    <2>4. bytes[c + 1] = 0 /\ c + 1 \in 1 .. n
      BY <1>2, <1>3, <1>4, <2>3
    <2>5. Z \in SUBSET (1 .. n) /\ n \in Z /\ c + 1 \in Z
      BY <1>1, <2>1, <2>2, <2>4 DEF Zeros
    <2>6. Cardinality(Z) \in Nat /\ IsFiniteSet(Z)
      <3>1. Cardinality(Z) \in Nat
        BY <1>2, <2>5, NthOfMore
      <3>2. IsFiniteSet(1 .. n)
        <4>1. 1 \in Int /\ n \in Int
          BY <1>2
        <4> QED
          BY <4>1, FS_Interval
      <3> QED
        BY <2>5, <3>1, <3>2, FS_Subset
    <2>7. Len(r) = Cardinality(Z)
      <3>1. r = [k \in 1 .. Cardinality(Z) |->
                   SubSeq(bytes, Ending(Z, k - 1) + 1, Ending(Z, k) - 1)]
        BY <2>1, Zenon DEF read_strings, Zeros, Ending
      <3> QED
        BY <2>6, <3>1
    <2>8. Cardinality(Z) = 1
      BY <1>6, <2>1, <2>7
    <2>9. PICK z : Z = {z}
      BY <2>6, <2>8, FS_Singleton
    <2> QED
      BY <1>2, <2>3, <2>5, <2>9
  <1> QED
    BY <1>1, <1>3, <1>5, <1>6

-----------------------------------------------------------------------------
\* Options.

\* A finite set is listed without repetition, and all of it.
LEMMA SetIsListed ==
    ASSUME NEW S, IsFiniteSet(S), NEW n, n = Cardinality(S), NEW f, f = SetToSeq(S)
    PROVE  /\ n \in Nat /\ f \in [1 .. n -> S]
           /\ \A j, k \in 1 .. n : f[j] = f[k] => j = k
           /\ \A x \in S : \E k \in 1 .. n : f[k] = x
  <1>1. n \in Nat /\ ExistsBijection(1 .. n, S)
    BY FS_CardinalityType
  <1>2. \E g \in [1 .. n -> S] : IsInjective(g)
    BY <1>1 DEF ExistsBijection, Bijection, Injection
  <1>3. f \in [1 .. n -> S] /\ IsInjective(f)
    BY <1>2, Zenon DEF SetToSeq
  <1>4. f \in Injection(1 .. n, S)
    BY <1>3 DEF Injection
  <1>5. Cardinality(1 .. n) = n
    BY <1>1, FS_Interval
  <1>6. f \in Surjection(1 .. n, S)
    BY <1>4, <1>5, FS_Injection
  <1> QED
    BY <1>1, <1>3, <1>6 DEF Surjection, IsInjective

\* The options a packet can have.
Options == UNION {[names -> Texts] : names \in {N \in SUBSET Texts : IsFiniteSet(N)}}

\* The strings of a request.
Strings(f, m, o) == <<f, m>> \o option_strings(o)

\* s lists the strings f and m, and then the options o in some order.
Lists(s, f, m, o, n, names) ==
    /\ Len(s) = 2 * n + 2 /\ s[1] = f /\ s[2] = m
    /\ \A j \in 1 .. n : s[2 * j + 1] = names[j] /\ s[2 * j + 2] = o[names[j]]

\* What is written for a request lists what it has.
LEMMA RequestListed ==
    ASSUME NEW f \in Texts, NEW m \in Texts, NEW o \in Options,
           NEW n, n = Cardinality(DOMAIN o), NEW names, names = SetToSeq(DOMAIN o)
    PROVE  /\ Strings(f, m, o) \in Seq(Seq(Byte \ {0}))
           /\ Lists(Strings(f, m, o), f, m, o, n, names)
  <1>1. PICK N \in SUBSET Texts : IsFiniteSet(N) /\ o \in [N -> Texts]
    BY DEF Options
  <1>2. DOMAIN o = N /\ n = Cardinality(N) /\ names = SetToSeq(N)
    BY <1>1
  <1>3. n \in Nat /\ names \in [1 .. n -> N]
    BY <1>1, <1>2, SetIsListed
  <1>4. PICK t, u, s : t = option_strings(o) /\ u = <<f, m>> /\ s = Strings(f, m, o)
    OBVIOUS
  <1>5. Len(names) = n
    BY <1>3
  <1>6. t = [k \in 1 .. 2 * n |->
               IF k % 2 = 1 THEN names[(k + 1) \div 2] ELSE o[names[k \div 2]]]
    <2>1. t = [k \in 1 .. 2 * Len(names) |->
                 IF k % 2 = 1 THEN names[(k + 1) \div 2] ELSE o[names[k \div 2]]]
      BY <1>2, <1>4, Zenon DEF option_strings
    <2> QED
      BY <1>5, <2>1, Zenon
  <1>7. ASSUME NEW k \in 1 .. 2 * n PROVE t[k] \in Texts
    <2>1. CASE k % 2 = 1
      <3>1. (k + 1) \div 2 \in 1 .. n
        BY <1>3, <2>1
      <3> QED
        BY <1>1, <1>3, <1>6, <2>1, <3>1
    <2>2. CASE k % 2 # 1
      <3>1. k \div 2 \in 1 .. n
        BY <1>3, <2>2
      <3> QED
        BY <1>1, <1>3, <1>6, <2>2, <3>1
    <2> QED
      BY <2>1, <2>2
  <1>8. PICK d : d = 2 * n
    OBVIOUS
  <1>9. d \in Nat
    BY <1>3, <1>8
  <1>10. t \in Seq(Texts) /\ Len(t) = d
    <2>1. t \in [1 .. d -> Texts]
      BY <1>6, <1>7, <1>8
    <2> QED
      BY <1>9, <2>1
  <1>11. u \in Seq(Texts) /\ Len(u) = 2 /\ u[1] = f /\ u[2] = m
    BY <1>4
  <1>12. s = u \o t
    BY <1>4, Zenon DEF Strings
  <1>13. /\ s \in Seq(Texts) /\ Len(s) = d + 2
         /\ \A i \in 1 .. d + 2 : s[i] = IF i <= 2 THEN u[i] ELSE t[i - 2]
    <2>1. /\ s \in Seq(Texts) /\ Len(s) = Len(u) + Len(t)
          /\ \A i \in 1 .. Len(u) + Len(t) :
                s[i] = IF i <= Len(u) THEN u[i] ELSE t[i - Len(u)]
      BY <1>10, <1>11, <1>12, ConcatProperties
    <2>2. Len(u) + Len(t) = d + 2
      BY <1>9, <1>10, <1>11
    <2> QED
      BY <1>11, <2>1, <2>2, Zenon
  <1>14. s[1] = f /\ s[2] = m
    <2>1. 1 \in 1 .. d + 2 /\ 2 \in 1 .. d + 2
      BY <1>9
    <2> QED
      BY <1>11, <1>13, <2>1
  <1>15. ASSUME NEW j \in 1 .. n PROVE s[2 * j + 1] = names[j] /\ s[2 * j + 2] = o[names[j]]
    <2>1. PICK a, b : a = 2 * j - 1 /\ b = 2 * j
      OBVIOUS
    <2>2. /\ a \in 1 .. d /\ a % 2 = 1 /\ (a + 1) \div 2 = j /\ 2 * j + 1 = a + 2
          /\ b \in 1 .. d /\ b % 2 = 0 /\ b \div 2 = j /\ 2 * j + 2 = b + 2
      BY <1>3, <1>8, <2>1
    <2>3. t[a] = names[j] /\ t[b] = o[names[j]]
      BY <1>6, <1>8, <2>2
    <2>4. \A i \in 1 .. d : i + 2 \in 1 .. d + 2 /\ ~ (i + 2 <= 2) /\ (i + 2) - 2 = i
      BY <1>9
    <2>5. s[a + 2] = t[a] /\ s[b + 2] = t[b]
      BY <1>13, <2>2, <2>4
    <2> QED
      BY <2>2, <2>3, <2>5
  <1>16. s \in Seq(Seq(Byte \ {0}))
    <2>1. Texts \subseteq Seq(Byte \ {0})
      BY CodecAssumption
    <2> QED
      BY <1>13, <2>1
  <1> QED
    BY <1>4, <1>8, <1>13, <1>14, <1>15, <1>16 DEF Lists

\* From such a list the options are restored.
LEMMA OptionsRestored ==
    ASSUME NEW f \in Texts, NEW m \in Texts, NEW o \in Options,
           NEW n, n = Cardinality(DOMAIN o), NEW names, names = SetToSeq(DOMAIN o),
           NEW s, Lists(s, f, m, o, n, names)
    PROVE  options_of(s) = o /\ n \in Nat
  <1>1. PICK N \in SUBSET Texts : IsFiniteSet(N) /\ o \in [N -> Texts]
    BY DEF Options
  <1>2. DOMAIN o = N /\ n = Cardinality(N) /\ names = SetToSeq(N)
    BY <1>1
  <1>3. /\ n \in Nat /\ names \in [1 .. n -> N]
        /\ \A j, k \in 1 .. n : names[j] = names[k] => j = k
        /\ \A x \in N : \E k \in 1 .. n : names[k] = x
    BY <1>1, <1>2, SetIsListed
  <1> DEFINE K == {k \in 3 .. Len(s) : k % 2 = 1}
  <1>4. options_of(s) =
            [name \in {s[k] : k \in K} |->
                s[1 + CHOOSE k \in K : /\ s[k] = name
                                       /\ \A j \in K : s[j] = name => k <= j]]
    BY Zenon DEF options_of
  <1>5. /\ Len(s) = 2 * n + 2
        /\ \A j \in 1 .. n : s[2 * j + 1] = names[j] /\ s[2 * j + 2] = o[names[j]]
    BY DEF Lists
  <1>6. K = {k \in 3 .. 2 * n + 2 : k % 2 = 1}
    BY <1>5, Zenon
  <1> HIDE DEF K
  <1>7. ASSUME NEW k \in K
        PROVE  \E j \in 1 .. n : k = 2 * j + 1
    <2>1. k \in 3 .. 2 * n + 2 /\ k % 2 = 1
      BY <1>6
    <2>2. PICK j : j = k \div 2
      OBVIOUS
    <2>3. j \in 1 .. n /\ k = 2 * j + 1
      BY <1>3, <2>1, <2>2
    <2> QED
      BY <2>3
  <1>8. ASSUME NEW j \in 1 .. n PROVE 2 * j + 1 \in K
    <2>1. 2 * j + 1 \in 3 .. 2 * n + 2 /\ (2 * j + 1) % 2 = 1
      BY <1>3
    <2> QED
      BY <1>6, <2>1
  <1>9. {s[k] : k \in K} = N
    <2>1. ASSUME NEW k \in K PROVE s[k] \in N
      <3>1. PICK j \in 1 .. n : k = 2 * j + 1
        BY <1>7
      <3> QED
        BY <1>3, <1>5, <3>1
    <2>2. ASSUME NEW x \in N PROVE \E k \in K : s[k] = x
      <3>1. PICK j \in 1 .. n : names[j] = x
        BY <1>3
      <3>2. 2 * j + 1 \in K /\ s[2 * j + 1] = x
        BY <1>5, <1>8, <3>1
      <3> QED
        BY <3>2
    <2> QED
      BY <2>1, <2>2
  <1>10. ASSUME NEW x \in N
         PROVE  s[1 + CHOOSE k \in K : s[k] = x /\ \A j \in K : s[j] = x => k <= j] = o[x]
    <2>1. PICK j \in 1 .. n : names[j] = x
      BY <1>3
    <2>2. PICK i : i = 2 * j + 1
      OBVIOUS
    <2>3. i \in K /\ s[i] = x
      BY <1>5, <1>8, <2>1, <2>2
    <2>4. ASSUME NEW k \in K, s[k] = x PROVE k = i
      <3>1. PICK l \in 1 .. n : k = 2 * l + 1
        BY <1>7
      <3>2. names[l] = x
        BY <1>5, <2>4, <3>1
      <3>3. l = j
        BY <1>3, <2>1, <3>2
      <3> QED
        BY <2>2, <3>1, <3>3
    <2>5. i <= i
      BY <2>2
    <2>6. PICK c : c = CHOOSE k \in K : s[k] = x /\ \A y \in K : s[y] = x => k <= y
      OBVIOUS
    <2>7. c = i
      <3>1. \E k \in K : s[k] = x /\ \A y \in K : s[y] = x => k <= y
        BY <2>3, <2>4, <2>5, Zenon
      <3>2. c \in K /\ s[c] = x
        BY <2>6, <3>1, Zenon
      <3> QED
        BY <2>4, <3>2, Zenon
    <2>8. s[1 + i] = o[x]
      <3>1. 1 + i = 2 * j + 2
        BY <2>2
      <3> QED
        BY <1>5, <2>1, <3>1
    <2> QED
      BY <2>6, <2>7, <2>8, Zenon
  <1>11. options_of(s) = [x \in N |-> o[x]]
    BY <1>4, <1>9, <1>10, Zenon
  <1> QED
    BY <1>1, <1>3, <1>11

-----------------------------------------------------------------------------
\* Packets.

\* What is behind the opcode.
Body(p) ==
    CASE p.op \in {"RRQ", "WRQ"} -> write_strings(<<p.filename, p.mode>> \o option_strings(p.options))
      [] p.op = "DATA"           -> write_uint16(p.block_no) \o p.data
      [] p.op = "ACK"            -> write_uint16(p.block_no)
      [] p.op = "ERROR"          -> write_uint16(p.error_code) \o write_string(p.message)
      [] p.op = "INVALID"        -> <<0, 0>>

LEMMA BodyIsNumbered == \A p : Numbered(OpCode[p.op], Body(p), build_packet(p))
  BY Zenon DEF Numbered, Body, build_packet

\* The structures, one by one.
LEMMA Structures ==
    ASSUME NEW p \in Structure \cup {Null}
    PROVE  \/ p = Null
           \/ \E n \in Numbers, d \in Payloads : p = [op |-> "DATA", block_no |-> n, data |-> d]
           \/ \E n \in Numbers : p = [op |-> "ACK", block_no |-> n]
           \/ \E n \in Numbers, m \in Texts :
                 p = [op |-> "ERROR", error_code |-> n, message |-> m]
           \/ \E op \in {"RRQ", "WRQ"}, f \in Texts, m \in Texts, o \in Options :
                 p = [op |-> op, filename |-> f, mode |-> m, options |-> o]
  <1>1. CASE p \in FileReq
    <2>1. p \in [op : {"RRQ", "WRQ"}, filename : Texts, mode : Texts, options : Options]
      BY <1>1, Zenon DEF FileReq, Options
    <2> HIDE DEF Options
    <2>2. /\ p = [op |-> p.op, filename |-> p.filename, mode |-> p.mode, options |-> p.options]
          /\ p.op \in {"RRQ", "WRQ"} /\ p.filename \in Texts /\ p.mode \in Texts
          /\ p.options \in Options
      BY <2>1
    <2> QED
      BY <2>2, Zenon
  <1>2. CASE p \in [op : {"DATA"}, block_no : Numbers, data : Payloads]
    <2>1. /\ p = [op |-> "DATA", block_no |-> p.block_no, data |-> p.data]
          /\ p.block_no \in Numbers /\ p.data \in Payloads
      BY <1>2
    <2> QED
      BY <2>1, Zenon
  <1>3. CASE p \in [op : {"ACK"}, block_no : Numbers]
    <2>1. p = [op |-> "ACK", block_no |-> p.block_no] /\ p.block_no \in Numbers
      BY <1>3
    <2> QED
      BY <2>1, Zenon
  <1>4. CASE p \in [op : {"ERROR"}, error_code : Numbers, message : Texts]
    <2>1. /\ p = [op |-> "ERROR", error_code |-> p.error_code, message |-> p.message]
          /\ p.error_code \in Numbers /\ p.message \in Texts
      BY <1>4
    <2> QED
      BY <2>1, Zenon
  <1> QED
    BY <1>1, <1>2, <1>3, <1>4, Zenon DEF Structure

\* What the parser goes by.
LEMMA ParserCases ==
    ASSUME NEW bytes \in Seq(Byte)
    PROVE  /\ Len(bytes) < 2 => parse(bytes) = Null
           /\ Len(bytes) >= 2 =>
                 /\ read_uint16(bytes) = 0 => parse(bytes) = Null
                 /\ read_uint16(bytes) = 1 => parse(bytes) = parse_file_req("RRQ", Rest(bytes))
                 /\ read_uint16(bytes) = 2 => parse(bytes) = parse_file_req("WRQ", Rest(bytes))
                 /\ read_uint16(bytes) = 3 => parse(bytes) = parse_data(Rest(bytes))
                 /\ read_uint16(bytes) = 4 => parse(bytes) = parse_ack(Rest(bytes))
                 /\ read_uint16(bytes) = 5 => parse(bytes) = parse_error(Rest(bytes))
  <1>1. PICK op : op = IF Len(bytes) >= 2 THEN read_uint16(bytes) ELSE 0
    OBVIOUS
  <1>2. parse(bytes) = CASE op = 1 -> parse_file_req("RRQ", Rest(bytes))
                         [] op = 2 -> parse_file_req("WRQ", Rest(bytes))
                         [] op = 3 -> parse_data(Rest(bytes))
                         [] op = 4 -> parse_ack(Rest(bytes))
                         [] op = 5 -> parse_error(Rest(bytes))
                         [] OTHER  -> Null
    <2>1. parse(bytes) = CASE op = OpCode.RRQ   -> parse_file_req("RRQ", Rest(bytes))
                           [] op = OpCode.WRQ   -> parse_file_req("WRQ", Rest(bytes))
                           [] op = OpCode.DATA  -> parse_data(Rest(bytes))
                           [] op = OpCode.ACK   -> parse_ack(Rest(bytes))
                           [] op = OpCode.ERROR -> parse_error(Rest(bytes))
                           [] OTHER             -> Null
      BY <1>1, Zenon DEF parse, Rest
    <2> QED
      BY <2>1, OpCodes, Zenon
  <1>3. Len(bytes) \in Nat
    OBVIOUS
  <1>4. CASE Len(bytes) < 2
    <2>1. op = 0 /\ ~ (Len(bytes) >= 2)
      BY <1>1, <1>3, <1>4
    <2>2. parse(bytes) = Null
      BY <1>2, <2>1
    <2> QED
      BY <2>1, <2>2, Zenon
  <1>5. CASE ~ (Len(bytes) < 2)
    <2>1. op = read_uint16(bytes) /\ Len(bytes) >= 2
      BY <1>1, <1>3, <1>5
    <2>2. /\ op = 0 => parse(bytes) = Null
          /\ op = 1 => parse(bytes) = parse_file_req("RRQ", Rest(bytes))
          /\ op = 2 => parse(bytes) = parse_file_req("WRQ", Rest(bytes))
          /\ op = 3 => parse(bytes) = parse_data(Rest(bytes))
          /\ op = 4 => parse(bytes) = parse_ack(Rest(bytes))
          /\ op = 5 => parse(bytes) = parse_error(Rest(bytes))
      BY <1>2
    <2> QED
      BY <1>5, <2>1, <2>2, Zenon
  <1> QED
    BY <1>4, <1>5

\* A number of the code has two bytes.
LEMMA NumberType == \A n \in Numbers : n \in 0 .. ByteBase * ByteBase - 1
  BY CodecAssumption

\* What the parser makes of bytes that agree with a DATA packet: the block
\* they have, unless they end in its header.
LEMMA DataSeen ==
    ASSUME NEW n \in Numbers, NEW d \in Payloads,
           NEW p, p = [op |-> "DATA", block_no |-> n, data |-> d],
           NEW bytes \in Seq(Byte), Agrees(bytes, build_packet(p))
    PROVE  /\ build_packet(p) \in Seq(Byte) /\ Len(build_packet(p)) = Len(d) + 4
           /\ Len(bytes) < 4 => parse(bytes) = Null
           /\ Len(bytes) >= 4 =>
                 /\ parse(bytes).op = "DATA" /\ parse(bytes).block_no = n
                 /\ Len(parse(bytes).data) = Len(bytes) - 4
           /\ Len(bytes) = Len(d) + 4 => parse(bytes) = p
  <1>1. PICK b, c, a, r : b = build_packet(p) /\ c = Body(p) /\ a = Len(bytes) /\ r = Rest(bytes)
    OBVIOUS
  <1>2. a \in Nat /\ d \in Seq(Byte) /\ Len(d) \in Nat
    BY <1>1, CodecAssumption
  <1>3. p.op = "DATA" /\ p.block_no = n /\ p.data = d
    OBVIOUS
  <1>4. Numbered(n, d, c)
    BY <1>1, <1>3 DEF Body, Numbered
  <1>5. n \in 0 .. ByteBase * ByteBase - 1
    BY NumberType
  <1>6. c \in Seq(Byte) /\ Len(c) = Len(d) + 2
    BY <1>2, <1>4, <1>5, NumberedType
  <1>7. PICK k : k = OpCode[p.op]
    OBVIOUS
  <1>8. k = 3 /\ k \in 0 .. ByteBase * ByteBase - 1 /\ Numbered(k, c, b)
    <2>1. Numbered(k, c, b)
      BY <1>1, <1>7, BodyIsNumbered, Zenon
    <2> QED
      BY <1>3, <1>7, <2>1, OpCodes DEF Opcode
  <1>9. b \in Seq(Byte) /\ Len(b) = Len(d) + 4
    BY <1>2, <1>6, <1>8, NumberedType
  <1>10. Agrees(bytes, b)
    BY <1>1
  <1>11. CASE a < 2
    BY <1>1, <1>2, <1>9, <1>11, ParserCases
  <1>12. CASE a >= 2
    <2>1. /\ read_uint16(bytes) = k /\ r \in Seq(Byte) /\ Len(r) = a - 2 /\ Agrees(r, c)
          /\ a = Len(b) => r = c
      BY <1>1, <1>6, <1>8, <1>10, <1>12, NumberAgrees
    <2>2. parse(bytes) = parse_data(r)
      BY <1>1, <1>8, <1>12, <2>1, ParserCases
    <2>3. CASE a < 4
      <3>1. ~ (Len(r) >= 2)
        BY <1>2, <2>1, <2>3
      <3>2. parse(bytes) = Null
        BY <2>2, <3>1, Zenon DEF parse_data
      <3> QED
        BY <1>1, <1>2, <1>9, <2>3, <3>2
    <2>4. CASE a >= 4
      <3>1. PICK q : q = Rest(r)
        OBVIOUS
      <3>2. Len(r) >= 2
        BY <1>2, <2>1, <2>4
      <3>3. /\ read_uint16(r) = n /\ q \in Seq(Byte) /\ Len(q) = Len(r) - 2
            /\ Len(r) = Len(c) => q = d
        BY <1>2, <1>4, <1>5, <2>1, <3>1, <3>2, NumberAgrees
      <3>4. parse(bytes) = [op |-> "DATA", block_no |-> n, data |-> q]
        BY <2>2, <3>1, <3>2, <3>3, Zenon DEF parse_data, Rest
      <3>5. Len(q) = a - 4
        BY <1>2, <2>1, <3>3
      <3>6. a = Len(d) + 4 => q = d
        BY <1>2, <1>6, <2>1, <3>3
      <3> QED
        BY <1>1, <1>2, <1>9, <2>4, <3>4, <3>5, <3>6
    <2> QED
      BY <1>2, <2>3, <2>4
  <1> QED
    BY <1>2, <1>11, <1>12

\* Of bytes that agree with an ACK packet: all of it, or nothing.
LEMMA AckSeen ==
    ASSUME NEW n \in Numbers, NEW p, p = [op |-> "ACK", block_no |-> n],
           NEW bytes \in Seq(Byte), Agrees(bytes, build_packet(p))
    PROVE  /\ build_packet(p) \in Seq(Byte) /\ Len(build_packet(p)) = 4
           /\ Len(bytes) = 4 => parse(bytes) = p
           /\ Len(bytes) # 4 => parse(bytes) = Null
  <1>1. PICK b, c, a, r : b = build_packet(p) /\ c = Body(p) /\ a = Len(bytes) /\ r = Rest(bytes)
    OBVIOUS
  <1>2. PICK d : d \in Seq(Byte) /\ Len(d) = 0 /\ \A v \in Seq(Byte) : v \o d = v
    BY ConcatEmptySeq, EmptySeq
  <1>a. a \in Nat
    BY <1>1
  <1>d. d \in Seq(Byte)
    BY <1>2
  <1>e. Len(d) = 0
    BY <1>2
  <1>3. p.op = "ACK" /\ p.block_no = n
    OBVIOUS
  <1>4. n \in 0 .. ByteBase * ByteBase - 1
    BY NumberType
  <1>5. Numbered(n, d, c)
    <2>1. c = write_uint16(n)
      BY <1>1, <1>3 DEF Body
    <2>2. PICK h \in Byte, l \in Byte : write_uint16(n) = <<h, l>>
      BY <1>4, NumberIsRead
    <2>3. write_uint16(n) \in Seq(Byte)
      BY <2>2
    <2> QED
      BY <1>2, <2>1, <2>3, Zenon DEF Numbered
  <1>5c. c \in Seq(Byte)
    BY <1>d, <1>4, <1>5, NumberedType
  <1>6. c \in Seq(Byte) /\ Len(c) = 2
    <2>1. c \in Seq(Byte) /\ Len(c) = Len(d) + 2
      BY <1>d, <1>4, <1>5, NumberedType
    <2> QED
      BY <1>e, <2>1
  <1>7. PICK k : k = OpCode[p.op]
    OBVIOUS
  <1>8. k = 4 /\ k \in 0 .. ByteBase * ByteBase - 1 /\ Numbered(k, c, b)
    <2>1. Numbered(k, c, b)
      BY <1>1, <1>7, BodyIsNumbered, Zenon
    <2> QED
      BY <1>3, <1>7, <2>1, OpCodes DEF Opcode
  <1>9. b \in Seq(Byte) /\ Len(b) = 4
    <2>1. b \in Seq(Byte) /\ Len(b) = Len(c) + 2
      BY <1>5c, <1>8, NumberedType
    <2> QED
      BY <1>6, <2>1
  <1>10. Agrees(bytes, b)
    BY <1>1
  <1>11. CASE a < 2
    BY <1>1, <1>a, <1>9, <1>11, ParserCases
  <1>12. CASE a >= 2
    <2>1. /\ read_uint16(bytes) = k /\ r \in Seq(Byte) /\ Len(r) = a - 2 /\ Agrees(r, c)
      BY <1>1, <1>6, <1>8, <1>10, <1>12, NumberAgrees
    <2>2. parse(bytes) = parse_ack(r)
      BY <1>1, <1>8, <1>12, <2>1, ParserCases
    <2>3. CASE a # 4
      <3>1. Len(r) # 2
        BY <1>a, <2>1, <2>3
      <3>2. parse(bytes) = Null
        BY <2>2, <3>1, Zenon DEF parse_ack
      <3> QED
        BY <1>1, <1>9, <2>3, <3>2
    <2>4. CASE a = 4
      <3>1. Len(r) = 2
        BY <2>1, <2>4
      <3>2. read_uint16(r) = n
        <4>1. Len(r) >= 2
          BY <3>1
        <4> QED
          BY <1>d, <1>4, <1>5, <2>1, <4>1, NumberAgrees
      <3>3. parse(bytes) = p
        BY <2>2, <3>1, <3>2, Zenon DEF parse_ack
      <3> QED
        BY <1>1, <1>9, <2>4, <3>3
    <2> QED
      BY <2>3, <2>4
  <1> QED
    BY <1>a, <1>11, <1>12

\* Of bytes that agree with an ERROR packet: all of it, or nothing.
LEMMA ErrorSeen ==
    ASSUME NEW n \in Numbers, NEW m \in Texts,
           NEW p, p = [op |-> "ERROR", error_code |-> n, message |-> m],
           NEW bytes \in Seq(Byte), Agrees(bytes, build_packet(p))
    PROVE  /\ build_packet(p) \in Seq(Byte) /\ Len(build_packet(p)) = Len(m) + 5
           /\ Len(bytes) = Len(m) + 5 => parse(bytes) = p
           /\ Len(bytes) # Len(m) + 5 => parse(bytes) = Null
  <1>1. PICK b, c, a, r, d :
            /\ b = build_packet(p) /\ c = Body(p) /\ a = Len(bytes) /\ r = Rest(bytes)
            /\ d = write_string(m)
    OBVIOUS
  <1>2. a \in Nat /\ m \in Seq(Byte \ {0}) /\ Len(m) \in Nat
    <2>1. m \in Seq(Byte \ {0})
      BY CodecAssumption
    <2> QED
      BY <1>1, <2>1
  <1>3. p.op = "ERROR" /\ p.error_code = n /\ p.message = m
    OBVIOUS
  <1>4. n \in 0 .. ByteBase * ByteBase - 1
    BY NumberType
  <1>5. d \in Seq(Byte) /\ Len(d) = Len(m) + 1
    <2>1. d = Append(m, 0)
      BY <1>1 DEF write_string
    <2>2. m \in Seq(Byte)
      BY <1>2
    <2> QED
      BY <2>1, <2>2, ByteBaseType, AppendProperties
  <1>6. Numbered(n, d, c)
    BY <1>1, <1>3 DEF Body, Numbered
  <1>7. c \in Seq(Byte) /\ Len(c) = Len(d) + 2
    BY <1>4, <1>5, <1>6, NumberedType
  <1>8. PICK k : k = OpCode[p.op]
    OBVIOUS
  <1>9. k = 5 /\ k \in 0 .. ByteBase * ByteBase - 1 /\ Numbered(k, c, b)
    <2>1. Numbered(k, c, b)
      BY <1>1, <1>8, BodyIsNumbered, Zenon
    <2> QED
      BY <1>3, <1>8, <2>1, OpCodes DEF Opcode
  <1>10. b \in Seq(Byte) /\ Len(b) = Len(m) + 5
    BY <1>2, <1>5, <1>7, <1>9, NumberedType
  <1>11. Agrees(bytes, b)
    BY <1>1
  <1>12. CASE a < 2
    BY <1>1, <1>2, <1>10, <1>12, ParserCases
  <1>13. CASE a >= 2
    <2>1. PICK q : q = Rest(r)
      OBVIOUS
    <2>2. read_uint16(bytes) = k /\ r \in Seq(Byte) /\ Len(r) = a - 2 /\ Agrees(r, c)
      BY <1>1, <1>7, <1>9, <1>11, <1>13, NumberAgrees
    <2>3. parse(bytes) = parse_error(r)
      BY <1>1, <1>9, <1>13, <2>2, ParserCases
    <2>4. parse(bytes) = IF Terminated(q) /\ Len(read_strings(q)) = 1
                         THEN [op |-> "ERROR", error_code |-> read_uint16(r),
                               message |-> read_strings(q)[1]]
                         ELSE Null
      BY <2>1, <2>3, Zenon DEF parse_error, Rest
    <2>5. CASE a < 4
      <3>1. Len(r) < 3 /\ Len(r) \in Int /\ a # Len(m) + 5
        BY <1>2, <2>2, <2>5
      <3>2. q = << >>
        BY <2>1, <3>1, SubSeqEmpty DEF Rest
      <3>3. ~ Terminated(q)
        BY <3>2 DEF Terminated
      <3>4. parse(bytes) = Null
        BY <2>4, <3>3, Zenon
      <3> QED
        BY <1>1, <1>10, <3>1, <3>4
    <2>6. CASE a >= 4
      <3>1. Len(r) >= 2
        BY <1>2, <2>2, <2>6
      <3>2. read_uint16(r) = n /\ q \in Seq(Byte) /\ Len(q) = Len(r) - 2 /\ Agrees(q, d)
        BY <1>4, <1>5, <1>6, <2>1, <2>2, <3>1, NumberAgrees
      <3>3. /\ Len(q) = Len(m) + 1 => Terminated(q) /\ read_strings(q) = <<m>>
            /\ Len(q) # Len(m) + 1 => ~ (Terminated(q) /\ Len(read_strings(q)) = 1)
        BY <1>1, <1>2, <3>2, TextAgrees
      <3>4. CASE a = Len(m) + 5
        <4>1. Len(q) = Len(m) + 1
          BY <1>2, <2>2, <3>2, <3>4
        <4>2. Terminated(q) /\ read_strings(q) = <<m>>
          BY <3>3, <4>1
        <4>3. Len(read_strings(q)) = 1 /\ read_strings(q)[1] = m
          BY <4>2
        <4>4. parse(bytes) = p
          BY <2>4, <3>2, <4>2, <4>3, Zenon
        <4> QED
          BY <1>1, <1>10, <3>4, <4>4
      <3>5. CASE a # Len(m) + 5
        <4>1. Len(q) # Len(m) + 1
          BY <1>2, <2>2, <3>2, <3>5
        <4>2. parse(bytes) = Null
          BY <2>4, <3>3, <4>1, Zenon
        <4> QED
          BY <1>1, <1>10, <3>5, <4>2
      <3> QED
        BY <3>4, <3>5
    <2> QED
      BY <1>2, <2>5, <2>6
  <1> QED
    BY <1>2, <1>12, <1>13

\* Of bytes that agree with a request: all of it where they are as many, and
\* otherwise a request or nothing.
LEMMA RequestSeen ==
    ASSUME NEW op \in {"RRQ", "WRQ"}, NEW f \in Texts, NEW m \in Texts, NEW o \in Options,
           NEW p, p = [op |-> op, filename |-> f, mode |-> m, options |-> o],
           NEW bytes \in Seq(Byte), Agrees(bytes, build_packet(p))
    PROVE  /\ build_packet(p) \in Seq(Byte) /\ Len(build_packet(p)) >= 2
           /\ Len(bytes) = Len(build_packet(p)) => parse(bytes) = p
           /\ parse(bytes).op \in {"RRQ", "WRQ", "INVALID"}
  <1>1. PICK b, c, a, r, s :
            /\ b = build_packet(p) /\ c = Body(p) /\ a = Len(bytes) /\ r = Rest(bytes)
            /\ s = Strings(f, m, o)
    OBVIOUS
  <1>2. p.op = op /\ p.filename = f /\ p.mode = m /\ p.options = o
    OBVIOUS
  <1>3. PICK n, names : n = Cardinality(DOMAIN o) /\ names = SetToSeq(DOMAIN o)
    OBVIOUS
  <1>4. s \in Seq(Seq(Byte \ {0})) /\ Lists(s, f, m, o, n, names)
    BY <1>1, <1>3, RequestListed
  <1>5. options_of(s) = o /\ n \in Nat
    BY <1>3, <1>4, OptionsRestored
  <1>6. Len(s) = 2 * n + 2 /\ s[1] = f /\ s[2] = m
    BY <1>4 DEF Lists
  <1>7. s # << >> /\ Len(s) >= 2 /\ Len(s) % 2 = 0
    <2>1. 2 * n + 2 >= 2 /\ (2 * n + 2) % 2 = 0
      BY <1>5
    <2>2. s # << >>
      BY <1>5, <1>6, EmptySeq
    <2> QED
      BY <1>6, <2>1, <2>2
  <1>8. c = write_strings(s)
    BY <1>1, <1>2, Zenon DEF Body, Strings
  <1>9. c \in Seq(Byte) /\ read_strings(c) = s /\ Terminated(c)
    <2>1. c \in Seq(Byte) /\ HoldsStrings(c, s, Len(s))
      BY <1>4, <1>8, StringsWritten
    <2> QED
      BY <1>4, <1>7, <2>1, StringsRead
  <1>10. parse_file_req(op, c) = p
    BY <1>5, <1>6, <1>7, <1>9, Zenon DEF parse_file_req
  <1>11. PICK k : k = OpCode[p.op]
    OBVIOUS
  <1>12. /\ k \in 0 .. ByteBase * ByteBase - 1 /\ Numbered(k, c, b)
         /\ op = "RRQ" => k = 1
         /\ op = "WRQ" => k = 2
    <2>1. Numbered(k, c, b)
      BY <1>1, <1>11, BodyIsNumbered, Zenon
    <2> QED
      BY <1>2, <1>11, <2>1, OpCodes DEF Opcode
  <1>13. b \in Seq(Byte) /\ Len(b) >= 2
    <2>1. b \in Seq(Byte) /\ Len(b) = Len(c) + 2
      BY <1>9, <1>12, NumberedType
    <2>2. Len(c) \in Nat
      BY <1>9
    <2> QED
      BY <2>1, <2>2
  <1>14. Agrees(bytes, b) /\ a \in Nat
    BY <1>1
  <1>15. CASE a < 2
    <2>1. parse(bytes) = Null /\ a # Len(b)
      BY <1>1, <1>13, <1>14, <1>15, ParserCases
    <2> QED
      BY <1>1, <1>13, <2>1 DEF Null
  <1>16. CASE a >= 2
    <2>1. read_uint16(bytes) = k /\ (a = Len(b) => r = c)
      BY <1>1, <1>9, <1>12, <1>14, <1>16, NumberAgrees
    <2>2. parse(bytes) = parse_file_req(op, r)
      <3>1. CASE op = "RRQ"
        BY <1>1, <1>12, <1>16, <2>1, <3>1, ParserCases
      <3>2. CASE op = "WRQ"
        BY <1>1, <1>12, <1>16, <2>1, <3>2, ParserCases
      <3> QED
        BY <3>1, <3>2
    <2>3. parse(bytes).op \in {"RRQ", "WRQ", "INVALID"}
      BY <2>2 DEF parse_file_req, Null
    <2>4. a = Len(b) => parse(bytes) = p
      BY <1>10, <2>1, <2>2
    <2> QED
      BY <1>1, <1>13, <2>3, <2>4
  <1> QED
    BY <1>14, <1>15, <1>16

\* Of bytes that agree with no packet: nothing.
LEMMA NothingSeen ==
    ASSUME NEW bytes \in Seq(Byte), Agrees(bytes, build_packet(Null))
    PROVE  /\ build_packet(Null) \in Seq(Byte) /\ Len(build_packet(Null)) = 4
           /\ parse(bytes) = Null
  <1>1. PICK b, c, a, k :
            b = build_packet(Null) /\ c = Body(Null) /\ a = Len(bytes) /\ k = OpCode[Null.op]
    OBVIOUS
  <1>2. Null.op = "INVALID"
    BY DEF Null
  <1>3. c = <<0, 0>>
    BY <1>1, <1>2 DEF Body
  <1>4. c \in Seq(Byte) /\ Len(c) = 2
    BY <1>3, ByteBaseType
  <1>5. c \in Seq(Byte)
    BY <1>4
  <1>6. k = 0 /\ k \in 0 .. ByteBase * ByteBase - 1 /\ Numbered(k, c, b)
    <2>1. Numbered(k, c, b)
      BY <1>1, BodyIsNumbered, Zenon
    <2> QED
      BY <1>1, <1>2, <2>1, OpCodes DEF Opcode
  <1>7. b \in Seq(Byte) /\ Len(b) = 4
    <2>1. b \in Seq(Byte) /\ Len(b) = Len(c) + 2
      BY <1>5, <1>6, NumberedType
    <2> QED
      BY <1>4, <2>1
  <1>8. Agrees(bytes, b) /\ a \in Nat
    BY <1>1
  <1>9. CASE a < 2
    BY <1>1, <1>7, <1>9, ParserCases
  <1>10. CASE a >= 2
    <2>1. read_uint16(bytes) = k
      BY <1>1, <1>5, <1>6, <1>8, <1>10, NumberAgrees
    <2> QED
      BY <1>1, <1>6, <1>7, <1>10, <2>1, ParserCases
  <1> QED
    BY <1>8, <1>9, <1>10

\* What is built has bytes, and is parsed as what it was built from.
LEMMA PacketSeen ==
    ASSUME NEW p \in Structure \cup {Null}, NEW bytes \in Seq(Byte),
           Agrees(bytes, build_packet(p))
    PROVE  /\ build_packet(p) \in Seq(Byte) /\ Len(build_packet(p)) >= 2
           /\ Len(bytes) = Len(build_packet(p)) => parse(bytes) = p
  <1>1. CASE p = Null
    <2>1. Agrees(bytes, build_packet(Null))
      BY <1>1
    <2>2. /\ build_packet(Null) \in Seq(Byte) /\ Len(build_packet(Null)) = 4
          /\ parse(bytes) = Null
      BY <2>1, NothingSeen, Zenon
    <2>3. Len(build_packet(p)) = 4
      BY <1>1, <2>2, Zenon
    <2>4. 4 >= 2
      OBVIOUS
    <2> QED
      BY <1>1, <2>2, <2>3, <2>4, Zenon
  <1>2. ASSUME NEW n \in Numbers, NEW d \in Payloads,
               p = [op |-> "DATA", block_no |-> n, data |-> d]
        PROVE  /\ build_packet(p) \in Seq(Byte) /\ Len(build_packet(p)) >= 2
               /\ Len(bytes) = Len(build_packet(p)) => parse(bytes) = p
    <2>1. /\ build_packet(p) \in Seq(Byte) /\ Len(build_packet(p)) = Len(d) + 4
          /\ Len(bytes) = Len(d) + 4 => parse(bytes) = p
      BY <1>2, DataSeen
    <2>2. Len(d) \in Nat
      BY CodecAssumption
    <2> QED
      BY <2>1, <2>2
  <1>3. ASSUME NEW n \in Numbers, p = [op |-> "ACK", block_no |-> n]
        PROVE  /\ build_packet(p) \in Seq(Byte) /\ Len(build_packet(p)) >= 2
               /\ Len(bytes) = Len(build_packet(p)) => parse(bytes) = p
    <2>1. /\ build_packet(p) \in Seq(Byte) /\ Len(build_packet(p)) = 4
          /\ Len(bytes) = 4 => parse(bytes) = p
      BY <1>3, AckSeen
    <2> QED
      BY <2>1
  <1>4. ASSUME NEW n \in Numbers, NEW m \in Texts,
               p = [op |-> "ERROR", error_code |-> n, message |-> m]
        PROVE  /\ build_packet(p) \in Seq(Byte) /\ Len(build_packet(p)) >= 2
               /\ Len(bytes) = Len(build_packet(p)) => parse(bytes) = p
    <2>1. /\ build_packet(p) \in Seq(Byte) /\ Len(build_packet(p)) = Len(m) + 5
          /\ Len(bytes) = Len(m) + 5 => parse(bytes) = p
      BY <1>4, ErrorSeen
    <2>2. Len(m) \in Nat
      BY CodecAssumption
    <2> QED
      BY <2>1, <2>2
  <1>5. ASSUME NEW op \in {"RRQ", "WRQ"}, NEW f \in Texts, NEW m \in Texts, NEW o \in Options,
               p = [op |-> op, filename |-> f, mode |-> m, options |-> o]
        PROVE  /\ build_packet(p) \in Seq(Byte) /\ Len(build_packet(p)) >= 2
               /\ Len(bytes) = Len(build_packet(p)) => parse(bytes) = p
    BY <1>5, RequestSeen
  <1> QED
    BY <1>1, <1>2, <1>3, <1>4, <1>5, Structures

-----------------------------------------------------------------------------
\* The packets of Tftp.

\* What parsed must be where Tftp says that the bytes of p are seen as seen.
SeenAs(p, seen, parsed) ==
    CASE seen.op = "DATA"  -> /\ parsed.op = "DATA"
                              /\ parsed.block_no = seen.num
                              /\ Len(parsed.data) = DataSize(seen)
                              /\ seen.data # Garbled => parsed.data = p.data
      [] seen.op = "ACK"   -> parsed.op = "ACK" /\ parsed.block_no = seen.num
      [] seen.op = "ERROR" -> parsed.op = "ERROR" /\ parsed.error_code = seen.num
      [] OTHER             -> parsed.op \in {"INVALID", "RRQ", "WRQ"}

\* Where Tftp sees nothing the parser may find nothing.
LEMMA NothingIsSound ==
    \A p : SeenAs(p, InvalidPacket, Null)
  BY DEF SeenAs, InvalidPacket, Null

\* A DATA packet, with any size.
LEMMA DataIsSound ==
    ASSUME NEW n \in Numbers, NEW d \in Payloads,
           NEW p, p = [op |-> "DATA", block_no |-> n, data |-> d],
           NEW bytes \in Seq(Byte), Agrees(bytes, build_packet(p))
    PROVE  SeenAs(p, parse_packet(Abstracted(p), Len(bytes)), parse(bytes))
  <1>1. PICK a, q, r, c : a = Len(bytes) /\ q = Abstracted(p) /\ r = parse(bytes) /\ c = Len(d) + 4
    OBVIOUS
  <1>2. /\ Len(build_packet(p)) = c
        /\ a < 4 => r = Null
        /\ a >= 4 => r.op = "DATA" /\ r.block_no = n /\ Len(r.data) = a - 4
        /\ a = c => r = p
    BY <1>1, DataSeen
  <1>3. a \in Nat /\ Len(d) \in Nat
    BY <1>1, CodecAssumption
  <1>4. p.op = "DATA" /\ p.block_no = n /\ p.data = d
    OBVIOUS
  <1>5. q = [op |-> "DATA", num |-> n, data |-> 0, len |-> c]
    <2>1. q = [DataPacket(n, 0, Len(d)) EXCEPT !.len = c]
      BY <1>1, <1>2, <1>4 DEF Abstracted
    <2> QED
      BY <2>1 DEF DataPacket
  <1>6. CASE a < 4
    <2>1. parse_packet(q, a) = InvalidPacket
      BY <1>3, <1>5, <1>6 DEF parse_packet, HeaderSize
    <2> QED
      BY <1>1, <1>2, <1>6, <2>1, NothingIsSound, Zenon
  <1>7. CASE a >= 4
    <2>1. PICK x : x = IF a = c THEN 0 ELSE Garbled
      OBVIOUS
    <2>2. parse_packet(q, a) = [op |-> "DATA", num |-> n, data |-> x, len |-> 4 + (a - 4)]
      BY <1>5, <1>7, <2>1 DEF parse_packet, DataPacket, HeaderSize
    <2>3. PICK seen : seen = parse_packet(q, a)
      OBVIOUS
    <2>4. seen.op = "DATA" /\ seen.num = n /\ seen.data = x /\ DataSize(seen) = a - 4
      BY <1>3, <2>2, <2>3 DEF DataSize, HeaderSize
    <2>5. x # Garbled => r.data = p.data
      BY <1>2, <2>1
    <2>6. SeenAs(p, seen, r)
      BY <1>2, <1>7, <2>4, <2>5 DEF SeenAs
    <2> QED
      BY <1>1, <2>3, <2>6
  <1> QED
    BY <1>3, <1>6, <1>7

\* Any other packet, with its own size and with another.
LEMMA AckIsSound ==
    ASSUME NEW n \in Numbers, NEW p, p = [op |-> "ACK", block_no |-> n],
           NEW bytes \in Seq(Byte), Agrees(bytes, build_packet(p))
    PROVE  SeenAs(p, parse_packet(Abstracted(p), Len(bytes)), parse(bytes))
  <1>1. PICK a, q, r : a = Len(bytes) /\ q = Abstracted(p) /\ r = parse(bytes)
    OBVIOUS
  <1>2. /\ Len(build_packet(p)) = 4
        /\ a = 4 => r = p
        /\ a # 4 => r = Null
    BY <1>1, AckSeen
  <1>3. p.op = "ACK" /\ p.block_no = n
    OBVIOUS
  <1>4. q = [op |-> "ACK", num |-> n, data |-> 0, len |-> 4]
    <2>1. q = [AckPacket(n) EXCEPT !.len = 4]
      BY <1>1, <1>2, <1>3 DEF Abstracted
    <2> QED
      BY <2>1 DEF AckPacket
  <1>5. CASE a # 4
    <2>1. parse_packet(q, a) = InvalidPacket
      BY <1>4, <1>5 DEF parse_packet
    <2> QED
      BY <1>1, <1>2, <1>5, <2>1, NothingIsSound, Zenon
  <1>6. CASE a = 4
    <2>1. parse_packet(q, a) = q
      BY <1>4, <1>6 DEF parse_packet, Opcode
    <2>2. SeenAs(p, q, r)
      BY <1>2, <1>3, <1>4, <1>6 DEF SeenAs
    <2> QED
      BY <1>1, <2>1, <2>2
  <1> QED
    BY <1>5, <1>6

LEMMA ErrorIsSound ==
    ASSUME NEW n \in Numbers, NEW m \in Texts,
           NEW p, p = [op |-> "ERROR", error_code |-> n, message |-> m],
           NEW bytes \in Seq(Byte), Agrees(bytes, build_packet(p))
    PROVE  SeenAs(p, parse_packet(Abstracted(p), Len(bytes)), parse(bytes))
  <1>1. PICK a, q, r, c :
            a = Len(bytes) /\ q = Abstracted(p) /\ r = parse(bytes) /\ c = Len(m) + 5
    OBVIOUS
  <1>2. /\ Len(build_packet(p)) = c
        /\ a = c => r = p
        /\ a # c => r = Null
    BY <1>1, ErrorSeen
  <1>3. p.op = "ERROR" /\ p.error_code = n
    OBVIOUS
  <1>4. q = [op |-> "ERROR", num |-> n, data |-> 0, len |-> c]
    <2>1. q = [ErrorPacket(n) EXCEPT !.len = c]
      BY <1>1, <1>2, <1>3 DEF Abstracted
    <2> QED
      BY <2>1 DEF ErrorPacket
  <1>5. CASE a # c
    <2>1. parse_packet(q, a) = InvalidPacket
      BY <1>4, <1>5 DEF parse_packet
    <2> QED
      BY <1>1, <1>2, <1>5, <2>1, NothingIsSound, Zenon
  <1>6. CASE a = c
    <2>1. parse_packet(q, a) = q
      BY <1>4, <1>6 DEF parse_packet, Opcode
    <2>2. SeenAs(p, q, r)
      BY <1>2, <1>3, <1>4, <1>6 DEF SeenAs
    <2> QED
      BY <1>1, <2>1, <2>2
  <1> QED
    BY <1>5, <1>6

LEMMA RequestIsSound ==
    ASSUME NEW op \in {"RRQ", "WRQ"}, NEW f \in Texts, NEW m \in Texts, NEW o \in Options,
           NEW p, p = [op |-> op, filename |-> f, mode |-> m, options |-> o],
           NEW bytes \in Seq(Byte), Agrees(bytes, build_packet(p))
    PROVE  SeenAs(p, parse_packet(Abstracted(p), Len(bytes)), parse(bytes))
  <1>1. PICK a, q, r, c :
            a = Len(bytes) /\ q = Abstracted(p) /\ r = parse(bytes) /\ c = Len(build_packet(p))
    OBVIOUS
  <1>2. r.op \in {"RRQ", "WRQ", "INVALID"}
    BY <1>1, RequestSeen
  <1>3. q.op = op
    <2>1. q = [RequestPacket(op) EXCEPT !.len = c]
      BY <1>1 DEF Abstracted
    <2> QED
      BY <2>1 DEF RequestPacket
  <1>4. parse_packet(q, a) = q \/ parse_packet(q, a) = InvalidPacket
    BY <1>3 DEF parse_packet
  <1>5. parse_packet(q, a).op \in {"RRQ", "WRQ", "INVALID"}
    BY <1>3, <1>4 DEF InvalidPacket
  <1>6. SeenAs(p, parse_packet(q, a), r)
    <2>1. PICK seen : seen = parse_packet(q, a)
      OBVIOUS
    <2>2. seen.op # "DATA" /\ seen.op # "ACK" /\ seen.op # "ERROR"
      BY <1>5, <2>1
    <2>3. SeenAs(p, seen, r)
      BY <1>2, <2>2 DEF SeenAs
    <2> QED
      BY <2>1, <2>3
  <1> QED
    BY <1>1, <1>6

\* So Tftp is right about every packet.
LEMMA PacketIsSound ==
    ASSUME NEW p \in Structure \cup {Null}, NEW bytes \in Seq(Byte),
           Agrees(bytes, build_packet(p))
    PROVE  SeenAs(p, parse_packet(Abstracted(p), Len(bytes)), parse(bytes))
  <1>1. CASE p = Null
    <2>1. parse(bytes) = Null
      BY <1>1, NothingSeen
    <2>2. PICK q, a : q = Abstracted(p) /\ a = Len(bytes)
      OBVIOUS
    <2>3. q.op = "INVALID"
      <3>1. PICK c : q = [InvalidPacket EXCEPT !.len = c]
        BY <1>1, <2>2 DEF Abstracted, Null
      <3> QED
        BY <3>1 DEF InvalidPacket
    <2>4. parse_packet(q, a) = InvalidPacket
      BY <2>3 DEF parse_packet, Opcode
    <2> QED
      BY <2>1, <2>2, <2>4, NothingIsSound, Zenon
  <1> QED
    BY <1>1, DataIsSound, AckIsSound, ErrorIsSound, RequestIsSound, Structures

-----------------------------------------------------------------------------
\* The buffer.

CodecTypeOK ==
    /\ buffer \in [1 .. BufferSize -> Byte] /\ size \in 0 .. BufferSize
    /\ last \in Structure \cup {Null} /\ own \in BOOLEAN

\* The buffer begins with the bytes of the packet received last, once there is
\* one; what is behind them is left over.
CodecInv ==
    /\ CodecTypeOK
    /\ size > 0 => /\ Len(build_packet(last)) <= BufferSize
                   /\ \A i \in 1 .. Len(build_packet(last)) : buffer[i] = build_packet(last)[i]
    /\ own => size > 0 /\ size = Len(build_packet(last))

\* The bytes of a packet are bytes.
LEMMA BuiltBytes ==
    ASSUME NEW p \in Structure \cup {Null}
    PROVE  build_packet(p) \in Seq(Byte) /\ Len(build_packet(p)) >= 2
  <1>1. PICK x : x = << >>
    OBVIOUS
  <1>2. x \in Seq(Byte) /\ Agrees(x, build_packet(p))
    BY <1>1 DEF Agrees
  <1> QED
    BY <1>2, PacketSeen

LEMMA CodecInitInv == Init => CodecInv
  <1> SUFFICES ASSUME Init PROVE CodecInv
    OBVIOUS
  <1>1. BufferSize \in Nat /\ 0 \in Byte
    BY CodecAssumption, ByteBaseType
  <1>2. CodecTypeOK
    <2>1. buffer \in [1 .. BufferSize -> Byte] /\ size \in 0 .. BufferSize
      BY <1>1 DEF Init
    <2>2. last = Null /\ own = FALSE
      BY DEF Init
    <2> QED
      BY <2>1, <2>2, Zenon DEF CodecTypeOK
  <1>3. ~ (size > 0) /\ own = FALSE
    BY DEF Init
  <1> QED
    BY <1>2, <1>3, Zenon DEF CodecInv

\* A packet that fits is over whatever the buffer held.
LEMMA PacketReceived ==
    ASSUME CodecTypeOK, NEW p \in Structure \cup {Null}, Len(build_packet(p)) <= BufferSize
    PROVE  /\ Overlaid(p) \in [1 .. BufferSize -> Byte]
           /\ \A i \in 1 .. Len(build_packet(p)) : Overlaid(p)[i] = build_packet(p)[i]
  <1>1. PICK b, c, o : b = build_packet(p) /\ c = Len(b) /\ o = Overlaid(p)
    OBVIOUS
  <1>2. b \in Seq(Byte) /\ c \in Nat /\ c <= BufferSize /\ BufferSize \in Nat
    BY <1>1, BuiltBytes, CodecAssumption
  <1>3. o = [i \in 1 .. BufferSize |-> IF i <= c THEN b[i] ELSE buffer[i]]
    BY <1>1 DEF Overlaid
  <1>4. \A i \in 1 .. c : b[i] \in Byte /\ i \in 1 .. BufferSize
    BY <1>1, <1>2
  <1>5. \A i \in 1 .. BufferSize : buffer[i] \in Byte
    BY DEF CodecTypeOK
  <1>6. o \in [1 .. BufferSize -> Byte]
    BY <1>2, <1>3, <1>4, <1>5
  <1>7. \A i \in 1 .. c : o[i] = b[i]
    BY <1>2, <1>3, <1>4
  <1> QED
    BY <1>1, <1>6, <1>7

\* Every receive operation keeps the invariant.
LEMMA CodecNextInv == CodecInv /\ [Next]_vars => CodecInv'
  <1> SUFFICES ASSUME CodecInv, [Next]_vars PROVE CodecInv'
    OBVIOUS
  <1>1. CodecTypeOK
    BY DEF CodecInv
  <1>2. ASSUME NEW p \in Structure \cup {Null}, Receive(p) PROVE CodecInv'
    <2>1. /\ Len(build_packet(p)) <= BufferSize /\ buffer' = Overlaid(p)
          /\ size' = Len(build_packet(p)) /\ last' = p /\ own' = TRUE
      BY <1>2 DEF Receive
    <2>2. /\ buffer' \in [1 .. BufferSize -> Byte]
          /\ \A i \in 1 .. Len(build_packet(p)) : buffer'[i] = build_packet(p)[i]
      BY <1>1, <2>1, PacketReceived
    <2>3. build_packet(last') = build_packet(p)
      BY <2>1
    <2>4. Len(build_packet(p)) \in Nat /\ Len(build_packet(p)) >= 2
      BY BuiltBytes
    <2>5. size' \in 0 .. BufferSize /\ size' > 0
      BY <2>1, <2>4, CodecAssumption
    <2>6. CodecTypeOK'
      BY <2>1, <2>2, <2>5 DEF CodecTypeOK
    <2> QED
      BY <2>1, <2>2, <2>3, <2>5, <2>6, Zenon DEF CodecInv
  <1>3. ASSUME NEW p \in Structure \cup {Null}, Overtake(p) PROVE CodecInv'
    <2>1. /\ Len(build_packet(p)) <= BufferSize /\ buffer' = Overlaid(p)
          /\ size' = size /\ last' = p /\ own' = FALSE
      BY <1>3 DEF Overtake
    <2>2. /\ buffer' \in [1 .. BufferSize -> Byte]
          /\ \A i \in 1 .. Len(build_packet(p)) : buffer'[i] = build_packet(p)[i]
      BY <1>1, <2>1, PacketReceived
    <2>3. build_packet(last') = build_packet(p)
      BY <2>1
    <2>4. CodecTypeOK'
      BY <1>1, <2>1, <2>2 DEF CodecTypeOK
    <2> QED
      BY <2>1, <2>2, <2>3, <2>4, Zenon DEF CodecInv
  <1>4. CASE UNCHANGED vars
    BY <1>4 DEF CodecInv, CodecTypeOK, vars
  <1> QED
    BY <1>2, <1>3, <1>4 DEF Next

THEOREM CodecInvariance == Spec => []CodecInv
  <1> QED
    BY CodecInitInv, CodecNextInv, PTL DEF Spec

\* What the handler gives to the parser.
LEMMA ParserInput ==
    ASSUME CodecInv, size > 0, NEW bytes, bytes = SubSeq(buffer, 1, size)
    PROVE  /\ bytes \in Seq(Byte) /\ Len(bytes) = size
           /\ Agrees(bytes, build_packet(last))
  <1>1. PICK b, c : b = build_packet(last) /\ c = Len(b)
    OBVIOUS
  <1>2. size \in 0 .. BufferSize /\ BufferSize \in Nat /\ size \in Nat
    BY CodecAssumption DEF CodecInv, CodecTypeOK
  <1>3. \A i \in 1 .. size : buffer[i] \in Byte
    BY <1>2 DEF CodecInv, CodecTypeOK
  <1>4. \A i \in 1 .. c : buffer[i] = b[i]
    BY <1>1 DEF CodecInv
  <1>5. /\ bytes \in Seq(Byte) /\ Len(bytes) = IF 1 <= size THEN size - 1 + 1 ELSE 0
        /\ \A i \in 1 .. size - 1 + 1 : bytes[i] = buffer[1 + i - 1]
    BY <1>2, <1>3, SubSeqProperties
  <1>6. Len(bytes) = size /\ \A i \in 1 .. size : bytes[i] = buffer[i]
    BY <1>2, <1>5
  <1>7. c \in Nat
    <2>1. b \in Seq(Byte)
      BY <1>1, BuiltBytes DEF CodecInv, CodecTypeOK
    <2> QED
      BY <1>1, <2>1
  <1>8. \A i \in 1 .. size : i <= c => bytes[i] = b[i]
    BY <1>2, <1>4, <1>6, <1>7
  <1> QED
    BY <1>1, <1>5, <1>6, <1>8 DEF Agrees

\* What one side builds the other side parses (RoundTrip), whatever the receive
\* buffer held before: with any byte base, texts, numbers, blocks and options.
THEOREM PacketsAreRestored == Spec => []RoundTrip
  <1>1. CodecInv => RoundTrip
    <2> SUFFICES ASSUME CodecInv, own PROVE Parsed = last
      BY DEF RoundTrip
    <2>1. size > 0 /\ size = Len(build_packet(last)) /\ last \in Structure \cup {Null}
      BY DEF CodecInv, CodecTypeOK
    <2>2. PICK bytes : bytes = SubSeq(buffer, 1, size)
      OBVIOUS
    <2>3. bytes \in Seq(Byte) /\ Len(bytes) = size /\ Agrees(bytes, build_packet(last))
      BY <2>1, <2>2, ParserInput
    <2>4. parse(bytes) = last
      BY <2>1, <2>3, PacketSeen
    <2> QED
      BY <2>2, <2>4 DEF Parsed
  <1> QED
    BY <1>1, CodecInvariance, PTL

\* The parse_packet the endpoints are modelled with says what the parser makes
\* of their buffers (TftpIsSound), also of one that the datagram after its own
\* was received into.
THEOREM EndpointsSeePackets == Spec => []TftpIsSound
  <1>1. CodecInv => TftpIsSound
    <2> SUFFICES ASSUME CodecInv, size > 0
                 PROVE  SeenAs(last, parse_packet(Abstracted(last), size), Parsed)
      BY Zenon DEF TftpIsSound, SeenAs
    <2>1. last \in Structure \cup {Null}
      BY DEF CodecInv, CodecTypeOK
    <2>2. PICK bytes : bytes = SubSeq(buffer, 1, size)
      OBVIOUS
    <2>3. bytes \in Seq(Byte) /\ Len(bytes) = size /\ Agrees(bytes, build_packet(last))
      BY <2>2, ParserInput
    <2>4. SeenAs(last, parse_packet(Abstracted(last), Len(bytes)), parse(bytes))
      BY <2>1, <2>3, PacketIsSound
    <2> QED
      BY <2>2, <2>3, <2>4, Zenon DEF Parsed
  <1> QED
    BY <1>1, CodecInvariance, PTL
=============================================================================
