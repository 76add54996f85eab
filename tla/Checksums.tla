----------------------------- MODULE Checksums ------------------------------
(***************************************************************************)
(* get_crc32 (src/src/algo_crc32.c) and the SHA1 functions                 *)
(* (src/src/algo_sha1.c), fed with one message in pieces of any length, at *)
(* any address.  CRC-32 has its true width: a word is the set of the bits  *)
(* that are one.  Of SHA-1 the compression SHA1Transform is left symbolic, *)
(* the context's state is the sequence of blocks compressed so far; block  *)
(* and counter are smaller than the code's 64 bytes and 2 x 32 bits, so    *)
(* that a few bytes fill a block and overflow the low word.                *)
(***************************************************************************)
EXTENDS Integers, Sequences, SequencesExt

CONSTANTS
    Byte,       \* the bytes a message is made of, as sets of bits
    MaxMessage, \* bound on the length of the message
    Block,      \* bytes in a block, 64 in the code
    WordSize    \* 2^32 in the code: a word of the counter is 0..WordSize-1

\* The low word counts bits, and wraps after a whole number of blocks.
ASSUME SizeAssumption ==
    /\ Byte \subseteq SUBSET (0..7)
    /\ MaxMessage \in Nat /\ Block \in Nat \ {0, 1, 2} /\ WordSize \in Nat
    /\ WordSize % (8 * Block) = 0
\* SHA1Update adds the length of a piece to an offset in the block, in a word.
ASSUME PieceAssumption == MaxMessage + Block <= WordSize

VARIABLES
    message,  \* history: the bytes so far
    crc,      \* what get_crc32 returned for them
    ctx,      \* the SHA1_CTX: [state, count, buffer]
    digest    \* what SHA1Final made of it, <<>> before

sumVars == <<message, crc, ctx, digest>>

-----------------------------------------------------------------------------
(* CRC-32.                                                                 *)

Xor(a, b) == (a \ b) \cup (b \ a)
Shr(l, n) == {i - n : i \in {j \in l : j >= n}}
Shl(l, n) == {i + n : i \in l}
Low8(l) == l \cap 0..7
Ones == 0..31

\* The polynomial of the tables, least significant bit first: 0x82f63b78.
Poly == {3, 4, 5, 6, 8, 9, 11, 12, 13, 17, 18, 20, 21, 22, 23, 25, 31}

\* One bit at a time: the reference.
BitStep(l) == IF 0 \in l THEN Xor(Shr(l, 1), Poly) ELSE Shr(l, 1)
ByteStep(l, b) ==
    LET f[k \in 0..8] == IF k = 0 THEN Xor(l, b) ELSE BitStep(f[k - 1]) IN f[8]
Reference(bytes) == Xor(FoldLeft(ByteStep, Ones, bytes), Ones)

\* table0_ has what eight steps make of a byte; tableK_ what K zero bytes after
\* it make of that.
Table0 == [b \in SUBSET (0..7) |-> ByteStep({}, b)]
Behind(table) == [b \in SUBSET (0..7) |-> Xor(Table0[Low8(table[b])], Shr(table[b], 8))]
Table1 == Behind(Table0)
Table2 == Behind(Table1)
Table3 == Behind(Table2)

\* STEP1.
Step1(l, b) == Xor(Table0[Low8(Xor(l, b))], Shr(l, 8))

\* load_le_uint.
LoadLE(w) == w[1] \cup Shl(w[2], 8) \cup Shl(w[3], 16) \cup Shl(w[4], 24)

\* A wrong STEP4 with the tables the other way round.
Step4Swapped(l, w) ==
    LET c == Xor(l, LoadLE(w))
    IN  Xor(Xor(Table0[Low8(c)], Table1[Low8(Shr(c, 8))]),
            Xor(Table2[Low8(Shr(c, 16))], Table3[Shr(c, 24)]))

\* STEP4.
Step4(l, w) ==
    LET c == Xor(l, LoadLE(w))
    IN  Xor(Xor(Table3[Low8(c)], Table2[Low8(Shr(c, 8))]),
            Xor(Table1[Low8(Shr(c, 16))], Table0[Shr(c, 24)]))

\* get_crc32 of buf, whose address is `address' modulo 4: single bytes up to the
\* next multiple of 4 if that lies within buf, then words, then single bytes.
GetCrc32(start, address, buf) ==
    LET x == (4 - address) % 4
        first == IF x <= Len(buf) THEN x ELSE 0
        words == (Len(buf) - first) \div 4
        head == FoldLeft(Step1, Xor(start, Ones), SubSeq(buf, 1, first))
        mid == FoldLeft(Step4, head, [i \in 1..words |->
                   SubSeq(buf, first + 4 * i - 3, first + 4 * i)])
    IN  Xor(FoldLeft(Step1, mid, SubSeq(buf, first + 4 * words + 1, Len(buf))), Ones)

-----------------------------------------------------------------------------
(* SHA-1.  count[1] is the low word, count[0] of the code.                 *)

\* SHA1Init.
SHA1Init == [state |-> <<>>, count |-> <<0, 0>>, buffer |-> [i \in 1..Block |-> {}]]

\* SHA1Transform: the block is mixed into the state.
SHA1Transform(state, block) == Append(state, block)

\* A wrong counter that takes no carry into its high word.
CountNoCarry(count, len) ==
    <<(count[1] + 8 * len) % WordSize, (count[2] + (8 * len) \div WordSize) % WordSize>>

\* The counter of bits after len bytes more: count[0] += len << 3 with its
\* carry, and count[1] += len >> 29.
Counted(count, len) ==
    LET low == (count[1] + 8 * len) % WordSize
        carry == IF low < count[1] THEN 1 ELSE 0
    IN  <<low, (count[2] + carry + (8 * len) \div WordSize) % WordSize>>

\* data copied into the buffer from offset j on.
Copied(buffer, j, data) ==
    [k \in 1..Block |-> IF k \in (j + 1)..(j + Len(data)) THEN data[k - j] ELSE buffer[k]]

\* SHA1Update: the buffer is filled up and compressed, then whole blocks straight
\* from data, and the rest is kept.
SHA1Update(c, data) ==
    LET j == (c.count[1] \div 8) % Block
        i == Block - j
        blocks == (Len(data) - i) \div Block
        rest == i + blocks * Block
        full == Copied(c.buffer, j, SubSeq(data, 1, i))
        whole == [k \in 1..blocks |-> SubSeq(data, i + (k - 1) * Block + 1, i + k * Block)]
    IN  IF j + Len(data) > Block - 1
        THEN [count |-> Counted(c.count, Len(data)),
              state |-> FoldLeft(SHA1Transform, SHA1Transform(c.state, full), whole),
              buffer |-> Copied(full, 0, SubSeq(data, rest + 1, Len(data)))]
        ELSE [c EXCEPT !.count = Counted(@, Len(data)), !.buffer = Copied(@, j, data)]

\* finalcount: the counter at the end of the last block, the high word first.  A
\* word takes one byte here, told from the others, where the code cuts it into four.
Finalcount(count) == <<{256 + count[2]}, {256 + count[1]}>>

\* A wrong test that leaves too little room.
PaddedLate(c) == (c.count[1] \div 8) % Block = Block - 1
\* (count[0] & 504) == 448.
Padded(c) == (c.count[1] \div 8) % Block = Block - 2

\* SHA1Final: a byte 0x80, zeros until the counter just fits, the counter as it
\* was before.
SHA1Final(c) ==
    LET f[k \in 0..Block] == IF k = 0 THEN SHA1Update(c, << {7} >>)
                             ELSE IF Padded(f[k - 1]) THEN f[k - 1]
                             ELSE SHA1Update(f[k - 1], << {} >>)
    IN  SHA1Update(f[Block], Finalcount(c.count)).state

-----------------------------------------------------------------------------
SumInit ==
    /\ message = <<>>
    /\ crc = {}
    /\ ctx = SHA1Init
    /\ digest = <<>>

\* The next piece of the message goes to both.
Feed(piece, address) ==
    /\ digest = <<>>
    /\ Len(message) + Len(piece) <= MaxMessage
    /\ message' = message \o piece
    /\ crc' = GetCrc32(crc, address, piece)
    /\ ctx' = SHA1Update(ctx, piece)
    /\ UNCHANGED digest

\* SHA1Final wipes the context after it.
Finish ==
    /\ digest = <<>>
    /\ digest' = SHA1Final(ctx)
    /\ UNCHANGED <<message, crc, ctx>>

Again == digest # <<>> /\ message' = <<>> /\ crc' = {} /\ ctx' = SHA1Init /\ digest' = <<>>

SumNext ==
    \/ \E len \in 0..(MaxMessage - Len(message)) : \E piece \in [1..len -> Byte], a \in 0..3 :
        Feed(piece, a)
    \/ Finish \/ Again

SumSpec == SumInit /\ [][SumNext]_sumVars

-----------------------------------------------------------------------------
(* Properties.                                                             *)

\* However the message was cut, and wherever its pieces lay, get_crc32 has the
\* value that the bits of the whole message give one by one.
CrcOfMessage == crc = Reference(message)

Chunks(s) == [k \in 1..(Len(s) \div Block) |-> SubSeq(s, (k - 1) * Block + 1, k * Block)]

\* However the message was cut, SHA1Update has compressed its whole blocks, each
\* once and in order, keeps the rest at the start of the buffer, and its two words
\* count the bits of the message.
BlocksOfMessage ==
    LET rest == Len(message) % Block
    IN  /\ ctx.state = Chunks(message)
        /\ SubSeq(ctx.buffer, 1, rest) = SubSeq(message, Len(message) - rest + 1, Len(message))
        /\ ctx.count[2] * WordSize + ctx.count[1] = 8 * Len(message)

\* The digest is that of the message with its padding: a one bit, the fewest zeros
\* that leave room for the counter at the end of a block, and the counter.
DigestOfPadded == digest # <<>> =>
    \E zeros \in 0..(Block - 1) :
        LET padded == message \o << {7} >> \o [i \in 1..zeros |-> {}]
        IN  /\ Len(padded) % Block = Block - 2
            /\ digest = Chunks(padded \o Finalcount(ctx.count))
=============================================================================
