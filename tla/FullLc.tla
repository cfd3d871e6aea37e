--------------------------------- MODULE FullLc --------------------------------
(***************************************************************************)
(* The Full Link Control of a voice header or terminator: Reed-Solomon     *)
(* (12,9) (dmr-wire/src/rs.rs) inside the BPTC(196,96) product code, cut   *)
(* into the burst around its slot type and sync (bptc.rs), and the decoder *)
(* on_dmrd runs on the bursts it receives.                                 *)
(***************************************************************************)
EXTENDS Fec

Byte == SUBSET (0 .. 7)    \* a byte: the set of its bits, 0 the least significant

\* The bytes of a word whose bits go most significant first, and back.
Bytes(W, n) == [i \in 1 .. n |-> {7 - j : j \in Slice(W, 8 * (i - 1), 8)}]
Bits(bytes) == UNION {{8 * (i - 1) + 7 - b : b \in bytes[i]} : i \in DOMAIN bytes}

--------------------------------------------------------------------------------
(* GF(256), generated by x^8 + x^4 + x^3 + x^2 + 1. *)

\* EXP_TABLE[i] is alpha^i, built here by squaring, a bit at a time, and doubling;
\* LOG_TABLE its inverse.
EXP ==
  LET Double(b) == LET up == {k + 1 : k \in b}
                   IN  IF 8 \in up THEN SymDiff(up \ {8}, {0, 2, 3, 4}) ELSE up
      Square(b) == Span(<< {0}, {2}, {4}, {6}, {0, 2, 3, 4}, {2, 4, 5, 6},
                           {0, 2, 3, 6, 7}, {0, 1, 4} >>, b)
      power[i \in 0 .. 254] ==
        IF i = 0 THEN {0}
        ELSE IF i % 2 = 0 THEN Square(power[i \div 2]) ELSE Double(Square(power[i \div 2]))
  IN  [i \in 0 .. 510 |-> power[i % 255]]

LOG == [b \in Byte \ {{}} |-> CHOOSE i \in 0 .. 254 : EXP[i] = b]

gmult(a, b) == IF a = {} \/ b = {} THEN {} ELSE EXP[LOG[a] + LOG[b]]
gdiv(a, b) == IF a = {} THEN {} ELSE EXP[LOG[a] + 255 - LOG[b]]

ByteOf(n) == {k \in 0 .. 7 : (n \div 2 ^ k) % 2 = 1}
POLY == << ByteOf(64), ByteOf(56), ByteOf(14) >>

\* rs_12_9_encode: the parity register after the nine data bytes.
RsParity(data) ==
  LET Shift(p, byte) ==
        LET d == SymDiff(byte, p[3])
        IN  << gmult(POLY[1], d), SymDiff(p[1], gmult(POLY[2], d)),
               SymDiff(p[2], gmult(POLY[3], d)) >>
      register[n \in 0 .. Len(data)] ==
        IF n = 0 THEN << {}, {}, {} >> ELSE Shift(register[n - 1], data[n])
  IN  register[Len(data)]

\* The masks tell a header's parity from a terminator's.
Mask(terminator) == IF terminator THEN ByteOf(153) ELSE ByteOf(150)

\* rs_12_9_fec: the masked parity, highest coefficient first.
RsFec(data, mask) ==
  LET p == RsParity(data) IN [i \in 1 .. 3 |-> SymDiff(p[4 - i], mask)]

\* rs_12_9_syndromes: the codeword's value at alpha, alpha^2 and alpha^3.
RsSyndromes(cw) ==
  [i \in 1 .. 3 |->
     LET value[n \in 0 .. Len(cw)] ==
           IF n = 0 THEN {} ELSE SymDiff(gmult(value[n - 1], EXP[i]), cw[n])
     IN  value[Len(cw)]]

\* The byte the syndromes s point at, counted from the last.
RsPlace(s) == LOG[gdiv(s[2], s[1])]

\* rs_12_9_correct: one wrong byte, if the three syndromes agree on where it is and
\* the place is inside the word.
RsRepair(cw, s) ==
  IF s = << {}, {}, {} >> THEN [ok |-> TRUE, word |-> cw]
  ELSE IF s[1] = {} \/ s[2] = {} \/ gmult(s[1], s[3]) # gmult(s[2], s[2]) \/ RsPlace(s) >= 12
       THEN [ok |-> FALSE, word |-> cw]
       ELSE [ok |-> TRUE,
             word |-> [cw EXCEPT ![12 - RsPlace(s)] =
                         SymDiff(@, gdiv(s[1], EXP[RsPlace(s)]))]]
RsCorrect(cw) == RsRepair(cw, RsSyndromes(cw))

\* The products of a and the single bits.
Multiples(a) == << gmult({0}, a), gmult({1}, a), gmult({2}, a), gmult({3}, a),
                   gmult({4}, a), gmult({5}, a), gmult({6}, a), gmult({7}, a) >>

\* What the tables hold: bytes and their logarithms; multiplying by alpha, alpha^2 and
\* alpha^3 works bit by bit; and these three are the roots of the generator
\* x^3 + POLY[3] x^2 + POLY[2] x + POLY[1].
ASSUME FieldTables ==
  /\ \A i \in 0 .. 510 : EXP[i] \in Byte \ {{}}
  /\ \A b \in Byte \ {{}} : LOG[b] \in 0 .. 254
  /\ \A b \in Byte : \A i \in 1 .. 3 :
       LET Up(x) == gmult(x, EXP[i])
       IN  /\ Up(b) = Span(Multiples(EXP[i]), b)
           /\ Up(b) \in Byte /\ gmult(POLY[i], b) \in Byte
           /\ Up(Up(Up(b))) = SymDiff(Up(Up(gmult(POLY[3], b))),
                                     SymDiff(Up(gmult(POLY[2], b)), gmult(POLY[1], b)))

--------------------------------------------------------------------------------
(* BPTC(196,96): a 13 x 15 matrix, at positions 1 .. 195 of 0 .. 195. *)

Row(r) == [i \in 0 .. 14 |-> 15 * r + 1 + i]
Column(c) == [k \in 0 .. 12 |-> c + 1 + 15 * k]

\* DATA_POSITIONS, in order: 8 bits of row 0, 11 of each of rows 1 .. 8.
DataPositions == [i \in 0 .. 95 |-> IF i < 8 THEN 4 + i
                                    ELSE 16 + 15 * ((i - 8) \div 11) + ((i - 8) % 11)]

\* A line of the matrix, and the matrix some lines make up.
Pick(W, line) == {i \in DOMAIN line : line[i] \in W}
Rows(words) == UNION {{Row(r)[i] : i \in words[r]} : r \in DOMAIN words}
Columns(words) == UNION {{Column(c)[k] : k \in words[c]} : c \in DOMAIN words}

AirPosition == [i \in 0 .. 195 |-> (i * 181) % 196]

\* bptc_encode: data, then the row checks, then the column checks, then interleaved.
BptcEncode(D) ==
  LET data == {DataPositions[i] : i \in D}
      rows == Rows([r \in 0 .. 8 |-> HammingEncode(Hamming_15_11, Pick(data, Row(r)))])
      all == Columns([c \in 0 .. 14 |-> HammingEncode(Hamming_13_9, Pick(rows, Column(c)))])
  IN  {AirPosition[p] : p \in all}

\* bptc_decode_correct: the nine rows of data first, then every column; a column nobody
\* can correct fails the whole matrix.
Uncorrectable == {None}

Received(air) == {p \in 0 .. 195 : AirPosition[p] \in air}

CorrectRows(M) ==
  Rows([r \in 0 .. 8 |-> HammingCorrect(Hamming_15_11, Pick(M, Row(r)))]) \cup
  (M \cap 136 .. 195)

\* A wrong one: the row checks only.
RowsOnly(air) == Pick(CorrectRows(Received(air)), DataPositions)

CorrectColumns(M) ==
  LET columns == [c \in 0 .. 14 |-> HammingCorrect(Hamming_13_9, Pick(M, Column(c)))]
  IN  IF \E c \in 0 .. 14 : columns[c] = HammingError THEN Uncorrectable
      ELSE Pick(Columns(columns), DataPositions)

BptcDecode(air) == CorrectColumns(CorrectRows(Received(air)))

--------------------------------------------------------------------------------
(* The burst: 98 bits, slot type, sync, slot type, 98 bits. *)

BurstBits == 264
BS_DATA_SYNC == Field(14677373, 0, 24) \cup Field(7724893, 24, 24)

\* lc_body_bytes: FLCO 0 for a group, 3 for a private call; FID and options are zero.
LcBody(group, dst, src) ==
  (IF group THEN {} ELSE {6, 7}) \cup Field(dst, 24, 24) \cup Field(src, 48, 24)

\* build_voice_lc: the body and its masked parity.
VoiceLc(group, dst, src, terminator) ==
  LET body == LcBody(group, dst, src)
  IN  body \cup Place(Bits(RsFec(Bytes(body, 9), Mask(terminator))), 72)

DataType(terminator) == IF terminator THEN 2 ELSE 1

\* encode_slot_type: colour code and data type.
SlotType(dtype, colour) == GolayEncode(Field(colour, 0, 4) \cup Field(dtype, 4, 4))

\* build_data_burst.
DataBurst(lc, dtype, colour) ==
  LET air == BptcEncode(lc)
      slot == SlotType(dtype, colour)
  IN  UNION {air \cap 0 .. 97, Place(Slice(slot, 0, 10), 98), Place(BS_DATA_SYNC, 108),
             Place(Slice(slot, 10, 10), 156), Place(Slice(air, 98, 98), 166)}

\* extract_burst_interleaved.
InfoBits(burst) == (burst \cap 0 .. 97) \cup Place(Slice(burst, 166, 98), 98)

\* A fade of len bits from bit at of a burst, and what is left of it in the data when the
\* matrix is corrected: the code on the data repairs a fade of four bits or less, and
\* notices one of up to eight that it does not.
Left(at, len) == CorrectColumns(CorrectRows(Received(InfoBits(at .. at + len - 1))))

ASSUME FadesNoticed ==
  \A at \in 0 .. BurstBits - 1, len \in 0 .. 8 :
    LET left == Left(at, len)
        fixed == RsCorrect(Bytes(left, 12))
    IN  IF left # Uncorrectable /\ fixed.ok THEN \A i \in 4 .. 9 : fixed.word[i] = {} ELSE len > 4

SlotTypeBits(burst) == Slice(burst, 98, 10) \cup Place(Slice(burst, 156, 10), 10)

\* decode_voice_lc_burst: what on_dmrd logs of a header or terminator.
NoLc == [ok |-> FALSE, dst |-> None, src |-> None]

\* The parity of a word, unmasked; what the corrected one says.
Unmasked(lc, terminator) ==
  [i \in 1 .. 12 |-> IF i > 9 THEN SymDiff(lc[i], Mask(terminator)) ELSE lc[i]]
LcFields(ok, lc) == [ok |-> ok, dst |-> Number(lc, 24, 24), src |-> Number(lc, 48, 24)]
DecodedLc(fixed) == LcFields(fixed.ok, Bits(fixed.word))

DecodeVoiceLc(burst, terminator) ==
  LET data == BptcDecode(InfoBits(burst))
  IN  IF data = Uncorrectable THEN NoLc
      ELSE DecodedLc(RsCorrect(Unmasked(Bytes(data, 12), terminator)))

\* check_voice_lc: the warnings on_dmrd logs; the packet's own header stays the truth.
CheckVoiceLc(lc, dst, src) ==
  IF lc = NoLc THEN {"uncorrectable"}
  ELSE (IF lc.ok THEN {} ELSE {"parity"}) \cup
       (IF lc.dst # dst \/ lc.src # src THEN {"mismatch"} ELSE {})
================================================================================
