------------------------------ MODULE VoiceChannel -----------------------------
(***************************************************************************)
(* The channel code of a 20 ms voice frame (ambe/src/voice_channel.rs): 49 *)
(* bits of the codec in 72 on the air, in four rows: Golay(24,12),         *)
(* Golay(23,12) whitened by a sequence the first row seeds, and two that   *)
(* nothing protects.  And the nine indices of the neural codec that make   *)
(* up the 49 bits (ambe/src/neural.rs).                                    *)
(*                                                                         *)
(* Source bits go by their number in mbelib's order, raw bits by their     *)
(* place in the chip's, the bits of a row by its columns.                  *)
(***************************************************************************)
EXTENDS Fec

\* MBELIB_TO_CHIP: the bits of each third of the source go to every third place, up to
\* where the third third ends.
MBELIB_TO_CHIP ==
  [i \in 0 .. 48 |-> CASE i <= 12 -> 3 * i
                       [] i \in 13 .. 17 -> 2 * i + 13
                       [] i \in 18 .. 30 -> 3 * (i - 18) + 1
                       [] i \in 31 .. 35 -> 2 * (i - 31) + 40
                       [] i >= 36 -> 3 * (i - 36) + 2]

ToChip(source) == {MBELIB_TO_CHIP[i] : i \in source}
ToMbelib(raw) == {i \in 0 .. 48 : MBELIB_TO_CHIP[i] \in raw}

--------------------------------------------------------------------------------
(* Rows 0 and 1. *)

\* The remainders of x^11, x^12, .. x^22 by GOLAY_23_12_GEN.
GolayRemainders ==
  LET first == {0, 2, 4, 5, 6, 10}
      Next(s) == LET up == {k + 1 : k \in s}
                 IN  IF 11 \in up THEN SymDiff(up \ {11}, first) ELSE up
      remainder[i \in 1 .. 12] == IF i = 1 THEN first ELSE Next(remainder[i - 1])
  IN  remainder

\* Twelve data bits, the least significant number 0.
Golay_23_12(data) == {11 + d : d \in data} \cup Span(GolayRemainders, data)
Golay_24_12(data) ==
  LET word == Golay_23_12(data)
  IN  {c + 1 : c \in word} \cup IF Odd(word) THEN {0} ELSE {}

\* Any two words of row 0 differ in eight bits, so a receiver may correct three.
ASSUME GolayDistance ==
  \A data \in SUBSET (0 .. 11) : data = {} \/ Cardinality(Golay_24_12(data)) >= 8

\* pn_sequence: the places of its ones; the seed is the data of row 0.
Pn(seed, n) ==
  LET start == 16 * Number({11 - d : d \in seed}, 0, 12)
      state[i \in 0 .. 23] ==
        IF i = 0 THEN start ELSE (173 * state[i - 1] + 13849) % 65536
  IN  {i \in 0 .. n - 1 : state[i + 1] >= 32768}

\* Wrong ones, of an encoder that whitens the data only and of one that sends in order.
WhiteningOfData(seed) == {22 - i : i \in Pn(seed, 12)}
InOrder == [p \in 0 .. 71 |-> CASE p < 24 -> << 0, 23 - p >>
                                [] p \in 24 .. 46 -> << 1, 46 - p >>
                                [] p \in 47 .. 57 -> << 2, 57 - p >>
                                [] p >= 58 -> << 3, 71 - p >>]

\* The columns of row 1 that are inverted.
Whitening(seed) == {22 - i : i \in Pn(seed, 23)}

--------------------------------------------------------------------------------
(* The rows on the air. *)

\* RW, RX, RY, RZ: the row and column that bit p goes to; a dibit is two bits, the first
\* from RW and RX.
Place72 ==
  [p \in 0 .. 71 |->
     LET i == p \div 2
         half == i \div 2
     IN  CASE p % 2 = 0 /\ i % 2 = 0 -> << 0, 23 - half >>
           [] p % 2 = 0 /\ i % 2 = 1 -> IF i < 22 THEN << 1, 10 - half >> ELSE << 2, 21 - half >>
           [] p % 2 = 1 /\ i % 2 = 0 -> IF i < 12 THEN << 0, 5 - half >> ELSE << 1, 28 - half >>
           [] p % 2 = 1 /\ i % 2 = 1 -> IF i < 8 THEN << 2, 3 - half >> ELSE << 3, 17 - half >>]

InterleaveRows(rows) == {p \in 0 .. 71 : Place72[p][2] \in rows[Place72[p][1]]}
DeinterleaveRows(coded) ==
  [r \in 0 .. 3 |-> {Place72[p][2] : p \in {q \in coded : Place72[q][1] = r}}]

\* row0_seed.
Row0Seed(rows) == {c - 12 : c \in rows[0] \cap 12 .. 23}

ChannelEncode(raw) ==
  LET source == ToMbelib(raw)
      data0 == {11 - i : i \in source \cap 0 .. 11}
      data1 == {23 - i : i \in source \cap 12 .. 23}
  IN  InterleaveRows([r \in 0 .. 3 |->
        CASE r = 0 -> Golay_24_12(data0)
          [] r = 1 -> SymDiff(Golay_23_12(data1), Whitening(data0))
          [] r = 2 -> {34 - i : i \in source \cap 24 .. 34}
          [] r = 3 -> {48 - i : i \in source \cap 35 .. 48}])

\* Nothing is corrected: the data columns are read as they come.
ChannelDecode(coded) ==
  LET rows == DeinterleaveRows(coded)
      white == {22 - i : i \in Pn(Row0Seed(rows), 12)}
  IN  ToChip(UNION {{23 - c : c \in rows[0] \cap 12 .. 23},
                    {34 - c : c \in SymDiff(rows[1], white) \cap 11 .. 22},
                    {34 - c : c \in rows[2]}, {48 - c : c \in rows[3]}})

--------------------------------------------------------------------------------
(* The indices of the neural codec. *)

\* FIELDS_DMR_3600X2450: the source bits of each index, most significant first.
Fields == << << 0, 1, 2, 3, 37, 38, 39 >>, << 4, 5, 6, 7, 35 >>, << 8, 9, 10, 11, 36 >>,
             << 12, 13, 14, 15, 16, 17, 18, 19, 40 >>, << 20, 21, 22, 23, 41, 42, 43 >>,
             << 24, 25, 26, 27, 44 >>, << 28, 29, 30, 45 >>, << 31, 32, 33, 46 >>,
             << 34, 47, 48 >> >>

Scatter(vq) ==
  UNION {{Fields[f][b + 1] : b \in Field(vq[f], 0, Len(Fields[f]))} : f \in DOMAIN Fields}

\* encode_real_frame, after the inference.
EncodeFrame(vq) == ChannelEncode(ToChip(Scatter(vq)))

\* frame_to_vq.
FrameToVq(coded) ==
  LET source == ToMbelib(ChannelDecode(coded))
  IN  [f \in DOMAIN Fields |->
         Number({b - 1 : b \in {i \in DOMAIN Fields[f] : Fields[f][i] \in source}},
                0, Len(Fields[f]))]
================================================================================
