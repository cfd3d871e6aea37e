---------------------------------- MODULE Fec ----------------------------------
(***************************************************************************)
(* The block codes of dmr-wire/src/fec.rs.  A word is the SET of positions *)
(* that hold a 1, counted from the bit sent first; adding two words is     *)
(* their symmetric difference, a check is the parity of an intersection.   *)
(***************************************************************************)
EXTENDS Integers, Sequences, FiniteSets, FiniteSetsExt

Odd(W) == Cardinality(W) % 2 = 1

\* The bits of the number n, most significant first, at positions at .. at + width - 1.
Field(n, at, width) ==
  {at + j : j \in {i \in 0 .. width - 1 : (n \div 2 ^ (width - 1 - i)) % 2 = 1}}

\* The number in that field of the word W.
Number(W, at, width) ==
  LET value[n \in 0 .. width] ==
        IF n = 0 THEN 0 ELSE 2 * value[n - 1] + (IF at + n - 1 \in W THEN 1 ELSE 0)
  IN  value[width]

\* The n positions from at, counted from 0; and the reverse.
Slice(W, at, n) == {p - at : p \in W \cap (at .. at + n - 1)}
Place(W, at) == {at + p : p \in W}

\* The word of a linear code: the sum of the rows its data bits select.
Span(rows, D) ==
  {p \in UNION {rows[d + 1] : d \in D} : Odd({d \in D : p \in rows[d + 1]})}

--------------------------------------------------------------------------------
\* The three Hamming variants: k data bits, the data bits of each check, and the
\* position each syndrome points at (the syndrome's bit i - 1 is check i).
None == -1

Hamming_15_11 ==
  [k |-> 11,
   checks |-> << {0, 1, 2, 3, 5, 7, 8}, {1, 2, 3, 4, 6, 8, 9},
                 {2, 3, 4, 5, 7, 9, 10}, {0, 1, 2, 4, 6, 7, 10} >>,
   pos |-> << 11, 12, 8, 13, 5, 9, 3, 14, 0, 6, 1, 10, 7, 4, 2 >>]

Hamming_13_9 ==
  [k |-> 9,
   checks |-> << {0, 1, 3, 5, 6}, {0, 1, 2, 4, 6, 7},
                 {0, 1, 2, 3, 5, 7, 8}, {0, 2, 4, 5, 8} >>,
   pos |-> << 9, 10, 6, 11, 3, 7, 1, 12, None, 4, None, 8, 5, 2, 0 >>]

Hamming_16_11 ==
  [k |-> 11,
   checks |-> Hamming_15_11.checks \o << {0, 2, 5, 6, 8, 9, 10} >>,
   pos |-> << 11, 12, None, 13, None, None, 3, 14, None, None, 1, None, 7, 4, None, 15,
              None, None, 8, None, 5, 9, None, None, 0, 6, None, 10, None, None, 2 >>]

\* hamming_*_parity: the data with its check bits behind it.
HammingEncode(code, D) ==
  D \cup {code.k + i - 1 : i \in {c \in DOMAIN code.checks : Odd(D \cap code.checks[c])}}

\* The checks a word fails, and the number they make: check c is bit c - 1.
Failing(code, W) ==
  {c \in DOMAIN code.checks : (code.k + c - 1 \in W) # Odd(W \cap code.checks[c])}

Syndrome(code, W) ==
  LET n == Len(code.checks) IN Number({n - c : c \in Failing(code, W)}, 0, n)

\* hamming_*_correct: the word with the bit the syndrome names flipped.  A syndrome
\* that names none is an error; Hamming(15,11) has no such syndrome.
HammingError == {None}

HammingCorrect(code, W) ==
  LET s == Syndrome(code, W)
  IN  IF s = 0 THEN W
      ELSE IF code.pos[s] = None THEN HammingError
      ELSE SymDiff(W, {code.pos[s]})

--------------------------------------------------------------------------------
\* GOLAY_2087_TABLE is linear: the eight words of one data bit each (most significant
\* first), as the 20 bits go on the air: info, low parity byte, high nibble.
GolayRows ==
  << {0, 10, 11, 12, 13, 15, 16, 18}, {1, 8, 9, 11, 12, 15, 16, 19},
     {2, 9, 10, 12, 13, 16, 17, 19}, {3, 10, 11, 13, 14, 17, 18, 19},
     {4, 8, 9, 11, 12, 13, 17, 18}, {5, 8, 10, 12, 15, 17, 18, 19},
     {6, 8, 11, 14, 15, 16, 17, 18}, {7, 8, 12, 13, 14, 16, 18, 19} >>

GolayEncode(D) == Span(GolayRows, D)

\* golay_20_8_decode: the info bits of an exact codeword, else an error.
LookupDecodeError == {None}

GolayDecode(W) ==
  LET info == W \cap 0 .. 7 IN IF GolayEncode(info) = W THEN info ELSE LookupDecodeError

\* QR_1676_TABLE is linear too: its words for 64, 32, 16, 8, 4, 2 and 1.
QrRows ==
  << {0, 6, 8, 9, 10, 11, 13, 14}, {1, 7, 9, 10, 11, 12, 14, 15},
     {2, 7, 8, 10, 11, 13, 14, 15}, {3, 7, 8, 9, 10, 14}, {4, 7, 8, 9, 12, 15},
     {5, 8, 9, 10, 13, 15}, {6, 9, 10, 11, 14, 15} >>

QrEncode(D) == Span(QrRows, D)

\* QrWords[D] is the table entry of the info bits D.
QrWords == [D \in SUBSET (0 .. 6) |-> QrEncode(D)]

\* A wrong one: the info bits, whatever the parity.
QrInfoOnly(W) == W \cap 0 .. 6

\* qr_16_7_decode: the scan of the table for an exact match.
QrDecode(W) ==
  IF \E D \in DOMAIN QrWords : QrWords[D] = W
  THEN CHOOSE D \in DOMAIN QrWords : QrWords[D] = W
  ELSE LookupDecodeError
================================================================================
