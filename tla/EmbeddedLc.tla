------------------------------- MODULE EmbeddedLc ------------------------------
(***************************************************************************)
(* What voice bursts carry in their middle 48 bits: a sync in burst A, the *)
(* EMB word and a quarter of an embedded LC in B to E, a null EMB in F     *)
(* (dmr-wire embedded_lc.rs, sync.rs, talker_alias.rs), the six cuts of    *)
(* the burst around them (frame.rs), and the rotation of the voice LC and  *)
(* the talker alias over superframes (voice/ptt.rs).                       *)
(***************************************************************************)
EXTENDS FullLc

\* crc5_embedded: the byte sum, modulo 31.
Crc5(lc) ==
  LET sum[n \in 0 .. 9] == IF n = 0 THEN 0 ELSE sum[n - 1] + Number(lc, 8 * (n - 1), 8)
  IN  sum[9] % 31

\* The 8 x 16 matrix: 11 data bits in rows 0 and 1, ten and a CRC bit in rows 2 to 6.
LcRow(lc, crc, r) ==
  IF r < 2 THEN Slice(lc, 11 * r, 11)
  ELSE Slice(lc, 22 + 10 * (r - 2), 10) \cup
       IF r - 2 \in Field(crc, 0, 5) THEN {10} ELSE {}

\* A wrong order: row by row.
RowByRow(r, c) == 16 * r + c

\* encode_raw: seven Hamming rows, a row of column parities, sent column by column.
RawPosition(r, c) == 8 * c + r

EncodeRaw(lc) ==
  LET crc == Crc5(lc)
      rows == UNION {{RawPosition(r, c) : c \in HammingEncode(Hamming_16_11, LcRow(lc, crc, r))}
                       : r \in 0 .. 6}
      Column8(c) == {RawPosition(r, c) : r \in 0 .. 6}
  IN  rows \cup {RawPosition(7, c) : c \in {i \in 0 .. 15 : Odd(rows \cap Column8(i))}}

\* build_fragments: burst B carries fragment 0, E fragment 3.
Fragments(lc) ==
  LET raw == EncodeRaw(lc) IN [n \in 0 .. 3 |-> Slice(raw, 32 * n, 32)]

\* lcss_for_fragment: first, two continuations, last.
Lcss(n) == CASE n = 0 -> 1 [] n \in {1, 2} -> 3 [] n = 3 -> 2 [] OTHER -> 0

\* decode_raw: the receiving end, which the crate keeps for its tests.  It corrects
\* each row and checks the CRC; the column parity row is not looked at.
DecodeError == {None}

DecodeRaw(raw) ==
  LET rows == [r \in 0 .. 6 |->
        HammingCorrect(Hamming_16_11, {c \in 0 .. 15 : RawPosition(r, c) \in raw})]
      lc == UNION {IF r < 2 THEN Place(rows[r] \cap 0 .. 10, 11 * r)
                   ELSE Place(rows[r] \cap 0 .. 9, 22 + 10 * (r - 2)) : r \in 0 .. 6}
      crc == {r - 2 : r \in {q \in 2 .. 6 : 10 \in rows[q]}}
  IN  IF (\E r \in 0 .. 6 : rows[r] = HammingError) \/ Number(crc, 0, 5) # Crc5(lc)
      THEN DecodeError ELSE lc

--------------------------------------------------------------------------------
(* Talker alias: 7-bit characters, 7 in the header and 8 in each block. *)

MAX_ALIAS_CHARS == 31

\* pack_chars_msb_first, left-justified from position at.
PackChars(chars, at) ==
  UNION {Field(chars[i], at + 7 * (i - 1), 7) : i \in DOMAIN chars}

AliasHeader(total, head) == Field(4, 2, 6) \cup Field(total, 18, 5) \cup PackChars(head, 23)

\* A wrong one: the block laid out like the header.
BlockLikeHeader(n, chunk) == Field(4 + n, 2, 6) \cup PackChars(chunk, 23)

AliasBlock(n, chunk) == Field(4 + n, 2, 6) \cup PackChars(chunk, 16)

\* encode_talker_alias_lcs: nothing for an alias that is empty, too long or not ASCII.
AliasLcs(text) ==
  LET n == Len(text)
      chunk(i) == SubSeq(text, 8 * i, IF 8 * i + 7 < n THEN 8 * i + 7 ELSE n)
  IN  IF n = 0 \/ n > MAX_ALIAS_CHARS \/ \E i \in 1 .. n : text[i] > 127 THEN << >>
      ELSE << AliasHeader(n, SubSeq(text, 1, IF n < 7 THEN n ELSE 7)) >> \o
           [i \in 1 .. n \div 8 |-> AliasBlock(i, chunk(i))]

--------------------------------------------------------------------------------
(* The middle of a voice burst, and the burst around it. *)

BS_VOICE_SYNC == Field(7692247, 0, 24) \cup Field(14644727, 24, 24)

\* build_emb_section: EMB byte, 32 bits of LC, EMB byte.
EmbInfo(colour, lcss) == Field(colour, 0, 4) \cup Field(lcss, 5, 2)

EmbSection(colour, lcss, fragment) ==
  LET emb == QrEncode(EmbInfo(colour, lcss))
  IN  (emb \cap 0 .. 7) \cup Place(fragment, 8) \cup Place(Slice(emb, 8, 8), 40)

EmbBits(section) == (section \cap 0 .. 7) \cup Place(Slice(section, 40, 8), 8)
EmbedBits(section) == Slice(section, 8, 32)

\* The rotation fixed at key-up: the voice LC, then the alias.
LcRotation(lc, alias) == << lc >> \o AliasLcs(alias)

RotationLc(rotation, superframe) == rotation[(superframe % Len(rotation)) + 1]

\* build_voice_burst: the middle section for this place in the superframe.
Middle(fragments, vseq, colour) ==
  CASE vseq = 0 -> BS_VOICE_SYNC
    [] vseq \in 1 .. 4 -> EmbSection(colour, Lcss(vseq - 1), fragments[vseq - 1])
    [] vseq = 5 -> EmbSection(colour, 0, {})

\* assemble_burst: three 72-bit codewords, the second cut in two by the middle.
AssembleBurst(ambe, middle) ==
  UNION {ambe[1], Place(ambe[2] \cap 0 .. 35, 72), Place(middle, 108),
         Place(Slice(ambe[2], 36, 36), 156), Place(ambe[3], 192)}

\* extract_ambe and extract_sync_section.
ExtractAmbe(burst) ==
  << burst \cap 0 .. 71, Slice(burst, 72, 36) \cup Place(Slice(burst, 156, 36), 36),
     Slice(burst, 192, 72) >>
ExtractSync(burst) == Slice(burst, 108, 48)
================================================================================
