----------------------------------- MODULE Air ---------------------------------
(***************************************************************************)
(* A transmitted call as a radio hears it: voice header, superframes,      *)
(* terminator, each built by the bridge's encoders, and a fade that        *)
(* inverts a run of adjacent bits of one burst.  The radio decodes with    *)
(* the crate's own decoders and writes the talker alias on its display.    *)
(***************************************************************************)
EXTENDS EmbeddedLc, VoiceChannel

CONSTANTS
  Calls,        \* the calls: [group, dst, src, colour, alias]
  Voice,        \* the indices of the three frames in every voice burst
  Superframes,  \* superframes in a call
  MaxFade       \* the longest fade, in bits

\* The ids are 24 bits wide, the colour code four, an index as many bits as its field has.
ASSUME AirAssumption ==
  /\ Superframes \in Nat /\ MaxFade \in Nat \ {0}
  /\ \A c \in Calls : /\ c.dst \in Nat /\ c.dst < 2 ^ 24 /\ c.src \in Nat /\ c.src < 2 ^ 24
                      /\ c.colour \in 0 .. 15 /\ c.group \in BOOLEAN /\ c.alias \in Seq(Nat)
  /\ Voice \in [1 .. 3 -> [DOMAIN Fields -> Nat]]
  /\ \A i \in 1 .. 3, f \in DOMAIN Fields : Voice[i][f] < 2 ^ Len(Fields[f])

VARIABLES
  call,     \* the call on the air
  unit,     \* 0 the header, 1 .. Superframes, Superframes + 1 the terminator
  bursts,   \* the bursts of the unit as sent
  fade,     \* the damage: bits at .. at + len - 1 of one burst
  display   \* the alias characters the radio has received so far

vars == << call, unit, bursts, fade, display >>

Terminator == Superframes + 1
IsVoice(u) == u \in 1 .. Superframes
NoFade == [burst |-> 1, at |-> 0, len |-> 0]
Blank == [i \in 1 .. MAX_ALIAS_CHARS |-> None]

\* The three codewords of a voice burst.
Ambe == [i \in 1 .. 3 |-> EncodeFrame(Voice[i])]

\* build_tx_header and build_tx_terminator.
ControlBurst(c, terminator) ==
  DataBurst(VoiceLc(c.group, c.dst, c.src, terminator), DataType(terminator), c.colour)

\* The LC that superframe n of the call carries.
SentLc(c, n) == RotationLc(LcRotation(LcBody(c.group, c.dst, c.src), c.alias), n - 1)

\* The six bursts of a superframe.
Superframe(c, n) ==
  LET fragments == Fragments(SentLc(c, n))
  IN  [b \in 1 .. 6 |-> AssembleBurst(Ambe, Middle(fragments, b - 1, c.colour))]

UnitBursts(c, u) ==
  IF IsVoice(u) THEN Superframe(c, u) ELSE << ControlBurst(c, u = Terminator) >>

\* What the radio hears of burst b.
Heard(b) ==
  IF b = fade.burst THEN SymDiff(bursts[b], fade.at .. fade.at + fade.len - 1) ELSE bursts[b]

\* The embedded LC of a superframe, from its bursts B to E.
HeardLc ==
  DecodeRaw(UNION {Place(EmbedBits(ExtractSync(Heard(b))), 32 * (b - 2)) : b \in 2 .. 5})

\* The display after the alias header or block in lc, if it is one.
Written(lc) ==
  LET flco == Number(lc, 2, 6)
      first == IF flco = 4 THEN 1 ELSE 8 * (flco - 4)
      width == IF flco = 4 THEN 7 ELSE 8
      base == IF flco = 4 THEN 23 ELSE 16
  IN  IF lc = DecodeError \/ flco \notin 4 .. 7 THEN display
      ELSE [i \in DOMAIN display |->
              IF i \in first .. first + width - 1
              THEN Number(lc, base + 7 * (i - first), 7) ELSE display[i]]

Init == /\ call \in Calls
        /\ unit = 0
        /\ bursts = UnitBursts(call, 0)
        /\ fade = NoFade
        /\ display = Blank

\* The unit ends and the next one is sent.
Send == /\ unit < Terminator
        /\ unit' = unit + 1
        /\ bursts' = UnitBursts(call, unit + 1)
        /\ display' = IF IsVoice(unit) THEN Written(HeardLc) ELSE display
        /\ fade' = NoFade
        /\ UNCHANGED call

\* Where a fade may be: anywhere in a header, terminator or burst A, in the middle of
\* the bursts B to F, whose voice is A's.
Reach(b) == IF b = 1 THEN 0 .. BurstBits - 1 ELSE 108 .. 155

\* A fade sets in.
Strike == /\ fade.len = 0
          /\ \E b \in DOMAIN bursts : \E p \in Reach(b) :
               fade' = [burst |-> b, at |-> p, len |-> 1]
          /\ UNCHANGED << call, unit, bursts, display >>

\* It lasts one bit longer.
Spread == /\ fade.len \in 1 .. MaxFade - 1
          /\ fade.at + fade.len \in Reach(fade.burst)
          /\ fade' = [fade EXCEPT !.len = @ + 1]
          /\ UNCHANGED << call, unit, bursts, display >>

Next == Send \/ Strike \/ Spread

Spec == Init /\ [][Next]_vars

--------------------------------------------------------------------------------
\* Interleaving spreads a fade over the product code: one of up to four bits costs nothing
\* and warns of nothing, and a mismatch with the packet's header is never reported alone,
\* as if the header were wrong, when the air was: the parity check has failed too
\* (bptc_decode_correct, rs_12_9_correct, decode_voice_lc_burst, check_voice_lc).
FullLcSurvives ==
  ~IsVoice(unit) =>
    LET warnings == CheckVoiceLc(DecodeVoiceLc(Heard(1), unit = Terminator), call.dst, call.src)
    IN  /\ fade.len <= 4 => warnings = {}
        /\ "mismatch" \in warnings => "parity" \in warnings

\* The column order of the embedded LC does the same: up to eight bits are corrected, and
\* up to MaxFade are corrected or noticed (encode_raw, build_fragments, decode_raw).
EmbeddedSurvives ==
  IsVoice(unit) /\ (fade = NoFade \/ fade.burst \in 2 .. 5) =>
    LET sent == SentLc(call, unit)
        lc == HeardLc
    IN  /\ fade.len <= 8 => lc = sent
        /\ lc \in {sent, DecodeError}

\* What a radio knows of the frames when it hears them right.
Said ==
  [i \in 1 .. 3 |->
     LET source == Scatter(Voice[i])
         seed == {11 - j : j \in source \cap 0 .. 11}
     IN  [source |-> source, seed |-> seed, first |-> Golay_24_12(seed),
          second |-> Golay_23_12({23 - j : j \in source \cap 12 .. 23}),
          inverted |-> {22 - j : j \in Pn(seed, 23)}]]

\* Of the voice, a fade of up to five bits leaves at most three errors in either Golay
\* word, once a radio has taken the whitening off the second with the first, corrected:
\* it hears them right.  The bridge's own decoder corrects nothing: it gets back what was
\* encoded from a frame the fade missed, and from any other wrong bits where the frame
\* has them, and wherever a wrong seed inverts some (channel_encode, channel_decode,
\* encode_real_frame, frame_to_vq, assemble_burst, extract_ambe).
VoiceSurvives ==
  IsVoice(unit) =>
    \A i \in 1 .. 3 :
      LET frame == ExtractAmbe(Heard(fade.burst))[i]
          hit == SymDiff(frame, Ambe[i])
          rows == DeinterleaveRows(frame)
          clear == SymDiff(rows[1], Said[i].inverted)
          wrong == SymDiff(Said[i].source, ToMbelib(ChannelDecode(frame)))
      IN  /\ fade = NoFade => FrameToVq(frame) = Voice[i]
          /\ hit # {} /\ fade.len <= 5 =>
               /\ Cardinality(SymDiff(rows[0], Said[i].first)) <= 3
               /\ Cardinality(SymDiff(clear, Said[i].second)) <= 3
          /\ hit # {} =>
               Cardinality(wrong) <=
                 Cardinality(hit) + IF Row0Seed(rows) = Said[i].seed THEN 0 ELSE 12

\* The three together: what a fade does to a call.
CallSurvives == FullLcSurvives /\ EmbeddedSurvives /\ VoiceSurvives

\* Whatever the radio shows at a place is the alias's character there, or the padding
\* behind its end; with fades of up to eight bits it has the whole alias once the rotation
\* has gone round (encode_talker_alias_lcs, the rotation of build_voice_burst).
AliasNeverGarbled ==
  LET Right(i) == IF i <= Len(call.alias) THEN call.alias[i] ELSE 0
  IN  /\ \A i \in DOMAIN display : display[i] \in {None, Right(i)}
      /\ MaxFade <= 8 /\ unit = Terminator => \A i \in DOMAIN call.alias : display[i] = Right(i)

\* A slot type or EMB the lookups accept is the one that was sent: the colour code, the
\* data type and the LC start and stop marks are never misread (golay_20_8_decode,
\* qr_16_7_decode).
LabelsNeverMisread ==
  IF IsVoice(unit)
  THEN \A b \in 2 .. 6 :
         QrDecode(EmbBits(ExtractSync(Heard(b)))) \in
           {EmbInfo(call.colour, IF b = 6 THEN 0 ELSE Lcss(b - 2)), LookupDecodeError}
  ELSE GolayDecode(SlotTypeBits(Heard(1))) \in
         {Field(call.colour, 0, 4) \cup Field(DataType(unit = Terminator), 4, 4),
          LookupDecodeError}

\* The code's distance is 6, "a syndrome decoder could correct up to 2 errors": with one
\* or two bits of the EMB wrong, the word sent is the nearest one (QR_1676_TABLE).
EmbCorrectable ==
  IsVoice(unit) =>
    \A b \in 2 .. 6 :
      LET heard == EmbBits(ExtractSync(Heard(b)))
          sent == EmbBits(ExtractSync(bursts[b]))
          wrong(w) == Cardinality(SymDiff(heard, w))
      IN  wrong(sent) <= 2 =>
            \A D \in DOMAIN QrWords : QrWords[D] # sent => wrong(QrWords[D]) > wrong(sent)
================================================================================
