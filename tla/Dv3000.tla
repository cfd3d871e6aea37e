------------------------------- MODULE Dv3000 -------------------------------
(***************************************************************************)
(* The DV3000 wire (dv3000-wire/src): the packets a client builds, the     *)
(* ones a chip answers with, and what parse() makes of either.             *)
(*                                                                         *)
(* A packet is its start byte, its length field and the fields of its      *)
(* payload; the bits of a frame, or the samples, are one value.  A gain,   *)
(* a rate and a result are the values their bytes stand for.               *)
(***************************************************************************)
EXTENDS Integers, Sequences

HEADER_SIZE == 4
MAX_PACKET == 512
AMBE_BITS == 72
PCM_SAMPLES == 160

Bytes(bits) == (bits + 7) \div 8

\* The bit count of a frame, by rate: the last byte of the control words.
RATEP == [DMR |-> 72, RAW |-> 49, DSTAR |-> 72, IDX35 |-> 68]

Payload(type, field, count, data, len) ==
  [type |-> type, field |-> field, count |-> count, data |-> data, len |-> len]
Size(packet) == HEADER_SIZE + packet.len

-----------------------------------------------------------------------------
BuildAudio(pcm) ==
  Payload("audio", "speech", PCM_SAMPLES, pcm, 1 + 1 + PCM_SAMPLES * 2 + 1 + 2)

BuildAmbeForBits(bits, data) ==
  Payload("ambe", "channel", bits, data, 1 + 1 + Bytes(bits))

BuildAmbe(frame) == BuildAmbeForBits(AMBE_BITS, frame)

\* The lost-frame override follows frame data the chip is to ignore.
BuildAmbeLostFrame ==
  [BuildAmbe("lost") EXCEPT !.len = @ + 1 + 2]

Control(field, data, len) == Payload("control", field, 0, data, 1 + len)

BuildReset == Control("reset", "nothing", 0)
BuildProdid == Control("prodid", "nothing", 0)
BuildRatep(rate) == Control("ratep", rate, 12)

GAIN_MIN_DB == -90
GAIN_MAX_DB == 90
Clamp(db) ==
  CASE db < GAIN_MIN_DB -> GAIN_MIN_DB
    [] db > GAIN_MAX_DB -> GAIN_MAX_DB
    [] OTHER -> db
BuildGain(inDb, outDb) == Control("gain", <<Clamp(inDb), Clamp(outDb)>>, 2)

BuildProdidResponse == Control("prodid", "product", 12)
BuildReady == Control("ready", "nothing", 0)
BuildControlAck(field, result) == Control(field, result, 1)

-----------------------------------------------------------------------------
(* parse(), of all the bytes of a packet. *)

ParseError(error) == [kind |-> "error", error |-> error]

ParseAmbe(p) ==
  CASE p.len < 2 -> ParseError("TooShort")
    [] p.len >= 2 /\ p.field # "channel" -> ParseError("BadFieldId")
    [] p.len >= 2 /\ p.field = "channel" ->
         IF p.len < 2 + Bytes(p.count) THEN ParseError("TooShort")
         ELSE [kind |-> IF p.count = AMBE_BITS THEN "Ambe" ELSE "AmbeBits",
               bits |-> p.count, data |-> p.data]

ParseAudio(p) ==
  CASE p.len < 2 + PCM_SAMPLES * 2 -> ParseError("TooShort")
    [] p.len >= 2 + PCM_SAMPLES * 2 /\ p.field # "speech" -> ParseError("BadFieldId")
    [] p.len >= 2 + PCM_SAMPLES * 2 /\ p.field = "speech" ->
         IF p.count # PCM_SAMPLES THEN ParseError("BadSampleCount")
         ELSE [kind |-> "Audio", data |-> p.data]

ParseControl(p) ==
  IF p.len = 0 THEN ParseError("EmptyControl")
  ELSE [kind |-> "Control", field |-> p.field, data |-> p.data]

Parse(p) ==
  CASE p.type = "ambe" -> ParseAmbe(p)
    [] p.type = "audio" -> ParseAudio(p)
    [] p.type = "control" -> ParseControl(p)
    [] OTHER -> ParseError("UnknownType")

IsReady(r) == r.kind = "Control" /\ r.field = "ready"
IsAck(r, field) == r.kind = "Control" /\ r.field = field /\ r.data = 0
\* Mutant: any answer to RATEP is a success.
RatepAnswered(r) == r.kind = "Control" /\ r.field = "ratep"
IsRatepAck(r) == IsAck(r, "ratep")
IsGainAck(r) == IsAck(r, "gain")
=============================================================================
