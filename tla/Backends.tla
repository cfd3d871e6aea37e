------------------------------ MODULE Backends ------------------------------
(***************************************************************************)
(* The choice of a vocoder (bridge/src/main.rs make_vocoder, the factories *)
(* of ambe/src/lib.rs): which backend encodes and which decodes, what each *)
(* of the [vocoder] sections must say for it, and where the gains go.      *)
(*                                                                         *)
(* A vocoder is the backend of each direction and the gain it applies to   *)
(* it: "in" and "out" are the [gain] settings, "unity" 0 dB.  A backend    *)
(* that answers a direction with Unsupported has None there.               *)
(***************************************************************************)
EXTENDS Identifiers

CONSTANT Features   \* cargo features of the build: thumbdv, neural, dynarmic

ASSUME FeaturesAssumption == Features \subseteq {"thumbdv", "neural", "dynarmic"}

Opened(encode, decode) ==
  [encode |-> encode, decode |-> decode, inGain |-> "unity", outGain |-> "unity"]

\* Backends: [vocoder] backend; Halves: those of a direction of "neural".
Backends == {"thumbdv", "ambeserver", "neural", "dynarmic"}
Halves == {"neural", "dynarmic", "thumbdv", "ambeserver"}

DecoderSections == [step : {"native_gru", "onnx"}, weights_dir : BOOLEAN]
NeuralSections ==
  [encoder_backend : Halves, decoder_backend : Halves,
   encoder_model_path : BOOLEAN, decoder : DecoderSections \cup {None}]
VocoderSections ==
  [backend : Backends, thumbdv : BOOLEAN, ambeserver : BOOLEAN,
   neural : NeuralSections \cup {None}]

\* ambe::open_thumbdv, ambe::open_ambeserver: both ways.  `up' is the devices,
\* proxies and models that open; the firmware is only started when first used.
Open(backend, up) ==
  IF backend \in up THEN Ok(Opened(backend, backend)) ELSE Err("Vocoder")

\* A chip, a proxy or the firmware, as a backend or as a half of "neural".
\* A half is never asked for "neural": that would be unreachable!().
OpenPlain(half, section, up) ==
  CASE half = "dynarmic" ->
         IF "dynarmic" \in Features THEN Ok(Opened(half, half))
         ELSE Err("NotCompiled")
    [] half = "thumbdv" ->
         IF "thumbdv" \notin Features THEN Err("NotCompiled")
         ELSE IF ~section.thumbdv THEN Err("SectionMissing") ELSE Open(half, up)
    [] half = "ambeserver" ->
         IF ~section.ambeserver THEN Err("SectionMissing") ELSE Open(half, up)
    [] half = "neural" -> Err("unreachable")

\* The neural decoders do not encode.
OpenNeuralDecoder(decoder, up) ==
  CASE decoder = None -> Err("SectionMissing")
    [] decoder # None ->
         IF decoder.step = "native_gru" /\ ~decoder.weights_dir
         THEN Err("SectionMissing")
         ELSE IF decoder.step \in up
              THEN Ok(Opened(None, decoder.step)) ELSE Err("Vocoder")

\* Mutant: both directions of a split go to the half that decodes.
SplitToDecoder(encoder, decoder) == decoder

\* open_split_vocoder; also open_neural_with_decoder, whose encoder is itself.
Split(encoder, decoder) == Opened(encoder.encode, decoder.decode)

OpenNeural(section, up) ==
  LET nc == section.neural
      decoder ==
        IF nc.decoder_backend = "neural"
        THEN OpenNeuralDecoder(nc.decoder, up)
        ELSE OpenPlain(nc.decoder_backend, section, up)
  IN CASE ~IsOk(decoder) -> decoder
       [] IsOk(decoder) /\ nc.encoder_backend = "neural" ->
            IF ~nc.encoder_model_path THEN Err("SectionMissing")
            ELSE IF "model" \notin up THEN Err("Vocoder")
            ELSE Ok(Split(Opened("model", None), decoder.val))
       [] IsOk(decoder) /\ nc.encoder_backend # "neural" ->
            LET encoder == OpenPlain(nc.encoder_backend, section, up)
            IN IF IsOk(encoder) THEN Ok(Split(encoder.val, decoder.val))
               ELSE encoder

MakeVocoder(section, up) ==
  CASE section.backend # "neural" -> OpenPlain(section.backend, section, up)
    [] section.backend = "neural" /\ "neural" \notin Features -> Err("NotCompiled")
    [] section.backend = "neural" /\ "neural" \in Features ->
         IF section.neural = None THEN Err("SectionMissing")
         ELSE OpenNeural(section, up)

\* set_gain: each half of a split has the gain of its own direction.  A chip,
\* or the proxy before one, may refuse it.
SetGain(vocoder, refused) ==
  IF refused /\ {vocoder.encode, vocoder.decode} \cap {"thumbdv", "ambeserver"} # {}
  THEN Err("Vocoder")
  ELSE Ok([vocoder EXCEPT !.inGain = "in", !.outGain = "out"])
=============================================================================
