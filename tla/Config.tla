------------------------------- MODULE Config -------------------------------
(***************************************************************************)
(* The configuration (bridge/src/config.rs, cli.rs) and the RPTC packet    *)
(* made of it (bridge/src/network/brandmeister.rs): what a config file may *)
(* say, what is refused, and how a secret is found among its sources.      *)
(*                                                                         *)
(* A document has the sections and fields the program branches on; text is *)
(* left out, of a duration only whether it is zero matters.                *)
(***************************************************************************)
EXTENDS Backends, FiniteSets

PeerSections ==
  [callsign : [len : Nat, alphanumeric : BOOLEAN], dmr_id : Nat, src_id : Nat,
   rx_freq : Nat, tx_freq : Nat, color_code : Nat, latitude : Int, longitude : Int,
   height : Nat, subscriber_file : BOOLEAN, subscriber_refresh_interval : Nat]
DmrSections == [slot : Nat, talkgroup : Nat]
NetworkSections ==
  [password : {None, "empty", "plain"}, password_file : BOOLEAN,
   keepalive_interval : Nat, keepalive_missed_limit : Nat]
ApiSections ==
  [api_key : {None, "empty", "plain", "unprintable"}, api_key_file : BOOLEAN,
   static_talkgroups : [{1, 2} -> (SUBSET Nat) \cup {None}], reconcile_interval : Nat]
StatsSections == [heartbeat_interval : Nat, summary_interval : Nat]

\* What the file holds: it may be missing, or no TOML of this schema.
Documents ==
  [text : {"missing", "garbled", "read"}, peer : PeerSections, dmr : DmrSections,
   vocoder : VocoderSections, network : NetworkSections,
   brandmeister_api : ApiSections \cup {None}, stats : StatsSections]

-----------------------------------------------------------------------------
(* Config::load: every newtype checks itself, then validate(). *)

\* deny_unknown_fields refuses the section of a feature not compiled in.
Parses(doc) ==
  LET errors ==
        {TryCallsign(doc.peer.callsign).err, TryDmrId(doc.peer.dmr_id).err,
         TrySubscriberId(doc.peer.src_id).err, TryFrequency(doc.peer.rx_freq).err,
         TryFrequency(doc.peer.tx_freq).err, TryColorCode(doc.peer.color_code).err,
         TrySlot(doc.dmr.slot).err, TryTalkgroup(doc.dmr.talkgroup).err}
      statics ==
        IF doc.brandmeister_api = None THEN {}
        ELSE UNION {doc.brandmeister_api.static_talkgroups[s] :
                      s \in {t \in {1, 2} :
                               doc.brandmeister_api.static_talkgroups[t] # None}}
  IN /\ doc.text = "read"
     /\ errors = {None}
     /\ \A tg \in statics : IsOk(TryTalkgroup(tg))
     /\ doc.vocoder.thumbdv => "thumbdv" \in Features
     /\ doc.vocoder.neural # None => "neural" \in Features

NeuralBothNonNeural(section) ==
  /\ "neural" \in Features /\ section.backend = "neural" /\ section.neural # None
  /\ section.neural.encoder_backend # "neural"
  /\ section.neural.decoder_backend # "neural"

\* Mutant: the keepalive settings are taken as they come.
AcceptZeroes(doc) ==
  IF NeuralBothNonNeural(doc.vocoder) THEN Err("NeuralBothNonNeural") ELSE Ok(doc)

Validate(doc) ==
  CASE doc.network.keepalive_interval = 0 -> Err("KeepaliveIntervalZero")
    [] doc.network.keepalive_interval # 0 /\ doc.network.keepalive_missed_limit = 0 ->
         Err("KeepaliveMissedLimitZero")
    [] OTHER ->
         IF NeuralBothNonNeural(doc.vocoder) THEN Err("NeuralBothNonNeural")
         ELSE Ok(doc)

LoadConfig(doc) ==
  CASE doc.text = "missing" -> Err("Read")
    [] doc.text # "missing" /\ ~Parses(doc) -> Err("Parse")
    [] doc.text # "missing" /\ Parses(doc) -> Validate(doc)

-----------------------------------------------------------------------------
(* Secrets.  A source gives None, an empty string, or a secret; one that is  *)
(* "unprintable" holds bytes no HTTP header may.                             *)
FileContents == {"unreadable", "blank", "lines", "plain", "unprintable"}
NonEmpty(secret) == secret \notin {None, "empty"}

\* One line, trimmed; a file with nothing in it supplies nothing.
ReadSecretFile(contents) ==
  CASE contents = "unreadable" -> Err("Io")
    [] contents = "blank" -> Ok(None)
    [] contents = "lines" -> Err("Multiline")
    [] OTHER -> Ok(contents)

\* A file named on the command line or in the config, None when it is not.
ReadOptional(contents) ==
  IF contents = None THEN Ok(None) ELSE ReadSecretFile(contents)

Candidates(sources) == {s \in DOMAIN sources : NonEmpty(sources[s])}

\* sources: the command line's file, the environment and the config's own value,
\* and `file', which is read first.
ResolvePassword(sources, file) ==
  LET read == ReadOptional(file)
      all == [s \in DOMAIN sources \cup {"file"} |->
                IF s = "file" THEN read.val ELSE sources[s]]
      found == Candidates(all)
  IN CASE ~IsOk(read) -> Err("PasswordFile")
       [] IsOk(read) /\ found = {} -> Err("PasswordMissing")
       [] IsOk(read) /\ Cardinality(found) = 1 ->
            Ok(all[CHOOSE s \in found : TRUE])
       [] OTHER -> Err("PasswordAmbiguous")

ResolveApiKey(section, sources, file) ==
  LET read == ReadOptional(file)
      all == [s \in DOMAIN sources \cup {"file"} |->
                IF s = "file" THEN read.val ELSE sources[s]]
      found == Candidates(all)
      declared == {s \in {1, 2} : section.static_talkgroups[s] # None}
  IN CASE section = None -> Ok(None)
       [] section # None /\ ~IsOk(read) -> Err("BrandmeisterApiKeyFile")
       [] section # None /\ IsOk(read) ->
            CASE Cardinality(found) > 1 -> Err("BrandmeisterApiKeyAmbiguous")
              [] Cardinality(found) = 1 -> Ok(all[CHOOSE s \in found : TRUE])
              [] found = {} ->
                   IF declared = {} THEN Ok(None)
                   ELSE Err("BrandmeisterApiKeyMissingForStatics")

-----------------------------------------------------------------------------
(* The RPTC packet, by the length of its fields. *)

Digits(n) == CHOOSE d \in 1 .. 9 : n < 10 ^ d /\ (d = 1 \/ n >= 10 ^ (d - 1))
AtLeast(width, len) == IF len < width THEN width ELSE len
AtMost(limit, n) == IF n > limit THEN limit ELSE n
Zeroed(n, width) == AtLeast(width, Digits(n))

\* A text is cut at a character boundary and padded: the width, whatever it is.
FmtStr(width) == width

\* Degrees in units of the fourth decimal: a sign, the degrees, a point, four
\* digits, with zeroes up to the width.
FmtLatLon(value, width, limit) ==
  LET magnitude == AtMost(limit, IF value < 0 THEN -value ELSE value)
  IN AtLeast(width, 1 + Digits(magnitude \div 10000) + 1 + 4)

MAX_LATITUDE == 899999
MAX_LONGITUDE == 1799999
MAX_HEIGHT == 999

CONFIG_STRING_LEN == 8 + 9 + 9 + 2 + 2 + 8 + 9 + 3 + 20 + 19 + 1 + 124 + 40 + 40

\* Mutant: the height is printed as it is.
HeightUncut(height) == Zeroed(height, 3)
Height(height) == Zeroed(AtMost(MAX_HEIGHT, height), 3)

ConfigPayload(peer) ==
    FmtStr(8) + FmtStr(9) + FmtStr(9) + FmtStr(2)
  + Zeroed(peer.color_code, 2)
  + FmtLatLon(peer.latitude, 8, MAX_LATITUDE)
  + FmtLatLon(peer.longitude, 9, MAX_LONGITUDE)
  + Height(peer.height)
  + FmtStr(20) + FmtStr(19) + 1 + FmtStr(124) + FmtStr(40) + FmtStr(40)
=============================================================================
