------------------------------- MODULE HostMC -------------------------------
(***************************************************************************)
(* The bridge process on the ways to start it that its code tells apart.   *)
(* Each set of launches varies one thing over a base that runs.            *)
(***************************************************************************)
EXTENDS Host

NoNeural == [backend |-> "thumbdv", thumbdv |-> TRUE, ambeserver |-> TRUE,
             neural |-> None]

Base ==
  [text |-> "read",
   peer |-> [callsign |-> [len |-> 6, alphanumeric |-> TRUE], dmr_id |-> 1234567,
             src_id |-> 1234567, rx_freq |-> 434000000, tx_freq |-> 439000000,
             color_code |-> 1, latitude |-> 0, longitude |-> 0, height |-> 0,
             subscriber_file |-> FALSE, subscriber_refresh_interval |-> 0],
   dmr |-> [slot |-> 2, talkgroup |-> 91],
   vocoder |-> NoNeural,
   network |-> [password |-> None, password_file |-> FALSE,
                keepalive_interval |-> 1, keepalive_missed_limit |-> 3],
   brandmeister_api |-> None,
   stats |-> [heartbeat_interval |-> 1, summary_interval |-> 0]]

Start(d) ==
  [doc |-> d,
   cli |-> [password |-> None, api_key |-> None],
   env |-> [password |-> "plain", api_key |-> None],
   file |-> [password |-> "plain", api_key |-> "plain"]]

Api(key, statics1, statics2, interval) ==
  [api_key |-> key, api_key_file |-> FALSE,
   static_talkgroups |-> [s \in {1, 2} |-> IF s = 1 THEN statics1 ELSE statics2],
   reconcile_interval |-> interval]

\* The [peer] and [dmr] values at the edges of what their types take.
PeerLaunches ==
  {Start([Base EXCEPT !.peer[f] = v]) :
     f \in {"dmr_id", "src_id"}, v \in {0, 1, 2 ^ 24 - 1, 2 ^ 24}}
  \cup {Start([Base EXCEPT !.peer[f] = v]) :
     f \in {"rx_freq", "tx_freq"}, v \in {0, 1, 999999999, 1000000000}}
  \cup {Start([Base EXCEPT !.peer.color_code = v]) : v \in {0, 9, 10, 15, 16}}
  \cup {Start([Base EXCEPT !.peer.height = v]) : v \in {9, 99, 100, 999, 1000, 70000}}
  \cup {Start([Base EXCEPT !.peer.latitude = la, !.peer.longitude = lo]) :
     la \in {-900000, 100000}, lo \in {-1800000, 999999, 1000000}}
  \cup {Start([Base EXCEPT !.peer.callsign = [len |-> n, alphanumeric |-> a]]) :
     n \in {0, 8, 9}, a \in BOOLEAN}
  \cup {Start([Base EXCEPT !.dmr.slot = v]) : v \in 0 .. 3}
  \cup {Start([Base EXCEPT !.dmr.talkgroup = v]) : v \in {0, 2 ^ 24 - 1, 2 ^ 24}}

OtherLaunches ==
  {Start([Base EXCEPT !.text = t]) : t \in {"missing", "garbled"}}
  \cup {Start([Base EXCEPT !.network.keepalive_interval = i,
                           !.network.keepalive_missed_limit = n]) :
     i \in 0 .. 1, n \in 0 .. 1}
  \cup {Start([Base EXCEPT !.stats = [heartbeat_interval |-> h, summary_interval |-> i]]) :
     h \in 0 .. 1, i \in 0 .. 1}

Gru == [step |-> "native_gru", weights_dir |-> TRUE]
Neural(thumbdv, encoder, decoder, model, section) ==
  [Base EXCEPT !.vocoder =
     [backend |-> "neural", thumbdv |-> thumbdv, ambeserver |-> TRUE,
      neural |-> [encoder_backend |-> encoder, decoder_backend |-> decoder,
                  encoder_model_path |-> model, decoder |-> section]]]

\* Every backend and every pair of halves, with and without their sections.
VocoderLaunches ==
  {Start([Base EXCEPT !.vocoder.backend = b, !.vocoder.thumbdv = t,
                      !.vocoder.ambeserver = t]) : b \in Backends, t \in BOOLEAN}
  \cup UNION {{Start(Neural(FALSE, e, d, TRUE, Gru)), Start(Neural(TRUE, e, d, FALSE, Gru)),
               Start(Neural(TRUE, e, d, TRUE, None)),
               Start(Neural(TRUE, e, d, TRUE, [Gru EXCEPT !.weights_dir = FALSE])),
               Start(Neural(TRUE, e, d, TRUE, [Gru EXCEPT !.step = "onnx"]))} :
                 e \in Halves, d \in Halves}

\* The password and the key in each of their four sources.
SecretLaunches ==
  {[Start([Base EXCEPT !.network.password = p, !.network.password_file = f])
      EXCEPT !.cli.password = c, !.env.password = e] :
     p \in {None, "empty", "plain"}, f \in BOOLEAN,
     c \in {None, "blank", "plain"}, e \in {None, "plain"}}
  \cup {[Start([Base EXCEPT !.network.password_file = TRUE])
           EXCEPT !.env.password = "empty", !.file.password = x] : x \in FileContents}
  \cup {[Start(Base) EXCEPT !.cli.password = x] : x \in {"unreadable", "lines"}}
KeyLaunches ==
  {[Start([Base EXCEPT !.brandmeister_api = [Api(k, s, None, 0)
                          EXCEPT !.api_key_file = f]])
      EXCEPT !.cli.api_key = c, !.env.api_key = e] :
     k \in {None, "plain"}, s \in {None, {91}}, f \in BOOLEAN,
     c \in {None, "plain"}, e \in {None, "plain"}}
  \cup {[Start([Base EXCEPT !.brandmeister_api = [Api("empty", {91}, None, 0)
                                EXCEPT !.api_key_file = TRUE]])
           EXCEPT !.file.api_key = x] : x \in FileContents}
  \cup {[Start(Base) EXCEPT !.cli.api_key = "plain"]}

\* Provisioning, on a timer and at startup only.
ReconcileLaunches ==
  {Start([Base EXCEPT !.brandmeister_api = Api("plain", {91}, s, i)]) :
     s \in {None, {}, {91, 3100}}, i \in 0 .. 1}
  \cup {Start([Base EXCEPT !.brandmeister_api = Api(None, None, None, 1)]),
        Start([Base EXCEPT !.brandmeister_api = Api("unprintable", {91}, {}, 1)]),
        Start([Base EXCEPT !.brandmeister_api = Api("plain", {2 ^ 24}, {}, 1)])}

RefreshLaunches ==
  {Start([Base EXCEPT !.peer.subscriber_file = TRUE,
                      !.peer.subscriber_refresh_interval = i]) : i \in 0 .. 1}

AllLaunches ==
  PeerLaunches \cup OtherLaunches \cup VocoderLaunches \cup SecretLaunches
    \cup KeyLaunches \cup ReconcileLaunches \cup RefreshLaunches

\* Nothing, slots with what the other one should have, and with more.
SomeStatics ==
  {[s \in {1, 2} |-> {}],
   [s \in {1, 2} |-> IF s = 1 THEN {3100} ELSE {91}],
   [s \in {1, 2} |-> IF s = 1 THEN {91, 3100} ELSE {3100}]}

\* A file with one more ID than another, a garbled one, none at all; an ID of
\* more than 24 bits is no on-air ID.
SomeFiles ==
  {None,
   [id \in {7, 2 ^ 24} |-> "good"],
   [id \in {7, 8} |-> "good"],
   [id \in {7, 8} |-> "bad"]}
=============================================================================
