# A verification model of asl-dmr-bridge

asl-dmr-bridge connects an AllStarLink (Asterisk) FM node, which speaks USRP
over UDP, to a DMR master (BrandMeister), which speaks the Homebrew protocol
over UDP, through an AMBE+2 vocoder.  This directory holds TLA+ modules for the
parts of it that are hard to test, the TLC configurations that check them on
small instances, and proofs, checked by TLAPS, that the most important
properties hold for every value of the constants.

Run `tlc -config X.cfg M` for the rows of the table under *What is checked*, and
`tlapm M.tla` on the `*Proofs` modules.

## 1. The system

### Parts, their state, and how they interact

`bridge` is one process.  `main.rs` builds the channels and awaits nine
branches in one `tokio::join!` (main.rs:662-682), hence in one task: the USRP
receiver and sender, the Homebrew client, the voice task, the subscriber refresh,
the BrandMeister reconciliation, and the statistics consumer with its two logs.
The voice path shares no memory but the `CancellationToken` and the subscriber
table; everything else goes through bounded channels.  Whichever branch ends
first trips the token, and the process exits when all have returned.

```
 Asterisk --USRP/UDP--> rx_task --audio_rx(64, try_send)--> |            |
 Asterisk <--USRP/UDP-- tx_task <--audio_tx(64)------------ | voice_task |
                        tx_task <--metadata(8, try_send)--- | PttMachine | --> vocoder
 DMR <--UDP-- client <--dmrd_control_out (unbounded)------- |            |     (direct, or over
 DMR <--UDP-- client <--dmrd_voice_out(64, try_send)------- |            |      UDP to ambeserver)
 DMR --UDP--> client  --dmrd_in(8, send.await)------------> |            |
              client  --control(4, send.await)------------> |            | --stats(256, try_send)--> stats
```

| part | source | state it keeps | operations | model |
|---|---|---|---|---|
| Bridge wiring and shutdown | `bridge/src/main.rs` | secrets, token, the branches still alive | arguments, configuration, provisioning, sockets, vocoder, join, signal, exit | `Host` |
| PTT machine and voice task | `dmr-wire/src/voice/ptt.rs`, `voice.rs` | `PttState` (Idle, Rx, RxHang, Tx) with the call of each; the deadline; the vocoder | select over token, control events, deadline, inbound DMRD, inbound audio | `Ptt` |
| USRP transport tasks | `bridge/src/usrp.rs` | receive socket; in `tx_task` the pacing clock, gain control, the call recorder | `rx_task`: parse and `try_send`; `tx_task`: pace frames at 20 ms, key and unkey the repeater | `UsrpTx`; in `Ptt` as the consumer (`FmSend`) |
| Homebrew session client | `bridge/src/homebrew_client.rs` | reconnect backoff; the socket; handshake step; keepalive ticker and missed-pong tracker | `run`, `connect_once`, `keepalive_loop` | `Homebrew`, `Link`; queue draining in `Ptt` |
| Statistics | `bridge/src/stats.rs`, `dmr-events` | an accumulator per direction, cumulative counters, what each log said last | fold events, heartbeat, periodic summary | `Stats`; producers' side in `Ptt` (`openCall`) |
| DMR wire codecs | `dmr-wire/src/{fec,rs,bptc,embedded_lc,talker_alias,frame,sync}.rs` | none | encode, decode, correct | `Fec`, `FullLc`, `EmbeddedLc`, composed in `Air` |
| Voice channel code | `ambe/src/voice_channel.rs`, parts of `neural.rs` | none | encode, decode, indices to bits and back | `VoiceChannel`, composed in `Air` |
| Vocoder clients | `ambe/src/{ambeserver,udp_dv,thumbdv}.rs` | a socket or a serial port with a timeout | send one request, take the next packet for the answer | serial: `ThumbDv`; UDP: `AmbeProxy` |
| DV3000 wire format | `dv3000-wire/src` | none | build, parse | `Dv3000` |
| AMBE server proxy | `ambeserver/src` | the holder and its last packet; per backend: rate acknowledged, poisoned; the serial port | one loop: receive, refuse or take over, handle, answer | `AmbeProxy` |
| Choice of the vocoder | `main.rs`, `ambe/src/lib.rs` | none | open the backend, or the two halves, of a configuration | `Backends` |
| Configuration and identifiers | `bridge/src/{config,cli,types}.rs`, `dmr-types`, `network/brandmeister.rs` | none at run time | parse, validate, find the secrets, lay out the RPTC packet | `Identifiers`, `Config` |
| BrandMeister provisioning | `brandmeister-api`, `bridge/src/brandmeister_provision.rs` | the master's set of static talkgroups; the work left of a run | reconcile towards the configured set | `Provision` |
| Subscriber registry | `dmr-subscriber` | a table swapped by a refresh task | load, reload, lookup | `Subscribers` |
| AGC, limiter, filters | `dsp` | gains, filter memories | floating-point signal processing | not modelled |
| Software vocoders | `ambe/src/{neural,gru,dynarmic}.rs` | network or emulator state | floating-point inference, emulation | not modelled |
| CLIs, diagnostics | `*-tool`, `bmcli`, `pcm-utils` | none | one-shot requests, WAV files | not modelled |

### What is hard about it

* The bridge is half duplex between two sides that do not know of each other:
  either may start, stop, or fall silent without a word at any moment, and the
  two must not hold the channel at once.
* The voice task suspends in the middle of a handler (`audio_tx.send(unkey)`)
  while the other tasks, time and the token go on.
* One call to the master travels over two queues of different priority.
* The session with the master is lost and re-established under calls in
  progress; packets queued for the old one must not reach the new one.
* Every lossy `try_send` loses one thing (voice, metadata, a statistics event)
  and must not lose another (an unkey, a terminator) with it.
* The keepalive, the handshake deadline, the backoff and four PTT timers race
  the packets they wait for, over a path that loses and repeats them.
* Requests to the vocoder proxy carry no number, and the proxy serves several
  clients that do not know of each other.
* A serial port outlives the process that used it: answers that came late, or in
  part, are what the next one reads first.
* What goes over the air is damaged in runs of bits, and an alias arrives in
  pieces some of which are lost; what is shown must be right or absent.
* The statics are reconciled from a list while the operator edits them and
  requests fail, with their effect or without.
* A configuration is refused in three different places; what none of them
  refuses must run.
* Shutdown must come to an end whatever each task is waiting for.

What makes each part correct is listed with its checks below; `PROJECT.json`
lists each hazard at the line where it bites, with the properties that cover it
or the reason why none does.

## 2. The modules

### `Ptt`: the voice task and the ends of its channels

State and code correspond as follows: `state`, `rx`, `tx` are the tag and the two
payloads of `PttState`; `pc` is where `voice_task` is: at its select (`loop`),
in the await of an unkey (`hang`: after a terminator or stream timeout; `burst`: in a
stream change; `exit`: in `on_shutdown`), or returned (`done`); `timer` is
what is left until `deadline()`; the queues carry their names in the code.
Every arm of the select and every branch of the handlers under it is an action:
`KeyUp`, `BufferAudio`, `SendBurst`, `KeyDown` (`on_audio`), `RxHeader`,
`RxTerminator`, `RxVoice`, `RxImplicitStart`, `RxStreamChange` (`on_dmrd`),
`OnNetworkReset`, the three `OnTimeout`s and the three `OnShutdown`s.  A handler
that awaits is split at the await and nowhere else: `FinishCall`,
`FinishStreamChange` and `FinishShutdown` are the second halves.  The select is biased, so
`AtSelect` and `AtInput` give the token, the control channel and the deadline
precedence.  `FmSend` is `usrp::tx_task` taking one frame; `NetSendControl`,
`NetSendVoice`, `Connect` and `Disconnect` are the Homebrew client as the voice
task sees it.

Abstracted: audio, link-control and talker data; the vocoder is its outcome (a
burst encodes, fails, or panics, which trips the token).  `laps` is history: how
often a call's sequence number has wrapped, modulo 3, which is enough to tell
its place in a superframe of six for any even modulus.  `new_stream_id` is
random; the model takes an id not in flight.  `CtlBound` bounds the control
queue, which is unbounded in the code.  A session's `Connect` drains both queues
and queues the reset in one step; `Homebrew` has the wait in between.

### `HalfDuplex`: what the bridge promises

The floor (`free`, `dmr`, `hang`, `fm`, `over`) and what each line carries.
`Ptt` implements it under the mapping of `Floor`, `FmTail` and `PeerTail`: a
handler suspended on its unkey still has the floor, and a line is judged by
what it will carry once its queue is played out.

### `Homebrew`: the session client

`pc` is the await the client is at: `setup` (resolve, bind, RPTL), `login`,
`key`, `config` (waiting for the three replies), `notify` (in
`control_tx.send`), `alive` (`keepalive_loop`), `forward` (in
`dmrd_tx.send`), `backoff`, `done`.  `waiting` and `missed` are the
`KeepaliveTracker`.  The master keeps a state per client; packets are lost,
doubled, refused, or strays, the master closes or forgets a session, the path
goes down and up: each is a `Fault`, at most `MaxFaults` in a behaviour.  With
`Stalls = FALSE` no time passes while the client has something to do.

### `Link`: what the client promises the voice task

A link that comes up and goes down, each coming up announced by exactly one
`NetworkReset` within the channel's capacity: the steps `Connect`, `Disconnect`
and `OnNetworkReset` that `Ptt` assumes.  `Homebrew` implements it, which is
what lets the two be checked apart.

### `AmbeProxy`: the shared vocoder

The proxy (`Refuse`, `HandleSoft`, `Relay`, `RelayAnswer`, `SerialTimeout`), its
two backends and any number of clients, over sockets that may lose a packet.
`Tools` are peers that make any request (`AmbeServerClient`), the others are
the bridge's `AmbeServer`, which tunes the vocoder once, in `connect`.  `tuner`
and `heard` are history variables: who set the rate voice is coded at, and
whose voice is in the software vocoder's state.  `voice` stands for a frame to
encode or to decode.  Left out: packets that do not parse and PRODID, which
change nothing but the holder; answers a chip gives late.

### `UsrpTx`: the voice on its way to the repeater

`tx_task` with its clock: `due` is `next_voice_send` minus now in ticks of 20 ms,
`anchored` whether it is `Some`; `pc` is at the select, asleep on a frame taken
from the queue (`held`), or returned; `current` and `hadVoice` are its locals.
`TakeVoice` sends or goes to sleep, `WakeUp` sends after the sleep, `TakeUnkey`
ends the call, `Stop` is the token's arm of either select.  In front of the
queue is what decides when frames enter it: a talker; a network that holds back,
bunches and loses headers, bursts and terminators; and of PttMachine the concealment of
short gaps, the stream change by voice (with an unkey) and by header (without,
`DeliverHeader`), the stream timeout, and the session reset that drops a call
(`Reset`, without an unkey).

A *keying* is the voice between two unkeys.  Four variables are history: `keyed`
and `joined` say whether a call began in a keying that another had been left in;
`play` is what the repeater still has to play of this keying, `starved` the
ticks of it in which it had nothing.  Time starts with a keying's first voice and
an unkey ends it.  Metadata packets do not touch this state.

### `Stats`: what is counted

`StatsEmitter`'s sends over a channel that loses events when it is full,
`consume_events` with its `Option<CallAccumulator>` per direction (`acc`; None
counts nothing), the counters (`total`), and the two logs with what they
remember of their last line (`lastBeat`, `prev`).  All of it runs in the one task
of `join!`, so what happens between two awaits is one step, the loads of a log
line included.  Left out: the line logged per call, which changes nothing.

### `Fec`, `FullLc`, `EmbeddedLc`, `VoiceChannel`: the codecs

A word is the set of the positions that hold a 1, in the order of sending;
adding is the symmetric difference, a check the parity of an intersection.  So
the tables of the code shrink to what they are: a Hamming code is its checks and
the place each syndrome points at, the two lookup tables are linear and are the
sums of their rows for one data bit each, GF(256) is the powers of its generator.
`Fec` has the block codes, `FullLc` Reed-Solomon and BPTC with the header and terminator
bursts and `check_voice_lc`, `EmbeddedLc` the LC in the voice bursts, the EMB words, the talker
alias, its rotation and the six cuts of a burst, `VoiceChannel` the two Golay words of a
voice frame, the whitening of the second by the first and the order on the air.
The tables and encoders were compared, entry by entry or on examples, with the
source's, and `VoiceChannel` with frames of the chip's captured under
`ambe/tests/fixtures`.

### `Air`, `AirMC`: a call as a radio hears it

The codecs composed.  `unit` runs over header, superframes and terminator;
`bursts` is what the bridge's encoders make of each; a fade (`Strike`, `Spread`)
inverts a run of adjacent bits of one burst; the radio decodes with the crate's
own decoders (of LC and labels, which the code has for its tests and its log) and
writes the alias it receives on its `display`.  The radio and the fades are external.

### `Dv3000`, `ThumbDv`: the chip on a serial line

A packet is its type, its field and its lengths, which is what framing and
`parse` look at.  The port is a byte stream: `port` holds the chip's answers,
`ends` the byte each of them ends at, `skip` what has been read of the first,
`have` what has arrived.  `Open`, `Ask` and `Call`
write a request, `ReadHeader`, `ReadPayload` and `ReadTimesOut` are `recv`, `Close` is the end of a
process, which leaves the stream to the next one.  The chip answers each
request in turn, late or soon, and may refuse a setting.  `role` tells `ThumbDv`
from `ThumbDvClient`.  `stale` and `failures` are history variables.

### `Identifiers`, `Config`, `Backends`: what may run

Operators, each a function of the configuration: the checked newtypes; `Validate`;
where a secret is found among four sources; the length of the RPTC packet, which
`config_packet` asserts; which backend serves which direction and what refuses.
A document has the sections and fields the program branches on.

### `Provision`, `Subscribers`, `Host`, `HostMC`: the process

`Host` is `async_main`: `stage` is the await it is at, from the arguments through
`load`, `resolve`, provisioning, subscribers, sockets and vocoder to `running`;
`alive` are the branches of the `join!` that have not ended, each with the
condition it ends on (`MayEnd`).  Of the voice path only its end matters here,
and that it may bring it about itself: `VocoderFails` is `fatal_vocoder`, which
trips the token from within `voice_task`.  `cause` is history: what tripped it.
The two housekeeping branches are whole.  `Provision` has `run_once`: `LogProfile`,
`ListStatics`, then `RemoveStep` and `AddStep` off the list taken at its start, while `Edit`
changes the statics under it and any request may fail, with its effect or
without.  `Subscribers` has the table and its reload from a file that is
replaced, removed or cut short.  `HostMC` gives the ways to start: `Launches`
are sets over a base that runs, each varying one thing (peer values at the edge of
their types, secrets in each source, every backend and pair of halves, and so on).

### `PttMC` and the `*Proofs` modules

`PttMC` adds the symmetry of the stream ids, used in `ptt_header_change`.  The
others hold the theorems.  Some modules hold, beside a definition, a wrong
variant of it, marked as such: put in its place, it makes a property fail, which
shows that the property depends on that detail of the code.

## 3. What is checked

| run | question | result |
|---|---|---|
| `ptt_floor` | both directions in one session, two inbound streams, a full audio channel, lost terminators, FM keying up at any moment: does every way out of Rx unkey the FM side, close the call in the statistics and clear the metadata; do the two sides ever hold the channel at once, and does each get and leave it by the rules of `HalfDuplex`; once inbound DMRD stops, is the FM side unkeyed? | holds |
| `ptt_both` | both directions over lost sessions, failed encodes, full queues and cancellation: are headers and terminators paired on the wire, voice only of announced calls, bursts at the place of the superframe that their number says; does every Tx call end and a cancelled voice task return? | holds |
| `hb` | lost, doubled, stray, refused packets, a path that goes away, failing resolution, shutdown at any point: authenticated means accepted, a dead session is noticed in time and a live one never given up, the client is a `Link`; does it get a session back for good, and return when cancelled? | holds |
| `proxy` | two clients, two kinds of backend, losses, a mute chip, dead clients: are peers kept apart, answers not mistaken, nobody locked out? | holds |
| `usrp` | bursts late, bunched, lost, calls replaced by another's header or dropped by a reset: is voice sent ahead only of silence, is lateness never added up, are calls recorded apart unless they joined a keying, does the task stop? | holds |
| `stats` | a full channel loses any event: are the counters what came through, do the summaries add up to them, are the last events taken? | holds |
| `air` | fades of up to eight adjacent bits anywhere in a call: is a spread error corrected, is what cannot be corrected never passed off as right, does the alias arrive as written, is no label read for another? | holds |
| `thumbdv` | three sessions on one serial port, late and cut answers, timeouts, kills, refused settings: does an opening tell its answers from stale ones, how far can an open client be behind? | holds |
| `host` | every kind of configuration, secret source and vocoder, failing requests and edits under the reconciliation, a file replaced under the reload, a signal or a vocoder's failure at any time: does what runs have what it needs, does it stay up until one of the two, do the statics and the table become what they should? | holds |
| `ptt_header_change` | does a stream change always unkey between the streams? | violated, finding 1 |
| `ptt_reset_in_rx` | is the FM side unkeyed when the session is replaced during an inbound call? | violated, finding 2 |
| `air_emb` | can two wrong bits of an EMB word always be told? | violated, finding 3 |

### Bounds, and why they are enough

* *Streams.*  `ptt_floor` has two inbound streams, the fewest that can replace each
  other and be replaced back; a third adds nothing, for the machine compares a
  packet only with the stream it receives.  `ptt_both` has one of each side: its
  properties are about calls that follow each other.  An id is reused once nothing of
  its call is in flight, so calls of one stream id follow, replace and collide with
  any number of the other side's.
* *Queues.*  Capacities of 1 to 4 where the code has 4 to 64.  In `ptt_floor`
  `AudioCap` 3 holds one burst and an unkey, and is overrun by a second burst,
  so full, nearly full and empty all occur.  `FramesPerBurst` is
  2 (3 in the code): one frame leaves a partial burst, two complete one.  `CtlBound` 2
  lets a terminator and the next header queue while the session is away.
* *Sequence numbers.*  Modulo 4 in `ptt_both`, which has to the superframe of 6 the
  relation of the code's 256, a remainder of 4: at a wrap of `seq` the two do not
  wrap together, and `CadenceFollowsSeq` counts the wraps.  A gap there is beyond
  `GapBoundary`, and a step back occurs.  No property of `ptt_floor` looks at
  numbers; modulo 2 no packet of it counts as ahead.  A concealed gap only asks for more room in the
  queue: `usrp` has it, and the theorems have it for every boundary.
* *Time.*  Timeouts of 1 or 2 ticks: each event may come before, at and after its
  deadline.  In `hb` the interval is 2 ticks and the limit 3 pongs, the
  code's limit, so a miss can fall into each place of the row.  `silence` is capped
  beyond the bound the property speaks of.
* *Pacing.*  In `usrp` a burst has 2 frames and lasts two ticks (3 and three in
  the code): with one at least, there is a frame that has to wait for another.  The
  network may hold back two bursts and lose two in a row, gaps of one are
  concealed; `AudioCap` 5 holds a burst with a concealed one and is overrun by the next.
  `StreamTimeout` 3 lets a call end in the middle of a delay.  Calls of up to 3
  bursts: one in time, one late, one after it.  `MaxStarved` bounds the silence of a
  keying at 4 ticks, twice a burst: time stands still at the bound, so longer
  silences are not seen; the theorems have any bound.
* *Statistics.*  A channel of 2 under 6 events loses any event of a call, and
  the start of the next; both directions are open at once, `skip_idle` is on.
* *Faults.*  `MaxFaults` 3 in `hb`, of every kind: as many pongs as the
  limit, or a login and what follows it.  1 in `proxy`.
* *The air.*  Three superframes are more than the alias needs to be sent in full
  and the LC between its blocks.  Two calls, which differ in every field that
  is sent; three voice frames, chosen so that the data and the whitening seed
  take part.  The first frame of burst A stands for all voice: each burst codes
  its frames alike.  A fade takes any run of up to 8 adjacent bits of a header,
  of a terminator, of a burst A, or of the 48 bits in the middle of the others:
  longer than any burst the interleavers promise to spread, so detection
  matters as well as correction.
* *The chip.*  Three sessions of two calls with two timeouts: the third
  can meet what both others left.  `Ready` 3 lets an answer be cut in each of
  its parts.  One gain of the range, for a chip answers each the same.
* *The process.*  Each set of launches varies one thing over a base that runs,
  so refusals do not hide one another.  One failure and one edit are the least
  that reach the reconciliation out of step with the list it took; two
  updates of the file give one before and one during a reload.  Talkgroups 91
  and 3100 allow a swap.

The theorems of section 5 hold for every value of these constants.

### Fairness

All branches are polled by one task in one `join!`, no branch blocks the thread
for long, and every select is biased but re-polled from the top: an arm that
stays ready with nothing ahead of it is taken.  `Ptt` assumes weak fairness of time, the
deadlines, the control channel, the return from an await, the two consumers,
and the token's arm.  Nothing is assumed of audio, DMRD or sessions: they may come for ever or never.
`Homebrew` assumes it of the client as a whole, the voice task's two receives, the
voice task's return after the token, time, and a master that answers what
reaches it; never of faults or of the path healing.  `AmbeProxy` assumes it of
the proxy's loop (one thread), of each client waiting for its answer or
timeout, and of time; nobody has to call.  `UsrpTx` assumes it of `tx_task`,
`Stats` of the consumer, `Host` of the main task and of the two housekeeping
branches with their timers; nobody has to signal, edit the statics or touch the file, and no vocoder has to fail.
`air` and `thumbdv` check safety alone and assume none.

`proxy`, `air`, `air_emb` and `host` run with `CHECK_DEADLOCK FALSE`, for their
systems may end: all clients have closed, the call is over, the process has exited.

## 4. Findings

1. **A stream change through a voice header does not unkey** (`ptt.rs:665`).  A
   header of another stream received in Rx replaces the call without an unkey
   for the old one, and without ending it in the statistics; through voice
   (`ptt.rs:746`) the same change does both.  tests.rs:374-376 says a stream
   change must surface as unkey, then keyup.
2. **A session reset in Rx leaves the FM side keyed** (`ptt.rs:619`).
   `on_network_reset` takes the state before it tests it for Tx; from Rx
   it leaves Idle behind, without unkey, Clear, CallEnd or hang time, and with
   the stream timeout disarmed.
3. **The QR(16,7) table has distance 4** (`fec.rs:359`).  The table is closed under
   xor, but entries 33, 65 and 67 have four bits each, so two wrong bits of an EMB
   word can be as near to another word as to the one sent; the code's comments
   promise a distance of 6 (fec.rs:293-296, 355-357).  What is off are the words
   built on entries 32 (0x417B) and 64 (0x82F6, not even systematic), those of
   colour codes with bit 2 or 3 set: with 0x411E and 0x804F in the two places the
   same construction has distance 6.

Where the code disagrees with its own comments, without a run (the modules follow the code):

* **A failed vocoder is not restarted** (`ptt.rs:340`).  `fatal_vocoder` cancels the
  bridge's own token, "before the supervisor restarts us" (ptt.rs:333-336).  But every
  branch then returns Ok, and so does `main`; the unit has `Restart=on-failure`
  (asl-dmr-bridge.service:15), which does not restart a process that exited with 0.
  In `Host`, `VocoderFails` leads to `exit = "ok"` with no signal; `StaysUp` names
  this as the one other cause.
* **A bad CSV blanks out the subscribers** (`dmr-subscriber/src/lib.rs:134`).
  main.rs:187-190 and config.rs:347-350 say that the prior table stays in place; but
  `from_reader` skips what it cannot use and never fails, so an emptied or garbled
  file replaces the table by an empty one.  Only a file that cannot be opened leaves
  the table.  `Subscribers` does as the code does; `TableCatchesUp` leaves such
  files out, so that it asks for neither.
* **A late frame does not restart the pacing** (`usrp.rs:251`).  ptt.rs:77-80 says
  that overruns accumulate because it does.  `tx_task` advances the deadline the
  frame had; `NoDrift` and its theorem are the opposite of the comment.
* **Two calls in one recording** (`ptt.rs:665`, `ptt.rs:618-630`).  `tx_task`
  closes recorder, levels and gain of a call on its unkey and on nothing else, and
  opens them on "the first voice frame of a call" (usrp.rs:273-275).  A call that
  ends by finding 1 or 2 has no unkey: the next one's voice goes into its file, under
  its stream id.  `CallsKeptApart` says that these two are the only ways.

Observed while modelling, without a run:

*The voice path*

* The flushed burst follows its terminator (homebrew_client.rs:572): the partial
  last burst of a call goes on the voice queue, the terminator on the control
  queue, which is served first (DESIGN.md:349-351 has the other order).
* In the same way a metadata packet overtakes voice queued for the repeater
  (usrp.rs:183): `Clear` and the next `Call` are shown before the last queued
  frames of the old call are heard.
* Once voice has come late, after a gap too long to conceal, frames of that call
  leave as they come, together (usrp.rs:251): the schedule catches up and
  builds no reserve again before the keying ends.  `AheadOnlyOfSilence` bounds how
  many by the silence there was; a repeater that does not buffer them loses them.
* A call left without an unkey (findings 1 and 2) leaves its schedule as well: as it
  is anchored in the past, the frames of the next call leave unpaced until as many
  have been sent as the pause had room for.
* The FM side's unkey can be dropped at rx_task's `try_send` (usrp.rs:110); the
  call then ends by `tx_timeout` (`TxEnds`).
* A gap is counted in packets where every other drop is counted in frames
  (ptt.rs:758).
* A reordered voice packet moves `last_seq` back (ptt.rs:726), so the next one in
  order counts as a gap and is concealed.
* Frames are folded into the counters when a call ends (stats.rs:188), so a
  heartbeat in the middle of a long call is suppressed as idle.

*The session*

* A keepalive tick and a pong that are both ready: the biased select counts a miss
  first (homebrew_client.rs:512).  If the loop is held up (the inbound channel is
  full), it counts misses while pongs wait in the socket.  With `Stalls = TRUE`
  `DeadNoticedInTime` fails for the same reason; `LostOnlyWhenSilent` does not.
* A doubled RPTACK is taken for the reply to the next request
  (homebrew_client.rs:456-470) and walks the client past the handshake, so
  "authenticated" can be early by one; `AuthedMeansAccepted` is
  stated for handshakes in which none arrives twice.
* The token during the handshake, or a voice task already gone when the session
  is announced, returns without RPTCL although the master may have registered us
  (homebrew_client.rs:373, 406; DESIGN.md:244).
* The senders return on the token without draining their queues
  (homebrew_client.rs:511, usrp.rs:173), so the terminator or unkey that
  `on_shutdown` queues (DESIGN.md:372-373, main.rs:517-520) stays there.

*The vocoder*

* A takeover does not touch the chip (ambeserver/src/backend.rs:23-25): a client
  that tuned it in `connect` (ambeserver.rs:48-63 of `ambe`) and paused for more
  than a second goes on at the other peer's rate.  The comment expects clients to
  send their own RESET.
* Behind the chip the serial timeout equals a client's: while the proxy waits for a mute
  chip, queued requests outlive their callers, and each caller then takes the
  late answer for its next request's.  Nothing resynchronises the two.
  `AnswersMatch` is stated for software backends.
* `ThumbDv::open` does not clear the port, which `ThumbDvClient::open` does.  Three
  stale answers of the right kinds pass for its opening: `OpenedInStep` is stated
  for fewer.  Each timeout leaves all later answers one behind, and a timeout in
  the middle of a packet leaves the byte stream out of step.

*The codecs*

* bptc.rs:383 returns None "if the BPTC column had >= 2 bit errors"; only two of the
  syndromes of such a column (9 and 11) are not some single error's, the
  others are miscorrected and left to Reed-Solomon.  bptc.rs:311-312 counts
  16 column passes; there are 15.
* The Golay(20,8) table has distance 8 (the comments say 7).  voice_channel.rs:89
  says the parity is appended in bit 23; the code puts it in bit 0.
* A fade of five bits or more can leave a header's LC that differs from the one
  sent, and then the parity check has failed too: `FullLcSurvives` finds no wrong one that passes it.

*The process*

* After a failed remove the adds go on (brandmeister_provision.rs:201-210; the comment
  at 197-200 says no add happens).  One entry of the master's list that does not
  decode aborts the whole run.
* config.rs:272 asks for exactly one source of the API key, line 844 for at most
  one; the code is the latter.
* Shutdown waits for a `run_once` or a reload under way, which are awaited inside a
  select's arm; name resolution and opening the vocoder at startup are not
  under the token at all.

## 5. What is proved

All theorems hold for every value of the constants allowed by the named
assumptions of the module, and for any number of streams, peers and launches.

| theorem | statement | argument |
|---|---|---|
| `PttProofs!TypeCorrect` | `Spec => []TypeOK` | inductive `IInv == TypeOK /\ CallShape`: without `CallShape` (a call is held exactly in its state; a suspended handler is in the state it left) the unkey's stream and the call that is ended need not exist |
| `PttProofs!TxCallsAccounted` | `Spec => []TxAccounted` | inductive with `IInv`; one step per action that opens or closes a Tx call |
| `PttProofs!RxCallsAccounted`, `CallerShown`, `FmKeyedOnlyByCall` | `RxAccounted`, `MetaFollowsCall`, `FmKeyedOnlyInRx`, always, given `UndisturbedRx` | each inductive with `IInv`; the reset in Rx is the one step that breaks them |
| `PttProofs!FloorControl` | `Spec /\ UndisturbedRx => ImplementsHalfDuplex` | each action is a step of `HalfDuplex` or leaves its state alone; needs `IInv`, and `FreshSession`: until the machine has taken a reset, queues and master hold nothing of an earlier session |
| `PttProofs!NeverBothWays` | `Spec /\ UndisturbedRx => []HD!OneDirection` | an invariant of `HalfDuplex` itself, carried over by the refinement |
| `PttProofs!SteadyBridge` | the four above outright, for `Drops = FALSE` or `Gateway = "FmToDmr"` | `UndisturbedRx` follows: with one session, `OneSession` says its reset is taken before anything was received (the state the reset finds is Idle or Tx); with FM to DMR alone there is no Rx |
| `PttProofs!MasterSeesCalls` | `Spec => CallControlFramed` | inductive `Framed`: every packet of the control queue fits the one ahead of it, the first what the master holds open, and the last leaves open the call the machine is in; a pending reset suspends the last part |
| `PttProofs!NoVoiceUnannounced` | `Spec => VoiceAnnounced` | inductive `Announced`: the call of every queued burst, and the machine's own, is one the master was told of or whose header is in the queue served first |
| `PttProofs!CadenceKept` | `Spec => []CadenceFollowsSeq` | for every even `SeqMod`, 256 among them; inductive `AllInCadence`: the next burst is in cadence as well as all in the queue, and `laps` has counted its wraps; `LapsAreWhole` and `CadenceWraps` are the arithmetic, three wraps of an even modulus being a whole number of superframes |
| `PttProofs!SessionsAreLinks` | `Spec => LK!Spec`, the sessions of `Ptt` mapped to `Link` | each step is `Connect`, `Disconnect`, `Take`, or leaves session and resets alone; with `LinkImplemented`, client and machine meet in one specification |
| `HomebrewProofs!TypeCorrect` | `Spec => []TypeOK` | inductive by itself, one lemma per action |
| `HomebrewProofs!LinkImplemented` | `Spec => ImplementsLink` | each step is a step of `Link` or leaves its state alone; needs no invariant |
| `HomebrewProofs!DeadNoticed` | `DeadNoticedInTime`, for `Stalls = FALSE` | the strengthening `NotLater` bounds `silence` by the misses counted and the time since the last tick |
| `HomebrewProofs!LostNotSooner` | `Spec => LostOnlyWhenSilent` | the strengthening `NotSooner` bounds `silence` from below by the same; holds with stalls |
| `HomebrewProofs!AuthedIsAccepted` | `Spec => []AuthedMeansAccepted` | inductive `HInv`: while nothing came twice, client and master are in `Lockstep`, one request out or at most one ACK for it in, and the ACK is there only if the master took the step; `Quiet` keeps the sockets empty between sessions |
| `AmbeProofs!TypeCorrect` | `Spec => []TypeOK` | inductive by itself |
| `AmbeProofs!VoicesKeptApart` | `Spec => []OneVoiceStream` | inductive by itself: only `HandleSoft` changes the holder, through `AfterTakeover` |
| `AmbeProofs!RateNegotiated` | `Spec => []ServedAtOwnRate` | inductive by itself, for the same reason |
| `AmbeProofs!NeverTheAnswerBefore` | `Spec => AnswersMatch` | inductive `AInv`: each client has on its way one request or one answer, of the request it waits for, and never both; a request given up on is gone, since a software backend answers all there is before time passes |
| `UsrpProofs!TypeCorrect`, `VoicePaced`, `LatenessForgotten` | `Spec => []TypeOK`, `[]AheadOnlyOfSilence`, `NoDrift` | inductive `UInv == TypeOK /\ Clock`: `Clock` says that the code's schedule is what the repeater has in hand less what it went without, at most one frame ahead; without it nothing relates the schedule to what was sent |
| `UsrpProofs!RecordingsKeptApart` | `Spec => []CallsKeptApart` | inductive `CInv` with `UInv`: the frame in hand and the queue behind it form a `Line`, in which two streams never meet without an unkey between them unless the later one is marked as joined, and whose end is PttMachine's call; `InHand` and `Recorded` tie the line to what tx_task has of it; lemmas say that taking, appending an unkey and appending frames keep it a line |
| `StatsProofs!TypeCorrect`, `SummariesTrue` | `Spec => []TypeOK`, `SummariesAddUp` | inductive `SInv == TypeOK /\ reported = prev`; `RoundTrip` is the arithmetic of one line |
| `StatsProofs!HeartbeatsTrue` | `Spec => []HeartbeatCurrent` | inductive by itself |
| `StatsProofs!CountsKept` | `Spec => []CountsTrue` | inductive `CInv`: it adds that while no call's start is lost, every frame that waits in the channel, and the next to come, finds an accumulator when the consumer gets to it (`OpenAt`); the counts themselves are cardinalities of sets of queue positions, which shift as the queue moves |
| `AirProofs!AirTypeHolds` | `Spec => []AirType` | inductive by itself: the bursts on the air are the encoders' for the call and its unit, and a fade stays in one burst and within `MaxFade` bits; all below rest on it |
| `AirProofs!CallHolds` | `Spec => []CallSurvives`, for `MaxFade <= 8` | the next three together, its parts |
| `AirProofs!FullLcHolds` | `Spec => []FullLcSurvives`, for `MaxFade <= 8` | the codes are linear: rows, columns and Reed-Solomon do to a damaged word what they would do to the damage alone (a sent word has no syndrome: `alpha`, its square and its cube are the roots of the generator), so the question is about the fades and no longer about the calls; `FadesNoticed` answers it |
| `AirProofs!EmbeddedHolds` | `Spec => []EmbeddedSurvives`, for `MaxFade <= 8` | the columns put at most one bit of the fade in each row, and the row's check repairs it; then checksum and LC are those sent |
| `AirProofs!VoiceHolds` | `Spec => []VoiceSurvives`, for any `MaxFade` and any frames | the interleaving and the indices' places are injective, so what the bridge's decoder gets back differs from what was said by the wrong bits alone, as long as the seed is the one sent; adjacent bits go to the rows in turn, which leaves at most three of five to one row |
| `AirProofs!SeedHeard` | `Spec => []SeedTold`: through a fade of up to five bits, the first word of a frame as heard is nearer to the one sent than to that of any other seed | the Golay code is linear, so two of its words differ in a word's weight, which is eight or more (`GolayDistance`) |
| `AirProofs!AliasRight` | `Spec => []AliasNeverGarbled`, for `MaxFade <= 8` and `AliasesSent` | inductive `DisplayRight`, with the embedded LC heard as sent: whatever a place shows is the alias's, and the blocks of the units so far have been written; a turn of the rotation writes all |
| `AirProofs!LabelsHold` | `Spec => []LabelsNeverMisread`, for `MaxFade <= 33` | such a fade reaches one half of a label, and the other half is the sent word's: no other word of the table has it and is accepted |
| `HostProofs!EndsForCause` | `Spec => []StaysUp` | inductive `Up`: it adds that a running process whose token is not cancelled still has its USRP branch, without which it could end; lemmas say that no error on the way to the `join!` is reported as a good end |
| `HostProofs!RequestsNeverStray` | `Spec => NeverWorse` | inductive `Steered`: what is left to remove is never declared and what is left to add always is, for each slot, whatever was edited since the list |
| `HostProofs!StartsOnlySound` | `Spec => []StartsSound` | inductive `Checked`: at each stage, what the stages before it made sure of, since neither the launch nor a resolved secret changes; lemmas for each layer of validation, the widths of the RPTC packet and each backend that can be opened |
| `ThumbDvProofs!BehindByItsFailures`, `OpensInStep` | `Spec => []BehindByFailures`, `OpenedInStep` | inductive `DInv`: `Stream` (the answers lie end to end, the reader inside the first), `Client` (where the reader is in a packet goes with where the call is), `Owed` (an opening has taken as many answers as it asked questions, and its own come last); `Consumed` says what reading some bytes does to the stream |

`UndisturbedRx == [][OnNetworkReset => state # "Rx"]_vars` is a hypothesis on the
behaviour, not on a constant: no reset is taken while the machine receives.  The
code does not see to that, and `ptt_reset_in_rx` is the behaviour in which it
happens and `FmKeyedOnlyInRx` fails (finding 2).  So the theorems say
that this is the only step of the code that breaks the four properties.  `ptt_floor`, where
TLC checks them, is an instance of `SteadyBridge`.

TLC finds none of the strengthenings violated on the bounds of its run (those of `Host`
with the file left alone; `Checked` also without failing requests and edits, which do
not touch what it speaks of).  The constants' assumptions are in the modules, each by name.
`Host` assumes of `None` that it is no outcome, no error and no backend
(`OkAssumption`, `NoneAssumption`), `Provision` that it is none of the ways a request
fails; TLC evaluates them on the run.

`AliasesSent` says that an alias is one `encode_talker_alias_lcs` sends or empty (up to 31
characters of seven bits; of any other it sends nothing), and that the calls last
a turn of the rotation, at most five superframes: a shorter one leaves part of the alias unsent.  The other
hypotheses of `AirProofs` are lengths of fades.  They are what the run
checks, or more: `LabelsHold` allows 33 bits where the run has 8.

Three assumptions of the codecs are about no parameter: `FieldTables` (the powers and
logarithms of GF(256) are inverse, and multiplying by the generator's roots is linear),
`FadesNoticed` (what the corrections leave of each fade of up to eight bits of a burst,
sent alone) and `GolayDistance` (each word of the Golay code but zero has eight ones or more, which
makes three errors what a receiver corrects).  They are closed facts about
finite tables, which TLC computes outright on every run of `AirMC` and no
solver would; the theorems carry them to all calls, voices and lengths of a call.  What the recursive functions of the codecs compute is
proved where it is needed by `Induct` and `InductTo`, induction over a set of numbers.

Only model-checked:

* liveness (`TxEnds`, `SilenceUnkeys`, `ShutdownEnds`, `Recovers`, `Stops`,
  `NoWedge`, `Drained`, `Converges`, `TableCatchesUp`, `Settles`), which the prover
  cannot do under fairness;
* the codecs under fades longer than the theorems' hypotheses, of which nothing is claimed: the
  interleavers promise no more.

## 6. Not modelled

* Gain control, limiter and filters, the neural networks' inference and the emulated
  firmware: floating point and machine code, out of TLC's reach.  What is
  discrete in them (indices, channel code, which half serves) is modelled.
* The one-shot tools, WAV files, log lines and the wording of errors.
* HTTP, and the endpoints of the BrandMeister API the bridge does not call.
* `rx_task` beyond the frames that reach the voice task; the USRP header, the
  DMRD packet's byte layout and the chip's rate tables, which are fixed offsets and
  constants.
* In the modelled parts: per-call diagnostics, percentiles, gains and levels as numbers.

## 7. Plan

What remains, in order of what it would add:

1. The USRP receive path with its own socket, and the window of frames the neural
  decoder holds back, as state machines.
2. A proxy whose chip answers late, with what can still be said of its answers.
