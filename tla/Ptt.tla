-------------------------------- MODULE Ptt --------------------------------
(***************************************************************************)
(* The half-duplex push-to-talk machine at the centre of the bridge:       *)
(* PttMachine (dmr-wire/src/voice/ptt.rs) driven by the voice_task select  *)
(* loop (dmr-wire/src/voice.rs), closed with the tasks at the other ends   *)
(* of its channels: the USRP sender (bridge/src/usrp.rs) that drains       *)
(* audio_tx towards the FM repeater, and the Homebrew session              *)
(* (bridge/src/homebrew_client.rs) that drains the two DMRD queues towards *)
(* the DMR master and reports every new session on the control channel.    *)
(*                                                                         *)
(* A handler is one action, split only where the code suspends while       *)
(* holding state another task can see: at audio_tx.send(unkey).await.      *)
(* Time is a countdown: `timer' is the number of ticks left until          *)
(* PttMachine::deadline().                                                 *)
(***************************************************************************)
EXTENDS Integers, Sequences

CONSTANTS
  Gateway,        \* VoiceConfig.gateway: "Both", "DmrToFm" or "FmToDmr"
  RxStreams,      \* stream ids of inbound DMR calls
  TxStreams,      \* stream ids new_stream_id() can return
  NoStream,       \* Option::None of a stream id
  NetKinds,       \* which DMRD kinds reach us: subset of header, term, voice
  Drops,          \* TRUE: the master session can be lost and re-established
  SeqMod,         \* modulus of the DMRD sequence number (u8: 256)
  GapBoundary,    \* GAP_BOUNDARY_PACKETS (3)
  FramesPerBurst, \* FRAMES_PER_BURST (3)
  AudioCap,       \* capacity of audio_tx (64)
  VoiceCap,       \* capacity of dmrd_voice_out (64)
  ControlCap,     \* capacity of the control channel (4)
  CtlBound,       \* bound of the model on the unbounded dmrd_control_out
  StreamTimeout, HangTime, TxTimeout   \* VoiceConfig timeouts, in ticks

ASSUME StreamAssumption ==
  /\ NoStream \notin RxStreams \cup TxStreams
  /\ RxStreams \cap TxStreams = {}

ASSUME ConfigAssumption ==
  /\ Gateway \in {"Both", "DmrToFm", "FmToDmr"}
  /\ NetKinds \subseteq {"header", "term", "voice"}
  /\ Drops \in BOOLEAN

ASSUME SizeAssumption ==
  /\ SeqMod \in Nat \ {0, 1} /\ SeqMod % 2 = 0
  /\ GapBoundary \in Nat
  /\ FramesPerBurst \in Nat \ {0, 1}
  /\ AudioCap \in Nat \ {0} /\ VoiceCap \in Nat \ {0}
  /\ ControlCap \in Nat \ {0} /\ CtlBound \in Nat

ASSUME TimeAssumption ==
  /\ StreamTimeout \in Nat /\ HangTime \in Nat /\ TxTimeout \in Nat

VARIABLES
  state,          \* tag of PttState
  rx,             \* RxCall: stream id and last voice sequence number
  tx,             \* TxCall: stream id, dmrd_seq, vseq, |pcm_buf|; and laps, a
                  \* history: how often dmrd_seq has wrapped, modulo Laps
  pc,             \* where voice_task is: at its select, in an await, or gone
  unkeySid,       \* the stream whose unkey the suspended handler is sending
  timer,          \* ticks until deadline()
  cancel,         \* the CancellationToken
  control,        \* number of NetworkReset events queued for voice_task
  audioOut,       \* audio_tx: frames for the FM side
  dmrdVoiceOut,   \* bounded queue of voice bursts for the master
  dmrdControlOut, \* unbounded queue of headers and terminators
  meta,           \* last metadata event the FM side will show
  metaLost,       \* some metadata event was dropped on a full channel
  openCall,       \* per direction, the call stats saw start and not end
  session,        \* the Homebrew session: "never", "up" or "down"
  fm,             \* the stream the FM side is keyed for
  peer,           \* the stream the master has seen start and not end
  heard           \* the streams whose header the master got in this session

taskVars == <<state, rx, tx, pc, unkeySid>>
statVars == <<meta, metaLost, openCall>>
netVars == <<session, peer, heard>>
dmrVars  == <<dmrdVoiceOut, dmrdControlOut, netVars>>
vars == <<taskVars, timer, cancel, control, audioOut, dmrVars, statVars, fm>>

-----------------------------------------------------------------------------
(* Data. *)

Seqs == 0 .. SeqMod - 1
NoSeq == -1
SuperframeLen == 6

\* As many turns of an even sequence number make whole superframes.
Laps == 3

Voice(s) == [kind |-> "voice", sid |-> s]
Unkey(s) == [kind |-> "unkey", sid |-> s]
AudioFrames == [kind : {"voice"}, sid : RxStreams]
               \cup [kind : {"unkey"}, sid : RxStreams \cup {NoStream}]

Header(t) == [kind |-> "header", sid |-> t.sid, seq |-> t.seq]
Terminator(t) == [kind |-> "term", sid |-> t.sid, seq |-> t.seq]
ControlPkts == [kind : {"header", "term"}, sid : TxStreams, seq : Seqs]
VoicePkts == [sid : TxStreams, seq : Seqs, laps : 0 .. Laps - 1,
              vseq : 0 .. SuperframeLen - 1]

RxCalls == [sid : RxStreams \cup {NoStream}, last : Seqs \cup {NoSeq}]
TxCalls == [sid : TxStreams \cup {NoStream}, seq : Seqs, laps : 0 .. Laps - 1,
            vseq : 0 .. SuperframeLen - 1, buf : 0 .. FramesPerBurst - 1]
NoRx == [sid |-> NoStream, last |-> NoSeq]
NoTx == [sid |-> NoStream, seq |-> 0, laps |-> 0, vseq |-> 0, buf |-> 0]

-----------------------------------------------------------------------------
(* Best-effort outputs. *)

\* try_send on the metadata channel: dropped when the channel is full.
SendMeta(e) ==
  \/ meta' = e /\ UNCHANGED metaLost
  \/ metaLost' = TRUE /\ UNCHANGED meta

\* Mutant: the first of two calls started in a row stays the one in progress.
CallStartKeepsFirst(dir, s) ==
  openCall' = IF openCall[dir] = NoStream THEN [openCall EXCEPT ![dir] = s]
                                          ELSE openCall

CallStart(dir, s) == openCall' = [openCall EXCEPT ![dir] = s]
CallEnd(dir) == openCall' = [openCall EXCEPT ![dir] = NoStream]

-----------------------------------------------------------------------------
(* The select loop.  Its arms are polled in order: cancel, control,        *)
(* deadline, inbound DMRD, inbound audio.                                  *)

\* Mutant: deadline() gives an Rx call no stream timeout.
ExpiredExceptRx == state \in {"RxHang", "Tx"} /\ timer = 0

Expired == state # "Idle" /\ timer = 0
AtSelect == pc = "loop" /\ ~cancel /\ control = 0
AtInput == AtSelect /\ ~Expired

-----------------------------------------------------------------------------
(* FM -> DMR. *)

\* What one encode of a whole burst can come to: every encode fails once the
\* token is cancelled, and a vocoder panic cancels it.
Outcomes == IF cancel THEN {"err"} ELSE {"ok", "err", "panic"}

VoicePkt(t) == [sid |-> t.sid, seq |-> t.seq, laps |-> t.laps, vseq |-> t.vseq]

NextLaps(t) == IF t.seq + 1 = SeqMod THEN (t.laps + 1) % Laps ELSE t.laps

\* Mutant: vseq runs on past the superframe.
AdvanceUnwrapped(t) ==
  [t EXCEPT !.seq = (@ + 1) % SeqMod, !.laps = NextLaps(t), !.vseq = @ + 1]

\* The sequence state after a burst is built, whether or not it is then queued.
Advance(t) ==
  [t EXCEPT !.seq = (@ + 1) % SeqMod, !.laps = NextLaps(t),
            !.vseq = (@ + 1) % SuperframeLen]

\* Mutant: a burst that fails to encode still uses up its superframe slot.
AfterBurstSkewed(t, outcome) ==
  IF outcome = "ok" THEN Advance(t)
  ELSE [t EXCEPT !.vseq = (@ + 1) % SuperframeLen]

AfterBurst(t, outcome) == IF outcome = "ok" THEN Advance(t) ELSE t

\* Build a burst from t and try_send it.
QueueBurst(t, outcome) ==
  dmrdVoiceOut' = IF outcome = "ok" /\ Len(dmrdVoiceOut) < VoiceCap
                  THEN Append(dmrdVoiceOut, VoicePkt(t))
                  ELSE dmrdVoiceOut

\* new_stream_id: random, so not one of the ids still in flight.
FreshStreams ==
  TxStreams \ (heard \cup {dmrdVoiceOut[i].sid : i \in DOMAIN dmrdVoiceOut}
               \cup {dmrdControlOut[i].sid : i \in DOMAIN dmrdControlOut})

\* Mutant: the hang time does not hold the FM side back.
MayKeyUpInHang == state \in {"Idle", "RxHang"}

MayKeyUp == state = "Idle"

\* Keyed audio in Idle: a fresh call, its header, its first frame buffered.
KeyUp ==
  /\ AtInput /\ Gateway # "DmrToFm" /\ MayKeyUp
  /\ Len(dmrdControlOut) + 2 <= CtlBound
  /\ \E s \in FreshStreams :
       LET t == [NoTx EXCEPT !.sid = s] IN
       /\ dmrdControlOut' = Append(dmrdControlOut, Header(t))
       /\ tx' = [t EXCEPT !.seq = 1 % SeqMod, !.buf = 1]
       /\ CallStart("fmToDmr", s)
  /\ state' = "Tx"
  /\ timer' = TxTimeout
  /\ UNCHANGED <<rx, pc, unkeySid, cancel, control, audioOut, dmrdVoiceOut,
                 netVars, meta, metaLost, fm>>

\* Mutant: every frame re-arms the transmit timeout.
BufferAudioRearmed ==
  /\ AtInput /\ Gateway # "DmrToFm" /\ state = "Tx"
  /\ tx.buf + 1 < FramesPerBurst
  /\ tx' = [tx EXCEPT !.buf = @ + 1]
  /\ timer' = TxTimeout
  /\ UNCHANGED <<state, rx, pc, unkeySid, cancel, control, audioOut, dmrVars,
                 statVars, fm>>

\* Keyed audio in Tx that does not complete a burst.
BufferAudio ==
  /\ AtInput /\ Gateway # "DmrToFm" /\ state = "Tx"
  /\ tx.buf + 1 < FramesPerBurst
  /\ tx' = [tx EXCEPT !.buf = @ + 1]
  /\ UNCHANGED <<state, rx, pc, unkeySid, timer, cancel, control, audioOut,
                 dmrVars, statVars, fm>>

\* Keyed audio in Tx that completes a burst.
SendBurst ==
  /\ AtInput /\ Gateway # "DmrToFm" /\ state = "Tx"
  /\ tx.buf + 1 >= FramesPerBurst
  /\ \E outcome \in Outcomes :
       /\ QueueBurst(tx, outcome)
       /\ cancel' = (cancel \/ outcome = "panic")
       /\ tx' = [AfterBurst(tx, outcome) EXCEPT !.buf = 0]
  /\ UNCHANGED <<state, rx, pc, unkeySid, timer, control, audioOut,
                 dmrdControlOut, netVars, statVars, fm>>

\* flush_tx, then the terminator: every orderly end of a Tx call.
FlushOutcomes == IF tx.buf = 0 THEN {"empty"} ELSE Outcomes

EndTx(outcome) ==
  /\ QueueBurst(tx, outcome)
  /\ dmrdControlOut' =
       Append(dmrdControlOut, Terminator(AfterBurst(tx, outcome)))
  /\ state' = "Idle"
  /\ tx' = NoTx
  /\ timer' = 0
  /\ CallEnd("fmToDmr")

\* Unkeyed audio ends a Tx call; in any other state it changes nothing.
KeyDown ==
  /\ AtInput /\ Gateway # "DmrToFm" /\ state = "Tx"
  /\ \E outcome \in FlushOutcomes :
       EndTx(outcome) /\ cancel' = (cancel \/ outcome = "panic")
  /\ UNCHANGED <<rx, pc, unkeySid, control, audioOut, netVars,
                 meta, metaLost, fm>>

-----------------------------------------------------------------------------
(* DMR -> FM. *)

FromNet(kind) ==
  /\ AtInput /\ Gateway # "FmToDmr" /\ state # "Tx"
  /\ session # "never" /\ kind \in NetKinds

\* All-or-nothing reservation of `total' slots behind the frames in q, then
\* one decode per slot; a failed decode gives its slot back.
DeliverFrames(q, s, total) ==
  IF Len(q) + total > AudioCap
  THEN audioOut' = q /\ UNCHANGED cancel
  ELSE \E n \in IF cancel THEN {0} ELSE 0 .. total :
         /\ audioOut' = q \o [i \in 1 .. n |-> Voice(s)]
         /\ IF n = total THEN UNCHANGED cancel ELSE cancel' \in {cancel, TRUE}

\* Frames for one packet `delta' ahead of the expected one.
BurstFrames(delta) ==
  LET gap == IF 1 <= delta /\ delta < SeqMod \div 2 THEN delta ELSE 0 IN
  IF gap > GapBoundary THEN FramesPerBurst ELSE FramesPerBurst * (1 + gap)

\* A voice header: the start of a call, or a repeat of the one in progress.
RxHeader(s) ==
  /\ FromNet("header")
  /\ ~(state = "Rx" /\ rx.sid = s)
  /\ SendMeta("call")
  /\ CallStart("dmrToFm", s)
  /\ state' = "Rx"
  /\ rx' = [sid |-> s, last |-> NoSeq]
  /\ timer' = StreamTimeout
  /\ UNCHANGED <<tx, pc, unkeySid, cancel, control, audioOut, dmrVars, fm>>

\* The terminator of the stream being received, up to its unkey.
RxTerminator(s) ==
  /\ FromNet("term")
  /\ state = "Rx" /\ rx.sid = s
  /\ SendMeta("clear")
  /\ CallEnd("dmrToFm")
  /\ pc' = "hang"
  /\ unkeySid' = s
  /\ UNCHANGED <<state, rx, tx, timer, cancel, control, audioOut, dmrVars, fm>>

\* Voice of the stream being received.
RxVoice(s, q) ==
  /\ FromNet("voice")
  /\ state = "Rx" /\ rx.sid = s
  /\ LET delta == IF rx.last = NoSeq THEN 0 ELSE (q - rx.last - 1) % SeqMod
     IN DeliverFrames(audioOut, s, BurstFrames(delta))
  /\ rx' = [rx EXCEPT !.last = q]
  /\ timer' = StreamTimeout
  /\ UNCHANGED <<state, tx, pc, unkeySid, control, dmrVars, statVars, fm>>

\* Voice with no header first, from Idle or RxHang.
RxImplicitStart(s, q) ==
  /\ FromNet("voice")
  /\ state \in {"Idle", "RxHang"}
  /\ state' = "Rx"
  /\ rx' = [sid |-> s, last |-> q]
  /\ timer' = StreamTimeout
  /\ CallStart("dmrToFm", s)
  /\ SendMeta("call")
  /\ DeliverFrames(audioOut, s, FramesPerBurst)
  /\ UNCHANGED <<tx, pc, unkeySid, control, dmrVars, fm>>

\* Voice of another stream than the one being received, up to the unkey of
\* the old one.
RxStreamChange(s, q) ==
  /\ FromNet("voice")
  /\ state = "Rx" /\ rx.sid # s
  /\ rx' = [sid |-> s, last |-> q]
  /\ timer' = StreamTimeout
  /\ CallEnd("dmrToFm")
  /\ pc' = "burst"
  /\ unkeySid' = rx.sid
  /\ UNCHANGED <<state, tx, cancel, control, audioOut, dmrVars, meta, metaLost,
                 fm>>

-----------------------------------------------------------------------------
(* Returning from audio_tx.send(unkey).await.  It waits for a slot; once   *)
(* the token is cancelled the receiver goes away, and a full channel no    *)
(* longer holds the sender.                                                *)

\* Mutants: the receiver outlives the token; the unkey is only try_sent.
UnkeySentOnlyWithRoom == Len(audioOut) < AudioCap
UnkeyTried == TRUE

UnkeySent == Len(audioOut) < AudioCap \/ cancel
WithUnkey == IF Len(audioOut) < AudioCap
             THEN Append(audioOut, Unkey(unkeySid))
             ELSE audioOut

FinishCall ==
  /\ pc = "hang" /\ UnkeySent
  /\ audioOut' = WithUnkey
  /\ pc' = "loop"
  /\ unkeySid' = NoStream
  /\ state' = "RxHang"
  /\ rx' = NoRx
  /\ timer' = HangTime
  /\ UNCHANGED <<tx, cancel, control, dmrVars, statVars, fm>>

FinishStreamChange ==
  /\ pc = "burst" /\ UnkeySent
  /\ CallStart("dmrToFm", rx.sid)
  /\ SendMeta("call")
  /\ DeliverFrames(WithUnkey, rx.sid, FramesPerBurst)
  /\ pc' = "loop"
  /\ unkeySid' = NoStream
  /\ UNCHANGED <<state, rx, tx, timer, control, dmrVars, fm>>

FinishShutdown ==
  /\ pc = "exit" /\ UnkeySent
  /\ audioOut' = WithUnkey
  /\ pc' = "done"
  /\ cancel' = TRUE
  /\ unkeySid' = NoStream
  /\ UNCHANGED <<state, rx, tx, timer, control, dmrVars, statVars, fm>>

-----------------------------------------------------------------------------
(* Control, deadlines, shutdown. *)

\* Mutants: the reset ends no call in the statistics; it is not acted on.
ResetUnaccounted == UNCHANGED openCall
ResetIgnored ==
  /\ pc = "loop" /\ ~cancel /\ control > 0
  /\ control' = control - 1
  /\ UNCHANGED <<taskVars, timer, cancel, audioOut, dmrVars, statVars, fm>>

ResetAccounting == IF state = "Tx" THEN CallEnd("fmToDmr") ELSE UNCHANGED openCall

\* take_state leaves Idle behind whatever the state was; only a Tx call is
\* wound up.
OnNetworkReset ==
  /\ pc = "loop" /\ ~cancel /\ control > 0
  /\ control' = control - 1
  /\ state' = "Idle"
  /\ rx' = NoRx
  /\ tx' = NoTx
  /\ timer' = 0
  /\ ResetAccounting
  /\ UNCHANGED <<pc, unkeySid, cancel, audioOut, dmrVars, meta,
                 metaLost, fm>>

RxTimeout ==
  /\ AtSelect /\ Expired /\ state = "Rx"
  /\ SendMeta("clear")
  /\ CallEnd("dmrToFm")
  /\ state' = "Idle"
  /\ rx' = NoRx
  /\ pc' = "hang"
  /\ unkeySid' = rx.sid
  /\ UNCHANGED <<tx, timer, cancel, control, audioOut, dmrVars, fm>>

HangExpired ==
  /\ AtSelect /\ Expired /\ state = "RxHang"
  /\ state' = "Idle"
  /\ UNCHANGED <<rx, tx, pc, unkeySid, timer, cancel, control, audioOut,
                 dmrVars, statVars, fm>>

TxExpired ==
  /\ AtSelect /\ Expired /\ state = "Tx"
  /\ \E outcome \in FlushOutcomes :
       EndTx(outcome) /\ cancel' = (cancel \/ outcome = "panic")
  /\ UNCHANGED <<rx, pc, unkeySid, control, audioOut, netVars,
                 meta, metaLost, fm>>

OnTimeout == RxTimeout \/ HangExpired \/ TxExpired

\* Mutant: shutdown forgets the Clear.
EndRxQuietly ==
  IF state = "Rx" THEN CallEnd("dmrToFm") /\ UNCHANGED <<meta, metaLost>>
                  ELSE UNCHANGED statVars

EndRx ==
  IF state = "Rx" THEN CallEnd("dmrToFm") /\ SendMeta("clear")
                  ELSE UNCHANGED statVars

\* Leaving the loop, on cancel or because an input channel closed.
ShutdownRx ==
  /\ pc = "loop" /\ state \in {"Rx", "RxHang"}
  /\ EndRx
  /\ state' = "Idle"
  /\ rx' = NoRx
  /\ timer' = 0
  /\ pc' = "exit"
  /\ unkeySid' = rx.sid
  /\ UNCHANGED <<tx, cancel, control, audioOut, dmrVars, fm>>

ShutdownTx ==
  /\ pc = "loop" /\ state = "Tx"
  /\ \E outcome \in FlushOutcomes : EndTx(outcome)
  /\ cancel' = TRUE
  /\ pc' = "done"
  /\ UNCHANGED <<rx, unkeySid, control, audioOut, netVars, meta,
                 metaLost, fm>>

ShutdownIdle ==
  /\ pc = "loop" /\ state = "Idle"
  /\ pc' = "done"
  /\ cancel' = TRUE
  /\ UNCHANGED <<state, rx, tx, unkeySid, timer, control, audioOut, dmrVars,
                 statVars, fm>>

OnShutdown == ShutdownRx \/ ShutdownTx \/ ShutdownIdle

-----------------------------------------------------------------------------
(* The tasks around voice_task. *)

\* Time passes.
Tick ==
  /\ timer > 0
  /\ timer' = timer - 1
  /\ UNCHANGED <<taskVars, cancel, control, audioOut, dmrVars, statVars, fm>>

\* A signal, or any sibling task ending, trips the token.
Cancel ==
  /\ ~cancel
  /\ cancel' = TRUE
  /\ UNCHANGED <<taskVars, timer, control, audioOut, dmrVars, statVars, fm>>

\* usrp::tx_task sends one frame.  It polls the token first and returns on it.
FmSend ==
  /\ ~cancel /\ audioOut # <<>>
  /\ fm' = IF Head(audioOut).kind = "voice" THEN Head(audioOut).sid
                                            ELSE NoStream
  /\ audioOut' = Tail(audioOut)
  /\ UNCHANGED <<taskVars, timer, cancel, control, dmrVars, statVars>>

\* Mutant: the select between the two queues is not biased.
AnyQueueFirst == TRUE

\* keepalive_loop polls the token first, control packets before voice.
ControlFirst == dmrdControlOut = <<>>

NetSendControl ==
  /\ ~cancel /\ session = "up" /\ dmrdControlOut # <<>>
  /\ peer' = IF Head(dmrdControlOut).kind = "header"
             THEN Head(dmrdControlOut).sid ELSE NoStream
  /\ heard' = IF Head(dmrdControlOut).kind = "header"
              THEN heard \cup {Head(dmrdControlOut).sid} ELSE heard
  /\ dmrdControlOut' = Tail(dmrdControlOut)
  /\ UNCHANGED <<taskVars, timer, cancel, control, audioOut, dmrdVoiceOut,
                 session, statVars, fm>>

NetSendVoice ==
  /\ ~cancel /\ session = "up" /\ ControlFirst /\ dmrdVoiceOut # <<>>
  /\ dmrdVoiceOut' = Tail(dmrdVoiceOut)
  /\ UNCHANGED <<taskVars, timer, cancel, control, audioOut, dmrdControlOut,
                 netVars, statVars, fm>>

\* A session authenticates: both queues are drained and voice_task is told.
Connect ==
  /\ ~cancel /\ session # "up" /\ control < ControlCap
  /\ session' = "up"
  /\ peer' = NoStream
  /\ heard' = {}
  /\ dmrdVoiceOut' = <<>>
  /\ dmrdControlOut' = <<>>
  /\ control' = control + 1
  /\ UNCHANGED <<taskVars, timer, cancel, audioOut, statVars, fm>>

\* keepalive_loop fails; run() backs off before the next connect_once.
Disconnect ==
  /\ Drops /\ ~cancel /\ session = "up"
  /\ session' = "down"
  /\ UNCHANGED <<taskVars, timer, cancel, control, audioOut, dmrdVoiceOut,
                 dmrdControlOut, peer, heard, statVars, fm>>

Terminated == pc = "done" /\ UNCHANGED vars

-----------------------------------------------------------------------------
Init ==
  /\ state = "Idle" /\ rx = NoRx /\ tx = NoTx
  /\ pc = "loop" /\ unkeySid = NoStream
  /\ timer = 0 /\ cancel = FALSE /\ control = 0
  /\ audioOut = <<>> /\ dmrdVoiceOut = <<>> /\ dmrdControlOut = <<>>
  /\ meta = "clear" /\ metaLost = FALSE
  /\ openCall = [fmToDmr |-> NoStream, dmrToFm |-> NoStream]
  /\ session = "never" /\ fm = NoStream
  /\ peer = NoStream /\ heard = {}

OnAudio == KeyUp \/ BufferAudio \/ SendBurst \/ KeyDown

OnDmrd ==
  \E s \in RxStreams :
    \/ RxHeader(s)
    \/ RxTerminator(s)
    \/ \E q \in Seqs : RxVoice(s, q) \/ RxImplicitStart(s, q)
                                     \/ RxStreamChange(s, q)

Resume == FinishCall \/ FinishStreamChange \/ FinishShutdown

VoiceTask == OnAudio \/ OnDmrd \/ Resume \/ OnNetworkReset \/ OnTimeout
             \/ OnShutdown
Session == NetSendControl \/ NetSendVoice \/ Connect \/ Disconnect

Next == VoiceTask \/ FmSend \/ Session \/ Tick \/ Cancel \/ Terminated

Spec == Init /\ [][Next]_vars

\* The runtime keeps polling voice_task and tx_task, and time passes.  Nothing
\* is assumed of the inputs: frames may come for ever, or never.
Fairness ==
  /\ WF_vars(Tick)
  /\ WF_vars(OnTimeout)
  /\ WF_vars(OnNetworkReset)
  /\ WF_vars(Resume)
  /\ WF_vars(FmSend)
  /\ WF_vars(NetSendControl)
  /\ WF_vars(cancel /\ OnShutdown)

FairSpec == Spec /\ Fairness

-----------------------------------------------------------------------------
TypeOK ==
  /\ state \in {"Idle", "Rx", "RxHang", "Tx"}
  /\ rx \in RxCalls
  /\ tx \in TxCalls
  /\ pc \in {"loop", "hang", "burst", "exit", "done"}
  /\ unkeySid \in RxStreams \cup {NoStream}
  /\ timer \in Nat
  /\ cancel \in BOOLEAN
  /\ control \in Nat
  /\ audioOut \in Seq(AudioFrames)
  /\ dmrdVoiceOut \in Seq(VoicePkts)
  /\ dmrdControlOut \in Seq(ControlPkts)
  /\ meta \in {"call", "clear"} /\ metaLost \in BOOLEAN
  /\ openCall \in [{"fmToDmr", "dmrToFm"} ->
                     RxStreams \cup TxStreams \cup {NoStream}]
  /\ session \in {"never", "up", "down"}
  /\ fm \in RxStreams \cup {NoStream}
  /\ peer \in TxStreams \cup {NoStream}
  /\ heard \subseteq TxStreams

\* The calls and the control state agree: an Rx (Tx) call is held exactly in Rx
\* (Tx), a stream change is suspended in Rx, and shutdown leaves Idle behind.
CallShape ==
  /\ state = "Rx" <=> rx.sid # NoStream
  /\ state = "Tx" <=> tx.sid # NoStream
  /\ pc = "burst" => state = "Rx"
  /\ pc = "hang" => state \in {"Rx", "Idle"}
  /\ pc \in {"exit", "done"} => state = "Idle"

\* What the FM side will be keyed for once it has played everything queued.
FmTail ==
  IF audioOut = <<>> THEN fm
  ELSE IF audioOut[Len(audioOut)].kind = "voice"
       THEN audioOut[Len(audioOut)].sid ELSE NoStream

\* What the master will hold open once it has everything queued.
PeerTail ==
  IF dmrdControlOut = <<>> THEN peer
  ELSE IF dmrdControlOut[Len(dmrdControlOut)].kind = "header"
       THEN dmrdControlOut[Len(dmrdControlOut)].sid ELSE NoStream

\* The FM repeater is left keyed by nothing but a DMR call in progress: every
\* way out of Rx (terminator, stream timeout, stream change, shutdown) queues
\* an unkey behind the voice it queued before.  Once the token is cancelled
\* tx_task is gone and a full channel swallows the unkey.
FmKeyedOnlyInRx ==
  FmTail # NoStream => state = "Rx" \/ pc \in {"hang", "exit"} \/ cancel

\* A Tx call is open in the statistics exactly while the machine is in Tx:
\* unkey, tx_timeout, session reset and shutdown each emit one CallEnd.
TxAccounted == openCall.fmToDmr = IF state = "Tx" THEN tx.sid ELSE NoStream

\* An Rx call is open in the statistics exactly while the machine receives it;
\* it is closed before the unkey that ends it is awaited, and a stream change
\* reopens it only after the old stream's unkey.
RxAccounted ==
  openCall.dmrToFm = IF state = "Rx" /\ pc = "loop" THEN rx.sid ELSE NoStream

\* Unless an event was dropped on a full channel, the FM side shows caller
\* metadata exactly while a call is received, never after its end.
MetaFollowsCall ==
  ~metaLost => (meta = "call" <=> state = "Rx" /\ pc # "hang")

\* The place of a packet among all that its call has numbered, the header's
\* number 0 aside: the 8-bit sequence number, unwrapped.
Ordinal(p) == p.laps * SeqMod + p.seq - 1
InCadence(p) == p.vseq = Ordinal(p) % SuperframeLen

\* Bursts lost to encode errors or a full queue do not disturb the superframe
\* cadence: in every burst queued for a call, and the next one to be built, vseq
\* is where the sequence number says it is, however often that has wrapped.  (A
\* receiver that only has the number modulo 256 cannot tell: 256 is not a
\* multiple of the superframe.)
CadenceFollowsSeq ==
  /\ tx.sid # NoStream => InCadence(tx)
  /\ \A i \in DOMAIN dmrdVoiceOut : InCadence(dmrdVoiceOut[i])

\* The master sees calls as header, terminator, header, terminator of one
\* stream at a time, across lost sessions too: a call cut off by a reset never
\* sends its terminator on the next session.
CallControlFramed ==
  [][NetSendControl =>
       LET p == Head(dmrdControlOut) IN
       peer = IF p.kind = "header" THEN NoStream ELSE p.sid]_vars

\* No voice reaches a session that has not been sent the header of its call:
\* not before the header, and never from a call started on an older session.
VoiceAnnounced ==
  [][NetSendVoice => Head(dmrdVoiceOut).sid \in heard]_vars

\* A stream change surfaces to the FM side as an unkey between the two streams.
StreamChangeUnkeys ==
  [][fm' # fm => NoStream \in {fm, fm'}]_vars

\* tx_timeout bounds every Tx call, however long the FM side stays keyed.
TxEnds == state = "Tx" ~> state # "Tx"

\* When inbound DMRD stops for good, terminator lost or not, the FM side is
\* unkeyed for good, or the bridge is shutting down.
SilenceUnkeys == <>[][~OnDmrd]_vars => <>[](fm = NoStream \/ cancel)

\* Once cancelled, voice_task returns: no full channel holds its last unkey.
ShutdownEnds == cancel ~> pc = "done"

\* The machine and its queues implement half-duplex floor control: a handler
\* suspended on its unkey still has the floor, and each line is judged by what
\* it will carry once its queue is played out.
Floor ==
  IF cancel \/ pc \in {"exit", "done"} THEN "over"
  ELSE IF pc = "hang" THEN "dmr"
  ELSE CASE state = "Idle"   -> "free"
         [] state = "Rx"     -> "dmr"
         [] state = "RxHang" -> "hang"
         [] state = "Tx"     -> "fm"

HD == INSTANCE HalfDuplex
        WITH floor <- Floor, fmLine <- FmTail, dmrLine <- PeerTail

ImplementsHalfDuplex == HD!Spec
=============================================================================
