-------------------------------- MODULE UsrpTx --------------------------------
(***************************************************************************)
(* DMR voice on its way out of the bridge: usrp::tx_task (bridge/src/      *)
(* usrp.rs), which paces the frames of audio_tx to the FM repeater, fed by *)
(* a DMR call over a network that delays and loses its packets.  Of        *)
(* PttMachine only what decides when frames and unkeys enter the queue is  *)
(* here; Ptt has the rest.                                                 *)
(*                                                                         *)
(* A tick is VOICE_FRAME_INTERVAL (20 ms), the duration of a voice frame.  *)
(* A keying is the voice between two unkeys.  PttMachine unkeys after each *)
(* call but two: one whose stream gives way to another by a voice header,  *)
(* and one cut off by a session reset.  The call after those joins the     *)
(* keying that is left.                                                    *)
(***************************************************************************)
EXTENDS Integers, Sequences

CONSTANTS
  Streams, NoStream,  \* stream ids of calls, and Option::None
  FramesPerBurst,     \* FRAMES_PER_BURST (3)
  GapBoundary,        \* GAP_BOUNDARY_PACKETS (3)
  AudioCap,           \* capacity of audio_tx (64)
  StreamTimeout,      \* VoiceConfig.stream_timeout, in ticks
  MaxDelayed,         \* bursts the network may hold back at a time
  MaxLost,            \* bursts in a row it may lose
  MaxBursts,          \* bursts of a call
  MaxStarved,         \* ticks of a keying the repeater has nothing to play
  MayCancel           \* the bridge may be shut down

ASSUME StreamAssumption == NoStream \notin Streams

ASSUME SizeAssumption ==
  /\ FramesPerBurst \in Nat \ {0} /\ GapBoundary \in Nat
  /\ AudioCap \in Nat \ {0} /\ StreamTimeout \in Nat \ {0}
  /\ MaxDelayed \in Nat \ {0} /\ MaxLost \in Nat
  /\ MaxBursts \in Nat /\ MaxStarved \in Nat /\ MayCancel \in BOOLEAN

VARIABLES
  air,       \* the stream on the air, or the last one
  talking,   \* its talker still talks
  said,      \* bursts it has sent
  nextBurst, \* ticks to the talker's next burst
  header,    \* its voice header is still to come
  delayed,   \* bursts of it the network holds
  gap,       \* bursts it lost since the last one it delivered
  owed,      \* the terminator is still to come
  rx,        \* the stream PttMachine receives
  counting,  \* its last_seq is Some
  timer,     \* ticks to its stream timeout
  joined,    \* history: its call joined the keying of the one before
  keyed,     \* history: voice was queued, and no unkey since
  audioOut,  \* audio_tx: AudioFrames
  pc,        \* tx_task: select, sleep (holding a voice frame) or done
  held,      \* the frame it holds
  anchored,  \* next_voice_send is Some
  due,       \* ticks to next_voice_send, negative when it has passed
  play,      \* history: ticks of this keying's voice the repeater has left
  starved,   \* history: ticks of this keying it had nothing to play
  current,   \* current_dmr_stream_id, the recorder's too
  hadVoice,  \* had_voice_in_call
  mixed,     \* history: what is in the recorder, the levels and the AGC
  cancel     \* the CancellationToken

airVars == <<air, talking, said, nextBurst, header, delayed, gap, owed>>
pttVars == <<rx, counting, timer, joined, keyed>>
callVars == <<current, hadVoice, mixed>>
repeaterVars == <<play, starved>>
paceVars == <<anchored, due, repeaterVars>>
txVars == <<pc, held, paceVars, callVars>>
vars == <<airVars, pttVars, audioOut, txVars, cancel>>

\* A frame with no stream is an unkey; `joined' is the history of its call.
AudioFrames == [stream : Streams \cup {NoStream}, joined : BOOLEAN]
UnkeyFrame == [stream |-> NoStream, joined |-> FALSE]
IsVoice(f) == f.stream # NoStream

-----------------------------------------------------------------------------
(* The talker and the network. *)

BurstTicks == FramesPerBurst

StartTalking(s) ==
  /\ ~talking /\ ~header /\ delayed = 0 /\ ~owed /\ s \notin {air, rx}
  /\ air' = s /\ talking' = TRUE /\ header' = TRUE /\ said' = 0 /\ nextBurst' = 0
  /\ UNCHANGED <<delayed, gap, owed, pttVars, audioOut, txVars, cancel>>

Burst ==
  /\ talking /\ nextBurst = 0 /\ delayed < MaxDelayed /\ said < MaxBursts
  /\ nextBurst' = BurstTicks /\ delayed' = delayed + 1 /\ said' = said + 1
  /\ UNCHANGED <<air, talking, header, gap, owed, pttVars, audioOut, txVars,
                 cancel>>

StopTalking ==
  /\ talking /\ nextBurst = 0
  /\ talking' = FALSE /\ owed' = TRUE
  /\ UNCHANGED <<air, said, nextBurst, header, delayed, gap, pttVars, audioOut,
                 txVars, cancel>>

LoseHeader ==
  /\ header /\ header' = FALSE
  /\ UNCHANGED <<air, talking, said, nextBurst, delayed, gap, owed, pttVars,
                 audioOut, txVars, cancel>>

LoseBurst ==
  /\ ~header /\ delayed > 0 /\ gap < MaxLost
  /\ delayed' = delayed - 1 /\ gap' = gap + 1
  /\ UNCHANGED <<air, talking, said, nextBurst, header, owed, pttVars, audioOut,
                 txVars, cancel>>

LoseTerminator ==
  /\ ~header /\ owed /\ delayed = 0
  /\ owed' = FALSE /\ gap' = 0
  /\ UNCHANGED <<air, talking, said, nextBurst, header, delayed, pttVars,
                 audioOut, txVars, cancel>>

-----------------------------------------------------------------------------
(* PttMachine. *)

\* The burst, and one more for each lost one before it: unless too many were, or
\* no voice of the call came before.
FramesDelivered ==
  FramesPerBurst *
    (1 + IF rx = air /\ counting /\ gap <= GapBoundary THEN gap ELSE 0)

Frames(f, n) == [i \in 1 .. n |-> f]

\* The stream PttMachine receives gives way to another by its voice: its unkey
\* goes first, and waits for room in the queue.
Unkey == IF rx \in {air, NoStream} THEN <<>> ELSE <<UnkeyFrame>>

\* A call of a stream PttMachine does not receive joins the keying, if no unkey
\* ended it.
Joins == IF rx = air THEN joined ELSE Unkey = <<>> /\ keyed

DeliverBurst ==
  /\ ~header /\ delayed > 0 /\ ~cancel
  /\ Len(audioOut) + Len(Unkey) <= AudioCap
  /\ LET queue == audioOut \o Unkey
         fits == Len(queue) + FramesDelivered <= AudioCap
         voice == Frames([stream |-> air, joined |-> Joins], FramesDelivered)
     IN /\ audioOut' = IF fits THEN queue \o voice ELSE queue
        /\ keyed' = (fits \/ (keyed /\ Unkey = <<>>))
  /\ rx' = air /\ counting' = TRUE /\ timer' = StreamTimeout /\ joined' = Joins
  /\ delayed' = delayed - 1 /\ gap' = 0
  /\ UNCHANGED <<air, talking, said, nextBurst, header, owed, txVars, cancel>>

\* A voice header replaces the call, if there is one; nothing is unkeyed.
DeliverHeader ==
  /\ header /\ ~cancel
  /\ header' = FALSE
  /\ IF rx = air THEN UNCHANGED pttVars
     ELSE /\ rx' = air /\ counting' = FALSE /\ timer' = StreamTimeout
          /\ joined' = keyed /\ UNCHANGED keyed
  /\ UNCHANGED <<air, talking, said, nextBurst, delayed, gap, owed, audioOut,
                 txVars, cancel>>

\* The call ends by its terminator or its timeout: an unkey, when there is room.
EndCall ==
  /\ rx # NoStream /\ Len(audioOut) < AudioCap
  /\ audioOut' = Append(audioOut, UnkeyFrame)
  /\ rx' = NoStream /\ counting' = FALSE /\ timer' = 0
  /\ joined' = FALSE /\ keyed' = FALSE

DeliverTerminator ==
  /\ ~header /\ owed /\ delayed = 0 /\ ~cancel
  /\ IF rx = air THEN EndCall ELSE UNCHANGED <<pttVars, audioOut>>
  /\ owed' = FALSE /\ gap' = 0
  /\ UNCHANGED <<air, talking, said, nextBurst, header, delayed, txVars, cancel>>

StreamTimesOut ==
  /\ timer = 0 /\ ~cancel
  /\ EndCall
  /\ UNCHANGED <<airVars, txVars, cancel>>

\* A NetworkReset: take_state drops the call, and no unkey follows.
Reset ==
  /\ rx # NoStream /\ ~cancel
  /\ rx' = NoStream /\ counting' = FALSE /\ timer' = 0 /\ joined' = FALSE
  /\ UNCHANGED <<airVars, keyed, audioOut, txVars, cancel>>

PttMachine ==
  DeliverBurst \/ DeliverHeader \/ DeliverTerminator \/ StreamTimesOut \/ Reset

-----------------------------------------------------------------------------
(* tx_task. *)

\* Mutant: the schedule starts over from a late frame.
ReanchoredOnNow(base) ==
  anchored' = TRUE /\ due' = IF base < 0 THEN 1 ELSE base + 1

\* The next frame is due one interval after this one was, not after it went.
Schedule(base) == anchored' = TRUE /\ due' = base + 1

\* Send a voice frame that was due `base' ticks from now.
EmitVoice(f, base) ==
  /\ Schedule(base)
  /\ play' = play + 1 /\ UNCHANGED starved
  /\ current' = IF hadVoice THEN current ELSE f.stream
  /\ hadVoice' = TRUE
  /\ mixed' = mixed \cup {f}

\* Mutant: the summary is logged, but the call not closed.
SummariseOnly == UNCHANGED callVars

\* finalize_agc_out_call, and the AGC's reset.
Finalize == current' = NoStream /\ hadVoice' = FALSE /\ mixed' = {}

AtSelect == pc = "select" /\ ~cancel /\ audioOut # <<>>

\* Mutant: frames go out as they come.
NeverEarly == FALSE

Early == anchored /\ due > 0

TakeVoice ==
  /\ AtSelect /\ IsVoice(Head(audioOut))
  /\ audioOut' = Tail(audioOut)
  /\ IF Early
     THEN /\ pc' = "sleep" /\ held' = Head(audioOut)
          /\ UNCHANGED <<paceVars, callVars>>
     ELSE /\ EmitVoice(Head(audioOut), due)
          /\ UNCHANGED <<pc, held>>
  /\ UNCHANGED <<airVars, pttVars, cancel>>

WakeUp ==
  /\ pc = "sleep" /\ ~cancel /\ due <= 0
  /\ EmitVoice(held, due)
  /\ pc' = "select" /\ held' = UnkeyFrame
  /\ UNCHANGED <<airVars, pttVars, audioOut, cancel>>

TakeUnkey ==
  /\ AtSelect /\ ~IsVoice(Head(audioOut))
  /\ audioOut' = Tail(audioOut)
  /\ anchored' = FALSE /\ due' = 0 /\ play' = 0 /\ starved' = 0
  /\ Finalize
  /\ UNCHANGED <<airVars, pttVars, pc, held, cancel>>

Stopping == cancel /\ pc # "done"

\* Mutant: the call is closed, but the loop goes on.
StopGoesOn ==
  /\ Stopping
  /\ Finalize
  /\ UNCHANGED <<airVars, pttVars, audioOut, paceVars, pc, held, cancel>>

\* The token is looked at first, at the select and in the sleep.
Stop ==
  /\ Stopping
  /\ pc' = "done" /\ held' = UnkeyFrame
  /\ Finalize
  /\ UNCHANGED <<airVars, pttVars, audioOut, paceVars, cancel>>

TxTask == TakeVoice \/ WakeUp \/ TakeUnkey \/ Stop

-----------------------------------------------------------------------------
(* Time and the token. *)

Cancel ==
  /\ MayCancel /\ ~cancel
  /\ cancel' = TRUE
  /\ UNCHANGED <<airVars, pttVars, audioOut, txVars>>

Down(n) == IF n > 0 THEN n - 1 ELSE 0

\* tx_task and PttMachine have nothing to do, and no burst is to go out.
Quiescent ==
  /\ \/ pc = "sleep" /\ due > 0
     \/ pc = "select" /\ audioOut = <<>>
  /\ ~(rx # NoStream /\ timer = 0)
  /\ ~(talking /\ nextBurst = 0)

\* The repeater plays what it has; the first voice of a keying starts its clock.
Playing ==
  IF anchored
  THEN /\ play > 0 \/ starved < MaxStarved
       /\ due' = due - 1 /\ play' = Down(play)
       /\ starved' = starved + IF play = 0 THEN 1 ELSE 0
  ELSE UNCHANGED <<due, repeaterVars>>

Tick ==
  /\ ~cancel /\ Quiescent
  /\ nextBurst' = Down(nextBurst)
  /\ timer' = Down(timer)
  /\ Playing
  /\ UNCHANGED <<air, talking, said, header, delayed, gap, owed, rx, counting,
                 joined, keyed, audioOut, pc, held, anchored, callVars, cancel>>

Terminated == pc = "done" /\ UNCHANGED vars

-----------------------------------------------------------------------------
Init ==
  /\ air = NoStream /\ talking = FALSE /\ said = 0 /\ nextBurst = 0
  /\ header = FALSE /\ delayed = 0 /\ gap = 0 /\ owed = FALSE
  /\ rx = NoStream /\ counting = FALSE /\ timer = 0
  /\ joined = FALSE /\ keyed = FALSE
  /\ audioOut = <<>> /\ pc = "select" /\ held = UnkeyFrame
  /\ anchored = FALSE /\ due = 0 /\ play = 0 /\ starved = 0
  /\ current = NoStream /\ hadVoice = FALSE /\ mixed = {}
  /\ cancel = FALSE

Air ==
  \/ \E s \in Streams : StartTalking(s)
  \/ Burst \/ StopTalking \/ LoseHeader \/ LoseBurst \/ LoseTerminator

Next == Air \/ PttMachine \/ TxTask \/ Cancel \/ Tick \/ Terminated

Spec == Init /\ [][Next]_vars

\* The runtime keeps polling tx_task.
FairSpec == Spec /\ WF_vars(TxTask)

-----------------------------------------------------------------------------
\* Types; a frame is held only while tx_task sleeps on it, and a call has a
\* stream id from its first voice frame to its close.
TypeOK ==
  /\ air \in Streams \cup {NoStream} /\ talking \in BOOLEAN
  /\ said \in 0 .. MaxBursts /\ header \in BOOLEAN
  /\ nextBurst \in 0 .. BurstTicks /\ delayed \in 0 .. MaxDelayed
  /\ gap \in 0 .. MaxLost /\ owed \in BOOLEAN
  /\ rx \in Streams \cup {NoStream} /\ counting \in BOOLEAN
  /\ timer \in 0 .. StreamTimeout /\ joined \in BOOLEAN /\ keyed \in BOOLEAN
  /\ audioOut \in Seq(AudioFrames) /\ Len(audioOut) <= AudioCap
  /\ pc \in {"select", "sleep", "done"} /\ held \in AudioFrames
  /\ anchored \in BOOLEAN /\ due \in Int
  /\ play \in Nat /\ starved \in 0 .. MaxStarved
  /\ current \in Streams \cup {NoStream} /\ hadVoice \in BOOLEAN
  /\ mixed \subseteq AudioFrames /\ cancel \in BOOLEAN
  /\ (pc = "sleep" <=> IsVoice(held))
  /\ (hadVoice <=> current # NoStream)

\* Voice is sent ahead of real time only to make up for silence: the repeater
\* never has more of it in hand than one frame and as many as the ticks it went
\* without in this keying.  (Late frames do leave together, usrp.rs:249-251.)
AheadOnlyOfSilence == play <= 1 + starved

\* Lateness does not accumulate: a frame is held back only while the repeater
\* has more in hand than it went without, and never for the delay some earlier
\* frame came with.
NoDrift ==
  [][Tick /\ (pc = "sleep" \/ audioOut # <<>>) => play > starved]_vars

\* A recording, its levels and the gain control hold one call and are named
\* after it, but for calls that joined a keying: late bursts of a call never end
\* up in the next one's, and where PttMachine unkeys it, it is closed.
CallsKeptApart == \A f \in mixed : ~f.joined => f.stream = current

\* tx_task returns on the token, asleep or not.
Stops == cancel ~> pc = "done"
=============================================================================
