----------------------------- MODULE PttProofs -----------------------------
(***************************************************************************)
(* Proofs about Ptt for every value of its constants: any channel          *)
(* capacities, timeouts, burst size, sequence modulus, gateway mode, and   *)
(* any set of streams.  The first half is about the machine's own state.   *)
(* The second is about calls, the floor and what the DMR master receives:  *)
(* every FM -> DMR call is closed in the statistics as often as it is      *)
(* opened; and, as long as no session reset is taken in Rx, so is every    *)
(* DMR -> FM call, a caller is shown on the FM side exactly while one is   *)
(* received, it is keyed by nothing but a call in progress, and the        *)
(* machine with its queues implements HalfDuplex.  Across lost sessions    *)
(* and resets, headers and terminators are framed call by call, there is   *)
(* no voice of a call the master was not told of, and bursts keep the      *)
(* superframe cadence.  The machine's sessions are those Link allows.       *)
(***************************************************************************)
EXTENDS Ptt, SequenceTheorems, TLAPS

\* TypeOK alone is not inductive: that the stream a suspended handler unkeys is
\* an Rx stream needs the call to be there, which is CallShape.
IInv == TypeOK /\ CallShape

-----------------------------------------------------------------------------
(* The operators the actions are built from. *)

LEMMA ModSeqs == \A n \in Int : n % SeqMod \in Seqs
BY SizeAssumption DEF Seqs

LEMMA ZeroSeqs == 0 \in Seqs
BY SizeAssumption DEF Seqs

\* Neither Option is Some when it is NoRx or NoTx.
LEMMA NoCalls ==
  /\ NoRx \in RxCalls /\ NoRx.sid = NoStream
  /\ NoTx \in TxCalls /\ NoTx.sid = NoStream
<1>1. NoRx \in RxCalls /\ NoRx.sid = NoStream
  BY DEF NoRx, RxCalls
<1>2. 0 \in 0 .. FramesPerBurst - 1 /\ 0 \in 0 .. SuperframeLen - 1
  BY SizeAssumption DEF SuperframeLen
<1>3. NoTx \in TxCalls /\ NoTx.sid = NoStream
  BY <1>2, ZeroSeqs DEF NoTx, TxCalls, Laps
<1>4. QED
  BY <1>1, <1>3

\* Building a burst keeps the sequence state in range, the call its stream and
\* its samples.
LEMMA AfterBurstType ==
  ASSUME NEW t \in TxCalls, NEW o
  PROVE  /\ AfterBurst(t, o) \in TxCalls
         /\ AfterBurst(t, o).sid = t.sid
<1>1. (t.seq + 1) % SeqMod \in Seqs
  <2>1. t.seq + 1 \in Int
    BY DEF TxCalls, Seqs
  <2>2. QED
    BY <2>1, ModSeqs
<1>2. (t.vseq + 1) % SuperframeLen \in 0 .. SuperframeLen - 1
  BY DEF TxCalls, SuperframeLen
<1>3. NextLaps(t) \in 0 .. Laps - 1
  BY DEF NextLaps, TxCalls, Laps
<1>4. Advance(t) \in TxCalls /\ Advance(t).sid = t.sid
  BY <1>1, <1>2, <1>3 DEF Advance, TxCalls
<1>5. QED
  BY <1>4 DEF AfterBurst

\* Trying to queue a burst of a call in progress keeps the queue well typed.
LEMMA QueueBurstType ==
  ASSUME TypeOK, tx.sid # NoStream, NEW o, QueueBurst(tx, o)
  PROVE  dmrdVoiceOut' \in Seq(VoicePkts)
<1>1. VoicePkt(tx) \in VoicePkts
  BY DEF TypeOK, VoicePkt, VoicePkts, TxCalls
<1>2. QED
  BY <1>1, AppendProperties DEF TypeOK, QueueBurst

\* DeliverFrames leaves in the FM queue what it found there and voice of one
\* stream behind it.
LEMMA DeliverFramesType ==
  ASSUME TypeOK, NEW q \in Seq(AudioFrames), NEW s \in RxStreams,
         NEW total \in Nat, DeliverFrames(q, s, total)
  PROVE  /\ audioOut' \in Seq(AudioFrames)
         /\ cancel' \in BOOLEAN
         /\ cancel => cancel'
<1>1. CASE Len(q) + total > AudioCap
  BY <1>1 DEF DeliverFrames, TypeOK
<1>2. CASE ~(Len(q) + total > AudioCap)
  <2>1. PICK n \in IF cancel THEN {0} ELSE 0 .. total :
          /\ audioOut' = q \o [i \in 1 .. n |-> Voice(s)]
          /\ IF n = total THEN UNCHANGED cancel ELSE cancel' \in {cancel, TRUE}
    BY <1>2 DEF DeliverFrames
  <2>2. [i \in 1 .. n |-> Voice(s)] \in Seq(AudioFrames)
    <3>1. n \in Nat
      BY <2>1
    <3>2. Voice(s) \in AudioFrames
      BY DEF Voice, AudioFrames
    <3>3. [i \in 1 .. n |-> Voice(s)] \in [1 .. n -> AudioFrames]
      BY <3>2
    <3>4. QED
      BY <3>1, <3>3
  <2>3. audioOut' \in Seq(AudioFrames)
    BY <2>1, <2>2, ConcatProperties
  <2>4. QED
    BY <2>1, <2>3 DEF TypeOK
<1>3. QED
  BY <1>1, <1>2

\* A packet is at most GapBoundary packets' worth of catching up.
LEMMA BurstFramesType ==
  ASSUME NEW d \in Seqs
  PROVE  BurstFrames(d) \in Nat
<1> DEFINE gap == IF 1 <= d /\ d < SeqMod \div 2 THEN d ELSE 0
<1>1. gap \in Nat
  BY SizeAssumption DEF Seqs
<1>2. FramesPerBurst * (1 + gap) \in Nat
  BY <1>1, SizeAssumption
<1>3. QED
  BY <1>2, SizeAssumption DEF BurstFrames

\* The unkey of a suspended handler goes behind what is queued, if it fits.
LEMMA WithUnkeyType ==
  ASSUME TypeOK
  PROVE  WithUnkey \in Seq(AudioFrames)
<1>1. Unkey(unkeySid) \in AudioFrames
  BY DEF TypeOK, Unkey, AudioFrames
<1>2. QED
  BY <1>1, AppendProperties DEF TypeOK, WithUnkey

LEMMA CallStartType ==
  ASSUME TypeOK, NEW dir \in {"fmToDmr", "dmrToFm"},
         NEW s \in RxStreams \cup TxStreams \cup {NoStream}
  PROVE  /\ CallStart(dir, s) =>
              openCall' \in [{"fmToDmr", "dmrToFm"} ->
                               RxStreams \cup TxStreams \cup {NoStream}]
         /\ CallEnd(dir) =>
              openCall' \in [{"fmToDmr", "dmrToFm"} ->
                               RxStreams \cup TxStreams \cup {NoStream}]
BY DEF TypeOK, CallStart, CallEnd

LEMMA SendMetaType ==
  ASSUME TypeOK, NEW e \in {"call", "clear"}, SendMeta(e)
  PROVE  meta' \in {"call", "clear"} /\ metaLost' \in BOOLEAN
BY DEF TypeOK, SendMeta

-----------------------------------------------------------------------------
(* IInv holds initially and is kept by every action. *)

LEMMA InitIInv == Init => IInv
<1> SUFFICES ASSUME Init PROVE IInv
  OBVIOUS
<1>1. [fmToDmr |-> NoStream, dmrToFm |-> NoStream]
        \in [{"fmToDmr", "dmrToFm"} ->
               RxStreams \cup TxStreams \cup {NoStream}]
  OBVIOUS
<1>2. TypeOK
  <2>1. rx \in RxCalls /\ tx \in TxCalls
    BY NoCalls DEF Init
  <2>2. openCall \in [{"fmToDmr", "dmrToFm"} ->
                        RxStreams \cup TxStreams \cup {NoStream}]
    BY <1>1 DEF Init
  <2>3. /\ audioOut \in Seq(AudioFrames)
        /\ dmrdVoiceOut \in Seq(VoicePkts)
        /\ dmrdControlOut \in Seq(ControlPkts)
    BY DEF Init
  <2>4. QED
    BY <2>1, <2>2, <2>3 DEF Init, TypeOK
<1>3. CallShape
  BY NoCalls DEF Init, CallShape
<1>4. QED
  BY <1>2, <1>3 DEF IInv

\* The call flush_tx and the terminator end.
LEMMA EndTxKeeps ==
  ASSUME IInv, tx.sid # NoStream, NEW o, EndTx(o)
  PROVE  /\ dmrdVoiceOut' \in Seq(VoicePkts)
         /\ dmrdControlOut' \in Seq(ControlPkts)
         /\ state' = "Idle" /\ tx' = NoTx /\ timer' = 0
         /\ openCall' \in [{"fmToDmr", "dmrToFm"} ->
                             RxStreams \cup TxStreams \cup {NoStream}]
<1>1. dmrdVoiceOut' \in Seq(VoicePkts)
  BY QueueBurstType DEF IInv, EndTx
<1>2. Terminator(AfterBurst(tx, o)) \in ControlPkts
  BY AfterBurstType DEF IInv, TypeOK, Terminator, ControlPkts, TxCalls
<1>3. dmrdControlOut' \in Seq(ControlPkts)
  BY <1>2, AppendProperties DEF IInv, TypeOK, EndTx
<1>4. QED
  BY <1>1, <1>3, CallStartType DEF IInv, EndTx

LEMMA KeyUpIInv == IInv /\ KeyUp => IInv'
<1> SUFFICES ASSUME IInv, KeyUp PROVE IInv'
  OBVIOUS
<1>1. PICK s \in FreshStreams :
        LET t == [NoTx EXCEPT !.sid = s] IN
        /\ dmrdControlOut' = Append(dmrdControlOut, Header(t))
        /\ tx' = [t EXCEPT !.seq = 1 % SeqMod, !.buf = 1]
        /\ CallStart("fmToDmr", s)
  BY DEF KeyUp
<1> DEFINE t == [NoTx EXCEPT !.sid = s]
<1>2. s \in TxStreams /\ s # NoStream
  BY StreamAssumption DEF FreshStreams
<1>3. t \in TxCalls /\ t.sid = s
  BY <1>2, NoCalls DEF TxCalls
<1>4. Header(t) \in ControlPkts
  BY <1>2, <1>3 DEF Header, ControlPkts, TxCalls
<1>5. dmrdControlOut' \in Seq(ControlPkts)
  BY <1>1, <1>4, AppendProperties DEF IInv, TypeOK
<1>6. tx' \in TxCalls /\ tx'.sid = s
  <2>1. 1 % SeqMod \in Seqs
    BY ModSeqs
  <2>2. 1 \in 0 .. FramesPerBurst - 1
    BY SizeAssumption
  <2>3. QED
    BY <1>1, <1>3, <2>1, <2>2 DEF TxCalls
<1>7. openCall' \in [{"fmToDmr", "dmrToFm"} ->
                       RxStreams \cup TxStreams \cup {NoStream}]
  BY <1>1, <1>2, CallStartType DEF IInv
<1>8. TypeOK'
  BY <1>5, <1>6, <1>7, TimeAssumption DEF IInv, TypeOK, KeyUp, netVars
<1>9. CallShape'
  BY <1>2, <1>6 DEF IInv, CallShape, KeyUp, MayKeyUp, AtInput, AtSelect
<1>10. QED
  BY <1>8, <1>9 DEF IInv

LEMMA BufferAudioIInv == IInv /\ BufferAudio => IInv'
<1> SUFFICES ASSUME IInv, BufferAudio PROVE IInv'
  OBVIOUS
<1>1. tx' \in TxCalls /\ tx'.sid = tx.sid
  <2>1. tx \in TxCalls
    BY DEF IInv, TypeOK
  <2>2. tx.buf + 1 \in 0 .. FramesPerBurst - 1
    BY <2>1, SizeAssumption DEF BufferAudio, TxCalls
  <2>3. QED
    BY <2>1, <2>2 DEF BufferAudio, TxCalls
<1>2. TypeOK'
  BY <1>1 DEF IInv, TypeOK, BufferAudio, dmrVars, netVars, statVars
<1>3. CallShape'
  BY <1>1 DEF IInv, CallShape, BufferAudio
<1>4. QED
  BY <1>2, <1>3 DEF IInv

LEMMA SendBurstIInv == IInv /\ SendBurst => IInv'
<1> SUFFICES ASSUME IInv, SendBurst PROVE IInv'
  OBVIOUS
<1>1. PICK o \in Outcomes :
        /\ QueueBurst(tx, o)
        /\ cancel' = (cancel \/ o = "panic")
        /\ tx' = [AfterBurst(tx, o) EXCEPT !.buf = 0]
  BY DEF SendBurst
<1>2. tx.sid # NoStream
  BY DEF IInv, CallShape, SendBurst
<1>3. dmrdVoiceOut' \in Seq(VoicePkts)
  BY <1>1, <1>2, QueueBurstType DEF IInv
<1>4. tx' \in TxCalls /\ tx'.sid = tx.sid
  <2>1. /\ AfterBurst(tx, o) \in TxCalls
        /\ AfterBurst(tx, o).sid = tx.sid
    BY AfterBurstType DEF IInv, TypeOK
  <2>2. 0 \in 0 .. FramesPerBurst - 1
    BY SizeAssumption
  <2>3. QED
    BY <1>1, <2>1, <2>2 DEF TxCalls
<1>5. cancel' \in BOOLEAN
  BY <1>1
<1>6. TypeOK'
  BY <1>3, <1>4, <1>5 DEF IInv, TypeOK, SendBurst, netVars, statVars
<1>7. CallShape'
  BY <1>4 DEF IInv, CallShape, SendBurst
<1>8. QED
  BY <1>6, <1>7 DEF IInv

LEMMA KeyDownIInv == IInv /\ KeyDown => IInv'
<1> SUFFICES ASSUME IInv, KeyDown PROVE IInv'
  OBVIOUS
<1>1. PICK o \in FlushOutcomes :
        EndTx(o) /\ cancel' = (cancel \/ o = "panic")
  BY DEF KeyDown
<1>2. tx.sid # NoStream /\ state = "Tx" /\ pc = "loop"
  BY DEF IInv, CallShape, KeyDown, AtInput, AtSelect
<1>3. cancel' \in BOOLEAN
  BY <1>1
<1>4. TypeOK'
  BY <1>1, <1>2, <1>3, EndTxKeeps, NoCalls DEF IInv, TypeOK, KeyDown, netVars
<1>5. CallShape'
  BY <1>1, <1>2, EndTxKeeps, NoCalls DEF IInv, CallShape, KeyDown
<1>6. QED
  BY <1>4, <1>5 DEF IInv

LEMMA TxExpiredIInv == IInv /\ TxExpired => IInv'
<1> SUFFICES ASSUME IInv, TxExpired PROVE IInv'
  OBVIOUS
<1>1. PICK o \in FlushOutcomes :
        EndTx(o) /\ cancel' = (cancel \/ o = "panic")
  BY DEF TxExpired
<1>2. tx.sid # NoStream /\ state = "Tx" /\ pc = "loop"
  BY DEF IInv, CallShape, TxExpired, AtSelect
<1>3. cancel' \in BOOLEAN
  BY <1>1
<1>4. TypeOK'
  BY <1>1, <1>2, <1>3, EndTxKeeps, NoCalls DEF IInv, TypeOK, TxExpired, netVars
<1>5. CallShape'
  BY <1>1, <1>2, EndTxKeeps, NoCalls DEF IInv, CallShape, TxExpired
<1>6. QED
  BY <1>4, <1>5 DEF IInv

LEMMA ShutdownTxIInv == IInv /\ ShutdownTx => IInv'
<1> SUFFICES ASSUME IInv, ShutdownTx PROVE IInv'
  OBVIOUS
<1>1. PICK o \in FlushOutcomes : EndTx(o)
  BY DEF ShutdownTx
<1>2. tx.sid # NoStream
  BY DEF IInv, CallShape, ShutdownTx
<1>3. TypeOK'
  BY <1>1, <1>2, EndTxKeeps, NoCalls DEF IInv, TypeOK, ShutdownTx, netVars
<1>4. CallShape'
  BY <1>1, <1>2, EndTxKeeps, NoCalls DEF IInv, CallShape, ShutdownTx
<1>5. QED
  BY <1>3, <1>4 DEF IInv

\* Every handler of an inbound packet.
LEMMA RxHeaderIInv == ASSUME NEW s \in RxStreams PROVE IInv /\ RxHeader(s) => IInv'
<1> SUFFICES ASSUME IInv, RxHeader(s) PROVE IInv'
  OBVIOUS
<1>1. rx' \in RxCalls /\ rx'.sid = s /\ s # NoStream
  BY StreamAssumption DEF RxHeader, RxCalls
<1>2. openCall' \in [{"fmToDmr", "dmrToFm"} ->
                       RxStreams \cup TxStreams \cup {NoStream}]
  BY CallStartType DEF IInv, RxHeader
<1>3. meta' \in {"call", "clear"} /\ metaLost' \in BOOLEAN
  BY SendMetaType DEF IInv, RxHeader
<1>4. TypeOK'
  BY <1>1, <1>2, <1>3, TimeAssumption
     DEF IInv, TypeOK, RxHeader, dmrVars, netVars
<1>5. CallShape'
  BY <1>1 DEF IInv, CallShape, RxHeader, FromNet, AtInput, AtSelect
<1>6. QED
  BY <1>4, <1>5 DEF IInv

LEMMA RxTerminatorIInv ==
  ASSUME NEW s \in RxStreams PROVE IInv /\ RxTerminator(s) => IInv'
<1> SUFFICES ASSUME IInv, RxTerminator(s) PROVE IInv'
  OBVIOUS
<1>1. openCall' \in [{"fmToDmr", "dmrToFm"} ->
                       RxStreams \cup TxStreams \cup {NoStream}]
  BY CallStartType DEF IInv, RxTerminator
<1>2. meta' \in {"call", "clear"} /\ metaLost' \in BOOLEAN
  BY SendMetaType DEF IInv, RxTerminator
<1>3. TypeOK'
  BY <1>1, <1>2 DEF IInv, TypeOK, RxTerminator, dmrVars, netVars
<1>4. CallShape'
  BY DEF IInv, CallShape, RxTerminator
<1>5. QED
  BY <1>3, <1>4 DEF IInv

LEMMA RxVoiceIInv ==
  ASSUME NEW s \in RxStreams, NEW q \in Seqs
  PROVE  IInv /\ RxVoice(s, q) => IInv'
<1> SUFFICES ASSUME IInv, RxVoice(s, q) PROVE IInv'
  OBVIOUS
<1> DEFINE delta == IF rx.last = NoSeq THEN 0 ELSE (q - rx.last - 1) % SeqMod
<1>1. delta \in Seqs
  <2>1. rx.last \in Seqs \cup {NoSeq}
    BY DEF IInv, TypeOK, RxCalls
  <2>2. rx.last # NoSeq => q - rx.last - 1 \in Int
    BY <2>1 DEF Seqs
  <2>3. QED
    BY <2>2, ModSeqs, ZeroSeqs
<1>2. DeliverFrames(audioOut, s, BurstFrames(delta))
  BY DEF RxVoice
<1>3. audioOut' \in Seq(AudioFrames) /\ cancel' \in BOOLEAN
  BY <1>1, <1>2, BurstFramesType, DeliverFramesType DEF IInv, TypeOK
<1>4. rx' \in RxCalls /\ rx'.sid = rx.sid
  BY DEF IInv, TypeOK, RxVoice, RxCalls
<1>5. TypeOK'
  BY <1>3, <1>4, TimeAssumption
     DEF IInv, TypeOK, RxVoice, dmrVars, netVars, statVars
<1>6. CallShape'
  BY <1>4 DEF IInv, CallShape, RxVoice
<1>7. QED
  BY <1>5, <1>6 DEF IInv

LEMMA RxImplicitStartIInv ==
  ASSUME NEW s \in RxStreams, NEW q \in Seqs
  PROVE  IInv /\ RxImplicitStart(s, q) => IInv'
<1> SUFFICES ASSUME IInv, RxImplicitStart(s, q) PROVE IInv'
  OBVIOUS
<1>1. rx' \in RxCalls /\ rx'.sid = s /\ s # NoStream
  BY StreamAssumption DEF RxImplicitStart, RxCalls
<1>2. openCall' \in [{"fmToDmr", "dmrToFm"} ->
                       RxStreams \cup TxStreams \cup {NoStream}]
  BY CallStartType DEF IInv, RxImplicitStart
<1>3. meta' \in {"call", "clear"} /\ metaLost' \in BOOLEAN
  BY SendMetaType DEF IInv, RxImplicitStart
<1>4. audioOut' \in Seq(AudioFrames) /\ cancel' \in BOOLEAN
  BY SizeAssumption, DeliverFramesType DEF IInv, TypeOK, RxImplicitStart
<1>5. TypeOK'
  BY <1>1, <1>2, <1>3, <1>4, TimeAssumption
     DEF IInv, TypeOK, RxImplicitStart, dmrVars, netVars
<1>6. CallShape'
  BY <1>1 DEF IInv, CallShape, RxImplicitStart, FromNet, AtInput, AtSelect
<1>7. QED
  BY <1>5, <1>6 DEF IInv

LEMMA RxStreamChangeIInv ==
  ASSUME NEW s \in RxStreams, NEW q \in Seqs
  PROVE  IInv /\ RxStreamChange(s, q) => IInv'
<1> SUFFICES ASSUME IInv, RxStreamChange(s, q) PROVE IInv'
  OBVIOUS
<1>1. rx' \in RxCalls /\ rx'.sid = s /\ s # NoStream
  BY StreamAssumption DEF RxStreamChange, RxCalls
<1>2. openCall' \in [{"fmToDmr", "dmrToFm"} ->
                       RxStreams \cup TxStreams \cup {NoStream}]
  BY CallStartType DEF IInv, RxStreamChange
<1>3. unkeySid' \in RxStreams \cup {NoStream}
  BY DEF IInv, TypeOK, RxStreamChange, RxCalls
<1>4. TypeOK'
  BY <1>1, <1>2, <1>3, TimeAssumption
     DEF IInv, TypeOK, RxStreamChange, dmrVars, netVars
<1>5. CallShape'
  BY <1>1 DEF IInv, CallShape, RxStreamChange
<1>6. QED
  BY <1>4, <1>5 DEF IInv

\* Every return from the await of an unkey.
LEMMA FinishCallIInv == IInv /\ FinishCall => IInv'
<1> SUFFICES ASSUME IInv, FinishCall PROVE IInv'
  OBVIOUS
<1>1. audioOut' \in Seq(AudioFrames)
  BY WithUnkeyType DEF IInv, FinishCall
<1>2. TypeOK'
  BY <1>1, NoCalls, TimeAssumption
     DEF IInv, TypeOK, FinishCall, dmrVars, netVars, statVars
<1>3. CallShape'
  BY NoCalls DEF IInv, CallShape, FinishCall
<1>4. QED
  BY <1>2, <1>3 DEF IInv

LEMMA FinishStreamChangeIInv == IInv /\ FinishStreamChange => IInv'
<1> SUFFICES ASSUME IInv, FinishStreamChange PROVE IInv'
  OBVIOUS
<1>1. rx.sid \in RxStreams
  BY DEF IInv, TypeOK, CallShape, FinishStreamChange, RxCalls
<1>2. openCall' \in [{"fmToDmr", "dmrToFm"} ->
                       RxStreams \cup TxStreams \cup {NoStream}]
  BY <1>1, CallStartType DEF IInv, FinishStreamChange
<1>3. meta' \in {"call", "clear"} /\ metaLost' \in BOOLEAN
  BY SendMetaType DEF IInv, FinishStreamChange
<1>4. audioOut' \in Seq(AudioFrames) /\ cancel' \in BOOLEAN
  BY <1>1, SizeAssumption, WithUnkeyType, DeliverFramesType
     DEF IInv, FinishStreamChange
<1>5. TypeOK'
  BY <1>2, <1>3, <1>4 DEF IInv, TypeOK, FinishStreamChange, dmrVars, netVars
<1>6. CallShape'
  BY DEF IInv, CallShape, FinishStreamChange
<1>7. QED
  BY <1>5, <1>6 DEF IInv

LEMMA FinishShutdownIInv == IInv /\ FinishShutdown => IInv'
<1> SUFFICES ASSUME IInv, FinishShutdown PROVE IInv'
  OBVIOUS
<1>1. audioOut' \in Seq(AudioFrames)
  BY WithUnkeyType DEF IInv, FinishShutdown
<1>2. TypeOK'
  BY <1>1 DEF IInv, TypeOK, FinishShutdown, dmrVars, netVars, statVars
<1>3. CallShape'
  BY DEF IInv, CallShape, FinishShutdown
<1>4. QED
  BY <1>2, <1>3 DEF IInv

\* Control, deadlines, shutdown.
LEMMA OnNetworkResetIInv == IInv /\ OnNetworkReset => IInv'
<1> SUFFICES ASSUME IInv, OnNetworkReset PROVE IInv'
  OBVIOUS
<1>1. openCall' \in [{"fmToDmr", "dmrToFm"} ->
                       RxStreams \cup TxStreams \cup {NoStream}]
  BY CallStartType DEF IInv, TypeOK, OnNetworkReset, ResetAccounting
<1>2. TypeOK'
  BY <1>1, NoCalls DEF IInv, TypeOK, OnNetworkReset, dmrVars, netVars
<1>3. CallShape'
  BY NoCalls DEF IInv, CallShape, OnNetworkReset
<1>4. QED
  BY <1>2, <1>3 DEF IInv

LEMMA RxTimeoutIInv == IInv /\ RxTimeout => IInv'
<1> SUFFICES ASSUME IInv, RxTimeout PROVE IInv'
  OBVIOUS
<1>1. openCall' \in [{"fmToDmr", "dmrToFm"} ->
                       RxStreams \cup TxStreams \cup {NoStream}]
  BY CallStartType DEF IInv, RxTimeout
<1>2. meta' \in {"call", "clear"} /\ metaLost' \in BOOLEAN
  BY SendMetaType DEF IInv, RxTimeout
<1>3. unkeySid' \in RxStreams \cup {NoStream}
  BY DEF IInv, TypeOK, RxTimeout, RxCalls
<1>4. TypeOK'
  BY <1>1, <1>2, <1>3, NoCalls
     DEF IInv, TypeOK, RxTimeout, dmrVars, netVars
<1>5. CallShape'
  BY NoCalls DEF IInv, CallShape, RxTimeout
<1>6. QED
  BY <1>4, <1>5 DEF IInv

LEMMA HangExpiredIInv == IInv /\ HangExpired => IInv'
<1> SUFFICES ASSUME IInv, HangExpired PROVE IInv'
  OBVIOUS
<1>1. TypeOK'
  BY DEF IInv, TypeOK, HangExpired, dmrVars, netVars, statVars
<1>2. CallShape'
  BY DEF IInv, CallShape, HangExpired, AtSelect
<1>3. QED
  BY <1>1, <1>2 DEF IInv

LEMMA ShutdownRxIInv == IInv /\ ShutdownRx => IInv'
<1> SUFFICES ASSUME IInv, ShutdownRx PROVE IInv'
  OBVIOUS
<1>1. /\ openCall' \in [{"fmToDmr", "dmrToFm"} ->
                       RxStreams \cup TxStreams \cup {NoStream}]
      /\ meta' \in {"call", "clear"} /\ metaLost' \in BOOLEAN
  BY CallStartType, SendMetaType
     DEF IInv, TypeOK, ShutdownRx, EndRx, statVars
<1>2. unkeySid' \in RxStreams \cup {NoStream}
  BY DEF IInv, TypeOK, ShutdownRx, RxCalls
<1>3. TypeOK'
  BY <1>1, <1>2, NoCalls DEF IInv, TypeOK, ShutdownRx, dmrVars, netVars
<1>4. CallShape'
  BY NoCalls DEF IInv, CallShape, ShutdownRx
<1>5. QED
  BY <1>3, <1>4 DEF IInv

LEMMA ShutdownIdleIInv == IInv /\ ShutdownIdle => IInv'
BY DEF IInv, TypeOK, CallShape, ShutdownIdle, dmrVars, netVars, statVars

\* The tasks at the other ends of the channels leave the machine alone.
LEMMA AroundIInv == IInv /\ (Tick \/ Cancel \/ Terminated) => IInv'
<1>1. IInv /\ Tick => IInv'
  BY DEF IInv, TypeOK, CallShape, Tick, taskVars, dmrVars, netVars, statVars
<1>2. IInv /\ Cancel => IInv'
  BY DEF IInv, TypeOK, CallShape, Cancel, taskVars, dmrVars, netVars, statVars
<1>3. IInv /\ Terminated => IInv'
  BY DEF IInv, TypeOK, CallShape, Terminated, vars, taskVars, dmrVars, netVars,
         statVars
<1>4. QED
  BY <1>1, <1>2, <1>3

LEMMA FmSendIInv == IInv /\ FmSend => IInv'
<1> SUFFICES ASSUME IInv, FmSend PROVE IInv'
  OBVIOUS
<1>1. Head(audioOut) \in AudioFrames /\ audioOut' \in Seq(AudioFrames)
  BY HeadTailProperties DEF IInv, TypeOK, FmSend
<1>2. fm' \in RxStreams \cup {NoStream}
  BY <1>1 DEF FmSend, AudioFrames
<1>3. QED
  BY <1>1, <1>2
     DEF IInv, TypeOK, CallShape, FmSend, taskVars, dmrVars, netVars, statVars

LEMMA SessionIInv == IInv /\ Session => IInv'
<1> SUFFICES ASSUME IInv, Session PROVE IInv'
  OBVIOUS
<1>1. CASE NetSendControl
  <2>1. /\ Head(dmrdControlOut) \in ControlPkts
        /\ dmrdControlOut' \in Seq(ControlPkts)
    BY <1>1, HeadTailProperties DEF IInv, TypeOK, NetSendControl
  <2>2. peer' \in TxStreams \cup {NoStream} /\ heard' \subseteq TxStreams
    BY <1>1, <2>1 DEF IInv, TypeOK, NetSendControl, ControlPkts
  <2>3. QED
    BY <1>1, <2>1, <2>2
       DEF IInv, TypeOK, CallShape, NetSendControl, taskVars, statVars
<1>2. CASE NetSendVoice
  <2>1. dmrdVoiceOut' \in Seq(VoicePkts)
    BY <1>2, HeadTailProperties DEF IInv, TypeOK, NetSendVoice
  <2>2. QED
    BY <1>2, <2>1
       DEF IInv, TypeOK, CallShape, NetSendVoice, taskVars, netVars, statVars
<1>3. CASE Connect
  <2>1. dmrdVoiceOut' \in Seq(VoicePkts) /\ dmrdControlOut' \in Seq(ControlPkts)
    BY <1>3 DEF Connect
  <2>2. QED
    BY <1>3, <2>1 DEF IInv, TypeOK, CallShape, Connect, taskVars, statVars
<1>4. CASE Disconnect
  BY <1>4 DEF IInv, TypeOK, CallShape, Disconnect, taskVars, statVars
<1>5. QED
  BY <1>1, <1>2, <1>3, <1>4 DEF Session

LEMMA StepIInv == IInv /\ [Next]_vars => IInv'
<1> SUFFICES ASSUME IInv, [Next]_vars PROVE IInv'
  OBVIOUS
<1>1. CASE OnAudio
  BY <1>1, KeyUpIInv, BufferAudioIInv, SendBurstIInv, KeyDownIInv DEF OnAudio
<1>2. CASE OnDmrd
  BY <1>2, RxHeaderIInv, RxTerminatorIInv, RxVoiceIInv, RxImplicitStartIInv,
     RxStreamChangeIInv DEF OnDmrd
<1>3. CASE Resume
  BY <1>3, FinishCallIInv, FinishStreamChangeIInv, FinishShutdownIInv DEF Resume
<1>4. CASE OnNetworkReset \/ OnTimeout
  BY <1>4, OnNetworkResetIInv, RxTimeoutIInv, HangExpiredIInv, TxExpiredIInv
     DEF OnTimeout
<1>5. CASE OnShutdown
  BY <1>5, ShutdownRxIInv, ShutdownTxIInv, ShutdownIdleIInv DEF OnShutdown
<1>6. CASE FmSend \/ Session \/ Tick \/ Cancel \/ Terminated
  BY <1>6, FmSendIInv, SessionIInv, AroundIInv
<1>7. CASE UNCHANGED vars
  BY <1>7, AroundIInv
     DEF IInv, TypeOK, CallShape, vars, taskVars, dmrVars, netVars, statVars
<1>8. QED
  BY <1>1, <1>2, <1>3, <1>4, <1>5, <1>6, <1>7 DEF Next, VoiceTask

LEMMA AlwaysIInv == Spec => []IInv
BY InitIInv, StepIInv, PTL DEF Spec

\* The state stays well typed whatever the inputs, sessions and cancellations,
\* and for every size of the channels.
THEOREM TypeCorrect == Spec => []TypeOK
<1>1. IInv => TypeOK
  BY DEF IInv
<1>2. QED
  BY <1>1, AlwaysIInv, PTL


-----------------------------------------------------------------------------
(* FM -> DMR calls in the statistics. *)

\* Every action that touches the Tx call opens or closes it there too.
LEMMA StepTxAccounted ==
  ASSUME IInv, TxAccounted, [Next]_vars
  PROVE  TxAccounted'
<1>0. /\ TypeOK /\ CallShape
      /\ DOMAIN openCall = {"fmToDmr", "dmrToFm"}
  BY DEF IInv, TypeOK
<1>1. CASE OnAudio
  <2>1. CASE KeyUp
    <3>1. PICK s \in FreshStreams :
            LET t == [NoTx EXCEPT !.sid = s] IN
            /\ tx' = [t EXCEPT !.seq = 1 % SeqMod, !.buf = 1]
            /\ CallStart("fmToDmr", s)
      BY <2>1 DEF KeyUp
    <3>2. tx'.sid = s
      BY <3>1 DEF NoTx
    <3>3. QED
      BY <1>0, <2>1, <3>1, <3>2 DEF TxAccounted, KeyUp, CallStart
  <2>2. CASE BufferAudio
    <3>1. tx'.sid = tx.sid
      BY <1>0, <2>2 DEF TypeOK, TxCalls, BufferAudio
    <3>2. QED
      BY <2>2, <3>1 DEF TxAccounted, BufferAudio, statVars
  <2>3. CASE SendBurst
    <3>1. tx'.sid = tx.sid
      <4>1. PICK o \in Outcomes : tx' = [AfterBurst(tx, o) EXCEPT !.buf = 0]
        BY <2>3 DEF SendBurst
      <4>2. QED
        BY <1>0, <4>1, AfterBurstType DEF TypeOK, TxCalls
    <3>2. QED
      BY <2>3, <3>1 DEF TxAccounted, SendBurst, statVars
  <2>4. CASE KeyDown
    BY <1>0, <2>4 DEF TxAccounted, KeyDown, EndTx, CallEnd
  <2>5. QED
    BY <1>1, <2>1, <2>2, <2>3, <2>4 DEF OnAudio
<1>2. CASE OnDmrd
  BY <1>0, <1>2
     DEF TxAccounted, OnDmrd, RxHeader, RxTerminator, RxVoice, RxImplicitStart,
         RxStreamChange, FromNet, CallStart, CallEnd, statVars
<1>3. CASE Resume
  BY <1>0, <1>3
     DEF TxAccounted, CallShape, Resume, FinishCall, FinishStreamChange,
         FinishShutdown, CallStart, statVars
<1>4. CASE OnNetworkReset
  BY <1>0, <1>4 DEF TxAccounted, OnNetworkReset, ResetAccounting, CallEnd
<1>5. CASE OnTimeout
  BY <1>0, <1>5
     DEF TxAccounted, OnTimeout, RxTimeout, HangExpired, TxExpired, EndTx,
         CallEnd, statVars
<1>6. CASE OnShutdown
  BY <1>0, <1>6
     DEF TxAccounted, OnShutdown, ShutdownRx, ShutdownTx, ShutdownIdle, EndRx,
         EndTx, CallEnd, statVars
<1>7. CASE FmSend \/ Session \/ Tick \/ Cancel \/ Terminated \/ UNCHANGED vars
  BY <1>7
     DEF TxAccounted, FmSend, Session, NetSendControl, NetSendVoice, Connect,
         Disconnect, Tick, Cancel, Terminated, vars, taskVars, statVars
<1>8. QED
  BY <1>1, <1>2, <1>3, <1>4, <1>5, <1>6, <1>7 DEF Next, VoiceTask

\* Unkey, tx_timeout, session reset and shutdown each close the Tx call exactly
\* once in the statistics, and nothing else does.
THEOREM TxCallsAccounted == Spec => []TxAccounted
<1>1. Init => TxAccounted
  BY DEF Init, TxAccounted
<1>2. QED
  BY <1>1, StepTxAccounted, AlwaysIInv, PTL DEF Spec

-----------------------------------------------------------------------------
(* When no session reset is taken in Rx.                                   *)

\* on_network_reset leaves Rx without any of what ends a call there; the results
\* about DMR -> FM calls are for behaviours without such a step.
UndisturbedRx == [][OnNetworkReset => state # "Rx"]_vars

\* There is none while the session is never replaced: the one reset there is
\* comes with the first session, before any packet can have started an Rx call.
OneSession ==
  /\ session # "down"
  /\ session = "never" => control = 0
  /\ session = "never" \/ control > 0 =>
       state \in {"Idle", "Tx"} /\ pc \notin {"hang", "burst"}

LEMMA StepOneSession ==
  ASSUME ~Drops, IInv, OneSession, [Next]_vars
  PROVE  OneSession'
<1>0. TypeOK /\ CallShape
  BY DEF IInv
<1>1. CASE OnAudio
  BY <1>0, <1>1
     DEF OneSession, OnAudio, KeyUp, BufferAudio, SendBurst, KeyDown, EndTx,
         AtInput, AtSelect, dmrVars, netVars
<1>2. CASE OnDmrd
  <2>1. session # "never" /\ control = 0
    BY <1>2 DEF OnDmrd, RxHeader, RxTerminator, RxVoice, RxImplicitStart,
                RxStreamChange, FromNet, AtInput, AtSelect
  <2>2. UNCHANGED <<session, control>>
    BY <1>2 DEF OnDmrd, RxHeader, RxTerminator, RxVoice, RxImplicitStart,
                RxStreamChange, dmrVars, netVars
  <2>3. QED
    BY <2>1, <2>2 DEF OneSession
<1>3. CASE Resume
  <2>1. CASE FinishCall \/ FinishStreamChange
    BY <2>1 DEF OneSession, FinishCall, FinishStreamChange, dmrVars, netVars
  <2>2. CASE FinishShutdown
    BY <2>2 DEF OneSession, FinishShutdown, dmrVars, netVars
  <2>3. QED
    BY <1>3, <2>1, <2>2 DEF Resume
<1>4. CASE OnNetworkReset
  BY <1>0, <1>4 DEF OneSession, OnNetworkReset, TypeOK, dmrVars, netVars
<1>5. CASE OnTimeout
  BY <1>0, <1>5
     DEF OneSession, OnTimeout, RxTimeout, HangExpired, TxExpired, EndTx,
         AtSelect, TypeOK, dmrVars, netVars
<1>6. CASE OnShutdown
  BY <1>6 DEF OneSession, OnShutdown, ShutdownRx, ShutdownTx, ShutdownIdle,
              EndTx, dmrVars, netVars
<1>7. CASE Session
  BY <1>0, <1>7
     DEF OneSession, Session, NetSendControl, NetSendVoice, Connect, Disconnect,
         TypeOK, taskVars, netVars
<1>8. CASE FmSend \/ Tick \/ Cancel \/ Terminated \/ UNCHANGED vars
  BY <1>8 DEF OneSession, FmSend, Tick, Cancel, Terminated, vars, taskVars,
              dmrVars, netVars
<1>9. QED
  BY <1>1, <1>2, <1>3, <1>4, <1>5, <1>6, <1>7, <1>8 DEF Next, VoiceTask

\* Nor is there one in a gateway that only carries FM to DMR.
NeverReceives == state \in {"Idle", "Tx"} /\ pc \in {"loop", "done"}

LEMMA StepNeverReceives ==
  ASSUME Gateway = "FmToDmr", NeverReceives, [Next]_vars
  PROVE  NeverReceives'
<1>1. CASE OnAudio
  BY <1>1 DEF NeverReceives, OnAudio, KeyUp, BufferAudio, SendBurst, KeyDown,
              EndTx
<1>2. CASE OnDmrd
  BY <1>2 DEF OnDmrd, RxHeader, RxTerminator, RxVoice, RxImplicitStart,
              RxStreamChange, FromNet
<1>3. CASE Resume
  BY <1>3 DEF NeverReceives, Resume, FinishCall, FinishStreamChange,
              FinishShutdown
<1>4. CASE OnNetworkReset \/ OnTimeout
  BY <1>4 DEF NeverReceives, OnNetworkReset, OnTimeout, RxTimeout, HangExpired,
              TxExpired, EndTx
<1>5. CASE OnShutdown
  BY <1>5 DEF NeverReceives, OnShutdown, ShutdownRx, ShutdownTx, ShutdownIdle,
              EndTx
<1>6. CASE FmSend \/ Session \/ Tick \/ Cancel \/ Terminated \/ UNCHANGED vars
  BY <1>6 DEF NeverReceives, FmSend, Session, NetSendControl, NetSendVoice,
              Connect, Disconnect, Tick, Cancel, Terminated, vars, taskVars
<1>7. QED
  BY <1>1, <1>2, <1>3, <1>4, <1>5, <1>6 DEF Next, VoiceTask

\* Either way no reset finds the machine receiving.
LEMMA RxNotDisturbed ==
  ASSUME Drops = FALSE \/ Gateway = "FmToDmr"
  PROVE  Spec => UndisturbedRx
<1>1. CASE Drops = FALSE
  <2>1. Init => OneSession
    BY DEF Init, OneSession
  <2>2. IInv /\ OneSession /\ [Next]_vars => OneSession'
    BY <1>1, StepOneSession
  <2>3. IInv /\ OneSession => [OnNetworkReset => state # "Rx"]_vars
    BY DEF IInv, TypeOK, OneSession, OnNetworkReset
  <2>4. QED
    BY <2>1, <2>2, <2>3, AlwaysIInv, PTL DEF Spec, UndisturbedRx
<1>2. CASE Gateway = "FmToDmr"
  <2>1. Init => NeverReceives
    BY DEF Init, NeverReceives
  <2>2. NeverReceives /\ [Next]_vars => NeverReceives'
    BY <1>2, StepNeverReceives
  <2>3. NeverReceives => [OnNetworkReset => state # "Rx"]_vars
    BY DEF NeverReceives
  <2>4. QED
    BY <2>1, <2>2, <2>3, PTL DEF Spec, UndisturbedRx
<1>3. QED
  BY <1>1, <1>2

-----------------------------------------------------------------------------
(* DMR -> FM calls in the statistics and on the FM side's display.         *)

LEMMA StepRxAccounted ==
  ASSUME IInv, RxAccounted, [Next]_vars, [OnNetworkReset => state # "Rx"]_vars
  PROVE  RxAccounted'
<1>0. /\ TypeOK /\ CallShape
      /\ DOMAIN openCall = {"fmToDmr", "dmrToFm"}
  BY DEF IInv, TypeOK
<1>1. CASE OnAudio
  BY <1>0, <1>1
     DEF RxAccounted, OnAudio, KeyUp, BufferAudio, SendBurst, KeyDown, EndTx,
         CallStart, CallEnd, MayKeyUp, statVars
<1>2. CASE OnDmrd
  <2>1. PICK s \in RxStreams :
          \/ RxHeader(s) \/ RxTerminator(s)
          \/ \E q \in Seqs : RxVoice(s, q) \/ RxImplicitStart(s, q)
                                            \/ RxStreamChange(s, q)
    BY <1>2 DEF OnDmrd
  <2>2. pc = "loop"
    BY <2>1 DEF RxHeader, RxTerminator, RxVoice, RxImplicitStart,
                RxStreamChange, FromNet, AtInput, AtSelect
  <2>3. CASE RxHeader(s)
    BY <1>0, <2>2, <2>3 DEF RxAccounted, RxHeader, CallStart
  <2>4. CASE RxTerminator(s)
    BY <1>0, <2>4 DEF RxAccounted, RxTerminator, CallEnd
  <2>5. CASE \E q \in Seqs : RxVoice(s, q)
    <3>1. rx'.sid = rx.sid
      BY <1>0, <2>5 DEF RxVoice, TypeOK, RxCalls
    <3>2. QED
      BY <2>5, <3>1 DEF RxAccounted, RxVoice, statVars
  <2>6. CASE \E q \in Seqs : RxImplicitStart(s, q)
    BY <1>0, <2>2, <2>6 DEF RxAccounted, RxImplicitStart, CallStart
  <2>7. CASE \E q \in Seqs : RxStreamChange(s, q)
    BY <1>0, <2>7 DEF RxAccounted, RxStreamChange, CallEnd
  <2>8. QED
    BY <2>1, <2>3, <2>4, <2>5, <2>6, <2>7
<1>3. CASE Resume
  BY <1>0, <1>3
     DEF RxAccounted, CallShape, Resume, FinishCall, FinishStreamChange,
         FinishShutdown, CallStart, statVars
<1>4. CASE OnNetworkReset
  BY <1>0, <1>4
     DEF RxAccounted, OnNetworkReset, ResetAccounting, CallEnd, vars, taskVars
<1>5. CASE OnTimeout
  BY <1>0, <1>5
     DEF RxAccounted, OnTimeout, RxTimeout, HangExpired, TxExpired, EndTx,
         CallEnd, statVars
<1>6. CASE OnShutdown
  BY <1>0, <1>6
     DEF RxAccounted, OnShutdown, ShutdownRx, ShutdownTx, ShutdownIdle, EndRx,
         EndTx, CallEnd, statVars
<1>7. CASE FmSend \/ Session \/ Tick \/ Cancel \/ Terminated \/ UNCHANGED vars
  BY <1>7
     DEF RxAccounted, FmSend, Session, NetSendControl, NetSendVoice, Connect,
         Disconnect, Tick, Cancel, Terminated, vars, taskVars, statVars
<1>8. QED
  BY <1>1, <1>2, <1>3, <1>4, <1>5, <1>6, <1>7 DEF Next, VoiceTask

\* Header, voice without a header, terminator, stream timeout, stream change and
\* shutdown open and close the Rx call in the statistics in step with the machine.
THEOREM RxCallsAccounted == Spec /\ UndisturbedRx => []RxAccounted
<1>1. Init => RxAccounted
  BY DEF Init, RxAccounted
<1>2. QED
  BY <1>1, StepRxAccounted, AlwaysIInv, PTL DEF Spec, UndisturbedRx

LEMMA StepMeta ==
  ASSUME IInv, MetaFollowsCall, [Next]_vars,
         [OnNetworkReset => state # "Rx"]_vars
  PROVE  MetaFollowsCall'
<1>0. TypeOK /\ CallShape
  BY DEF IInv
<1>1. CASE OnAudio
  BY <1>1
     DEF MetaFollowsCall, OnAudio, KeyUp, BufferAudio, SendBurst, KeyDown,
         EndTx, MayKeyUp, statVars
<1>2. CASE OnDmrd
  BY <1>2
     DEF MetaFollowsCall, OnDmrd, RxHeader, RxTerminator, RxVoice,
         RxImplicitStart, RxStreamChange, FromNet, AtInput, AtSelect, SendMeta,
         statVars
<1>3. CASE Resume
  BY <1>0, <1>3
     DEF MetaFollowsCall, CallShape, Resume, FinishCall, FinishStreamChange,
         FinishShutdown, SendMeta, statVars
<1>4. CASE OnNetworkReset
  BY <1>4 DEF MetaFollowsCall, OnNetworkReset, vars, taskVars
<1>5. CASE OnTimeout
  BY <1>5
     DEF MetaFollowsCall, OnTimeout, RxTimeout, HangExpired, TxExpired, EndTx,
         SendMeta, AtSelect, statVars
<1>6. CASE OnShutdown
  BY <1>6
     DEF MetaFollowsCall, OnShutdown, ShutdownRx, ShutdownTx, ShutdownIdle,
         EndRx, EndTx, SendMeta, statVars
<1>7. CASE FmSend \/ Session \/ Tick \/ Cancel \/ Terminated \/ UNCHANGED vars
  BY <1>7
     DEF MetaFollowsCall, FmSend, Session, NetSendControl, NetSendVoice,
         Connect, Disconnect, Tick, Cancel, Terminated, vars, taskVars, statVars
<1>8. QED
  BY <1>1, <1>2, <1>3, <1>4, <1>5, <1>6, <1>7 DEF Next, VoiceTask

\* Unless the metadata channel dropped an event, the FM side shows a caller
\* exactly while the machine receives one.
THEOREM CallerShown == Spec /\ UndisturbedRx => []MetaFollowsCall
<1>1. Init => MetaFollowsCall
  BY DEF Init, MetaFollowsCall
<1>2. QED
  BY <1>1, StepMeta, AlwaysIInv, PTL DEF Spec, UndisturbedRx

-----------------------------------------------------------------------------
(* What the FM side is keyed for.                                          *)

\* Sending a frame changes what the FM side is keyed for now, not what it will
\* be keyed for once everything queued is sent.
LEMMA FmSendTail ==
  ASSUME TypeOK, FmSend
  PROVE  FmTail' = FmTail
<1>1. /\ audioOut # <<>> /\ audioOut \in Seq(AudioFrames)
      /\ audioOut' = Tail(audioOut)
      /\ fm' = IF Head(audioOut).kind = "voice" THEN Head(audioOut).sid
                                                ELSE NoStream
  BY DEF TypeOK, FmSend
<1>2. /\ Len(audioOut') = Len(audioOut) - 1
      /\ \A i \in 1 .. Len(audioOut') : audioOut'[i] = audioOut[i + 1]
      /\ Head(audioOut) = audioOut[1]
      /\ Len(audioOut) \in Nat \ {0}
      /\ audioOut' \in Seq(AudioFrames)
  BY <1>1, HeadTailProperties
<1>3. CASE audioOut' = <<>>
  <2>1. Len(audioOut) = 1
    BY <1>2, <1>3
  <2>2. QED
    BY <1>1, <1>2, <1>3, <2>1 DEF FmTail
<1>4. CASE audioOut' # <<>>
  <2>1. Len(audioOut') \in 1 .. Len(audioOut')
    BY <1>2, <1>4, EmptySeq
  <2>2. audioOut'[Len(audioOut')] = audioOut[Len(audioOut)]
    BY <1>2, <2>1
  <2>3. QED
    BY <1>1, <1>4, <2>2 DEF FmTail
<1>5. QED
  BY <1>3, <1>4

\* With the receiver still there, an awaited unkey ends up last in the queue.
LEMMA UnkeyTail ==
  ASSUME TypeOK, UnkeySent, ~cancel, audioOut' = WithUnkey
  PROVE  FmTail' = NoStream
<1>1. audioOut' = Append(audioOut, Unkey(unkeySid))
  BY DEF UnkeySent, WithUnkey
<1>2. Unkey(unkeySid) \in AudioFrames
  BY DEF TypeOK, Unkey, AudioFrames
<1>3. /\ audioOut' # <<>>
      /\ audioOut'[Len(audioOut')] = Unkey(unkeySid)
  BY <1>1, <1>2, AppendProperties DEF TypeOK
<1>4. QED
  BY <1>3 DEF FmTail, Unkey

LEMMA StepFmKeyed ==
  ASSUME IInv, FmKeyedOnlyInRx, [Next]_vars,
         [OnNetworkReset => state # "Rx"]_vars
  PROVE  FmKeyedOnlyInRx'
<1>0. TypeOK /\ CallShape
  BY DEF IInv
<1>a. UNCHANGED <<audioOut, fm>> => FmTail' = FmTail
  BY DEF FmTail
<1>1. CASE OnAudio
  BY <1>a, <1>1
     DEF FmKeyedOnlyInRx, OnAudio, KeyUp, BufferAudio, SendBurst, KeyDown,
         EndTx, MayKeyUp, AtInput, AtSelect
<1>2. CASE OnDmrd
  <2>1. state' = "Rx"
    BY <1>2 DEF OnDmrd, RxHeader, RxTerminator, RxVoice, RxImplicitStart,
                RxStreamChange
  <2>2. QED
    BY <2>1 DEF FmKeyedOnlyInRx
<1>3. CASE FinishCall
  BY <1>0, <1>3, UnkeyTail DEF FinishCall, FmKeyedOnlyInRx
<1>4. CASE FinishStreamChange
  BY <1>0, <1>4 DEF FinishStreamChange, FmKeyedOnlyInRx, CallShape
<1>5. CASE FinishShutdown
  BY <1>5 DEF FinishShutdown, FmKeyedOnlyInRx
<1>6. CASE OnNetworkReset
  BY <1>a, <1>6 DEF OnNetworkReset, FmKeyedOnlyInRx, vars, taskVars
<1>7. CASE OnTimeout
  BY <1>a, <1>7 DEF FmKeyedOnlyInRx, OnTimeout, RxTimeout, HangExpired,
                    TxExpired, EndTx, AtSelect
<1>8. CASE OnShutdown
  BY <1>a, <1>8 DEF FmKeyedOnlyInRx, OnShutdown, ShutdownRx, ShutdownTx,
                    ShutdownIdle, EndTx
<1>9. CASE FmSend
  BY <1>0, <1>9, FmSendTail DEF FmKeyedOnlyInRx, FmSend, taskVars
<1>10. CASE Session \/ Tick \/ Cancel \/ Terminated \/ UNCHANGED vars
  BY <1>a, <1>10
     DEF FmKeyedOnlyInRx, Session, NetSendControl, NetSendVoice, Connect,
         Disconnect, Tick, Cancel, Terminated, vars, taskVars
<1>11. QED
  BY <1>1, <1>2, <1>3, <1>4, <1>5, <1>6, <1>7, <1>8, <1>9, <1>10
     DEF Next, VoiceTask, Resume

\* No terminator, stream timeout, stream change or shutdown leaves the FM repeater
\* keyed: the unkey is queued behind the voice, however full the channel was.
THEOREM FmKeyedOnlyByCall == Spec /\ UndisturbedRx => []FmKeyedOnlyInRx
<1>1. Init => FmKeyedOnlyInRx
  BY DEF Init, FmKeyedOnlyInRx, FmTail
<1>2. QED
  BY <1>1, StepFmKeyed, AlwaysIInv, PTL DEF Spec, UndisturbedRx

-----------------------------------------------------------------------------
(* The machine and its queues implement HalfDuplex.                        *)

\* A new session finds the queues drained and the master without a call, and
\* nothing is queued for it before voice_task has taken the reset.
FreshSession ==
  control > 0 /\ ~cancel =>
    /\ dmrdVoiceOut = <<>> /\ dmrdControlOut = <<>>
    /\ peer = NoStream /\ heard = {}

LEMMA StepFreshSession ==
  ASSUME IInv, FreshSession, [Next]_vars
  PROVE  FreshSession'
<1>0. TypeOK
  BY DEF IInv
<1>1. CASE OnAudio
  <2>1. control = 0 /\ UNCHANGED control
    BY <1>1 DEF OnAudio, KeyUp, BufferAudio, SendBurst, KeyDown, AtInput,
                AtSelect
  <2>2. QED
    BY <2>1 DEF FreshSession
<1>2. CASE OnDmrd
  BY <1>2 DEF FreshSession, OnDmrd, RxHeader, RxTerminator, RxVoice,
              RxImplicitStart, RxStreamChange, FromNet, AtInput, AtSelect
<1>3. CASE Resume
  <2>1. cancel => cancel'
    <3>1. CASE FinishStreamChange
      <4>1. rx.sid \in RxStreams
        BY <3>1 DEF IInv, TypeOK, CallShape, FinishStreamChange, RxCalls
      <4>2. QED
        BY <1>0, <3>1, <4>1, SizeAssumption, WithUnkeyType, DeliverFramesType
           DEF FinishStreamChange
    <3>2. QED
      BY <1>3, <3>1 DEF Resume, FinishCall, FinishShutdown
  <2>2. UNCHANGED <<control, dmrVars>>
    BY <1>3 DEF Resume, FinishCall, FinishStreamChange, FinishShutdown
  <2>3. QED
    BY <1>0, <2>1, <2>2 DEF FreshSession, TypeOK, dmrVars, netVars
<1>4. CASE OnNetworkReset
  BY <1>0, <1>4 DEF FreshSession, OnNetworkReset, TypeOK, dmrVars, netVars
<1>5. CASE OnTimeout
  BY <1>5 DEF FreshSession, OnTimeout, RxTimeout, HangExpired, TxExpired,
              AtSelect
<1>6. CASE OnShutdown
  BY <1>6 DEF FreshSession, OnShutdown, ShutdownRx, ShutdownTx, ShutdownIdle,
              dmrVars, netVars
<1>7. CASE Session
  BY <1>7 DEF FreshSession, Session, NetSendControl, NetSendVoice, Connect,
              Disconnect, netVars
<1>8. CASE FmSend \/ Tick \/ Cancel \/ Terminated \/ UNCHANGED vars
  BY <1>8 DEF FreshSession, FmSend, Tick, Cancel, Terminated, vars, dmrVars,
              netVars
<1>9. QED
  BY <1>1, <1>2, <1>3, <1>4, <1>5, <1>6, <1>7, <1>8 DEF Next, VoiceTask

LEMMA AlwaysFresh == Spec => []FreshSession
<1>1. Init => FreshSession
  BY DEF Init, FreshSession
<1>2. QED
  BY <1>1, StepFreshSession, AlwaysIInv, PTL DEF Spec

\* What either line ends up carrying is a stream of its side, or none.
TailsTyped ==
  /\ FmTail \in RxStreams \cup {NoStream}
  /\ PeerTail \in TxStreams \cup {NoStream}

LEMMA TailTypes == TypeOK => TailsTyped
<1> SUFFICES ASSUME TypeOK PROVE TailsTyped
  OBVIOUS
<1>1. audioOut # <<>> =>
        audioOut[Len(audioOut)].sid \in RxStreams \cup {NoStream}
  <2>1. audioOut # <<>> => Len(audioOut) \in 1 .. Len(audioOut)
    BY EmptySeq DEF TypeOK
  <2>2. audioOut # <<>> => audioOut[Len(audioOut)] \in AudioFrames
    BY <2>1, ElementOfSeq DEF TypeOK
  <2>3. QED
    BY <2>2 DEF AudioFrames
<1>2. dmrdControlOut # <<>> =>
        dmrdControlOut[Len(dmrdControlOut)].sid \in TxStreams
  <2>1. dmrdControlOut # <<>> => Len(dmrdControlOut) \in 1 .. Len(dmrdControlOut)
    BY EmptySeq DEF TypeOK
  <2>2. dmrdControlOut # <<>> =>
          dmrdControlOut[Len(dmrdControlOut)] \in ControlPkts
    BY <2>1, ElementOfSeq DEF TypeOK
  <2>3. QED
    BY <2>2 DEF ControlPkts
<1>3. QED
  BY <1>1, <1>2 DEF TypeOK, FmTail, PeerTail, TailsTyped

\* Delivered frames leave the line as the queue they go behind leaves it, or
\* keyed for their stream.
LEMMA DeliverTail ==
  ASSUME TypeOK, NEW q \in Seq(AudioFrames), NEW s \in RxStreams,
         NEW total \in Nat, DeliverFrames(q, s, total)
  PROVE  \/ audioOut' = q
         \/ audioOut' # <<>> /\ audioOut'[Len(audioOut')] = Voice(s)
<1>1. CASE Len(q) + total > AudioCap
  BY <1>1 DEF DeliverFrames
<1>2. CASE ~(Len(q) + total > AudioCap)
  <2>1. PICK n \in IF cancel THEN {0} ELSE 0 .. total :
          audioOut' = q \o [i \in 1 .. n |-> Voice(s)]
    BY <1>2 DEF DeliverFrames
  <2>6. n \in Nat
    BY <2>1
  <2> DEFINE frames == [i \in 1 .. n |-> Voice(s)]
  <2>2. frames \in Seq(AudioFrames) /\ Len(frames) = n
    <3>1. Voice(s) \in AudioFrames
      BY DEF Voice, AudioFrames
    <3>2. frames \in [1 .. n -> AudioFrames]
      BY <3>1
    <3>3. QED
      BY <2>6, <3>2
  <2>3. CASE n = 0
    <3>1. frames = <<>>
      BY <2>2, <2>3, EmptySeq
    <3>2. QED
      BY <2>1, <3>1, ConcatEmptySeq
  <2>4. CASE n > 0
    <3> HIDE DEF frames
    <3>1. /\ audioOut' \in Seq(AudioFrames)
          /\ Len(audioOut') = Len(q) + n
          /\ audioOut'[Len(q) + n] = frames[n]
      <4>1. Len(q) \in Nat /\ Len(q) + n \in 1 .. Len(q) + n
        BY <2>6, <2>4, LenProperties
      <4>2. QED
        BY <2>1, <2>2, <2>4, <4>1, ConcatProperties DEF frames
    <3>2. frames[n] = Voice(s)
      BY <2>6, <2>4 DEF frames
    <3>3. audioOut' # <<>>
      BY <2>6, <2>4, <3>1, LenProperties, EmptySeq
    <3>4. QED
      BY <3>1, <3>2, <3>3
  <2>5. QED
    BY <2>6, <2>3, <2>4
<1>3. QED
  BY <1>1, <1>2

\* Delivering behind the queue q, or behind the unkey of the handler that
\* resumes, keys the line for s or leaves it as it was.
LEMMA DeliveredTail ==
  ASSUME TypeOK, NEW s \in RxStreams, NEW total \in Nat
  PROVE  /\ DeliverFrames(audioOut, s, total) /\ UNCHANGED fm
              => FmTail' \in {FmTail, s}
         /\ UnkeySent /\ ~cancel /\ DeliverFrames(WithUnkey, s, total)
              => FmTail' \in {NoStream, s}
<1>1. ASSUME audioOut' # <<>>, audioOut'[Len(audioOut')] = Voice(s)
      PROVE  FmTail' = s
  BY <1>1 DEF FmTail, Voice
<1>2. ASSUME DeliverFrames(audioOut, s, total), UNCHANGED fm
      PROVE  FmTail' \in {FmTail, s}
  <2>1. audioOut \in Seq(AudioFrames)
    BY DEF TypeOK
  <2>2. CASE audioOut' = audioOut
    BY <1>2, <2>2 DEF FmTail
  <2>3. QED
    BY <1>1, <1>2, <2>1, <2>2, DeliverTail
<1>3. ASSUME UnkeySent, ~cancel, DeliverFrames(WithUnkey, s, total)
      PROVE  FmTail' \in {NoStream, s}
  <2>1. CASE audioOut' = WithUnkey
    BY <1>3, <2>1, UnkeyTail
  <2>2. QED
    BY <1>1, <1>3, <2>1, WithUnkeyType, DeliverTail
<1>4. QED
  BY <1>2, <1>3

\* A packet put on the control queue decides what the master ends up holding.
LEMMA AppendedPeerTail ==
  ASSUME TypeOK, NEW p \in ControlPkts, dmrdControlOut' = Append(dmrdControlOut, p)
  PROVE  PeerTail' = IF p.kind = "header" THEN p.sid ELSE NoStream
<1>1. /\ dmrdControlOut' # <<>>
      /\ dmrdControlOut'[Len(dmrdControlOut')] = p
  BY AppendProperties DEF TypeOK
<1>2. QED
  BY <1>1 DEF PeerTail

\* Sending one changes what it holds now, not what it will hold in the end.
LEMMA NetSendTail ==
  ASSUME TypeOK, NetSendControl
  PROVE  PeerTail' = PeerTail
<1>1. /\ dmrdControlOut # <<>> /\ dmrdControlOut \in Seq(ControlPkts)
      /\ dmrdControlOut' = Tail(dmrdControlOut)
      /\ peer' = IF Head(dmrdControlOut).kind = "header"
                 THEN Head(dmrdControlOut).sid ELSE NoStream
  BY DEF TypeOK, NetSendControl
<1>2. /\ Len(dmrdControlOut') = Len(dmrdControlOut) - 1
      /\ \A i \in 1 .. Len(dmrdControlOut') :
           dmrdControlOut'[i] = dmrdControlOut[i + 1]
      /\ Head(dmrdControlOut) = dmrdControlOut[1]
      /\ Len(dmrdControlOut) \in Nat \ {0}
      /\ dmrdControlOut' \in Seq(ControlPkts)
  BY <1>1, HeadTailProperties
<1>3. CASE dmrdControlOut' = <<>>
  <2>1. Len(dmrdControlOut) = 1
    BY <1>2, <1>3
  <2>2. QED
    BY <1>1, <1>2, <1>3, <2>1 DEF PeerTail
<1>4. CASE dmrdControlOut' # <<>>
  <2>1. Len(dmrdControlOut') \in 1 .. Len(dmrdControlOut')
    BY <1>2, <1>4, EmptySeq
  <2>2. dmrdControlOut'[Len(dmrdControlOut')] = dmrdControlOut[Len(dmrdControlOut)]
    BY <1>2, <2>1
  <2>3. QED
    BY <1>1, <1>4, <2>2 DEF PeerTail
<1>5. QED
  BY <1>3, <1>4

\* Every end of a Tx call hands the floor back, unless the bridge shuts down.
LEMMA EndTxFloor ==
  ASSUME IInv, state = "Tx", pc = "loop", ~cancel, ~cancel', UNCHANGED <<pc, fm, audioOut>>,
         NEW o, EndTx(o)
  PROVE  HD!FmStops
<1>1. tx \in TxCalls /\ tx.sid # NoStream
  BY DEF IInv, TypeOK, CallShape
<1>2. Terminator(AfterBurst(tx, o)) \in ControlPkts
  BY <1>1, AfterBurstType DEF Terminator, ControlPkts, TxCalls
<1>3. PeerTail' = NoStream
  BY <1>2, AppendedPeerTail DEF IInv, EndTx, Terminator
<1>4. FmTail' = FmTail
  BY DEF FmTail
<1>5. Floor = "fm" /\ Floor' = "free"
  BY DEF Floor, EndTx
<1>6. QED
  BY <1>3, <1>4, <1>5 DEF HD!FmStops

\* The token stays tripped, and a voice_task that is leaving does not come back.
LEMMA OverForGood ==
  ASSUME IInv, [Next]_vars, Floor = "over"
  PROVE  Floor' = "over"
<1>1. CASE cancel
  <2>1. cancel'
    <3>1. CASE OnDmrd
      BY <1>1, <3>1 DEF OnDmrd, RxHeader, RxTerminator, RxVoice,
         RxImplicitStart, RxStreamChange, FromNet, AtInput, AtSelect
    <3>2. CASE FinishStreamChange
      <4>1. rx.sid \in RxStreams
        BY <3>2 DEF IInv, TypeOK, CallShape, FinishStreamChange, RxCalls
      <4>2. QED
        BY <1>1, <3>2, <4>1, SizeAssumption, WithUnkeyType, DeliverFramesType
           DEF IInv, FinishStreamChange
    <3>3. CASE OnAudio \/ FinishCall \/ FinishShutdown \/ OnNetworkReset
               \/ OnTimeout \/ OnShutdown
      BY <1>1, <3>3
         DEF OnAudio, KeyUp, BufferAudio, SendBurst, KeyDown, AtInput, AtSelect,
             FinishCall, FinishShutdown, OnNetworkReset, OnTimeout, RxTimeout,
             HangExpired, TxExpired, OnShutdown, ShutdownRx, ShutdownTx,
             ShutdownIdle
    <3>4. CASE FmSend \/ Session \/ Tick \/ Cancel \/ Terminated
               \/ UNCHANGED vars
      BY <1>1, <3>4
         DEF FmSend, Session, NetSendControl, NetSendVoice, Connect, Disconnect,
             Tick, Cancel, Terminated, vars
    <3>5. QED
      BY <3>1, <3>2, <3>3, <3>4 DEF Next, VoiceTask, Resume
  <2>2. QED
    BY <2>1 DEF Floor
<1>2. CASE pc \in {"exit", "done"}
  <2>1. pc' \in {"exit", "done"}
    <3>1. CASE VoiceTask
      BY <1>2, <3>1
         DEF VoiceTask, OnAudio, KeyUp, BufferAudio, SendBurst, KeyDown, OnDmrd,
             RxHeader, RxTerminator, RxVoice, RxImplicitStart, RxStreamChange,
             FromNet, AtInput, AtSelect, Resume, FinishCall, FinishStreamChange,
             FinishShutdown, OnNetworkReset, OnTimeout, RxTimeout, HangExpired,
             TxExpired, OnShutdown, ShutdownRx, ShutdownTx, ShutdownIdle
    <3>2. CASE FmSend \/ Session \/ Tick \/ Cancel \/ Terminated
               \/ UNCHANGED vars
      BY <1>2, <3>2
         DEF FmSend, Session, NetSendControl, NetSendVoice, Connect, Disconnect,
             Tick, Cancel, Terminated, vars, taskVars
    <3>3. QED
      BY <3>1, <3>2 DEF Next
  <2>2. QED
    BY <2>1 DEF Floor
<1>3. Floor = "over" => cancel \/ pc \in {"exit", "done"}
  BY DEF Floor, IInv, TypeOK
<1>4. QED
  BY <1>1, <1>2, <1>3

\* Each step is one of the floor's, or changes neither the floor nor the lines.
LEMMA StepHalfDuplex ==
  ASSUME IInv, TailsTyped', FreshSession, [Next]_vars,
         [OnNetworkReset => state # "Rx"]_vars
  PROVE  [HD!Next]_HD!vars
<1>0. TypeOK /\ CallShape
  BY DEF IInv
<1>a. UNCHANGED <<audioOut, fm>> => FmTail' = FmTail
  BY DEF FmTail
<1>b. UNCHANGED <<dmrdControlOut, peer>> => PeerTail' = PeerTail
  BY DEF PeerTail
<1>c. UNCHANGED <<Floor, FmTail, PeerTail>> => UNCHANGED HD!vars
  BY DEF HD!vars
<1>d. CASE Floor' = "over"
  <2>1. /\ FmTail' \in RxStreams \cup {NoStream}
        /\ PeerTail' \in TxStreams \cup {NoStream}
    BY DEF TailsTyped
  <2>2. QED
    BY <1>d, <2>1 DEF HD!Next, HD!Over
<1>e. CASE Floor' # "over"
  <2>0. /\ ~cancel /\ pc \notin {"exit", "done"}
        /\ ~cancel' /\ pc' \notin {"exit", "done"}
    BY <1>e, OverForGood DEF Floor
  <2>1. CASE KeyUp
    <3>1. PICK s \in FreshStreams :
            dmrdControlOut' = Append(dmrdControlOut, Header([NoTx EXCEPT !.sid = s]))
      BY <2>1 DEF KeyUp
    <3>2. s \in TxStreams
      BY DEF FreshStreams
    <3>3. Header([NoTx EXCEPT !.sid = s]) = [kind |-> "header", sid |-> s, seq |-> 0]
      BY DEF Header, NoTx
    <3>4. PeerTail' = s
      BY <1>0, <3>1, <3>2, <3>3, ZeroSeqs, AppendedPeerTail DEF ControlPkts
    <3>5. Floor = "free" /\ Floor' = "fm" /\ UNCHANGED <<audioOut, fm>>
      BY <2>0, <2>1 DEF KeyUp, MayKeyUp, AtInput, AtSelect, Floor
    <3>6. QED
      BY <1>a, <3>2, <3>4, <3>5 DEF HD!Next, HD!FmTalks
  <2>2. CASE BufferAudio \/ SendBurst
    <3>1. UNCHANGED <<state, pc, audioOut, fm, dmrdControlOut, peer>>
      BY <2>2 DEF BufferAudio, SendBurst, dmrVars, netVars
    <3>2. Floor' = Floor
      BY <1>0, <2>0, <3>1 DEF Floor, TypeOK
    <3>3. QED
      BY <1>a, <1>b, <1>c, <3>1, <3>2
  <2>3. CASE KeyDown \/ TxExpired
    <3>1. PICK o \in FlushOutcomes : EndTx(o)
      BY <2>3 DEF KeyDown, TxExpired
    <3>2. state = "Tx" /\ pc = "loop" /\ UNCHANGED <<pc, fm, audioOut>>
      BY <2>3 DEF KeyDown, TxExpired, AtInput, AtSelect
    <3>3. QED
      BY <2>0, <3>1, <3>2, EndTxFloor DEF HD!Next
  <2>4. CASE OnDmrd
    <3>1. PICK s \in RxStreams :
            \/ RxHeader(s) \/ RxTerminator(s)
            \/ \E q \in Seqs : RxVoice(s, q) \/ RxImplicitStart(s, q)
                                              \/ RxStreamChange(s, q)
      BY <2>4 DEF OnDmrd
    <3>2. /\ Floor \in {"free", "dmr", "hang"} /\ Floor' = "dmr"
          /\ UNCHANGED <<dmrdControlOut, peer, fm>>
      BY <1>0, <2>0, <3>1
         DEF RxHeader, RxTerminator, RxVoice, RxImplicitStart, RxStreamChange,
             FromNet, AtInput, AtSelect, Floor, TypeOK, dmrVars, netVars
    <3>3. FmTail' \in {FmTail, s}
      <4>1. CASE \E q \in Seqs : RxVoice(s, q)
        <5>1. PICK q \in Seqs : RxVoice(s, q)
          BY <4>1
        <5> DEFINE delta == IF rx.last = NoSeq THEN 0
                            ELSE (q - rx.last - 1) % SeqMod
        <5>2. delta \in Seqs
          <6>1. rx.last \in Seqs \cup {NoSeq}
            BY <1>0 DEF TypeOK, RxCalls
          <6>2. rx.last # NoSeq => q - rx.last - 1 \in Int
            BY <6>1 DEF Seqs
          <6>3. QED
            BY <6>2, ModSeqs, ZeroSeqs
        <5>3. BurstFrames(delta) \in Nat
          BY <5>2, BurstFramesType
        <5>4. DeliverFrames(audioOut, s, BurstFrames(delta))
          BY <5>1 DEF RxVoice
        <5>5. QED
          BY <1>0, <3>2, <5>3, <5>4, DeliveredTail
      <4>2. CASE \E q \in Seqs : RxImplicitStart(s, q)
        BY <1>0, <3>2, <4>2, SizeAssumption, DeliveredTail DEF RxImplicitStart
      <4>3. CASE RxHeader(s) \/ RxTerminator(s)
                 \/ \E q \in Seqs : RxStreamChange(s, q)
        BY <1>a, <4>3 DEF RxHeader, RxTerminator, RxStreamChange
      <4>4. QED
        BY <3>1, <4>1, <4>2, <4>3
    <3>4. QED
      BY <1>b, <3>2, <3>3 DEF HD!Next, HD!DmrTalks
  <2>5. CASE FinishCall
    <3>1. FmTail' = NoStream
      BY <1>0, <2>0, <2>5, UnkeyTail DEF FinishCall
    <3>2. Floor = "dmr" /\ Floor' = "hang" /\ UNCHANGED <<dmrdControlOut, peer>>
      BY <2>0, <2>5 DEF FinishCall, Floor, dmrVars, netVars
    <3>3. QED
      BY <1>b, <3>1, <3>2 DEF HD!Next, HD!DmrStops
  <2>6. CASE FinishStreamChange
    <3>1. rx.sid \in RxStreams
      BY <1>0, <2>6 DEF TypeOK, CallShape, FinishStreamChange, RxCalls
    <3>2. FmTail' \in {NoStream, rx.sid}
      BY <1>0, <2>0, <2>6, <3>1, SizeAssumption, DeliveredTail
         DEF FinishStreamChange
    <3>3. Floor = "dmr" /\ Floor' = "dmr" /\ UNCHANGED <<dmrdControlOut, peer>>
      BY <1>0, <2>0, <2>6
         DEF FinishStreamChange, CallShape, Floor, dmrVars, netVars
    <3>4. QED
      BY <1>b, <3>1, <3>2, <3>3 DEF HD!Next, HD!DmrTalks
  <2>7. CASE OnNetworkReset
    <3>1. PeerTail = NoStream /\ PeerTail' = NoStream
      BY <1>0, <2>0, <2>7 DEF OnNetworkReset, FreshSession, PeerTail, dmrVars,
                              netVars, TypeOK
    <3>2. FmTail' = FmTail
      BY <1>a, <2>7 DEF OnNetworkReset
    <3>3. state # "Rx" /\ pc = "loop" /\ pc' = "loop" /\ state' = "Idle"
      BY <1>0, <2>7 DEF OnNetworkReset, vars, TypeOK
    <3>4. Floor' = "free"
      BY <2>0, <3>3 DEF Floor
    <3>5. CASE state = "Tx"
      <4>1. Floor = "fm"
        BY <2>0, <3>3, <3>5 DEF Floor
      <4>2. QED
        BY <3>1, <3>2, <3>4, <4>1 DEF HD!Next, HD!FmStops
    <3>6. CASE state = "RxHang"
      <4>1. Floor = "hang"
        BY <2>0, <3>3, <3>6 DEF Floor
      <4>2. QED
        BY <3>1, <3>2, <3>4, <4>1 DEF HD!Next, HD!HangEnds
    <3>7. CASE state = "Idle"
      <4>1. Floor = "free"
        BY <2>0, <3>3, <3>7 DEF Floor
      <4>2. QED
        BY <1>c, <3>1, <3>2, <3>4, <4>1
    <3>8. QED
      BY <1>0, <3>3, <3>5, <3>6, <3>7 DEF TypeOK
  <2>8. CASE RxTimeout
    <3>1. Floor = "dmr" /\ Floor' = "dmr"
          /\ UNCHANGED <<audioOut, fm, dmrdControlOut, peer>>
      BY <2>0, <2>8 DEF RxTimeout, AtSelect, Floor, dmrVars, netVars
    <3>2. QED
      BY <1>a, <1>b, <1>c, <3>1
  <2>9. CASE HangExpired
    <3>1. Floor = "hang" /\ Floor' = "free"
          /\ UNCHANGED <<audioOut, fm, dmrdControlOut, peer>>
      BY <2>0, <2>9 DEF HangExpired, AtSelect, Floor, dmrVars, netVars
    <3>2. QED
      BY <1>a, <1>b, <3>1 DEF HD!Next, HD!HangEnds
  <2>10. CASE OnShutdown \/ FinishShutdown \/ Cancel
    BY <2>0, <2>10
       DEF OnShutdown, ShutdownRx, ShutdownTx, ShutdownIdle, FinishShutdown, Cancel
  <2>11. CASE FmSend
    <3>1. Floor' = Floor /\ UNCHANGED <<dmrdControlOut, peer>>
      BY <2>0, <2>11 DEF FmSend, Floor, taskVars, dmrVars, netVars
    <3>2. QED
      BY <1>0, <1>b, <1>c, <2>11, <3>1, FmSendTail
  <2>12. CASE NetSendControl
    <3>1. Floor' = Floor /\ UNCHANGED <<audioOut, fm>>
      BY <2>0, <2>12 DEF NetSendControl, Floor, taskVars
    <3>2. QED
      BY <1>0, <1>a, <1>c, <2>12, <3>1, NetSendTail
  <2>13. CASE Connect
    <3>1. Floor' = Floor /\ UNCHANGED <<audioOut, fm>>
      BY <2>0, <2>13 DEF Connect, Floor, taskVars
    <3>2. PeerTail' = NoStream
      BY <2>13 DEF Connect, PeerTail
    <3>3. QED
      BY <1>a, <3>1, <3>2 DEF HD!Next, HD!LineLost
  <2>14. CASE NetSendVoice \/ Disconnect \/ Tick \/ Terminated \/ UNCHANGED vars
    <3>1. UNCHANGED <<state, pc, audioOut, fm, dmrdControlOut, peer>>
      BY <2>14 DEF NetSendVoice, Disconnect, Tick, Terminated, vars, taskVars,
                   dmrVars, netVars
    <3>2. Floor' = Floor
      BY <1>0, <2>0, <3>1 DEF Floor, TypeOK
    <3>3. QED
      BY <1>a, <1>b, <1>c, <3>1, <3>2
  <2>15. QED
    BY <2>1, <2>2, <2>3, <2>4, <2>5, <2>6, <2>7, <2>8, <2>9, <2>10, <2>11, <2>12,
       <2>13, <2>14 DEF Next, VoiceTask, OnAudio, Resume, OnTimeout, Session
<1>f. QED
  BY <1>d, <1>e

\* Apart from a session reset taken in Rx, whatever the sessions, timeouts, queue
\* sizes and shutdowns, the bridge is a half-duplex gateway.
THEOREM FloorControl == Spec /\ UndisturbedRx => ImplementsHalfDuplex
<1>1. Init => HD!Init
  BY DEF Init, HD!Init, Floor, FmTail, PeerTail
<1>2. IInv => TailsTyped
  BY TailTypes DEF IInv
<1>3. QED
  BY <1>1, <1>2, StepHalfDuplex, AlwaysIInv, AlwaysFresh, PTL
     DEF Spec, UndisturbedRx, ImplementsHalfDuplex, HD!Spec

\* A gateway that keeps to the floor never has both lines in use.
LEMMA FloorKeepsDirection == HD!Spec => []HD!OneDirection
<1>1. HD!Init => HD!OneDirection
  BY DEF HD!Init, HD!OneDirection
<1>2. HD!OneDirection /\ [HD!Next]_HD!vars => HD!OneDirection'
  BY DEF HD!OneDirection, HD!Next, HD!vars, HD!DmrTalks, HD!DmrStops,
         HD!HangEnds, HD!FmTalks, HD!FmStops, HD!LineLost, HD!Over
<1>3. QED
  BY <1>1, <1>2, PTL DEF HD!Spec

\* So the bridge never leaves FM keyed for a DMR call while the master holds an
\* FM call of its own open, nor either without the machine being in that call.
THEOREM NeverBothWays == Spec /\ UndisturbedRx => []HD!OneDirection
  BY FloorControl, FloorKeepsDirection, PTL DEF ImplementsHalfDuplex

\* All four hold outright of a bridge whose master session is never replaced, and
\* of one that carries FM to DMR only.
THEOREM SteadyBridge ==
  ASSUME Drops = FALSE \/ Gateway = "FmToDmr"
  PROVE  Spec => [](RxAccounted /\ MetaFollowsCall /\ FmKeyedOnlyInRx)
                 /\ ImplementsHalfDuplex
  BY RxNotDisturbed, RxCallsAccounted, CallerShown, FmKeyedOnlyByCall,
     FloorControl, PTL

-----------------------------------------------------------------------------
(* The actions seen from the DMR side.                                     *)

\* Nothing else touches the call to DMR, its queues or the session's state.
Elsewhere ==
  \/ OnDmrd \/ Resume \/ RxTimeout \/ HangExpired \/ ShutdownRx \/ ShutdownIdle
  \/ FmSend \/ Disconnect \/ Tick \/ Cancel \/ Terminated

LEMMA ElsewhereKeeps ==
  ASSUME IInv, Elsewhere
  PROVE  /\ UNCHANGED <<tx, control, dmrdVoiceOut, dmrdControlOut, peer, heard>>
         /\ cancel => cancel'
<1>1. CASE OnDmrd
  BY <1>1 DEF OnDmrd, RxHeader, RxTerminator, RxVoice, RxImplicitStart,
              RxStreamChange, FromNet, AtInput, AtSelect, dmrVars, netVars
<1>2. CASE FinishStreamChange
  <2>1. rx.sid \in RxStreams
    BY <1>2 DEF IInv, TypeOK, CallShape, FinishStreamChange, RxCalls
  <2>2. cancel => cancel'
    BY <1>2, <2>1, SizeAssumption, WithUnkeyType, DeliverFramesType
       DEF IInv, FinishStreamChange
  <2>3. QED
    BY <1>2, <2>2 DEF FinishStreamChange, dmrVars, netVars
<1>3. CASE FinishCall \/ FinishShutdown
  BY <1>3 DEF FinishCall, FinishShutdown, dmrVars, netVars
<1>4. CASE RxTimeout \/ HangExpired \/ ShutdownRx \/ ShutdownIdle
  BY <1>4 DEF RxTimeout, HangExpired, ShutdownRx, ShutdownIdle, dmrVars, netVars
<1>5. CASE FmSend \/ Disconnect \/ Tick \/ Cancel \/ Terminated
  BY <1>5 DEF FmSend, Disconnect, Tick, Cancel, Terminated, vars, taskVars,
              dmrVars, netVars
<1>6. QED
  BY <1>1, <1>2, <1>3, <1>4, <1>5 DEF Elsewhere, Resume

\* The ways a Tx call ends.
EndsTx == KeyDown \/ TxExpired \/ ShutdownTx

LEMMA EndsTxBy ==
  ASSUME EndsTx
  PROVE  /\ \E o : EndTx(o)
         /\ UNCHANGED <<control, peer, heard>>
         /\ state = "Tx"
         /\ control = 0 \/ cancel'
         /\ ~cancel' => ~cancel
<1>1. CASE KeyDown \/ TxExpired
  BY <1>1 DEF KeyDown, TxExpired, AtInput, AtSelect, netVars
<1>2. CASE ShutdownTx
  BY <1>2 DEF ShutdownTx, netVars
<1>3. QED
  BY <1>1, <1>2 DEF EndsTx

\* Next, as the DMR side sees it.
LEMMA NextOnTheNet ==
  ASSUME [Next]_vars
  PROVE  \/ KeyUp \/ BufferAudio \/ SendBurst \/ EndsTx \/ OnNetworkReset
         \/ NetSendControl \/ NetSendVoice \/ Connect \/ Elsewhere
         \/ UNCHANGED vars
  BY DEF Next, VoiceTask, OnAudio, OnTimeout, OnShutdown, Session, EndsTx,
         Elsewhere

\* Buffering a frame and sending a burst are steps of the same call.
LEMMA SameTx ==
  ASSUME IInv, BufferAudio \/ SendBurst
  PROVE  tx'.sid = tx.sid
<1>1. CASE BufferAudio
  BY <1>1 DEF BufferAudio, IInv, TypeOK, TxCalls
<1>2. CASE SendBurst
  <2>1. PICK o \in Outcomes : tx' = [AfterBurst(tx, o) EXCEPT !.buf = 0]
    BY <1>2 DEF SendBurst
  <2>2. QED
    BY <2>1, AfterBurstType DEF IInv, TypeOK, TxCalls
<1>3. QED
  BY <1>1, <1>2

\* Sending a packet off either queue moves the ones behind it up.
LEMMA Shift ==
  ASSUME NEW S, NEW q \in Seq(S), q # <<>>
  PROVE  /\ Head(q) = q[1] /\ Len(q) \in Nat \ {0}
         /\ Tail(q) \in Seq(S) /\ Len(Tail(q)) = Len(q) - 1
         /\ \A i \in 1 .. Len(Tail(q)) : Tail(q)[i] = q[i + 1]
BY HeadTailProperties

-----------------------------------------------------------------------------
(* Headers and terminators.                                                *)

\* The call the master holds open after packet p, and before the i-th queued.
Holds(p) == IF p.kind = "header" THEN p.sid ELSE NoStream
Before(i) == IF i = 1 THEN peer ELSE Holds(dmrdControlOut[i - 1])

\* The packet fits: a header opens a call when none is open, a terminator closes
\* the one that is.
Fits(open, p) == open = IF p.kind = "header" THEN NoStream ELSE p.sid

\* Everything queued fits, and its end is the call the machine is in.  A pending
\* reset keeps the machine from queueing to the session it announces.
Framed ==
  ~cancel =>
    /\ \A i \in 1 .. Len(dmrdControlOut) : Fits(Before(i), dmrdControlOut[i])
    /\ control = 0 => PeerTail = tx.sid

LEMMA FramedAppend ==
  ASSUME TypeOK, NEW p \in ControlPkts, Fits(PeerTail, p), UNCHANGED peer,
         dmrdControlOut' = Append(dmrdControlOut, p),
         \A i \in 1 .. Len(dmrdControlOut) : Fits(Before(i), dmrdControlOut[i])
  PROVE  (\A i \in 1 .. Len(dmrdControlOut) : Fits(Before(i), dmrdControlOut[i]))'
<1> DEFINE n == Len(dmrdControlOut)
<1>1. /\ n \in Nat /\ Len(dmrdControlOut') = n + 1
      /\ \A i \in 1 .. n : dmrdControlOut'[i] = dmrdControlOut[i]
      /\ dmrdControlOut'[n + 1] = p
  BY AppendProperties, LenProperties DEF TypeOK
<1>2. \A i \in 1 .. n : Before(i)' = Before(i)
  BY <1>1 DEF Before, Holds
<1>3. ASSUME NEW k \in Nat, k = n + 1
      PROVE  Before(k)' = PeerTail
  <2>1. CASE n = 0
    <3>1. dmrdControlOut = <<>>
      BY <2>1, EmptySeq DEF TypeOK
    <3>2. QED
      BY <1>3, <2>1, <3>1 DEF Before, PeerTail
  <2>2. CASE n # 0
    <3>1. dmrdControlOut # <<>> /\ n \in 1 .. n /\ k # 1 /\ k - 1 = n
      BY <1>1, <1>3, <2>2
    <3>2. Before(k)' = Holds(dmrdControlOut[n])
      BY <1>1, <3>1 DEF Before, Holds
    <3>3. QED
      BY <3>1, <3>2 DEF Holds, PeerTail
  <2>3. QED
    BY <2>1, <2>2
<1>4. ASSUME NEW i \in 1 .. n + 1
      PROVE  Fits(Before(i)', dmrdControlOut'[i])
  <2>1. CASE i = n + 1
    BY <1>1, <1>3, <2>1 DEF Fits
  <2>2. CASE i # n + 1
    <3>1. i \in 1 .. n
      BY <1>1, <2>2
    <3>2. QED
      BY <1>1, <1>2, <3>1 DEF Fits
  <2>3. QED
    BY <2>1, <2>2
<1>5. QED
  BY <1>1, <1>4 DEF Fits

LEMMA StepFramed ==
  ASSUME IInv, FreshSession, Framed, [Next]_vars
  PROVE  Framed'
<1>0. TypeOK /\ CallShape
  BY DEF IInv
<1>a. UNCHANGED <<dmrdControlOut, peer>> =>
        /\ PeerTail' = PeerTail
        /\ \A i : Before(i)' = Before(i)
  BY DEF PeerTail, Before, Holds
<1>1. CASE KeyUp
  <2>1. PICK s \in FreshStreams :
          /\ dmrdControlOut' = Append(dmrdControlOut, Header([NoTx EXCEPT !.sid = s]))
          /\ tx' = [[NoTx EXCEPT !.sid = s] EXCEPT !.seq = 1 % SeqMod, !.buf = 1]
    BY <1>1 DEF KeyUp
  <2> DEFINE p == [kind |-> "header", sid |-> s, seq |-> 0]
  <2>2. p \in ControlPkts /\ dmrdControlOut' = Append(dmrdControlOut, p)
        /\ tx'.sid = s
    BY <2>1, ZeroSeqs DEF Header, NoTx, ControlPkts, FreshStreams
  <2>3. ~cancel /\ control = 0 /\ state = "Idle" /\ UNCHANGED <<cancel, control, peer>>
    BY <1>1 DEF KeyUp, AtInput, AtSelect, MayKeyUp, netVars
  <2>4. Fits(PeerTail, p)
    BY <1>0, <2>3 DEF Framed, Fits, CallShape
  <2>5. PeerTail' = s
    BY <1>0, <2>2, AppendedPeerTail
  <2> HIDE DEF p
  <2>6. QED
    BY <1>0, <2>2, <2>3, <2>4, <2>5, FramedAppend DEF Framed
<1>2. CASE EndsTx
  <2>0. ASSUME ~cancel' PROVE Framed'
    <3>1. PICK o : EndTx(o)
      BY <1>2, EndsTxBy
    <3>2. /\ UNCHANGED peer /\ control = 0 /\ control' = control
          /\ state = "Tx" /\ ~cancel
      BY <1>2, <2>0, EndsTxBy
    <3> DEFINE p == Terminator(AfterBurst(tx, o))
    <3>3. tx \in TxCalls /\ tx.sid # NoStream
      BY <1>0, <3>2 DEF TypeOK, CallShape
    <3>4. p \in ControlPkts /\ p.kind = "term" /\ p.sid = tx.sid
      BY <3>3, AfterBurstType DEF Terminator, ControlPkts, TxCalls
    <3>5. dmrdControlOut' = Append(dmrdControlOut, p) /\ tx'.sid = NoStream
      BY <3>1 DEF EndTx, NoTx
    <3> HIDE DEF p
    <3>6. Fits(PeerTail, p)
      BY <3>2, <3>4 DEF Framed, Fits
    <3>7. PeerTail' = NoStream
      BY <1>0, <3>4, <3>5, AppendedPeerTail
    <3>8. QED
      BY <1>0, <3>2, <3>4, <3>5, <3>6, <3>7, FramedAppend DEF Framed
  <2>1. QED
    BY <2>0 DEF Framed
<1>3. CASE OnNetworkReset
  <2>1. /\ ~cancel /\ control > 0 /\ tx'.sid = NoStream
        /\ UNCHANGED <<dmrdControlOut, peer>>
    BY <1>3 DEF OnNetworkReset, dmrVars, netVars, NoTx
  <2>2. dmrdControlOut = <<>> /\ peer = NoStream
    BY <2>1 DEF FreshSession
  <2>3. QED
    BY <2>1, <2>2 DEF Framed, PeerTail
<1>4. CASE NetSendControl
  <2> DEFINE q == dmrdControlOut
  <2>1. /\ q # <<>> /\ q \in Seq(ControlPkts)
        /\ q' = Tail(q) /\ peer' = Holds(Head(q))
        /\ ~cancel /\ UNCHANGED <<cancel, control, tx>>
    BY <1>0, <1>4 DEF NetSendControl, TypeOK, Holds, taskVars
  <2>2. /\ Head(q) = q[1] /\ Len(q) \in Nat \ {0} /\ Len(q') = Len(q) - 1
        /\ \A i \in 1 .. Len(q') : q'[i] = q[i + 1]
    BY <2>1, Shift
  <2>3. \A i \in 1 .. Len(q') : Before(i)' = Before(i + 1)
    BY <2>1, <2>2 DEF Before
  <2>4. \A i \in 1 .. Len(q') : Fits(Before(i)', q'[i])
    BY <2>1, <2>2, <2>3 DEF Framed
  <2>5. PeerTail' = PeerTail
    BY <1>0, <1>4, NetSendTail
  <2>6. QED
    BY <2>1, <2>4, <2>5 DEF Framed
<1>5. CASE Connect
  BY <1>0, <1>5 DEF Framed, Connect, TypeOK
<1>6. CASE BufferAudio \/ SendBurst
  <2>1. /\ UNCHANGED <<dmrdControlOut, peer, control>>
        /\ cancel => cancel'
    <3>1. CASE BufferAudio
      BY <3>1 DEF BufferAudio, dmrVars, netVars
    <3>2. CASE SendBurst
      BY <1>0, <3>2 DEF SendBurst, TypeOK, netVars
    <3>3. QED
      BY <1>6, <3>1, <3>2
  <2>2. tx'.sid = tx.sid
    BY <1>6, SameTx
  <2>3. QED
    BY <1>a, <2>1, <2>2 DEF Framed
<1>7. CASE NetSendVoice \/ Elsewhere \/ UNCHANGED vars
  <2>1. /\ UNCHANGED <<dmrdControlOut, peer, control, tx>>
        /\ cancel => cancel'
    BY <1>7, ElsewhereKeeps
       DEF NetSendVoice, vars, taskVars, dmrVars, netVars
  <2>2. QED
    BY <1>a, <2>1 DEF Framed
<1>8. QED
  BY <1>1, <1>2, <1>3, <1>4, <1>5, <1>6, <1>7, NextOnTheNet

LEMMA AlwaysFramed == Spec => []Framed
<1>1. Init => Framed
  BY DEF Init, Framed, NoTx, PeerTail
<1>2. QED
  BY <1>1, StepFramed, AlwaysIInv, AlwaysFresh, PTL DEF Spec

\* Whatever the timeouts, lost sessions, resets and shutdown, the master gets
\* header and terminator of one call at a time, in turn.
THEOREM MasterSeesCalls == Spec => CallControlFramed
<1>1. IInv /\ Framed =>
        [NetSendControl =>
           LET p == Head(dmrdControlOut) IN
           peer = IF p.kind = "header" THEN NoStream ELSE p.sid]_vars
  <2> SUFFICES ASSUME IInv, Framed, NetSendControl
               PROVE  Fits(peer, Head(dmrdControlOut))
    BY DEF Fits
  <2>1. /\ ~cancel /\ dmrdControlOut \in Seq(ControlPkts)
        /\ dmrdControlOut # <<>>
    BY DEF IInv, TypeOK, NetSendControl
  <2>2. /\ Head(dmrdControlOut) = dmrdControlOut[1]
        /\ 1 \in 1 .. Len(dmrdControlOut)
    BY <2>1, Shift
  <2>3. QED
    BY <2>1, <2>2 DEF Framed, Before
<1>2. QED
  BY <1>1, AlwaysIInv, AlwaysFramed, PTL DEF CallControlFramed

-----------------------------------------------------------------------------
(* Voice.                                                                  *)

\* The master was sent the header of call s, or will be before any more voice.
Known(s) ==
  \/ s \in heard
  \/ \E i \in 1 .. Len(dmrdControlOut) :
       dmrdControlOut[i].kind = "header" /\ dmrdControlOut[i].sid = s

Announced ==
  ~cancel =>
    /\ \A i \in 1 .. Len(dmrdVoiceOut) : Known(dmrdVoiceOut[i].sid)
    /\ control = 0 /\ tx.sid # NoStream => Known(tx.sid)

\* Queueing another packet keeps what is known.
LEMMA KnownAppend ==
  ASSUME TypeOK, NEW p, dmrdControlOut' = Append(dmrdControlOut, p),
         UNCHANGED heard, p \in ControlPkts
  PROVE  /\ \A s : Known(s) => Known(s)'
         /\ \A s : p.kind = "header" /\ p.sid = s => Known(s)'
<1>1. /\ Len(dmrdControlOut) \in Nat
      /\ Len(dmrdControlOut') = Len(dmrdControlOut) + 1
      /\ \A i \in 1 .. Len(dmrdControlOut) :
           dmrdControlOut'[i] = dmrdControlOut[i]
      /\ dmrdControlOut'[Len(dmrdControlOut) + 1] = p
  BY AppendProperties, LenProperties DEF TypeOK
<1>2. /\ \A i \in 1 .. Len(dmrdControlOut) : i \in 1 .. Len(dmrdControlOut')
      /\ Len(dmrdControlOut) + 1 \in 1 .. Len(dmrdControlOut')
  BY <1>1
<1>3. QED
  BY <1>1, <1>2 DEF Known

\* So does sending one.
LEMMA KnownSend ==
  ASSUME TypeOK, NetSendControl
  PROVE  \A s : Known(s) => Known(s)'
<1> DEFINE q == dmrdControlOut
<1>1. /\ q # <<>> /\ q \in Seq(ControlPkts) /\ q' = Tail(q)
      /\ heard' = IF Head(q).kind = "header" THEN heard \cup {Head(q).sid}
                                             ELSE heard
  BY DEF TypeOK, NetSendControl
<1>2. /\ Head(q) = q[1] /\ Len(q) \in Nat \ {0} /\ Len(q') = Len(q) - 1
      /\ \A i \in 1 .. Len(q') : q'[i] = q[i + 1]
  BY <1>1, Shift
<1>3. ASSUME NEW s, NEW i \in 1 .. Len(q), q[i].kind = "header", q[i].sid = s
      PROVE  Known(s)'
  <2>1. CASE i = 1
    BY <1>1, <1>2, <1>3, <2>1 DEF Known
  <2>2. CASE i # 1
    <3>1. i - 1 \in 1 .. Len(q') /\ q'[i - 1] = q[i]
      BY <1>2, <2>2
    <3>2. QED
      BY <1>3, <3>1 DEF Known
  <2>3. QED
    BY <2>1, <2>2
<1>4. \A s : s \in heard => Known(s)'
  BY <1>1 DEF Known
<1>5. QED
  BY <1>3, <1>4 DEF Known

\* A burst behind the queue is of the call it was built for.
LEMMA QueuedBurst ==
  ASSUME TypeOK, tx.sid # NoStream, NEW o, QueueBurst(tx, o)
  PROVE  \A i \in 1 .. Len(dmrdVoiceOut') :
           \/ i \in 1 .. Len(dmrdVoiceOut) /\ dmrdVoiceOut'[i] = dmrdVoiceOut[i]
           \/ dmrdVoiceOut'[i] = VoicePkt(tx)
<1>1. VoicePkt(tx) \in VoicePkts
  BY DEF TypeOK, VoicePkt, VoicePkts, TxCalls
<1>2. CASE dmrdVoiceOut' = Append(dmrdVoiceOut, VoicePkt(tx))
  <2>1. /\ Len(dmrdVoiceOut) \in Nat
        /\ Len(dmrdVoiceOut') = Len(dmrdVoiceOut) + 1
        /\ \A i \in 1 .. Len(dmrdVoiceOut) : dmrdVoiceOut'[i] = dmrdVoiceOut[i]
        /\ dmrdVoiceOut'[Len(dmrdVoiceOut) + 1] = VoicePkt(tx)
    BY <1>1, <1>2, AppendProperties, LenProperties DEF TypeOK
  <2>2. \A i \in 1 .. Len(dmrdVoiceOut) + 1 :
          i \in 1 .. Len(dmrdVoiceOut) \/ i = Len(dmrdVoiceOut) + 1
    BY <2>1
  <2>3. QED
    BY <2>1, <2>2
<1>3. CASE dmrdVoiceOut' = dmrdVoiceOut
  BY <1>3
<1>4. QED
  BY <1>2, <1>3 DEF QueueBurst

LEMMA StepAnnounced ==
  ASSUME IInv, FreshSession, Announced, [Next]_vars
  PROVE  Announced'
<1>0. TypeOK /\ CallShape
  BY DEF IInv
<1>a. UNCHANGED <<dmrdControlOut, heard>> => \A s : Known(s)' = Known(s)
  BY DEF Known
<1>1. CASE KeyUp
  <2>1. PICK s \in FreshStreams :
          /\ dmrdControlOut' = Append(dmrdControlOut, Header([NoTx EXCEPT !.sid = s]))
          /\ tx' = [[NoTx EXCEPT !.sid = s] EXCEPT !.seq = 1 % SeqMod, !.buf = 1]
    BY <1>1 DEF KeyUp
  <2> DEFINE p == [kind |-> "header", sid |-> s, seq |-> 0]
  <2>2. p \in ControlPkts /\ dmrdControlOut' = Append(dmrdControlOut, p)
        /\ tx'.sid = s
    BY <2>1, ZeroSeqs DEF Header, NoTx, ControlPkts, FreshStreams
  <2>3. ~cancel /\ UNCHANGED <<heard, dmrdVoiceOut>>
    BY <1>1 DEF KeyUp, AtInput, AtSelect, netVars
  <2>4. (\A r : Known(r) => Known(r)') /\ Known(s)'
    BY <1>0, <2>2, <2>3, KnownAppend
  <2>5. QED
    BY <2>2, <2>3, <2>4 DEF Announced
<1>2. CASE EndsTx
  <2>0. ASSUME ~cancel' PROVE Announced'
    <3>1. PICK o : EndTx(o)
      BY <1>2, EndsTxBy
    <3>2. UNCHANGED heard /\ control = 0 /\ state = "Tx" /\ ~cancel
      BY <1>2, <2>0, EndsTxBy
    <3> DEFINE p == Terminator(AfterBurst(tx, o))
    <3>3. tx \in TxCalls /\ tx.sid # NoStream
      BY <1>0, <3>2 DEF TypeOK, CallShape
    <3>4. p \in ControlPkts
      BY <3>3, AfterBurstType DEF Terminator, ControlPkts, TxCalls
    <3>5. dmrdControlOut' = Append(dmrdControlOut, p) /\ tx'.sid = NoStream
          /\ QueueBurst(tx, o)
      BY <3>1 DEF EndTx, NoTx
    <3> HIDE DEF p
    <3>6. \A s : Known(s) => Known(s)'
      BY <1>0, <3>2, <3>4, <3>5, KnownAppend
    <3>7. \A i \in 1 .. Len(dmrdVoiceOut') : Known(dmrdVoiceOut'[i].sid)
      BY <1>0, <3>2, <3>3, <3>5, QueuedBurst DEF Announced, VoicePkt
    <3>8. QED
      BY <3>5, <3>6, <3>7 DEF Announced
  <2>1. QED
    BY <2>0 DEF Announced
<1>3. CASE SendBurst
  <2>1. PICK o \in Outcomes : QueueBurst(tx, o)
    BY <1>3 DEF SendBurst
  <2>2. /\ UNCHANGED <<dmrdControlOut, heard, control>> /\ control = 0
        /\ state = "Tx" /\ ~cancel
    BY <1>3 DEF SendBurst, AtInput, AtSelect, netVars
  <2>3. tx'.sid = tx.sid /\ tx.sid # NoStream
    BY <1>0, <1>3, <2>2, SameTx DEF CallShape
  <2>4. \A i \in 1 .. Len(dmrdVoiceOut') : Known(dmrdVoiceOut'[i].sid)
    BY <1>0, <2>1, <2>2, <2>3, QueuedBurst DEF Announced, VoicePkt
  <2>5. QED
    BY <1>a, <2>2, <2>3, <2>4 DEF Announced
<1>4. CASE OnNetworkReset
  <2>1. /\ ~cancel /\ control > 0 /\ tx'.sid = NoStream
        /\ UNCHANGED <<dmrdVoiceOut, dmrdControlOut, heard>>
    BY <1>4 DEF OnNetworkReset, dmrVars, netVars, NoTx
  <2>2. dmrdVoiceOut = <<>>
    BY <2>1 DEF FreshSession
  <2>3. QED
    BY <2>1, <2>2 DEF Announced
<1>5. CASE NetSendControl
  <2>1. UNCHANGED <<dmrdVoiceOut, tx, control, cancel>>
    BY <1>5 DEF NetSendControl, taskVars
  <2>2. QED
    BY <1>0, <1>5, <2>1, KnownSend DEF Announced
<1>6. CASE NetSendVoice
  <2>1. /\ dmrdVoiceOut # <<>> /\ dmrdVoiceOut \in Seq(VoicePkts)
        /\ dmrdVoiceOut' = Tail(dmrdVoiceOut)
        /\ UNCHANGED <<dmrdControlOut, heard, tx, control, cancel>>
    BY <1>0, <1>6 DEF NetSendVoice, TypeOK, taskVars, netVars
  <2>2. \A i \in 1 .. Len(dmrdVoiceOut') :
          i + 1 \in 1 .. Len(dmrdVoiceOut) /\ dmrdVoiceOut'[i] = dmrdVoiceOut[i + 1]
    BY <2>1, Shift
  <2>3. QED
    BY <1>a, <2>1, <2>2 DEF Announced
<1>7. CASE Connect
  BY <1>0, <1>7 DEF Announced, Connect, TypeOK
<1>8. CASE BufferAudio
  <2>1. tx'.sid = tx.sid /\ UNCHANGED <<dmrVars, control, cancel>>
    BY <1>8, SameTx DEF BufferAudio
  <2>2. QED
    BY <1>a, <2>1 DEF Announced, dmrVars, netVars
<1>9. CASE Elsewhere \/ UNCHANGED vars
  <2>1. /\ UNCHANGED <<dmrdVoiceOut, dmrdControlOut, heard, control, tx>>
        /\ cancel => cancel'
    BY <1>9, ElsewhereKeeps DEF vars, taskVars, dmrVars, netVars
  <2>2. QED
    BY <1>a, <2>1 DEF Announced
<1>10. QED
  BY <1>1, <1>2, <1>3, <1>4, <1>5, <1>6, <1>7, <1>8, <1>9, NextOnTheNet

LEMMA AlwaysAnnounced == Spec => []Announced
<1>1. Init => Announced
  BY DEF Init, Announced, NoTx
<1>2. QED
  BY <1>1, StepAnnounced, AlwaysIInv, AlwaysFresh, PTL DEF Spec

\* No voice reaches a session that has not been sent the header of its call: the
\* header is ahead of it on the queue that goes first, and a reset comes between
\* the session a call was started on and the next.
THEOREM NoVoiceUnannounced == Spec => VoiceAnnounced
<1>1. IInv /\ Announced =>
        [NetSendVoice => Head(dmrdVoiceOut).sid \in heard]_vars
  <2> SUFFICES ASSUME IInv, Announced, NetSendVoice
               PROVE  Head(dmrdVoiceOut).sid \in heard
    OBVIOUS
  <2>1. /\ ~cancel /\ dmrdControlOut = <<>>
        /\ dmrdVoiceOut \in Seq(VoicePkts) /\ dmrdVoiceOut # <<>>
    BY DEF IInv, TypeOK, NetSendVoice, ControlFirst
  <2>2. /\ Head(dmrdVoiceOut) = dmrdVoiceOut[1]
        /\ 1 \in 1 .. Len(dmrdVoiceOut)
    BY <2>1, Shift
  <2>3. Known(dmrdVoiceOut[1].sid)
    BY <2>1, <2>2 DEF Announced
  <2>4. QED
    BY <2>1, <2>2, <2>3 DEF Known
<1>2. QED
  BY <1>1, AlwaysIInv, AlwaysAnnounced, PTL DEF VoiceAnnounced

-----------------------------------------------------------------------------
(* The superframe cadence.                                                 *)

\* The wrap of the sequence number.
LEMMA SeqWraps ==
  ASSUME NEW n \in Seqs
  PROVE  (n + 1) % SeqMod = IF n + 1 = SeqMod THEN 0 ELSE n + 1
<1>1. n \in Nat /\ n + 1 \in 1 .. SeqMod /\ SeqMod \in Nat \ {0}
  BY SizeAssumption DEF Seqs
<1>2. CASE n + 1 = SeqMod
  BY <1>1, <1>2
<1>3. CASE n + 1 # SeqMod
  BY <1>1, <1>3
<1>4. QED
  BY <1>2, <1>3

\* One less than whole superframes.
LEMMA BeforeWhole == ASSUME NEW k \in Nat PROVE (6 * k - 1) % 6 = 5
OBVIOUS

\* Three turns of an even sequence number are whole superframes, as none are.
LEMMA LapsAreWhole ==
  /\ (3 * SeqMod - 1) % 6 = 5
  /\ \A z \in Int : z = 0 => (z + 0 - 1) % 6 = 5
<1>1. PICK k \in Nat : SeqMod = 2 * k
  <2>1. SeqMod \in Nat /\ SeqMod % 2 = 0
    BY SizeAssumption
  <2>2. SeqMod \div 2 \in Nat /\ SeqMod = 2 * (SeqMod \div 2)
    BY <2>1
  <2>3. QED
    BY <2>2
<1>2. 3 * SeqMod - 1 = 6 * k - 1
  BY <1>1
<1>3. ASSUME NEW z \in Int, z = 0
      PROVE  (z + 0 - 1) % 6 = 5
  <2>1. PICK j \in Nat : z + 0 - 1 = 6 * j - 1
    BY <1>3
  <2>2. QED
    BY <2>1, BeforeWhole
<1>4. QED
  BY <1>2, <1>3, BeforeWhole

\* Counting on by one, over the wrap of the sequence number.
LEMMA CadenceWraps ==
  ASSUME NEW l \in 0 .. 2, NEW n \in Seqs, NEW v \in 0 .. 5,
         v = (l * SeqMod + n - 1) % 6
  PROVE  (v + 1) % 6
           = ((IF n + 1 = SeqMod THEN (l + 1) % 3 ELSE l) * SeqMod
                + ((n + 1) % SeqMod) - 1) % 6
<1>1. n \in Nat /\ SeqMod \in Nat
  BY SizeAssumption DEF Seqs
<1> DEFINE x == l * SeqMod + n - 1
<1>2. x \in Int
  <2>1. l = 0 \/ l = 1 \/ l = 2
    OBVIOUS
  <2>2. QED
    BY <1>1, <2>1
<1>3. (v + 1) % 6 = (x + 1) % 6
  <2> HIDE DEF x
  <2>1. ((x % 6) + 1) % 6 = (x + 1) % 6
    BY <1>2
  <2>2. v = x % 6
    BY DEF x
  <2>3. QED
    BY <2>1, <2>2
<1>4. CASE n + 1 # SeqMod
  <2>1. (n + 1) % SeqMod = n + 1
    BY <1>4, SeqWraps
  <2>2. x + 1 = l * SeqMod + (n + 1) - 1
    <3>1. l = 0 \/ l = 1 \/ l = 2
      OBVIOUS
    <3>2. QED
      BY <1>1, <3>1
  <2> HIDE DEF x
  <2>3. QED
    BY <1>3, <1>4, <2>1, <2>2
<1>5. CASE n + 1 = SeqMod
  <2>1. (n + 1) % SeqMod = 0
    BY <1>5, SeqWraps
  <2> DEFINE m == (l + 1) % 3
  <2>2. (x + 1) % 6 = (m * SeqMod + 0 - 1) % 6
    <3>1. CASE l = 0
      <4>1. m = 1 /\ x + 1 = 1 * SeqMod + 0 - 1
        BY <1>1, <1>5, <3>1
      <4> HIDE DEF m, x
      <4>2. QED
        BY <4>1
    <3>2. CASE l = 1
      <4>1. m = 2 /\ x + 1 = 2 * SeqMod + 0 - 1
        BY <1>1, <1>5, <3>2
      <4> HIDE DEF m, x
      <4>2. QED
        BY <4>1
    <3>3. CASE l = 2
      <4>1. m = 0 /\ x + 1 = 3 * SeqMod - 1
        BY <1>1, <1>5, <3>3
      <4> HIDE DEF m, x
      <4>2. m * SeqMod \in Int /\ m * SeqMod = 0
        BY <1>1, <4>1
      <4>3. (m * SeqMod + 0 - 1) % 6 = 5
        BY <4>2, LapsAreWhole
      <4>4. (x + 1) % 6 = 5
        BY <4>1, LapsAreWhole
      <4>5. QED
        BY <4>3, <4>4
    <3>4. QED
      BY <3>1, <3>2, <3>3
  <2> HIDE DEF x, m
  <2>3. (v + 1) % 6 = (m * SeqMod + ((n + 1) % SeqMod) - 1) % 6
    BY <1>3, <2>1, <2>2
  <2>4. QED
    BY <1>5, <2>3 DEF m
<1>6. QED
  BY <1>4, <1>5

\* Building a burst, or failing to, keeps the call in cadence.
LEMMA AfterBurstInCadence ==
  ASSUME NEW t \in TxCalls, NEW o, InCadence(t)
  PROVE  InCadence(AfterBurst(t, o))
<1>1. CASE o = "ok"
  <2>1. /\ Advance(t).seq = (t.seq + 1) % SeqMod
        /\ Advance(t).laps = IF t.seq + 1 = SeqMod THEN (t.laps + 1) % 3 ELSE t.laps
        /\ Advance(t).vseq = (t.vseq + 1) % 6
    BY DEF Advance, NextLaps, TxCalls, SuperframeLen, Laps
  <2>2. t.seq \in Seqs /\ t.laps \in 0 .. 2 /\ t.vseq \in 0 .. 5
    BY DEF TxCalls, SuperframeLen, Laps
  <2>3. t.vseq = (t.laps * SeqMod + t.seq - 1) % 6
    BY DEF InCadence, Ordinal, SuperframeLen
  <2>4. (t.vseq + 1) % 6
          = ((IF t.seq + 1 = SeqMod THEN (t.laps + 1) % 3 ELSE t.laps) * SeqMod
               + ((t.seq + 1) % SeqMod) - 1) % 6
    BY <2>2, <2>3, CadenceWraps
  <2>5. Advance(t).vseq = (Advance(t).laps * SeqMod + Advance(t).seq - 1) % 6
    BY <2>1, <2>4
  <2>6. QED
    BY <1>1, <2>5 DEF AfterBurst, InCadence, Ordinal, SuperframeLen
<1>2. CASE o # "ok"
  BY <1>2 DEF AfterBurst
<1>3. QED
  BY <1>1, <1>2

\* The bursts queued and the next one to build are in cadence.
AllInCadence ==
  /\ tx.sid # NoStream => InCadence(tx)
  /\ \A i \in 1 .. Len(dmrdVoiceOut) : InCadence(dmrdVoiceOut[i])

LEMMA QueueInCadence ==
  ASSUME TypeOK, tx.sid # NoStream, NEW o, QueueBurst(tx, o), AllInCadence
  PROVE  /\ \A i \in 1 .. Len(dmrdVoiceOut') : InCadence(dmrdVoiceOut'[i])
         /\ InCadence(AfterBurst(tx, o))
<1>1. tx \in TxCalls
  BY DEF TypeOK
<1>2. InCadence(tx) /\ InCadence(VoicePkt(tx))
  BY DEF AllInCadence, InCadence, Ordinal, VoicePkt
<1>3. \A i \in 1 .. Len(dmrdVoiceOut') : InCadence(dmrdVoiceOut'[i])
  BY <1>2, QueuedBurst DEF AllInCadence
<1>4. QED
  BY <1>1, <1>2, <1>3, AfterBurstInCadence

LEMMA StepInCadence ==
  ASSUME IInv, AllInCadence, [Next]_vars
  PROVE  AllInCadence'
<1>0. TypeOK /\ CallShape
  BY DEF IInv
<1>1. CASE KeyUp
  <2>1. PICK s \in FreshStreams :
          tx' = [[NoTx EXCEPT !.sid = s] EXCEPT !.seq = 1 % SeqMod, !.buf = 1]
    BY <1>1 DEF KeyUp
  <2>2. /\ tx'.seq = 1 % SeqMod /\ tx'.laps = 0 /\ tx'.vseq = 0
        /\ UNCHANGED dmrdVoiceOut
    BY <1>1, <2>1 DEF KeyUp, NoTx
  <2>3. 0 * SeqMod + (1 % SeqMod) - 1 = 0 /\ 0 % 6 = 0
    BY SizeAssumption
  <2>4. InCadence(tx')
    BY <2>2, <2>3 DEF InCadence, Ordinal, SuperframeLen
  <2>5. QED
    BY <2>2, <2>4 DEF AllInCadence, InCadence, Ordinal
<1>2. CASE SendBurst
  <2>1. PICK o \in Outcomes :
          QueueBurst(tx, o) /\ tx' = [AfterBurst(tx, o) EXCEPT !.buf = 0]
    BY <1>2 DEF SendBurst
  <2>2. tx \in TxCalls /\ tx.sid # NoStream
    BY <1>0, <1>2 DEF SendBurst, CallShape, TypeOK
  <2>3. /\ \A i \in 1 .. Len(dmrdVoiceOut') : InCadence(dmrdVoiceOut'[i])
        /\ InCadence(AfterBurst(tx, o))
    BY <1>0, <2>1, <2>2, QueueInCadence
  <2>4. /\ tx'.laps = AfterBurst(tx, o).laps /\ tx'.seq = AfterBurst(tx, o).seq
        /\ tx'.vseq = AfterBurst(tx, o).vseq
    BY <2>1, <2>2, AfterBurstType DEF TxCalls
  <2>5. InCadence(tx')
    BY <2>3, <2>4 DEF InCadence, Ordinal
  <2>6. QED
    BY <2>3, <2>5 DEF AllInCadence, InCadence, Ordinal
<1>3. CASE EndsTx
  <2>1. PICK o : EndTx(o)
    BY <1>3, EndsTxBy
  <2>2. tx.sid # NoStream /\ QueueBurst(tx, o) /\ tx'.sid = NoStream
    BY <1>0, <1>3, <2>1, EndsTxBy DEF EndTx, CallShape, NoTx
  <2>3. \A i \in 1 .. Len(dmrdVoiceOut') : InCadence(dmrdVoiceOut'[i])
    BY <1>0, <2>2, QueueInCadence
  <2>4. QED
    BY <2>2, <2>3 DEF AllInCadence, InCadence, Ordinal
<1>4. CASE OnNetworkReset
  <2>1. tx'.sid = NoStream /\ UNCHANGED dmrdVoiceOut
    BY <1>4 DEF OnNetworkReset, NoTx, dmrVars
  <2>2. QED
    BY <2>1 DEF AllInCadence, InCadence, Ordinal
<1>5. CASE NetSendVoice
  <2>1. /\ dmrdVoiceOut # <<>> /\ dmrdVoiceOut \in Seq(VoicePkts)
        /\ dmrdVoiceOut' = Tail(dmrdVoiceOut) /\ UNCHANGED tx
    BY <1>0, <1>5 DEF NetSendVoice, TypeOK, taskVars
  <2>2. \A i \in 1 .. Len(dmrdVoiceOut') :
          i + 1 \in 1 .. Len(dmrdVoiceOut) /\ dmrdVoiceOut'[i] = dmrdVoiceOut[i + 1]
    BY <2>1, Shift
  <2>3. \A i \in 1 .. Len(dmrdVoiceOut') : InCadence(dmrdVoiceOut'[i])
    BY <2>2 DEF AllInCadence
  <2>4. QED
    BY <2>1, <2>3 DEF AllInCadence, InCadence, Ordinal
<1>6. CASE Connect
  <2>1. dmrdVoiceOut' = <<>> /\ UNCHANGED tx
    BY <1>6 DEF Connect, taskVars
  <2>2. QED
    BY <2>1 DEF AllInCadence, InCadence, Ordinal
<1>7. CASE BufferAudio
  <2>1. /\ tx'.sid = tx.sid /\ tx'.seq = tx.seq /\ tx'.vseq = tx.vseq
        /\ tx'.laps = tx.laps /\ UNCHANGED dmrdVoiceOut
    BY <1>0, <1>7 DEF BufferAudio, TypeOK, TxCalls, dmrVars
  <2>2. QED
    BY <2>1 DEF AllInCadence, InCadence, Ordinal
<1>8. CASE NetSendControl \/ Elsewhere \/ UNCHANGED vars
  <2>1. UNCHANGED <<dmrdVoiceOut, tx>>
    BY <1>8, ElsewhereKeeps DEF NetSendControl, vars, taskVars, dmrVars
  <2>2. QED
    BY <2>1 DEF AllInCadence, InCadence, Ordinal
<1>9. QED
  BY <1>1, <1>2, <1>3, <1>4, <1>5, <1>6, <1>7, <1>8, NextOnTheNet

\* For every even modulus of the sequence number, 256 too: encode errors, vocoder
\* panics and a full voice queue leave the superframe cadence alone, in whatever
\* order they come.
THEOREM CadenceKept == Spec => []CadenceFollowsSeq
<1>1. Init => AllInCadence
  BY DEF Init, AllInCadence, NoTx
<1>2. IInv /\ AllInCadence /\ [Next]_vars => AllInCadence'
  BY StepInCadence
<1>3. IInv /\ AllInCadence => CadenceFollowsSeq
  <2>1. IInv => DOMAIN dmrdVoiceOut = 1 .. Len(dmrdVoiceOut)
    BY LenProperties DEF IInv, TypeOK
  <2>2. QED
    BY <2>1 DEF AllInCadence, CadenceFollowsSeq
<1>4. QED
  BY <1>1, <1>2, <1>3, AlwaysIInv, PTL DEF Spec

-----------------------------------------------------------------------------
(* The sessions of the machine are a link's. *)

\* The link as voice_task has it: up while a session carries its packets, each coming
\* up announced by a NetworkReset it has not taken yet.
LK == INSTANCE Link WITH up <- (session = "up"), resets <- control

\* Every other step leaves the session and the announced resets alone.
LinkKept == UNCHANGED << session, control >>

LEMMA MachineKeepsLink == OnAudio \/ OnDmrd \/ Resume \/ OnTimeout \/ OnShutdown => LinkKept
<1> USE DEF LinkKept, dmrVars, netVars
<1>1. CASE OnAudio BY <1>1 DEF OnAudio, KeyUp, BufferAudio, SendBurst, KeyDown
<1>2. CASE OnDmrd
  BY <1>2 DEF OnDmrd, RxHeader, RxTerminator, RxVoice, RxImplicitStart, RxStreamChange
<1>3. CASE Resume BY <1>3 DEF Resume, FinishCall, FinishStreamChange, FinishShutdown
<1>4. CASE OnTimeout BY <1>4 DEF OnTimeout, RxTimeout, HangExpired, TxExpired
<1>5. CASE OnShutdown BY <1>5 DEF OnShutdown, ShutdownRx, ShutdownTx, ShutdownIdle
<1> QED BY <1>1, <1>2, <1>3, <1>4, <1>5

\* The machine assumes no more of its sessions than Link promises, which is what the
\* Homebrew client implements: none comes up without its NetworkReset, the channel
\* holds them, and each is taken once.
THEOREM SessionsAreLinks == Spec => LK!Spec
<1> USE DEF LK!vars
<1>1. Init => LK!Init BY DEF Init, LK!Init
<1>2. [Next]_vars => [LK!Next]_(LK!vars)
  <2> SUFFICES ASSUME [Next]_vars PROVE [LK!Next]_(LK!vars) OBVIOUS
  <2>1. LinkKept => UNCHANGED LK!vars BY DEF LinkKept
  <2>2. CASE Connect BY <2>2 DEF Connect, LK!Connect, LK!Next
  <2>3. CASE Disconnect BY <2>3 DEF Disconnect, LK!Disconnect, LK!Next
  <2>4. CASE OnNetworkReset
    BY <2>4 DEF OnNetworkReset, dmrVars, netVars, LK!Take, LK!Next
  <2>5. CASE VoiceTask /\ ~OnNetworkReset BY <2>1, <2>5, MachineKeepsLink DEF VoiceTask
  <2>6. CASE FmSend \/ NetSendControl \/ NetSendVoice \/ Tick \/ Cancel \/ UNCHANGED vars
    BY <2>1, <2>6 DEF LinkKept, FmSend, NetSendControl, NetSendVoice, Tick, Cancel, vars, dmrVars,
                      netVars
  <2> QED BY <2>2, <2>3, <2>4, <2>5, <2>6 DEF Next, Session, Terminated
<1> QED BY <1>1, <1>2, PTL DEF Spec, LK!Spec
============================================================================
