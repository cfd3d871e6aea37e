------------------------------ MODULE UsrpProofs ------------------------------
(***************************************************************************)
(* Theorems about tx_task for every size and timing: types, the pacing of  *)
(* the voice, and the calls a recording holds.  UInv adds to the types     *)
(* that the clock of the code, due, stands at what the repeater has to     *)
(* play less what it went without, and never more than a frame ahead.      *)
(***************************************************************************)
EXTENDS UsrpTx, SequenceTheorems, TLAPS

Items == AudioFrames
Queues == {q \in Seq(Items) : Len(q) <= AudioCap}

LEMMA UnkeyType == UnkeyFrame \in Items /\ ~IsVoice(UnkeyFrame)
BY DEF Items, AudioFrames, UnkeyFrame, IsVoice

LEMMA VoiceType ==
  ASSUME NEW s \in Streams \cup {NoStream}, NEW b \in BOOLEAN
  PROVE  [stream |-> s, joined |-> b] \in Items
BY DEF Items, AudioFrames

LEMMA StreamType == \A f \in Items : /\ f.stream \in Streams \cup {NoStream}
                                     /\ f.joined \in BOOLEAN
BY DEF Items, AudioFrames

LEMMA AppendType ==
  ASSUME NEW q \in Queues, NEW s \in Items, Len(q) < AudioCap
  PROVE  Append(q, s) \in Queues
<1> HIDE DEF Items
<1>1. q \in Seq(Items) /\ AudioCap \in Nat BY SizeAssumption DEF Queues
<1>2. Append(q, s) \in Seq(Items) /\ Len(Append(q, s)) = Len(q) + 1
  BY <1>1, AppendProperties
<1> QED BY <1>1, <1>2, LenProperties DEF Queues

LEMMA TakeType ==
  ASSUME NEW q \in Queues, q # <<>>
  PROVE  Tail(q) \in Queues /\ Head(q) \in Items
<1> HIDE DEF Items
<1>1. q \in Seq(Items) /\ Len(q) <= AudioCap /\ AudioCap \in Nat
  BY SizeAssumption DEF Queues
<1>2. /\ Head(q) \in Items /\ Tail(q) \in Seq(Items)
      /\ Len(Tail(q)) = Len(q) - 1
  BY <1>1, HeadTailProperties
<1> QED BY <1>1, <1>2, LenProperties DEF Queues

LEMMA ConcatType ==
  ASSUME NEW q \in Queues, NEW r \in Seq(Items), Len(q) + Len(r) <= AudioCap
  PROVE  q \o r \in Queues
<1> HIDE DEF Items
<1>1. q \in Seq(Items) BY DEF Queues
<1>2. q \o r \in Seq(Items) /\ Len(q \o r) = Len(q) + Len(r)
  BY <1>1, ConcatProperties
<1> QED BY <1>2 DEF Queues

LEMMA ProductType == \A m \in Nat, n \in Nat : m * n \in Nat
OBVIOUS

LEMMA DeliveredType == TypeOK => FramesDelivered \in Nat
<1> SUFFICES ASSUME TypeOK PROVE FramesDelivered \in Nat OBVIOUS
<1> DEFINE n == 1 + (IF rx = air /\ counting /\ gap <= GapBoundary THEN gap ELSE 0)
<1>1. n \in Nat BY SizeAssumption DEF TypeOK
<1>2. FramesPerBurst \in Nat BY SizeAssumption
<1> HIDE DEF n
<1>3. FramesPerBurst * n \in Nat BY <1>1, <1>2, ProductType
<1> QED BY <1>3 DEF FramesDelivered, n

LEMMA FramesType ==
  ASSUME NEW f \in Items, NEW n \in Nat
  PROVE  /\ Frames(f, n) \in Seq(Items) /\ Len(Frames(f, n)) = n
         /\ \A i \in 1 .. n : Frames(f, n)[i] = f
<1> HIDE DEF Items
<1> QED BY DEF Frames

LEMMA ClosedTypes ==
  /\ TRUE \in BOOLEAN /\ FALSE \in BOOLEAN /\ 0 \in 0 .. StreamTimeout
  /\ StreamTimeout \in 0 .. StreamTimeout
  /\ NoStream \in Streams \cup {NoStream}
BY SizeAssumption

\* The clock: before a keying's first voice frame all of it stands at 0.
Clock ==
  /\ due = play - starved /\ due <= 1
  /\ ~anchored => play = 0 /\ starved = 0

UInv == TypeOK /\ Clock

\* What TypeOK says of the queue, of PttMachine, and of the rest.
PttTypes ==
  /\ rx \in Streams \cup {NoStream} /\ counting \in BOOLEAN
  /\ timer \in 0 .. StreamTimeout /\ joined \in BOOLEAN /\ keyed \in BOOLEAN

AirTypes ==
  /\ air \in Streams \cup {NoStream} /\ talking \in BOOLEAN
  /\ said \in 0 .. MaxBursts /\ header \in BOOLEAN
  /\ nextBurst \in 0 .. BurstTicks /\ delayed \in 0 .. MaxDelayed
  /\ gap \in 0 .. MaxLost /\ owed \in BOOLEAN

PaceTypes ==
  /\ pc \in {"select", "sleep", "done"} /\ held \in Items
  /\ anchored \in BOOLEAN /\ due \in Int
  /\ play \in Nat /\ starved \in 0 .. MaxStarved
  /\ (pc = "sleep" <=> IsVoice(held))

CallTypes ==
  /\ current \in Streams \cup {NoStream} /\ hadVoice \in BOOLEAN
  /\ mixed \subseteq Items
  /\ (hadVoice <=> current # NoStream)

OtherTypes == AirTypes /\ PttTypes /\ PaceTypes /\ CallTypes /\ cancel \in BOOLEAN

LEMMA Types == TypeOK <=> OtherTypes /\ audioOut \in Queues
BY DEF TypeOK, OtherTypes, AirTypes, PttTypes, PaceTypes, CallTypes, Queues, Items

LEMMA TypesNext == TypeOK' <=> OtherTypes' /\ audioOut' \in Queues
BY DEF TypeOK, OtherTypes, AirTypes, PttTypes, PaceTypes, CallTypes, Queues, Items

\* The network's and the talker's steps.
LEMMA AirInv == ASSUME UInv, Air PROVE UInv'
<1>1. UNCHANGED <<pttVars, audioOut, txVars, cancel>>
  BY DEF Air, StartTalking, Burst, StopTalking, LoseHeader, LoseBurst,
     LoseTerminator
<1>2. OtherTypes /\ audioOut \in Queues BY Types DEF UInv
<1>3. Clock' BY <1>1 DEF UInv, Clock, txVars, paceVars, repeaterVars
<1>4. PttTypes' /\ PaceTypes' /\ CallTypes' /\ cancel' \in BOOLEAN
  BY <1>1, <1>2 DEF OtherTypes, PttTypes, PaceTypes, CallTypes, pttVars, txVars,
     paceVars, repeaterVars, callVars, IsVoice
<1>5. AirTypes'
  <2>1. AirTypes BY <1>2 DEF OtherTypes
  <2> USE <2>1, SizeAssumption DEF AirTypes, BurstTicks
  <2>2. ASSUME NEW s \in Streams, StartTalking(s) PROVE AirTypes'
    BY <2>2 DEF StartTalking
  <2>3. CASE Burst BY <2>3 DEF Burst
  <2>4. CASE StopTalking BY <2>4 DEF StopTalking
  <2>5. CASE LoseHeader BY <2>5 DEF LoseHeader
  <2>6. CASE LoseBurst BY <2>6 DEF LoseBurst
  <2>7. CASE LoseTerminator
    <3>1. /\ owed' \in BOOLEAN /\ gap' = 0
          /\ UNCHANGED <<air, talking, said, nextBurst, header, delayed>>
      BY <2>7 DEF LoseTerminator
    <3> QED BY <3>1
  <2> QED BY <2>2, <2>3, <2>4, <2>5, <2>6, <2>7 DEF Air
<1> QED BY <1>1, <1>2, <1>3, <1>4, <1>5, TypesNext DEF UInv, OtherTypes

\* Whatever PttMachine does, tx_task is left as it is.
LEMMA PttKeeps ==
  ASSUME PttMachine
  PROVE  UNCHANGED <<air, talking, said, nextBurst, txVars, cancel>>
BY DEF PttMachine, DeliverBurst, DeliverHeader, DeliverTerminator,
   StreamTimesOut, Reset, airVars

\* What it queues.
LEMMA BurstQueue ==
  ASSUME TypeOK, DeliverBurst
  PROVE  LET queue == audioOut \o Unkey
             voice == [stream |-> air, joined |-> Joins]
         IN /\ queue \in Queues /\ voice \in Items /\ FramesDelivered \in Nat
            /\ Joins \in BOOLEAN
            /\ \/ /\ Len(queue) + FramesDelivered <= AudioCap
                  /\ audioOut' = queue \o Frames(voice, FramesDelivered)
                  /\ audioOut' \in Queues /\ keyed' = TRUE
               \/ /\ audioOut' = queue /\ keyed' = (keyed /\ Unkey = <<>>)
<1> DEFINE queue == audioOut \o Unkey
           voice == [stream |-> air, joined |-> Joins]
           fits == Len(queue) + FramesDelivered <= AudioCap
<1>1. OtherTypes /\ audioOut \in Queues BY Types
<1>2. Unkey \in Seq(Items)
  <2>1. <<UnkeyFrame>> \in Seq(Items) /\ <<>> \in Seq(Items)
    <3> HIDE DEF Items
    <3> QED BY UnkeyType
  <2> QED BY <2>1, Zenon DEF Unkey
<1>3. Len(audioOut) + Len(Unkey) <= AudioCap BY DEF DeliverBurst
<1>4. queue \in Queues BY <1>1, <1>2, <1>3, ConcatType
<1>5. Joins \in BOOLEAN BY <1>1 DEF Joins, OtherTypes, PttTypes
<1>6. voice \in Items BY <1>1, <1>5, VoiceType DEF OtherTypes, AirTypes
<1>7. FramesDelivered \in Nat BY DeliveredType
<1>8. /\ audioOut' = IF fits THEN queue \o Frames(voice, FramesDelivered)
                             ELSE queue
      /\ keyed' = (fits \/ (keyed /\ Unkey = <<>>))
  BY DEF DeliverBurst
<1> HIDE DEF queue, voice
<1>9. /\ Frames(voice, FramesDelivered) \in Seq(Items)
      /\ Len(Frames(voice, FramesDelivered)) = FramesDelivered
  BY <1>6, <1>7, FramesType
<1>10. CASE fits
  <2>1. audioOut' = queue \o Frames(voice, FramesDelivered) /\ keyed' = TRUE
    BY <1>8, <1>10, Zenon
  <2>2. audioOut' \in Queues BY <1>4, <1>9, <1>10, <2>1, ConcatType
  <2> QED BY <1>4, <1>5, <1>6, <1>7, <1>10, <2>1, <2>2 DEF queue, voice
<1>11. CASE ~fits
  <2>1. audioOut' = queue /\ keyed' = (keyed /\ Unkey = <<>>)
    BY <1>8, <1>11, Zenon
  <2> QED BY <1>4, <1>5, <1>6, <1>7, <2>1 DEF queue, voice
<1> QED BY <1>10, <1>11

\* PttMachine's steps: whatever it queues fits.
LEMMA PttInv == ASSUME UInv, PttMachine PROVE UInv'
<1>1. UNCHANGED <<air, talking, said, nextBurst, txVars, cancel>> BY PttKeeps
<1>2. Clock' BY <1>1 DEF UInv, Clock, txVars, paceVars, repeaterVars
<1>3. audioOut \in Queues /\ OtherTypes BY Types DEF UInv
<1>4. PaceTypes' /\ CallTypes' /\ cancel' \in BOOLEAN
  BY <1>1, <1>3 DEF OtherTypes, PaceTypes, CallTypes, txVars, paceVars,
     repeaterVars, callVars, IsVoice
<1>5. EndCall => audioOut' \in Queues /\ PttTypes'
  <2> SUFFICES ASSUME EndCall PROVE audioOut' \in Queues /\ PttTypes'
    OBVIOUS
  <2>1. audioOut' \in Queues
    BY <1>3, AppendType, UnkeyType DEF EndCall
  <2>2. /\ rx' = NoStream /\ counting' = FALSE /\ timer' = 0
        /\ joined' = FALSE /\ keyed' = FALSE
    BY DEF EndCall
  <2>3. PttTypes' BY <2>2, ClosedTypes, Zenon DEF PttTypes
  <2> QED BY <2>1, <2>3
<1>6. audioOut' \in Queues /\ PttTypes' /\ AirTypes' => UInv'
  BY <1>2, <1>4, TypesNext DEF UInv, OtherTypes
<1> USE SizeAssumption
<1>7. CASE DeliverBurst
  <2>1. /\ audioOut' \in Queues /\ keyed' \in BOOLEAN /\ Joins \in BOOLEAN
    BY <1>3, <1>7, BurstQueue DEF UInv, OtherTypes, PttTypes
  <2>2. /\ rx' = air /\ counting' = TRUE /\ timer' = StreamTimeout
        /\ joined' = Joins
        /\ delayed > 0 /\ delayed' = delayed - 1 /\ gap' = 0
        /\ UNCHANGED <<header, owed>>
    BY <1>7 DEF DeliverBurst
  <2>3. PttTypes'
    BY <1>3, <2>1, <2>2 DEF OtherTypes, AirTypes, PttTypes
  <2>4. AirTypes' BY <1>1, <1>3, <2>2 DEF OtherTypes, AirTypes
  <2> QED BY <1>6, <2>1, <2>3, <2>4
<1>8. CASE DeliverHeader
  <2>1. /\ header' = FALSE /\ UNCHANGED <<delayed, gap, owed, audioOut>>
        /\ \/ UNCHANGED pttVars
           \/ /\ rx' = air /\ counting' = FALSE /\ timer' = StreamTimeout
              /\ joined' = keyed /\ UNCHANGED keyed
    BY <1>8 DEF DeliverHeader
  <2>2. /\ air \in Streams \cup {NoStream} /\ PttTypes
    BY <1>3 DEF OtherTypes, AirTypes
  <2>3. PttTypes'
    <3>1. CASE UNCHANGED pttVars
      <4>1. /\ rx' = rx /\ counting' = counting /\ timer' = timer
            /\ joined' = joined /\ keyed' = keyed
        BY <3>1 DEF pttVars
      <4> QED BY <2>2, <4>1, Zenon DEF PttTypes
    <3>2. CASE /\ rx' = air /\ counting' = FALSE /\ timer' = StreamTimeout
               /\ joined' = keyed /\ UNCHANGED keyed
      <4>1. keyed \in BOOLEAN /\ keyed' = keyed BY <2>2, <3>2 DEF PttTypes
      <4>2. /\ rx' \in Streams \cup {NoStream}
            /\ timer' \in 0 .. StreamTimeout /\ counting' \in BOOLEAN
        BY <2>2, <3>2, ClosedTypes, Zenon
      <4>3. joined' \in BOOLEAN /\ keyed' \in BOOLEAN BY <3>2, <4>1, Zenon
      <4> QED BY <4>2, <4>3, Zenon DEF PttTypes
    <3> QED BY <2>1, <3>1, <3>2
  <2>4. AirTypes'
    <3>1. AirTypes BY <1>3 DEF OtherTypes
    <3> QED BY <1>1, <2>1, <3>1, ClosedTypes DEF AirTypes
  <2> QED BY <1>3, <1>6, <2>1, <2>3, <2>4
<1>9. CASE DeliverTerminator
  <2>1. /\ owed' \in BOOLEAN /\ gap' = 0 /\ UNCHANGED <<header, delayed>>
        /\ EndCall \/ UNCHANGED <<pttVars, audioOut>>
    BY <1>9 DEF DeliverTerminator
  <2>2. audioOut' \in Queues /\ PttTypes'
    BY <1>3, <1>5, <2>1 DEF OtherTypes, PttTypes, pttVars
  <2>3. AirTypes' BY <1>1, <1>3, <2>1 DEF OtherTypes, AirTypes
  <2> QED BY <1>6, <2>2, <2>3
<1>10. CASE StreamTimesOut
  <2>1. EndCall /\ UNCHANGED airVars BY <1>10 DEF StreamTimesOut
  <2>2. AirTypes' BY <1>3, <2>1 DEF OtherTypes, AirTypes, airVars
  <2> QED BY <1>5, <1>6, <2>1, <2>2
<1>11. CASE Reset
  <2>1. /\ rx' = NoStream /\ counting' = FALSE /\ timer' = 0 /\ joined' = FALSE
        /\ UNCHANGED <<airVars, keyed, audioOut>>
    BY <1>11 DEF Reset
  <2>2. PttTypes'
    <3>1. keyed \in BOOLEAN BY <1>3 DEF OtherTypes, PttTypes
    <3> QED BY <2>1, <3>1, ClosedTypes, Zenon DEF PttTypes
  <2>3. AirTypes' BY <1>3, <2>1 DEF OtherTypes, AirTypes, airVars
  <2> QED BY <1>3, <1>6, <2>1, <2>2, <2>3
<1> QED BY <1>7, <1>8, <1>9, <1>10, <1>11 DEF PttMachine

\* Emitting a frame that is due opens the call if none is open, and puts the
\* clock at most one frame ahead.
LEMMA EmitInv ==
  ASSUME UInv, NEW f \in Items, IsVoice(f), EmitVoice(f, due), due <= 0
  PROVE  /\ Clock' /\ anchored' \in BOOLEAN /\ due' \in Int
         /\ play' \in Nat /\ starved' \in 0 .. MaxStarved
         /\ CallTypes'
<1>1. OtherTypes BY Types DEF UInv
<1>2. /\ Clock' /\ anchored' \in BOOLEAN /\ due' \in Int
      /\ play' \in Nat /\ starved' \in 0 .. MaxStarved
  BY <1>1, SizeAssumption DEF EmitVoice, Schedule, UInv, Clock, OtherTypes, PaceTypes
<1>3. CallTypes'
  <2>1. f.stream \in Streams \cup {NoStream} /\ f.stream # NoStream
    BY StreamType DEF IsVoice
  <2>2. /\ current' = IF hadVoice THEN current ELSE f.stream
        /\ hadVoice' = TRUE /\ mixed' = mixed \cup {f}
    BY DEF EmitVoice
  <2> HIDE DEF Items
  <2> QED BY <1>1, <2>1, <2>2 DEF OtherTypes, CallTypes
<1> QED BY <1>2, <1>3

\* tx_task's steps.
LEMMA TxInv == ASSUME UInv, TxTask PROVE UInv'
<1> HIDE DEF Items
<1>1. audioOut \in Queues /\ OtherTypes BY Types DEF UInv
<1>2. UNCHANGED <<airVars, pttVars, cancel>>
  BY DEF TxTask, TakeVoice, WakeUp, TakeUnkey, Stop
<1>3. AirTypes' /\ PttTypes' /\ cancel' \in BOOLEAN
  BY <1>1, <1>2 DEF OtherTypes, AirTypes, PttTypes, airVars, pttVars
<1>4. AtSelect => /\ pc = "select" /\ ~IsVoice(held)
                  /\ Tail(audioOut) \in Queues /\ Head(audioOut) \in Items
  BY <1>1, TakeType DEF AtSelect, OtherTypes, PaceTypes
<1>5. Finalize => CallTypes'
  BY DEF Finalize, CallTypes
<1>6. audioOut' \in Queues /\ PaceTypes' /\ CallTypes' /\ Clock' => UInv'
  BY <1>3, TypesNext DEF UInv, OtherTypes
<1>7. CASE TakeVoice /\ Early
  <2>1. /\ AtSelect /\ IsVoice(Head(audioOut))
        /\ audioOut' = Tail(audioOut) /\ pc' = "sleep"
        /\ held' = Head(audioOut)
        /\ UNCHANGED <<paceVars, callVars>>
    BY <1>7 DEF TakeVoice
  <2>2. PaceTypes' /\ CallTypes'
    BY <1>1, <1>4, <2>1 DEF OtherTypes, PaceTypes, CallTypes, paceVars,
       repeaterVars, callVars, IsVoice
  <2>3. Clock' BY <2>1 DEF UInv, Clock, paceVars, repeaterVars
  <2> QED BY <1>4, <1>6, <2>1, <2>2, <2>3
<1>8. CASE TakeVoice /\ ~Early
  <2> DEFINE f == Head(audioOut)
  <2>1. /\ AtSelect /\ IsVoice(f) /\ audioOut' = Tail(audioOut)
        /\ EmitVoice(f, due) /\ UNCHANGED <<pc, held>>
    BY <1>8 DEF TakeVoice
  <2>2. f \in Items BY <1>4, <2>1
  <2>3. due <= 0
    BY <1>1, <1>8 DEF Early, UInv, Clock, OtherTypes, PaceTypes
  <2> HIDE DEF f
  <2>4. /\ Clock' /\ anchored' \in BOOLEAN /\ due' \in Int
        /\ play' \in Nat /\ starved' \in 0 .. MaxStarved /\ CallTypes'
    BY <2>1, <2>2, <2>3, EmitInv
  <2>5. PaceTypes' BY <1>1, <2>1, <2>4 DEF OtherTypes, PaceTypes, IsVoice
  <2> QED BY <1>4, <1>6, <2>1, <2>4, <2>5
<1>9. CASE WakeUp
  <2>1. /\ pc = "sleep" /\ due <= 0 /\ EmitVoice(held, due)
        /\ pc' = "select" /\ held' = UnkeyFrame /\ UNCHANGED audioOut
    BY <1>9 DEF WakeUp
  <2>2. held \in Items /\ IsVoice(held)
    BY <1>1, <2>1 DEF OtherTypes, PaceTypes
  <2>3. /\ Clock' /\ anchored' \in BOOLEAN /\ due' \in Int
        /\ play' \in Nat /\ starved' \in 0 .. MaxStarved /\ CallTypes'
    BY <2>1, <2>2, EmitInv
  <2>4. PaceTypes' BY <2>1, <2>3, UnkeyType DEF PaceTypes, IsVoice
  <2> QED BY <1>1, <1>6, <2>1, <2>3, <2>4
<1>10. CASE TakeUnkey
  <2>1. /\ AtSelect /\ audioOut' = Tail(audioOut) /\ Finalize
        /\ anchored' = FALSE /\ due' = 0 /\ play' = 0 /\ starved' = 0
        /\ UNCHANGED <<pc, held>>
    BY <1>10 DEF TakeUnkey
  <2>2. Clock' BY <2>1 DEF Clock
  <2>3. PaceTypes'
    <3>1. /\ anchored' \in BOOLEAN /\ due' \in Int /\ play' \in Nat
          /\ starved' \in 0 .. MaxStarved
      <4>1. 0 \in Int /\ 0 \in Nat /\ 0 \in 0 .. MaxStarved BY SizeAssumption
      <4> QED BY <2>1, <4>1, ClosedTypes, Zenon
    <3> QED BY <1>1, <2>1, <3>1 DEF OtherTypes, PaceTypes, IsVoice
  <2> QED BY <1>4, <1>5, <1>6, <2>1, <2>2, <2>3
<1>11. CASE Stop
  <2>1. /\ pc' = "done" /\ held' = UnkeyFrame /\ Finalize
        /\ UNCHANGED <<audioOut, paceVars>>
    BY <1>11 DEF Stop
  <2>2. Clock' BY <2>1 DEF UInv, Clock, paceVars, repeaterVars
  <2>3. PaceTypes'
    BY <1>1, <2>1, UnkeyType DEF OtherTypes, PaceTypes, paceVars, repeaterVars,
       IsVoice
  <2> QED BY <1>1, <1>5, <1>6, <2>1, <2>2, <2>3
<1> QED BY <1>7, <1>8, <1>9, <1>10, <1>11 DEF TxTask

\* Time and the token.
LEMMA TimeInv ==
  ASSUME UInv, Tick \/ Cancel \/ Terminated \/ UNCHANGED vars
  PROVE  UInv'
<1>1. audioOut \in Queues /\ OtherTypes BY Types DEF UInv
<1>2. CASE Tick
  <2>1. /\ nextBurst' = Down(nextBurst) /\ timer' = Down(timer) /\ Playing
        /\ UNCHANGED <<air, talking, said, header, delayed, gap, owed, rx,
                       counting, joined, keyed, audioOut, pc, held, anchored,
                       callVars, cancel>>
    BY <1>2 DEF Tick
  <2>2. /\ due = play - starved /\ due <= 1
        /\ ~anchored => play = 0 /\ starved = 0
        /\ due \in Int /\ play \in Nat /\ starved \in 0 .. MaxStarved
        /\ MaxStarved \in Nat
    BY <1>1, SizeAssumption DEF UInv, Clock, OtherTypes, PaceTypes
  <2>3. Clock' /\ due' \in Int /\ play' \in Nat /\ starved' \in 0 .. MaxStarved
    <3>1. CASE anchored BY <2>1, <2>2, <3>1 DEF Clock, Playing, Down
    <3>2. CASE ~anchored
      BY <2>1, <2>2, <3>2 DEF Clock, Playing, repeaterVars
    <3> QED BY <3>1, <3>2
  <2>4. nextBurst' \in 0 .. BurstTicks /\ timer' \in 0 .. StreamTimeout
    BY <1>1, <2>1, SizeAssumption
       DEF OtherTypes, AirTypes, PttTypes, Down, BurstTicks
  <2>5. AirTypes' /\ PttTypes' /\ cancel' \in BOOLEAN
    BY <1>1, <2>1, <2>4 DEF OtherTypes, AirTypes, PttTypes
  <2>6. PaceTypes' /\ CallTypes'
    BY <1>1, <2>1, <2>3 DEF OtherTypes, PaceTypes, CallTypes, callVars, IsVoice
  <2> QED BY <1>1, <2>1, <2>3, <2>5, <2>6, TypesNext DEF UInv, OtherTypes
<1>3. CASE Cancel \/ Terminated \/ UNCHANGED vars
  <2>1. UNCHANGED <<airVars, pttVars, audioOut, txVars>> /\ cancel' \in BOOLEAN
    BY <1>1, <1>3 DEF OtherTypes, Cancel, Terminated, vars
  <2>2. Clock' BY <2>1 DEF UInv, Clock, txVars, paceVars, repeaterVars
  <2>3. AirTypes' /\ PttTypes'
    BY <1>1, <2>1 DEF OtherTypes, AirTypes, PttTypes, airVars, pttVars
  <2>4. PaceTypes' /\ CallTypes'
    BY <1>1, <2>1 DEF OtherTypes, PaceTypes, CallTypes, txVars, paceVars,
       repeaterVars, callVars, IsVoice
  <2> QED BY <1>1, <2>1, <2>2, <2>3, <2>4, TypesNext DEF UInv, OtherTypes
<1> QED BY <1>2, <1>3

LEMMA Invariance == Init /\ [][Next]_vars => []UInv
<1>1. Init => UInv
  <2> SUFFICES ASSUME Init PROVE UInv OBVIOUS
  <2>1. <<>> \in Queues BY SizeAssumption DEF Queues
  <2>2. AirTypes
    <3>1. /\ 0 \in 0 .. MaxBursts /\ 0 \in 0 .. FramesPerBurst
          /\ 0 \in 0 .. MaxDelayed /\ 0 \in 0 .. MaxLost
      BY SizeAssumption
    <3> QED BY <3>1, ClosedTypes, Zenon DEF Init, AirTypes, BurstTicks
  <2>3. PttTypes BY ClosedTypes, Zenon DEF Init, PttTypes
  <2>4. PaceTypes
    <3>1. 0 \in Int /\ 0 \in Nat /\ 0 \in 0 .. MaxStarved BY SizeAssumption
    <3> QED BY <3>1, ClosedTypes, UnkeyType, Zenon DEF Init, PaceTypes
  <2>5. CallTypes BY ClosedTypes, Zenon DEF Init, CallTypes
  <2>6. Clock /\ cancel \in BOOLEAN
    <3>1. due = 0 /\ play = 0 /\ starved = 0 BY DEF Init
    <3>2. Clock BY <3>1 DEF Clock
    <3> QED BY <3>2, ClosedTypes, Zenon DEF Init
  <2> QED
    BY <2>1, <2>2, <2>3, <2>4, <2>5, <2>6, Types DEF Init, UInv, OtherTypes
<1>2. UInv /\ [Next]_vars => UInv'
  BY AirInv, PttInv, TxInv, TimeInv DEF Next
<1> QED BY <1>1, <1>2, PTL

\* Every variable keeps its type, and a call is open exactly while it has one.
THEOREM TypeCorrect == Spec => []TypeOK
<1>1. UInv => TypeOK BY DEF UInv
<1> QED BY <1>1, Invariance, PTL DEF Spec

\* Whatever the network does, the repeater is sent voice ahead of real time only
\* to make up for the silence it had in the same keying.
THEOREM VoicePaced == Spec => []AheadOnlyOfSilence
<1>1. UInv => AheadOnlyOfSilence
  <2> SUFFICES ASSUME UInv PROVE AheadOnlyOfSilence OBVIOUS
  <2>1. due = play - starved /\ due <= 1 /\ play \in Nat /\ starved \in Int
    BY SizeAssumption DEF UInv, Clock, TypeOK
  <2> QED BY <2>1 DEF AheadOnlyOfSilence
<1> QED BY <1>1, Invariance, PTL DEF Spec

\* Time passes over a waiting frame only while the repeater has more in hand than
\* it went without: voice that has come late is not delayed any further.
THEOREM LatenessForgotten == Spec => NoDrift
<1>1. UInv /\ [Next]_vars
        => [Tick /\ (pc = "sleep" \/ audioOut # <<>>) => play > starved]_vars
  <2> SUFFICES ASSUME UInv, Tick, pc = "sleep" \/ audioOut # <<>>
               PROVE  play > starved
    OBVIOUS
  <2>1. pc = "sleep" /\ due > 0 BY DEF Tick, Quiescent
  <2>2. due = play - starved /\ play \in Nat /\ starved \in Int
    BY SizeAssumption DEF UInv, Clock, TypeOK
  <2> QED BY <2>1, <2>2
<1> QED BY <1>1, Invariance, PTL DEF Spec, NoDrift

-----------------------------------------------------------------------------
(* A recording holds the calls of one keying, and one call if none joined  *)
(* it.  What tx_task has in hand (the frame it sleeps on, else what is     *)
(* recorded) and the queue behind it form one line: in it voice that meets *)
(* voice, without an unkey between, is of the same call or of a call that  *)
(* joined.  At the end of the line is what PttMachine receives, unless it  *)
(* receives a call that joined, or will.                                   *)

At(f, q, i) == IF i = 0 THEN f ELSE q[i]

Follows(a, b) == IsVoice(a) /\ IsVoice(b) /\ ~b.joined => a = b

Line(f, q) == \A i \in 0 .. Len(q) - 1 : Follows(At(f, q, i), At(f, q, i + 1))

LineEnd(e) ==
  IsVoice(e) => /\ keyed
                /\ rx # NoStream /\ ~joined => e = [stream |-> rx, joined |-> FALSE]

\* Taking the first of the queue in hand: it follows what was in hand.
LEMMA LineTail ==
  ASSUME NEW f, NEW q \in Seq(Items), q # <<>>, Line(f, q)
  PROVE  /\ Line(Head(q), Tail(q)) /\ Follows(f, Head(q))
         /\ At(Head(q), Tail(q), Len(Tail(q))) = At(f, q, Len(q))
<1> HIDE DEF Items
<1>1. /\ Len(q) \in Nat \ {0} /\ Len(Tail(q)) = Len(q) - 1 /\ Head(q) = q[1]
      /\ \A i \in 1 .. Len(q) - 1 : Tail(q)[i] = q[i + 1]
  BY HeadTailProperties, LenProperties, EmptySeq
<1>2. \A i \in 0 .. Len(q) - 1 : At(Head(q), Tail(q), i) = At(f, q, i + 1)
  BY <1>1 DEF At
<1>3. At(f, q, 0) = f /\ At(f, q, 1) = Head(q) BY <1>1 DEF At
<1>4. Follows(f, Head(q))
  <2>1. 0 \in 0 .. Len(q) - 1 /\ 0 + 1 = 1 BY <1>1
  <2> HIDE DEF Follows
  <2> QED BY <1>3, <2>1 DEF Line
<1>5. ASSUME NEW i \in 0 .. Len(Tail(q)) - 1
      PROVE  Follows(At(Head(q), Tail(q), i), At(Head(q), Tail(q), i + 1))
  <2>1. /\ i \in 0 .. Len(q) - 1 /\ i + 1 \in 0 .. Len(q) - 1
    BY <1>1
  <2> HIDE DEF Follows
  <2> QED BY <1>2, <2>1 DEF Line
<1>6. At(Head(q), Tail(q), Len(Tail(q))) = At(f, q, Len(q))
  <2>1. Len(q) - 1 \in 0 .. Len(q) - 1 /\ (Len(q) - 1) + 1 = Len(q) BY <1>1
  <2> QED BY <1>1, <1>2, <2>1
<1> QED BY <1>4, <1>5, <1>6 DEF Line

\* The frame in hand may be taken for an unkey, or for another that joined.
LEMMA LineSame ==
  ASSUME NEW a, NEW b, NEW q \in Seq(Items), Line(a, q),
         LineEnd(At(a, q, Len(q))),
         IsVoice(b) => IsVoice(a) /\ (b = a \/ (a.joined /\ b.joined))
  PROVE  Line(b, q) /\ LineEnd(At(b, q, Len(q)))
<1> HIDE DEF Items
<1>1. Len(q) \in Nat BY LenProperties
<1>2. \A c : Follows(a, c) => Follows(b, c) BY DEF Follows
<1>3. LineEnd(a) => LineEnd(b) BY DEF LineEnd
<1>4. ASSUME NEW i \in 0 .. Len(q) - 1 PROVE Follows(At(b, q, i), At(b, q, i + 1))
  <2>1. Follows(At(a, q, i), At(a, q, i + 1)) BY DEF Line
  <2>2. At(b, q, i + 1) = At(a, q, i + 1) BY <1>1 DEF At
  <2>3. CASE i = 0 BY <1>2, <2>1, <2>2, <2>3 DEF At
  <2>4. CASE i # 0 BY <2>1, <2>2, <2>4 DEF At
  <2> QED BY <2>3, <2>4
<1>5. LineEnd(At(b, q, Len(q)))
  <2>1. CASE Len(q) = 0 BY <1>3, <2>1 DEF At
  <2>2. CASE Len(q) # 0 BY <2>2 DEF At
  <2> QED BY <2>1, <2>2
<1> QED BY <1>4, <1>5 DEF Line

\* An unkey follows anything.
LEMMA LineUnkey ==
  ASSUME NEW f, NEW q \in Seq(Items), Line(f, q)
  PROVE  LET c == Append(q, UnkeyFrame)
         IN  /\ c \in Seq(Items) /\ Line(f, c)
             /\ At(f, c, Len(c)) = UnkeyFrame
<1> DEFINE c == Append(q, UnkeyFrame)
<1> HIDE DEF Items
<1>1. /\ Len(q) \in Nat /\ Len(c) = Len(q) + 1 /\ c[Len(q) + 1] = UnkeyFrame
      /\ \A i \in 1 .. Len(q) : c[i] = q[i]
      /\ c \in Seq(Items)
  BY UnkeyType, AppendProperties, LenProperties
<1> HIDE DEF c
<1>2. \A i \in 0 .. Len(q) : At(f, c, i) = At(f, q, i) BY <1>1 DEF At
<1>3. At(f, c, Len(q) + 1) = UnkeyFrame BY <1>1 DEF At
<1>4. ASSUME NEW i \in 0 .. Len(c) - 1 PROVE Follows(At(f, c, i), At(f, c, i + 1))
  <2>1. CASE i = Len(q)
    <3>1. ~IsVoice(At(f, c, i + 1)) BY <1>3, <2>1, UnkeyType
    <3> QED BY <3>1 DEF Follows
  <2>2. CASE i # Len(q)
    <3>1. /\ i \in 0 .. Len(q) - 1 /\ i \in 0 .. Len(q)
          /\ i + 1 \in 0 .. Len(q)
      BY <1>1, <2>2
    <3> HIDE DEF Follows
    <3> QED BY <1>2, <3>1 DEF Line
  <2> QED BY <2>1, <2>2
<1> QED BY <1>1, <1>3, <1>4 DEF Line, c

\* Frames of one call continue a line that the call may follow.
LEMMA LineFrames ==
  ASSUME NEW f, NEW q \in Seq(Items), NEW v \in Items, NEW n \in Nat,
         Line(f, q), Follows(At(f, q, Len(q)), v)
  PROVE  LET c == q \o Frames(v, n)
         IN  Line(f, c) /\ At(f, c, Len(c)) \in {At(f, q, Len(q)), v}
<1> DEFINE b == Frames(v, n)
           c == q \o b
<1>1. /\ b \in Seq(Items) /\ Len(b) = n /\ \A i \in 1 .. n : b[i] = v
  BY FramesType
<1> HIDE DEF Items, b
<1>2. /\ Len(q) \in Nat /\ Len(c) = Len(q) + n
      /\ \A i \in 1 .. Len(q) + n :
           c[i] = IF i <= Len(q) THEN q[i] ELSE b[i - Len(q)]
  BY <1>1, ConcatProperties, LenProperties
<1> HIDE DEF c
<1>3. \A i \in 0 .. Len(q) : At(f, c, i) = At(f, q, i) BY <1>2 DEF At
<1>4. \A i \in Len(q) + 1 .. Len(c) : At(f, c, i) = v
  <2> SUFFICES ASSUME NEW i \in Len(q) + 1 .. Len(c) PROVE At(f, c, i) = v
    OBVIOUS
  <2>1. i \in 1 .. Len(q) + n /\ ~(i <= Len(q)) /\ i # 0 BY <1>2
  <2>2. i - Len(q) \in 1 .. n BY <1>2
  <2> QED BY <1>1, <1>2, <2>1, <2>2 DEF At
<1>5. ASSUME NEW i \in 0 .. Len(c) - 1 PROVE Follows(At(f, c, i), At(f, c, i + 1))
  <2> HIDE DEF Follows
  <2>1. CASE i < Len(q)
    <3>1. /\ i \in 0 .. Len(q) - 1 /\ i \in 0 .. Len(q)
          /\ i + 1 \in 0 .. Len(q)
      BY <1>2, <2>1
    <3> QED BY <1>3, <3>1 DEF Line
  <2>2. CASE i = Len(q)
    <3>1. i \in 0 .. Len(q) /\ i + 1 \in Len(q) + 1 .. Len(c) BY <1>2, <2>2
    <3>2. At(f, c, i) = At(f, q, Len(q)) /\ At(f, c, i + 1) = v
      BY <1>3, <1>4, <2>2, <3>1
    <3> QED BY <3>2
  <2>3. CASE i > Len(q)
    <3>1. i \in Len(q) + 1 .. Len(c) /\ i + 1 \in Len(q) + 1 .. Len(c)
      BY <1>2, <2>3
    <3>2. At(f, c, i) = v /\ At(f, c, i + 1) = v BY <1>4, <3>1
    <3> QED BY <3>2 DEF Follows
  <2> QED BY <1>2, <2>1, <2>2, <2>3
<1>6. At(f, c, Len(c)) \in {At(f, q, Len(q)), v}
  <2>1. CASE n = 0
    <3>1. Len(c) = Len(q) /\ Len(q) \in 0 .. Len(q) BY <1>2, <2>1
    <3> QED BY <1>3, <3>1
  <2>2. CASE n # 0
    <3>1. Len(c) \in Len(q) + 1 .. Len(c) BY <1>2, <2>2
    <3> QED BY <1>4, <3>1
  <2> QED BY <2>1, <2>2
<1> QED BY <1>5, <1>6 DEF Line, c, b

\* What is recorded, as a frame, and what tx_task has in hand.
Recorded ==
  IF ~hadVoice THEN UnkeyFrame
  ELSE [stream |-> current, joined |-> \E f \in mixed : f.joined]

InHand == IF IsVoice(held) THEN held ELSE Recorded

\* There is no burst of no stream.
OnAir == air = NoStream => ~talking /\ delayed = 0

CInv ==
  /\ OnAir
  /\ Line(InHand, audioOut) /\ LineEnd(At(InHand, audioOut, Len(audioOut)))
  /\ IsVoice(held) => Follows(Recorded, held)
  /\ ~hadVoice => mixed = {}
  /\ CallsKeptApart

\* Steps of PttMachine: whatever it appends continues the line.
LEMMA PttCall == ASSUME UInv, CInv, PttMachine PROVE CInv'
<1> DEFINE e == At(InHand, audioOut, Len(audioOut))
           EndNext(g) ==
             IsVoice(g) => /\ keyed'
                           /\ rx' # NoStream /\ ~joined'
                                => g = [stream |-> rx', joined |-> FALSE]
<1> HIDE DEF Items
<1>1. UNCHANGED <<held, current, hadVoice, mixed>>
  BY PttKeeps DEF txVars, callVars
<1>2. InHand' = InHand /\ Recorded' = Recorded BY <1>1 DEF InHand, Recorded
<1>3. audioOut \in Seq(Items) BY Types DEF UInv, Queues
<1>4. /\ Line(InHand, audioOut) /\ LineEnd(e)
      /\ IsVoice(held) => Follows(Recorded, held)
      /\ ~hadVoice => mixed = {}
      /\ CallsKeptApart
  BY DEF CInv
<1>5. ASSUME Line(InHand, audioOut'),
             EndNext(At(InHand, audioOut', Len(audioOut')))
      PROVE  CInv'
  <2>1. Line(InHand, audioOut)' BY <1>2, <1>5 DEF Line, At
  <2>2. LineEnd(At(InHand, audioOut, Len(audioOut)))'
    BY <1>2, <1>5 DEF LineEnd, At, IsVoice
  <2>3. (IsVoice(held) => Follows(Recorded, held))'
    BY <1>1, <1>2, <1>4 DEF Follows, IsVoice
  <2>4. CallsKeptApart' /\ (~hadVoice => mixed = {})'
    BY <1>1, <1>4 DEF CallsKeptApart
  <2>5. OnAir'
    <3>1. CASE air = NoStream
      <4>1. ~talking /\ delayed = 0 BY <3>1 DEF CInv, OnAir
      <4>2. ~DeliverBurst BY <4>1 DEF DeliverBurst
      <4>3. delayed' = delayed
        BY <4>2 DEF PttMachine, DeliverHeader, DeliverTerminator, StreamTimesOut,
           Reset, airVars
      <4> QED BY <4>1, <4>3, PttKeeps DEF OnAir
    <3>2. CASE air # NoStream BY <3>2, PttKeeps DEF OnAir
    <3> QED BY <3>1, <3>2
  <2> QED BY <2>1, <2>2, <2>3, <2>4, <2>5 DEF CInv
<1>6. EndCall => CInv'
  <2> SUFFICES ASSUME EndCall PROVE CInv' OBVIOUS
  <2>1. audioOut' = Append(audioOut, UnkeyFrame) BY DEF EndCall
  <2>2. /\ Line(InHand, audioOut')
        /\ At(InHand, audioOut', Len(audioOut')) = UnkeyFrame
    BY <1>3, <1>4, <2>1, LineUnkey
  <2> QED BY <1>5, <2>2, UnkeyType
<1>7. audioOut' = audioOut /\ EndNext(e) => CInv'
  BY <1>4, <1>5
<1>8. CASE DeliverBurst
  <2> DEFINE queue == audioOut \o Unkey
             v == [stream |-> air, joined |-> Joins]
             d == At(InHand, queue, Len(queue))
  <2>1. /\ queue \in Seq(Items) /\ v \in Items /\ FramesDelivered \in Nat
        /\ Joins \in BOOLEAN
        /\ \/ audioOut' = queue \o Frames(v, FramesDelivered) /\ keyed' = TRUE
           \/ audioOut' = queue /\ keyed' = (keyed /\ Unkey = <<>>)
    BY <1>8, BurstQueue DEF UInv, Queues
  <2>2. rx' = air /\ joined' = Joins BY <1>8 DEF DeliverBurst
  <2>3. /\ Line(InHand, queue)
        /\ IsVoice(d) => keyed /\ Unkey = <<>> /\ (~Joins => d = v)
    <3>1. CASE rx \in {air, NoStream}
      <4>1. Unkey = <<>> BY <3>1 DEF Unkey
      <4>2. queue = audioOut BY <1>3, <4>1, ConcatEmptySeq
      <4>3. d = e BY <4>2
      <4>4. IsVoice(e) => /\ keyed
                          /\ rx # NoStream /\ ~joined
                               => e = [stream |-> rx, joined |-> FALSE]
        BY <1>4 DEF LineEnd
      <4>5. Joins <=> IF rx = air THEN joined ELSE keyed
        BY <4>1, Zenon DEF Joins
      <4>6. IsVoice(e) /\ ~Joins => e = v
        <5> SUFFICES ASSUME IsVoice(e), ~Joins PROVE e = v OBVIOUS
        <5>1. rx = air /\ ~joined BY <4>4, <4>5
        <5>2. Joins = FALSE BY <2>1
        <5>3. CASE air = NoStream
          <6>1. delayed = 0 BY <5>3 DEF CInv, OnAir
          <6> QED BY <1>8, <6>1 DEF DeliverBurst
        <5>4. CASE air # NoStream BY <4>4, <5>1, <5>2, <5>4
        <5> QED BY <5>3, <5>4
      <4> HIDE DEF queue, v, d, e
      <4> QED BY <1>4, <4>1, <4>2, <4>3, <4>4, <4>6
    <3>2. CASE rx \notin {air, NoStream}
      <4>1. queue = Append(audioOut, UnkeyFrame)
        BY <1>3, <3>2, UnkeyType, AppendIsConcat DEF Unkey
      <4>2. Line(InHand, queue) /\ d = UnkeyFrame
        BY <1>3, <1>4, <4>1, LineUnkey
      <4> QED BY <4>2, UnkeyType
    <3> QED BY <3>1, <3>2
  <2> HIDE DEF queue, v
  <2>4. Follows(d, v)
    <3>1. ~v.joined => ~Joins BY DEF v
    <3> QED BY <2>3, <3>1 DEF Follows
  <2>5. CASE audioOut' = queue \o Frames(v, FramesDelivered) /\ keyed' = TRUE
    <3>1. /\ Line(InHand, audioOut')
          /\ At(InHand, audioOut', Len(audioOut')) \in {d, v}
      BY <2>1, <2>3, <2>4, <2>5, LineFrames
    <3>2. ~Joins => v = [stream |-> air, joined |-> FALSE] BY <2>1 DEF v
    <3>3. EndNext(v) /\ EndNext(d) BY <2>2, <2>3, <2>5, <3>2
    <3> HIDE DEF d, EndNext
    <3> QED BY <1>5, <3>1, <3>3
  <2>6. CASE audioOut' = queue /\ keyed' = (keyed /\ Unkey = <<>>)
    <3>1. ~Joins => v = [stream |-> air, joined |-> FALSE] BY <2>1 DEF v
    <3>2. EndNext(d) BY <2>2, <2>3, <2>6, <3>1
    <3>3. At(InHand, audioOut', Len(audioOut')) = d BY <2>6
    <3> HIDE DEF d, EndNext
    <3> QED BY <1>5, <2>3, <2>6, <3>2, <3>3
  <2> QED BY <2>1, <2>5, <2>6
<1>9. CASE DeliverHeader
  <2>1. /\ audioOut' = audioOut
        /\ \/ UNCHANGED pttVars
           \/ joined' = keyed /\ keyed' = keyed
    BY <1>9 DEF DeliverHeader
  <2>2. EndNext(e) BY <1>4, <2>1 DEF LineEnd, pttVars
  <2> QED BY <1>7, <2>1, <2>2
<1>10. CASE DeliverTerminator
  <2>1. EndCall \/ UNCHANGED <<pttVars, audioOut>>
    BY <1>10 DEF DeliverTerminator
  <2>2. UNCHANGED pttVars => EndNext(e) BY <1>4 DEF LineEnd, pttVars
  <2> QED BY <1>6, <1>7, <2>1, <2>2
<1>11. CASE StreamTimesOut BY <1>6, <1>11 DEF StreamTimesOut
<1>12. CASE Reset
  <2>1. rx' = NoStream /\ keyed' = keyed /\ audioOut' = audioOut
    BY <1>12 DEF Reset
  <2>2. EndNext(e) BY <1>4, <2>1 DEF LineEnd
  <2> QED BY <1>7, <2>1, <2>2
<1> QED BY <1>8, <1>9, <1>10, <1>11, <1>12 DEF PttMachine

\* Sending a voice frame that follows what is recorded: what is recorded then is
\* the frame's call, or it joined.
LEMMA Record ==
  ASSUME UInv, CInv, NEW f \in Items, IsVoice(f), Follows(Recorded, f),
         EmitVoice(f, due)
  PROVE  /\ CallsKeptApart' /\ hadVoice'
         /\ Recorded' = f \/ ((Recorded').joined /\ f.joined)
<1>1. /\ current' = IF hadVoice THEN current ELSE f.stream
      /\ hadVoice' = TRUE /\ mixed' = mixed \cup {f}
  BY DEF EmitVoice
<1>2. Recorded' = [stream |-> current', joined |-> \E g \in mixed' : g.joined]
  BY <1>1 DEF Recorded
<1>3. /\ hadVoice => current # NoStream
      /\ f = [stream |-> f.stream, joined |-> f.joined] /\ f.joined \in BOOLEAN
  BY DEF UInv, TypeOK, Items, AudioFrames
<1>4. /\ ~hadVoice => mixed = {}
      /\ \A g \in mixed : ~g.joined => g.stream = current
  BY DEF CInv, CallsKeptApart
<1>5. CASE ~hadVoice
  <2>1. mixed' = {f} /\ current' = f.stream BY <1>1, <1>4, <1>5
  <2>2. (\E g \in mixed' : g.joined) = f.joined BY <1>3, <2>1
  <2>3. Recorded' = f BY <1>2, <1>3, <2>1, <2>2
  <2> QED BY <1>1, <2>1, <2>3 DEF CallsKeptApart
<1>6. CASE hadVoice /\ f.joined
  <2>1. CallsKeptApart' BY <1>1, <1>4, <1>6 DEF CallsKeptApart
  <2>2. (Recorded').joined BY <1>1, <1>2, <1>6
  <2> QED BY <1>1, <1>6, <2>1, <2>2
<1>7. CASE hadVoice /\ ~f.joined
  <2>1. Recorded = [stream |-> current, joined |-> \E g \in mixed : g.joined]
    BY <1>7 DEF Recorded
  <2>2. Recorded = f BY <1>3, <1>7, <2>1 DEF Follows, IsVoice
  <2>3. f.stream = current /\ ~\E g \in mixed : g.joined BY <1>7, <2>1, <2>2
  <2>4. CallsKeptApart' BY <1>1, <1>4, <1>7, <2>3 DEF CallsKeptApart
  <2>5. (\E g \in mixed' : g.joined) = (\E g \in mixed : g.joined)
    BY <1>1, <1>7
  <2>6. Recorded' = f BY <1>1, <1>2, <1>7, <2>1, <2>2, <2>5
  <2> QED BY <1>1, <2>4, <2>6
<1> QED BY <1>5, <1>6, <1>7

\* tx_task's steps.
LEMMA TxCall == ASSUME UInv, CInv, TxTask PROVE CInv'
<1> DEFINE EndsWell(f, q) == Line(f, q) /\ LineEnd(At(f, q, Len(q)))
<1> HIDE DEF Items
<1>1. /\ audioOut \in Seq(Items) /\ held \in Items
      /\ (pc = "sleep" <=> IsVoice(held))
  BY Types DEF UInv, OtherTypes, PaceTypes, Queues
<1>2. UNCHANGED <<rx, joined, keyed, air, talking, delayed>>
  BY DEF TxTask, TakeVoice, WakeUp, TakeUnkey, Stop, airVars, pttVars
<1>3. OnAir' BY <1>2 DEF CInv, OnAir
<1>4. AtSelect => /\ ~IsVoice(held) /\ InHand = Recorded
                  /\ Head(audioOut) \in Items /\ Tail(audioOut) \in Seq(Items)
                  /\ EndsWell(Head(audioOut), Tail(audioOut))
                  /\ Follows(Recorded, Head(audioOut))
  <2> SUFFICES ASSUME AtSelect
               PROVE  /\ ~IsVoice(held) /\ InHand = Recorded
                      /\ Head(audioOut) \in Items /\ Tail(audioOut) \in Seq(Items)
                      /\ EndsWell(Head(audioOut), Tail(audioOut))
                      /\ Follows(Recorded, Head(audioOut))
    OBVIOUS
  <2>1. ~IsVoice(held) /\ InHand = Recorded /\ audioOut # <<>>
    BY <1>1 DEF AtSelect, InHand
  <2>2. Line(InHand, audioOut) /\ LineEnd(At(InHand, audioOut, Len(audioOut)))
    BY DEF CInv
  <2>3. Head(audioOut) \in Items /\ Tail(audioOut) \in Seq(Items)
    BY <1>1, <2>1, HeadTailProperties
  <2> HIDE DEF Line, LineEnd, Follows
  <2> QED BY <1>1, <2>1, <2>2, <2>3, LineTail
<1>5. ASSUME EndsWell(InHand', audioOut')
      PROVE  /\ Line(InHand, audioOut)'
             /\ LineEnd(At(InHand, audioOut, Len(audioOut)))'
  BY <1>2, <1>5 DEF Line, LineEnd, At
<1> HIDE DEF EndsWell
<1>6. ASSUME NEW f \in Items, IsVoice(f), Follows(Recorded, f), EmitVoice(f, due),
             ~IsVoice(held'), EndsWell(f, audioOut'), audioOut' \in Seq(Items)
      PROVE  CInv'
  <2>1. /\ CallsKeptApart' /\ hadVoice'
        /\ Recorded' = f \/ ((Recorded').joined /\ f.joined)
    BY <1>6, Record
  <2>2. InHand' = Recorded' BY <1>6 DEF InHand, IsVoice
  <2>3. EndsWell(InHand', audioOut')
    BY <1>6, <2>1, <2>2, LineSame DEF EndsWell
  <2>4. ~IsVoice(held)' BY <1>6 DEF IsVoice
  <2> QED BY <1>3, <1>5, <2>1, <2>3, <2>4 DEF CInv
<1>7. ASSUME Finalize, ~IsVoice(held'), NEW f, EndsWell(f, audioOut'),
             audioOut' \in Seq(Items)
      PROVE  CInv'
  <2>1. current' = NoStream /\ hadVoice' = FALSE /\ mixed' = {}
    BY <1>7 DEF Finalize
  <2>2. InHand' = UnkeyFrame BY <1>7, <2>1 DEF InHand, Recorded, IsVoice
  <2>3. EndsWell(InHand', audioOut')
    BY <1>7, <2>2, UnkeyType, LineSame DEF EndsWell
  <2>4. ~IsVoice(held)' BY <1>7 DEF IsVoice
  <2>5. CallsKeptApart' /\ (~hadVoice => mixed = {})'
    BY <2>1 DEF CallsKeptApart
  <2> QED BY <1>3, <1>5, <2>3, <2>4, <2>5 DEF CInv
<1>8. CASE TakeVoice /\ Early
  <2>1. /\ AtSelect /\ IsVoice(Head(audioOut))
        /\ held' = Head(audioOut) /\ audioOut' = Tail(audioOut)
        /\ UNCHANGED <<current, hadVoice, mixed>>
    BY <1>8 DEF TakeVoice, callVars
  <2>2. InHand' = Head(audioOut) /\ Recorded' = Recorded
    BY <2>1 DEF InHand, Recorded, IsVoice
  <2>3. /\ Line(InHand, audioOut)'
        /\ LineEnd(At(InHand, audioOut, Len(audioOut)))'
    BY <1>4, <1>5, <2>1, <2>2
  <2>4. (IsVoice(held) => Follows(Recorded, held))'
    BY <1>4, <2>1, <2>2 DEF Follows, IsVoice
  <2>5. CallsKeptApart' /\ (~hadVoice => mixed = {})'
    BY <2>1 DEF CInv, CallsKeptApart
  <2> QED BY <1>3, <2>3, <2>4, <2>5 DEF CInv
<1>9. CASE TakeVoice /\ ~Early
  <2>1. /\ AtSelect /\ IsVoice(Head(audioOut)) /\ held' = held
        /\ audioOut' = Tail(audioOut) /\ EmitVoice(Head(audioOut), due)
    BY <1>9 DEF TakeVoice
  <2> QED BY <1>4, <1>6, <2>1
<1>10. CASE WakeUp
  <2>1. /\ IsVoice(held) /\ EmitVoice(held, due) /\ held' = UnkeyFrame
        /\ audioOut' = audioOut
    BY <1>1, <1>10 DEF WakeUp
  <2>2. InHand = held BY <2>1 DEF InHand
  <2>3. Follows(Recorded, held) /\ EndsWell(held, audioOut)
    BY <2>1, <2>2 DEF CInv, EndsWell
  <2> QED BY <1>1, <1>6, <2>1, <2>3, UnkeyType
<1>11. CASE TakeUnkey
  <2>1. AtSelect /\ held' = held /\ audioOut' = Tail(audioOut) /\ Finalize
    BY <1>11 DEF TakeUnkey
  <2> QED BY <1>4, <1>7, <2>1
<1>12. CASE Stop
  <2>1. held' = UnkeyFrame /\ audioOut' = audioOut /\ Finalize
    BY <1>12 DEF Stop
  <2>2. EndsWell(InHand, audioOut) BY DEF CInv, EndsWell
  <2> QED BY <1>1, <1>7, <2>1, <2>2, UnkeyType
<1> QED BY <1>8, <1>9, <1>10, <1>11, <1>12 DEF TxTask

LEMMA OtherCall ==
  ASSUME CInv, Air \/ Tick \/ Cancel \/ Terminated \/ UNCHANGED vars
  PROVE  CInv'
<1>1. /\ UNCHANGED <<rx, joined, keyed, audioOut, held, current, hadVoice, mixed>>
      /\ OnAir'
  <2>1. CASE Air
    <3>1. UNCHANGED <<pttVars, audioOut, txVars>>
      BY <2>1 DEF Air, StartTalking, Burst, StopTalking, LoseHeader, LoseBurst,
         LoseTerminator
    <3>2. OnAir'
      <4>1. ASSUME NEW t \in Streams, StartTalking(t) PROVE OnAir'
        BY <4>1, StreamAssumption DEF StartTalking, OnAir
      <4>2. CASE Burst BY <4>2 DEF Burst, CInv, OnAir
      <4>3. CASE LoseBurst BY <4>3 DEF LoseBurst, CInv, OnAir
      <4>4. CASE StopTalking \/ LoseHeader \/ LoseTerminator
        <5>1. air' = air /\ delayed' = delayed /\ (talking' => talking)
          BY <4>4 DEF StopTalking, LoseHeader, LoseTerminator
        <5> QED BY <5>1 DEF CInv, OnAir
      <4> QED BY <2>1, <4>1, <4>2, <4>3, <4>4 DEF Air
    <3> QED BY <3>1, <3>2 DEF pttVars, txVars, callVars
  <2>2. CASE Tick BY <2>2 DEF Tick, callVars, CInv, OnAir
  <2>3. CASE Cancel \/ Terminated \/ UNCHANGED vars
    <3>1. UNCHANGED <<airVars, pttVars, audioOut, txVars>>
      BY <2>3 DEF Cancel, Terminated, vars
    <3> QED BY <3>1 DEF airVars, pttVars, txVars, callVars, CInv, OnAir
  <2> QED BY <2>1, <2>2, <2>3
<1>2. InHand' = InHand /\ Recorded' = Recorded
  BY <1>1 DEF InHand, Recorded, IsVoice
<1>3. /\ Line(InHand, audioOut)'
      /\ LineEnd(At(InHand, audioOut, Len(audioOut)))'
  BY <1>1, <1>2 DEF CInv, Line, LineEnd, At, IsVoice
<1>4. (IsVoice(held) => Follows(Recorded, held))'
  BY <1>1, <1>2 DEF CInv, Follows, IsVoice
<1> QED BY <1>1, <1>3, <1>4 DEF CInv, CallsKeptApart

\* However headers, bursts and terminators are delayed and lost, and whenever a
\* header or a reset replaces a call, what is recorded, measured and
\* gain-controlled as one call is of one, but for calls that joined its keying.
THEOREM RecordingsKeptApart == Spec => []CallsKeptApart
<1>1. Init => CInv
  <2> SUFFICES ASSUME Init PROVE CInv OBVIOUS
  <2>1. /\ audioOut = <<>> /\ held = UnkeyFrame /\ hadVoice = FALSE
        /\ mixed = {} /\ delayed = 0 /\ talking = FALSE
    BY DEF Init
  <2>2. InHand = UnkeyFrame /\ ~IsVoice(held)
    BY <2>1, UnkeyType DEF InHand, Recorded
  <2>3. Line(UnkeyFrame, <<>>) /\ At(UnkeyFrame, <<>>, Len(<<>>)) = UnkeyFrame
    BY DEF Line, At
  <2>4. LineEnd(UnkeyFrame) BY UnkeyType DEF LineEnd
  <2>5. OnAir BY <2>1 DEF OnAir
  <2> QED BY <2>1, <2>2, <2>3, <2>4, <2>5 DEF CInv, CallsKeptApart
<1>2. UInv /\ CInv /\ [Next]_vars => CInv'
  BY PttCall, TxCall, OtherCall DEF Next
<1>3. CInv => CallsKeptApart BY DEF CInv
<1> QED BY <1>1, <1>2, <1>3, Invariance, PTL DEF Spec
=============================================================================
