-------------------------------- MODULE Stats --------------------------------
(***************************************************************************)
(* Call statistics (bridge/src/stats.rs): the consumer of the events that  *)
(* PttMachine's StatsEmitter tries to send, the cumulative counters it     *)
(* folds each call into, and the two tasks that log them.                  *)
(*                                                                         *)
(* main.rs joins voice_task, the consumer and the two tasks in one task of  *)
(* the runtime: what one of them does between two awaits is a step.        *)
(*                                                                         *)
(* The producer is any sequence of calls: Ptt's come one at a time, but a  *)
(* call may begin where the last one of its direction was not ended.       *)
(***************************************************************************)
EXTENDS Naturals, Sequences, FiniteSets

CONSTANTS
  Dirs,      \* CallDirection: FmToDmr, DmrToFm
  Cap,       \* capacity of the statistics channel (256)
  SkipIdle,  \* stats.skip_idle_heartbeat
  MaxEvents  \* bound of the model on the events of a behaviour

ASSUME StatsAssumption ==
  Cap \in Nat \ {0} /\ SkipIdle \in BOOLEAN /\ MaxEvents \in Nat

VARIABLES
  inCall,    \* per direction: the producer is in a call
  events,    \* the channel
  acc,       \* per direction: Option<CallAccumulator>
  total,     \* per direction: DirectionStats
  lastBeat,  \* heartbeat_task: frames of each direction in the last line
  prev,      \* summary_task: the counters at the last line
  gone,      \* voice_task has returned, its sender is dropped
  ended,     \* consume_events has returned
  sent,      \* history: events so far
  made,      \* history, per direction: what happened in the calls
  lost,      \* history, per direction: what the full channel swallowed of it
  atTick,    \* history: frames of each direction at the last heartbeat tick
  reported   \* history, per direction: sum of what the summaries said

voiceVars == <<inCall, gone, sent, made, lost>>
counters == <<acc, total>>
beatVars == <<lastBeat, atTick>>
summaryVars == <<prev, reported>>
vars == <<voiceVars, events, counters, beatVars, summaryVars, ended>>

-----------------------------------------------------------------------------
\* The counter each kind of event moves; the end of a call moves none.
Counter == [start |-> "calls", frame |-> "frames", drop |-> "drops"]
Kinds == DOMAIN Counter \cup {"end"}
Counts == [{"calls", "frames", "drops"} -> Nat]

\* An accumulator counts the call it is for; None is one that counts nothing.
None == [calls |-> 0, frames |-> 0, drops |-> 0]
NewAccumulator == [None EXCEPT !.calls = 1]

Plus(a, b) == [k \in DOMAIN None |-> a[k] + b[k]]
Minus(a, b) == [k \in DOMAIN None |-> a[k] - b[k]]
Count(c, d, kind) ==
  IF kind = "end" THEN c ELSE [c EXCEPT ![d][Counter[kind]] = @ + 1]

-----------------------------------------------------------------------------
(* voice_task. *)

\* StatsEmitter::send: try_send, and an event for a full channel is dropped.
Send(d, kind) ==
  /\ ~gone /\ sent < MaxEvents
  /\ sent' = sent + 1
  /\ made' = Count(made, d, kind)
  /\ IF Len(events) < Cap
     THEN events' = Append(events, [dir |-> d, kind |-> kind]) /\ UNCHANGED lost
     ELSE lost' = Count(lost, d, kind) /\ UNCHANGED events
  /\ UNCHANGED <<gone, counters, beatVars, summaryVars, ended>>

CallStart(d) == Send(d, "start") /\ inCall' = [inCall EXCEPT ![d] = TRUE]

VoiceFrame(d) == inCall[d] /\ Send(d, "frame") /\ UNCHANGED inCall

FrameDropped(d) == inCall[d] /\ Send(d, "drop") /\ UNCHANGED inCall

CallEnd(d) ==
  inCall[d] /\ Send(d, "end") /\ inCall' = [inCall EXCEPT ![d] = FALSE]

Leave ==
  /\ ~gone /\ gone' = TRUE
  /\ UNCHANGED <<inCall, sent, made, lost, events, counters, beatVars,
                 summaryVars, ended>>

-----------------------------------------------------------------------------
(* consume_events. *)

\* fold_into_stats, for an accumulator that may be None.
Fold(d) == total' = [total EXCEPT ![d] = Plus(@, acc[d])]

\* Mutant: a call whose end was lost is replaced without being folded.
ReplaceCall(d) ==
  UNCHANGED total /\ acc' = [acc EXCEPT ![d] = NewAccumulator]

OnStart(d) == Fold(d) /\ acc' = [acc EXCEPT ![d] = NewAccumulator]

OnCount(d, kind) ==
  /\ acc' = IF acc[d] = None THEN acc ELSE Count(acc, d, kind)
  /\ UNCHANGED total

OnEnd(d) == Fold(d) /\ acc' = [acc EXCEPT ![d] = None]

Consume ==
  /\ events # <<>> /\ ~ended
  /\ events' = Tail(events)
  /\ LET e == Head(events) IN
     CASE e.kind = "start" -> OnStart(e.dir)
       [] e.kind = "end"   -> OnEnd(e.dir)
       [] OTHER            -> OnCount(e.dir, e.kind)
  /\ UNCHANGED <<voiceVars, beatVars, summaryVars, ended>>

\* Mutant: the consumer returns as soon as the sender is dropped.
SenderGone == gone

\* recv() returns None: no sender, and nothing left to receive.
ChannelClosed == gone /\ events = <<>>

ConsumerEnds ==
  /\ ChannelClosed /\ ~ended
  /\ ended' = TRUE
  /\ UNCHANGED <<voiceVars, events, counters, beatVars, summaryVars>>

-----------------------------------------------------------------------------
(* The two logs.  voice_task's return trips the token they stop on. *)

Frames == [d \in Dirs |-> total[d].frames]

Idle == Frames = lastBeat

Heartbeat ==
  /\ ~gone
  /\ lastBeat' = IF SkipIdle /\ Idle THEN lastBeat ELSE Frames
  /\ atTick' = Frames
  /\ UNCHANGED <<voiceVars, events, counters, summaryVars, ended>>

\* Mutant: the drops of the last line are not remembered.
RememberCallsAndFrames ==
  prev' = [d \in Dirs |-> [total[d] EXCEPT !.drops = prev[d].drops]]

Remember == prev' = total

Summary ==
  /\ ~gone
  /\ reported' = [d \in Dirs |-> Plus(reported[d], Minus(total[d], prev[d]))]
  /\ Remember
  /\ UNCHANGED <<voiceVars, events, counters, beatVars, ended>>

Terminated == ended /\ UNCHANGED vars

-----------------------------------------------------------------------------
Init ==
  /\ inCall = [d \in Dirs |-> FALSE] /\ gone = FALSE /\ ended = FALSE
  /\ sent = 0 /\ events = <<>>
  /\ acc = [d \in Dirs |-> None] /\ total = [d \in Dirs |-> None]
  /\ lastBeat = [d \in Dirs |-> 0] /\ atTick = [d \in Dirs |-> 0]
  /\ prev = [d \in Dirs |-> None] /\ reported = [d \in Dirs |-> None]
  /\ made = [d \in Dirs |-> None] /\ lost = [d \in Dirs |-> None]

Next ==
  \/ \E d \in Dirs : CallStart(d) \/ VoiceFrame(d) \/ FrameDropped(d)
                     \/ CallEnd(d)
  \/ Leave \/ Consume \/ ConsumerEnds \/ Heartbeat \/ Summary \/ Terminated

Spec == Init /\ [][Next]_vars

\* The runtime keeps polling the consumer.
FairSpec == Spec /\ WF_vars(Consume) /\ WF_vars(ConsumerEnds)

-----------------------------------------------------------------------------
\* Types; an accumulator is for one call, and None counts nothing.
TypeOK ==
  /\ inCall \in [Dirs -> BOOLEAN] /\ gone \in BOOLEAN /\ ended \in BOOLEAN
  /\ sent \in Nat /\ events \in Seq([dir : Dirs, kind : Kinds])
  /\ acc \in [Dirs -> Counts] /\ total \in [Dirs -> Counts]
  /\ lastBeat \in [Dirs -> Nat] /\ atTick \in [Dirs -> Nat]
  /\ prev \in [Dirs -> Counts] /\ reported \in [Dirs -> Counts]
  /\ made \in [Dirs -> Counts] /\ lost \in [Dirs -> Counts]
  /\ \A d \in Dirs : acc[d] = None \/ acc[d].calls = 1

\* The events of a direction in the channel that will move a counter.
Awaited(d, k) ==
  {i \in DOMAIN events : /\ events[i].dir = d /\ events[i].kind # "end"
                         /\ Counter[events[i].kind] = k}
Waiting(d) == [k \in DOMAIN None |-> Cardinality(Awaited(d, k))]

\* Everything of a direction that was counted, is in its open call or is still
\* to be counted, or is known to be lost.
Known(d) == Plus(Plus(total[d], acc[d]), Plus(Waiting(d), lost[d]))

\* A call is lost from the totals only with its start event: a lost end leaves
\* it to the next call of its direction to fold it in.  And as long as no start
\* is lost, frames and drops are lost only with their own events.
LostOnlyOnFullChannel ==
  \A d \in Dirs :
    /\ Known(d).calls = made[d].calls
    /\ lost[d].calls = 0 => Known(d) = made[d]

\* Whichever events are lost, nothing is counted twice: not a call that was
\* folded when the next one started, nor frames of a call without a start.
NeverOvercounted ==
  \A d \in Dirs, k \in DOMAIN None : Known(d)[k] <= made[d][k]

\* So what is counted is what was made, less what went with a lost event.
CountsTrue == LostOnlyOnFullChannel /\ NeverOvercounted

\* A heartbeat is suppressed only when the last line still tells the frames of
\* both directions.
HeartbeatCurrent == lastBeat = atTick

\* What the summaries have reported period by period adds up to the totals.
SummariesAddUp == [][Summary => reported' = total]_vars

\* After voice_task has returned, the consumer takes what it sent in its last
\* moments, and returns.
Drained == gone ~> (ended /\ events = <<>>)
=============================================================================
