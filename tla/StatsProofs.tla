----------------------------- MODULE StatsProofs -----------------------------
(***************************************************************************)
(* Theorems about the statistics for every capacity of the channel: types, *)
(* that neither log ever misreports the counters, and that the counters    *)
(* are what was made less what was lost.  SInv adds to the types that the  *)
(* summaries so far add up to the last counters they saw, CInv that what   *)
(* waits in the channel finds the call it belongs to.                      *)
(***************************************************************************)
EXTENDS Stats, Integers, SequenceTheorems, FiniteSetTheorems, TLAPS

LEMMA CountType ==
  ASSUME NEW c \in [Dirs -> Counts], NEW d \in Dirs, NEW kind \in Kinds
  PROVE  Count(c, d, kind) \in [Dirs -> Counts]
BY DEF Count, Counts, Kinds, Counter

LEMMA PlusType ==
  ASSUME NEW a \in Counts, NEW b \in Counts
  PROVE  Plus(a, b) \in Counts
BY DEF Plus, Counts, None

LEMMA NoneType == None \in Counts /\ NewAccumulator \in Counts
BY DEF None, NewAccumulator, Counts

\* An accumulator for a call still is one, and for the same call, after a count.
LEMMA CountInCall ==
  ASSUME NEW c \in [Dirs -> Counts], NEW d \in Dirs, NEW e \in Dirs,
         NEW kind \in Kinds \ {"start"}
  PROVE  /\ Count(c, d, kind)[e].calls = c[e].calls
         /\ e # d => Count(c, d, kind)[e] = c[e]
BY DEF Count, Counts, Kinds, Counter

\* Counting from the last line to this one, from this one: nothing is lost.
LEMMA RoundTrip ==
  ASSUME NEW a \in Counts, NEW b \in Counts
  PROVE  Plus(a, Minus(b, a)) = b
<1> DEFINE fields == {"calls", "frames", "drops"}
<1>1. DOMAIN None = fields BY DEF None
<1>2. a \in [fields -> Nat] /\ b \in [fields -> Nat] BY DEF Counts
<1>3. \A k \in fields : a[k] + (b[k] - a[k]) = b[k] BY <1>2
<1>4. Plus(a, Minus(b, a)) = [k \in fields |-> a[k] + (b[k] - a[k])]
  BY <1>1 DEF Plus, Minus
<1>5. b = [k \in fields |-> b[k]] BY <1>2
<1> QED BY <1>3, <1>4, <1>5

SInv == TypeOK /\ reported = prev

LEMMA SendType ==
  ASSUME TypeOK, NEW d \in Dirs, NEW kind \in Kinds, Send(d, kind)
  PROVE  /\ sent' \in Nat /\ events' \in Seq([dir : Dirs, kind : Kinds])
         /\ made' \in [Dirs -> Counts] /\ lost' \in [Dirs -> Counts]
         /\ UNCHANGED <<gone, counters, beatVars, summaryVars, ended>>
<1>1. sent' \in Nat BY DEF Send, TypeOK
<1>2. made' \in [Dirs -> Counts] BY CountType DEF Send, TypeOK
<1>3. lost' \in [Dirs -> Counts]
  <2>1. Count(lost, d, kind) \in [Dirs -> Counts] BY CountType DEF TypeOK
  <2> QED BY <2>1 DEF Send, TypeOK
<1>4. events' \in Seq([dir : Dirs, kind : Kinds])
  <2>1. [dir |-> d, kind |-> kind] \in [dir : Dirs, kind : Kinds] OBVIOUS
  <2>2. Append(events, [dir |-> d, kind |-> kind])
          \in Seq([dir : Dirs, kind : Kinds])
    <3> DEFINE Event == [dir : Dirs, kind : Kinds]
    <3>1. events \in Seq(Event) BY DEF TypeOK
    <3> HIDE DEF Event
    <3> QED BY <2>1, <3>1, AppendProperties DEF Event
  <2> QED BY <2>2 DEF Send, TypeOK
<1>5. UNCHANGED <<gone, counters, beatVars, summaryVars, ended>> BY DEF Send
<1> QED BY <1>1, <1>2, <1>3, <1>4, <1>5

\* Whatever the event, the accumulators and totals keep their types, and an
\* accumulator is for one call or None.
LEMMA ConsumeType ==
  ASSUME TypeOK, Consume
  PROVE  /\ events' \in Seq([dir : Dirs, kind : Kinds])
         /\ acc' \in [Dirs -> Counts] /\ total' \in [Dirs -> Counts]
         /\ \A d \in Dirs : acc'[d] = None \/ acc'[d].calls = 1
<1> DEFINE Event == [dir : Dirs, kind : Kinds]
           e == Head(events)
<1>1. events \in Seq(Event) /\ events # <<>> BY DEF TypeOK, Consume
<1>2. e \in Event /\ events' \in Seq(Event)
  <2> HIDE DEF Event
  <2> QED BY <1>1, HeadTailProperties DEF Consume
<1>3. e.dir \in Dirs /\ e.kind \in Kinds BY <1>2
<1>4. acc \in [Dirs -> Counts] /\ total \in [Dirs -> Counts] BY DEF TypeOK
<1>5. \A d \in Dirs : acc[d] = None \/ acc[d].calls = 1 BY DEF TypeOK
<1>6. Fold(e.dir) => total' \in [Dirs -> Counts]
  BY <1>3, <1>4, PlusType DEF Fold
<1>7. CASE e.kind = "start"
  <2>1. OnStart(e.dir) BY <1>7 DEF Consume
  <2>2. NewAccumulator.calls = 1 BY DEF NewAccumulator, None
  <2> QED BY <1>2, <1>3, <1>4, <1>5, <1>6, <2>1, <2>2, NoneType DEF OnStart
<1>8. CASE e.kind = "end"
  <2>1. OnEnd(e.dir) BY <1>8 DEF Consume
  <2> QED BY <1>2, <1>3, <1>4, <1>5, <1>6, <2>1, NoneType DEF OnEnd
<1>9. CASE e.kind \notin {"start", "end"}
  <2>1. OnCount(e.dir, e.kind) BY <1>9 DEF Consume
  <2>2. e.kind \in Kinds \ {"start"} BY <1>3, <1>9
  <2>3. Count(acc, e.dir, e.kind) \in [Dirs -> Counts]
    BY <1>3, <1>4, CountType
  <2>4. acc' \in [Dirs -> Counts] /\ total' \in [Dirs -> Counts]
    BY <1>4, <2>1, <2>3 DEF OnCount
  <2>5. ASSUME NEW d \in Dirs PROVE acc'[d] = None \/ acc'[d].calls = 1
    <3>1. CASE acc[e.dir] = None BY <1>5, <2>1, <3>1 DEF OnCount
    <3>2. CASE acc[e.dir] # None
      <4>1. acc' = Count(acc, e.dir, e.kind) BY <2>1, <3>2 DEF OnCount
      <4>2. /\ acc'[d].calls = acc[d].calls
            /\ d # e.dir => acc'[d] = acc[d]
        BY <1>3, <1>4, <2>2, <4>1, CountInCall
      <4> QED BY <1>3, <1>5, <3>2, <4>2
    <3> QED BY <3>1, <3>2
  <2> QED BY <1>2, <2>4, <2>5
<1> QED BY <1>7, <1>8, <1>9

LEMMA Invariance == Init /\ [][Next]_vars => []SInv
<1>1. Init => SInv
  <2> SUFFICES ASSUME Init PROVE SInv OBVIOUS
  <2>1. <<>> \in Seq([dir : Dirs, kind : Kinds]) OBVIOUS
  <2> QED BY <2>1, NoneType DEF Init, SInv, TypeOK
<1>2. SInv /\ [Next]_vars => SInv'
  <2> SUFFICES ASSUME SInv, [Next]_vars PROVE SInv' OBVIOUS
  <2> USE DEF SInv, voiceVars, counters, beatVars, summaryVars
  <2>1. ASSUME NEW d \in Dirs, NEW kind \in Kinds, Send(d, kind),
               inCall' \in [Dirs -> BOOLEAN]
        PROVE  SInv'
    BY <2>1, SendType DEF TypeOK
  <2>2. {"start", "frame", "drop", "end"} \subseteq Kinds
    BY DEF Kinds, Counter
  <2>3. ASSUME NEW d \in Dirs, CallStart(d) PROVE SInv'
    BY <2>1, <2>2, <2>3 DEF CallStart, TypeOK
  <2>4. ASSUME NEW d \in Dirs, VoiceFrame(d) PROVE SInv'
    BY <2>1, <2>2, <2>4 DEF VoiceFrame, TypeOK
  <2>5. ASSUME NEW d \in Dirs, FrameDropped(d) PROVE SInv'
    BY <2>1, <2>2, <2>5 DEF FrameDropped, TypeOK
  <2>6. ASSUME NEW d \in Dirs, CallEnd(d) PROVE SInv'
    BY <2>1, <2>2, <2>6 DEF CallEnd, TypeOK
  <2>7. CASE Leave BY <2>7 DEF Leave, TypeOK
  <2>8. CASE Consume
    <3>1. UNCHANGED <<voiceVars, beatVars, summaryVars, ended>>
      BY <2>8 DEF Consume
    <3> QED BY <2>8, <3>1, ConsumeType DEF TypeOK
  <2>9. CASE ConsumerEnds BY <2>9 DEF ConsumerEnds, TypeOK
  <2>10. CASE Heartbeat
    <3>1. Frames \in [Dirs -> Nat] BY DEF Frames, TypeOK, Counts
    <3> QED BY <2>10, <3>1 DEF Heartbeat, TypeOK
  <2>11. CASE Summary
    <3>1. reported' = total
      <4>1. \A d \in Dirs :
              Plus(reported[d], Minus(total[d], prev[d])) = total[d]
        BY RoundTrip DEF TypeOK
      <4> QED BY <2>11, <4>1 DEF Summary, TypeOK
    <3>2. prev' = total BY <2>11 DEF Summary, Remember
    <3> QED BY <2>11, <3>1, <3>2 DEF Summary, TypeOK
  <2>12. CASE Terminated \/ UNCHANGED vars
    BY <2>12 DEF Terminated, vars, TypeOK
  <2> QED BY <2>3, <2>4, <2>5, <2>6, <2>7, <2>8, <2>9, <2>10, <2>11, <2>12
          DEF Next
<1> QED BY <1>1, <1>2, PTL

\* Every variable keeps its type; an accumulator is for one call.
THEOREM TypeCorrect == Spec => []TypeOK
<1>1. SInv => TypeOK BY DEF SInv
<1> QED BY <1>1, Invariance, PTL DEF Spec

\* What the periodic summaries report adds up to the counters, drop for drop.
THEOREM SummariesTrue == Spec => SummariesAddUp
<1>1. SInv /\ [Next]_vars => [Summary => reported' = total]_vars
  <2> SUFFICES ASSUME SInv, Summary PROVE reported' = total OBVIOUS
  <2>1. \A d \in Dirs : Plus(reported[d], Minus(total[d], prev[d])) = total[d]
    BY RoundTrip DEF SInv, TypeOK
  <2> QED BY <2>1 DEF Summary, SInv, TypeOK
<1> QED BY <1>1, Invariance, PTL DEF Spec, SummariesAddUp

\* A suppressed heartbeat hides nothing: the last line still tells the frames.
THEOREM HeartbeatsTrue == Spec => []HeartbeatCurrent
<1>1. Init => HeartbeatCurrent BY DEF Init, HeartbeatCurrent
<1>2. HeartbeatCurrent /\ [Next]_vars => HeartbeatCurrent'
  <2> SUFFICES ASSUME HeartbeatCurrent, [Next]_vars PROVE HeartbeatCurrent'
    OBVIOUS
  <2>1. CASE Heartbeat BY <2>1 DEF Heartbeat, Idle, HeartbeatCurrent
  <2>2. CASE ~Heartbeat
    <3>1. UNCHANGED beatVars
      BY <2>2 DEF Next, vars, beatVars, Send, CallStart, VoiceFrame,
         FrameDropped, CallEnd, Leave, Consume, ConsumerEnds, Summary,
         Terminated
    <3> QED BY <3>1 DEF beatVars, HeartbeatCurrent
  <2> QED BY <2>1, <2>2
<1> QED BY <1>1, <1>2, PTL DEF Spec

-----------------------------------------------------------------------------
(* CountsTrue.  An event moves the same counter of what is known, of what   *)
(* was made and of what is lost by one, and a step of the consumer moves    *)
(* what is known only when it meets a frame of no call.  It meets none as   *)
(* long as no start is lost: every frame in the channel is in a call that   *)
(* will be open when its turn comes.                                        *)

Fields == {"calls", "frames", "drops"}
StartOf(d) == [dir |-> d, kind |-> "start"]
EndOf(d) == [dir |-> d, kind |-> "end"]

\* What an event of direction d does to counter k of direction e.
Moved(d, kind, e, k) ==
  IF e = d /\ kind # "end" /\ Counter[kind] = k THEN 1 ELSE 0

\* Direction d has an accumulator when the consumer gets to the i-th event.
OpenAt(d, i) ==
  \/ acc[d] # None /\ \A m \in 1 .. (i - 1) : events[m] # EndOf(d)
  \/ \E j \in 1 .. (i - 1) :
       events[j] = StartOf(d) /\ \A m \in (j + 1) .. (i - 1) : events[m] # EndOf(d)

\* There a frame of the direction stands, or the next one will.
NeedsCall(d, i) ==
  IF i = Len(events) + 1 THEN inCall[d]
  ELSE events[i].dir = d /\ events[i].kind \in {"frame", "drop"}

FramesOfCalls(d) ==
  \A i \in 1 .. (Len(events) + 1) : NeedsCall(d, i) => OpenAt(d, i)

Balanced(d) ==
  /\ \A k \in Fields : Known(d)[k] <= made[d][k]
  /\ Known(d)["calls"] = made[d]["calls"]
  /\ lost[d]["calls"] = 0 => \A k \in Fields : Known(d)[k] = made[d][k]

CInv ==
  \A d \in Dirs :
    Balanced(d) /\ (lost[d]["calls"] = 0 => FramesOfCalls(d))

LEMMA CountMoves ==
  ASSUME NEW c \in [Dirs -> Counts], NEW d \in Dirs, NEW kind \in Kinds,
         NEW e \in Dirs, NEW k \in Fields
  PROVE  Count(c, d, kind)[e][k] = c[e][k] + Moved(d, kind, e, k)
BY DEF Count, Counts, Kinds, Counter, Moved, Fields

LEMMA KnownSum ==
  ASSUME NEW d, NEW k \in Fields
  PROVE  /\ Known(d)[k] = (total[d][k] + acc[d][k])
                            + (Cardinality(Awaited(d, k)) + lost[d][k])
         /\ Known(d)'[k] = (total'[d][k] + acc'[d][k])
                            + (Cardinality(Awaited(d, k)') + lost'[d][k])
BY DEF Known, Plus, Waiting, None, Fields

LEMMA AwaitedFinite ==
  ASSUME TypeOK, NEW d, NEW k
  PROVE  /\ Awaited(d, k) \subseteq 1 .. Len(events)
         /\ IsFiniteSet(Awaited(d, k)) /\ Cardinality(Awaited(d, k)) \in Nat
<1>1. Len(events) \in Nat /\ DOMAIN events = 1 .. Len(events) BY DEF TypeOK
<1>2. Awaited(d, k) \subseteq 1 .. Len(events) BY <1>1 DEF Awaited
<1>3. IsFiniteSet(1 .. Len(events)) BY <1>1, FS_Interval
<1>4. IsFiniteSet(Awaited(d, k)) BY <1>2, <1>3, FS_Subset
<1> QED BY <1>2, <1>4, FS_CardinalityType

LEMMA AwaitedMore ==
  ASSUME TypeOK, NEW d \in Dirs, NEW kind \in Kinds,
         events' = Append(events, [dir |-> d, kind |-> kind]),
         NEW e \in Dirs, NEW k \in Fields
  PROVE  Cardinality(Awaited(e, k)')
           = Cardinality(Awaited(e, k)) + Moved(d, kind, e, k)
<1> DEFINE n == Len(events)
           x == [dir |-> d, kind |-> kind]
<1>1. /\ n \in Nat /\ DOMAIN events = 1 .. n /\ DOMAIN events' = 1 .. (n + 1)
      /\ events'[n + 1] = x /\ \A i \in 1 .. n : events'[i] = events[i]
  <2> DEFINE Event == [dir : Dirs, kind : Kinds]
  <2>1. events \in Seq(Event) /\ x \in Event BY DEF TypeOK
  <2> HIDE DEF Event, x
  <2> QED BY <2>1, AppendProperties DEF x
<1>2. x.dir = d /\ x.kind = kind OBVIOUS
<1>3. n + 1 \notin Awaited(e, k) /\ IsFiniteSet(Awaited(e, k))
      /\ Cardinality(Awaited(e, k)) \in Nat
  BY <1>1, AwaitedFinite
<1>4. CASE e = d /\ kind # "end" /\ Counter[kind] = k
  <2>1. Awaited(e, k)' = Awaited(e, k) \cup {n + 1}
    <3> HIDE DEF x
    <3> QED BY <1>1, <1>2, <1>4 DEF Awaited
  <2> QED BY <1>3, <1>4, <2>1, FS_AddElement DEF Moved
<1>5. CASE ~(e = d /\ kind # "end" /\ Counter[kind] = k)
  <2>1. Awaited(e, k)' = Awaited(e, k)
    <3> HIDE DEF x
    <3> QED BY <1>1, <1>2, <1>5 DEF Awaited
  <2> QED BY <1>3, <1>5, <2>1 DEF Moved
<1> QED BY <1>4, <1>5

LEMMA Taken ==
  ASSUME TypeOK, events # <<>>, events' = Tail(events)
  PROVE  /\ Head(events) \in [dir : Dirs, kind : Kinds]
         /\ Len(events) \in Nat \ {0} /\ Len(events') = Len(events) - 1
         /\ DOMAIN events = 1 .. Len(events)
         /\ DOMAIN events' = 1 .. (Len(events) - 1)
         /\ events[1] = Head(events)
         /\ \A i \in 1 .. (Len(events) - 1) : events'[i] = events[i + 1]
<1> DEFINE Event == [dir : Dirs, kind : Kinds]
<1>1. events \in Seq(Event) BY DEF TypeOK
<1> HIDE DEF Event
<1>2. Tail(events) \in Seq(Event) BY <1>1, HeadTailProperties
<1>3. /\ Len(events) \in Nat \ {0} /\ DOMAIN events = 1 .. Len(events)
      /\ events[1] = Head(events) /\ Head(events) \in Event
  BY <1>1
<1>4. /\ Len(Tail(events)) = Len(events) - 1
      /\ DOMAIN Tail(events) = 1 .. (Len(events) - 1)
      /\ \A i \in 1 .. (Len(events) - 1) : Tail(events)[i] = events[i + 1]
  BY <1>1, <1>2, HeadTailProperties, LenProperties
<1> QED BY <1>3, <1>4 DEF Event

LEMMA AwaitedLess ==
  ASSUME TypeOK, events # <<>>, events' = Tail(events),
         NEW e \in Dirs, NEW k \in Fields
  PROVE  Cardinality(Awaited(e, k)')
           = Cardinality(Awaited(e, k))
               - Moved(Head(events).dir, Head(events).kind, e, k)
<1> DEFINE n == Len(events)
           A == Awaited(e, k)
           B == Awaited(e, k)'
           f == [i \in B |-> i + 1]
<1>1. /\ n \in Nat \ {0} /\ DOMAIN events = 1 .. n
      /\ DOMAIN events' = 1 .. (n - 1) /\ events[1] = Head(events)
      /\ \A i \in 1 .. (n - 1) : events'[i] = events[i + 1]
  BY Taken
<1>2. IsFiniteSet(A) /\ Cardinality(A) \in Nat BY AwaitedFinite
<1>3. A \subseteq 1 .. n /\ B \subseteq 1 .. (n - 1) BY <1>1 DEF Awaited
<1>4. \A i \in 1 .. (n - 1) : i \in B <=> i + 1 \in A
  <2>1. \A i \in 1 .. (n - 1) : i + 1 \in 1 .. n BY <1>1
  <2> QED BY <1>1, <2>1 DEF Awaited
<1>5. 1 \in A <=> Moved(Head(events).dir, Head(events).kind, e, k) = 1
  <2>1. 1 \in 1 .. n BY <1>1
  <2> QED BY <1>1, <2>1 DEF Awaited, Moved
<1>6. IsFiniteSet(A \ {1})
      /\ Cardinality(A \ {1})
           = Cardinality(A) - Moved(Head(events).dir, Head(events).kind, e, k)
  <2>1. /\ IsFiniteSet(A \ {1})
        /\ Cardinality(A \ {1})
             = IF 1 \in A THEN Cardinality(A) - 1 ELSE Cardinality(A)
    BY <1>2, FS_RemoveElement
  <2>2. Moved(Head(events).dir, Head(events).kind, e, k) \in {0, 1}
    BY DEF Moved
  <2> HIDE DEF A
  <2> QED BY <1>2, <1>5, <2>1, <2>2
<1>7. IsFiniteSet(B) /\ Cardinality(A \ {1}) = Cardinality(B)
  <2>1. IsFiniteSet(B)
    <3>1. IsFiniteSet(1 .. (n - 1)) BY <1>1, FS_Interval
    <3> QED BY <1>3, <3>1, FS_Subset
  <2>2. f \in Bijection(B, A \ {1})
    <3> HIDE DEF A, B
    <3>1. \A i \in B : i \in Int /\ i + 1 \in A \ {1}
      BY <1>1, <1>3, <1>4
    <3>2. f \in [B -> A \ {1}] BY <3>1
    <3>3. \A i \in B, j \in B : f[i] = f[j] => i = j BY <3>1
    <3>4. ASSUME NEW t \in A \ {1} PROVE \E i \in B : f[i] = t
      <4>1. t - 1 \in 1 .. (n - 1) /\ (t - 1) + 1 = t BY <1>1, <1>3
      <4>2. t - 1 \in B BY <1>4, <4>1
      <4> QED BY <4>1, <4>2
    <3> QED BY <3>2, <3>3, <3>4 DEF Bijection, Injection, Surjection, IsInjective
  <2> HIDE DEF A, B, f
  <2>3. ExistsBijection(B, A \ {1}) BY <2>2 DEF ExistsBijection
  <2> QED BY <2>1, <2>3, FS_Bijection
<1> QED BY <1>6, <1>7

LEMMA Regroup ==
  ASSUME NEW t \in Nat, NEW c \in Nat, NEW a \in Nat, NEW l \in Nat,
         NEW m \in Nat
  PROVE  LET sum == (t + c) + (a + l) IN
         /\ (t + c) + ((a + m) + l) = sum + m
         /\ (t + c) + (a + (l + m)) = sum + m
         /\ (t + c) + ((a - m) + l) = sum - m
         /\ (t + (c + m)) + ((a - m) + l) = sum
         /\ ((t + c) + m) + ((a - m) + l) = sum
OBVIOUS

\* A step that moves what is known and what was made alike.
LEMMA BothMove ==
  ASSUME NEW d, Balanced(d),
         \A k \in Fields :
           /\ Known(d)[k] \in Nat /\ made[d][k] \in Nat
           /\ \E m \in {0, 1} : /\ Known(d)'[k] = Known(d)[k] + m
                              /\ made'[d][k] = made[d][k] + m,
         lost'[d]["calls"] = 0 => lost[d]["calls"] = 0
  PROVE  Balanced(d)'
<1>1. \A k \in Fields : /\ Known(d)[k] <= made[d][k] => Known(d)'[k] <= made'[d][k]
                        /\ Known(d)[k] = made[d][k] => Known(d)'[k] = made'[d][k]
  OBVIOUS
<1>2. "calls" \in Fields BY DEF Fields
<1> QED BY <1>1, <1>2 DEF Balanced

LEMMA KnownType ==
  ASSUME TypeOK, NEW d \in Dirs, NEW k \in Fields
  PROVE  /\ Known(d)[k] \in Nat /\ made[d][k] \in Nat /\ lost[d][k] \in Nat
         /\ total[d][k] \in Nat /\ acc[d][k] \in Nat
         /\ Cardinality(Awaited(d, k)) \in Nat
<1>1. /\ made[d][k] \in Nat /\ lost[d][k] \in Nat
      /\ total[d][k] \in Nat /\ acc[d][k] \in Nat
  BY DEF TypeOK, Counts, Fields
<1>2. Cardinality(Awaited(d, k)) \in Nat BY AwaitedFinite
<1> QED BY <1>1, <1>2, KnownSum

\* An event sent, whether it gets into the channel or not.
LEMMA SendBalances ==
  ASSUME TypeOK, NEW d \in Dirs, NEW kind \in Kinds, Send(d, kind),
         NEW e \in Dirs, Balanced(e)
  PROVE  Balanced(e)' /\ (lost'[e]["calls"] = 0 => lost[e]["calls"] = 0)
<1>1. /\ made' = Count(made, d, kind) /\ UNCHANGED <<acc, total>>
      /\ made \in [Dirs -> Counts] /\ lost \in [Dirs -> Counts]
  BY DEF Send, counters, TypeOK
<1>2. \A k \in Fields : Moved(d, kind, e, k) \in {0, 1} BY DEF Moved
<1>3. \A k \in Fields : made'[e][k] = made[e][k] + Moved(d, kind, e, k)
  BY <1>1, CountMoves
<1>4. ASSUME NEW k \in Fields
      PROVE  /\ Known(e)'[k] = Known(e)[k] + Moved(d, kind, e, k)
             /\ lost'[e][k] = 0 => lost[e][k] = 0
  <2> DEFINE a == Cardinality(Awaited(e, k))
             b == Cardinality(Awaited(e, k)')
             m == Moved(d, kind, e, k)
  <2>0. /\ Known(e)[k] = (total[e][k] + acc[e][k]) + (a + lost[e][k])
        /\ Known(e)'[k] = (total[e][k] + acc[e][k]) + (b + lost'[e][k])
        /\ total[e][k] \in Nat /\ acc[e][k] \in Nat /\ lost[e][k] \in Nat
        /\ a \in Nat /\ m \in Nat /\ m \in {0, 1}
    BY <1>1, <1>2, KnownSum, KnownType
  <2>1. CASE Len(events) < Cap
    <3>1. events' = Append(events, [dir |-> d, kind |-> kind]) /\ lost' = lost
      BY <2>1 DEF Send
    <3>2. b = a + m BY <3>1, AwaitedMore
    <3> HIDE DEF a, b, m
    <3>3. lost' = lost BY <3>1
    <3>4. Known(e)'[k] = (total[e][k] + acc[e][k]) + ((a + m) + lost[e][k])
      BY <2>0, <3>2, <3>3
    <3>5. Known(e)'[k] = Known(e)[k] + m BY <2>0, <3>4, Regroup
    <3> QED BY <3>3, <3>5 DEF m
  <2>2. CASE ~(Len(events) < Cap)
    <3>1. lost' = Count(lost, d, kind) /\ events' = events BY <2>2 DEF Send
    <3>2. b = a BY <3>1 DEF Awaited
    <3>3. lost'[e][k] = lost[e][k] + m BY <1>1, <3>1, CountMoves
    <3> HIDE DEF a, b, m
    <3>4. Known(e)'[k] = Known(e)[k] + m BY <2>0, <3>2, <3>3
    <3> QED BY <2>0, <3>3, <3>4 DEF m
  <2> QED BY <2>1, <2>2
<1>5. "calls" \in Fields BY DEF Fields
<1>6. \A k \in Fields : Known(e)[k] \in Nat /\ made[e][k] \in Nat BY KnownType
<1>7. lost'[e]["calls"] = 0 => lost[e]["calls"] = 0 BY <1>4, <1>5
<1>8. \A k \in Fields : \E m \in {0, 1} : /\ Known(e)'[k] = Known(e)[k] + m
                                         /\ made'[e][k] = made[e][k] + m
  BY <1>2, <1>3, <1>4
<1> QED BY <1>6, <1>7, <1>8, BothMove

\* The consumer leaves all that is known as it is, but for the frames it meets
\* without a call.
LEMMA ConsumeCounts ==
  ASSUME TypeOK, Consume, NEW d \in Dirs, NEW k \in Fields
  PROVE  \/ Known(d)'[k] = Known(d)[k]
         \/ /\ acc[d] = None
            /\ Head(events).dir = d /\ Head(events).kind \in {"frame", "drop"}
            /\ Head(events).kind = "drop" => k = "drops"
            /\ Head(events).kind = "frame" => k = "frames"
            /\ Known(d)'[k] = Known(d)[k] - 1
<1> DEFINE e == Head(events)
           m == Moved(e.dir, e.kind, d, k)
<1>1. /\ events # <<>> /\ events' = Tail(events) /\ lost' = lost
      /\ acc \in [Dirs -> Counts] /\ total \in [Dirs -> Counts]
  BY DEF Consume, voiceVars, TypeOK
<1>2. e.dir \in Dirs /\ e.kind \in Kinds BY <1>1, Taken
<1> DEFINE a == Cardinality(Awaited(d, k))
           b == Cardinality(Awaited(d, k)')
<1>3. /\ Known(d)[k] = (total[d][k] + acc[d][k]) + (a + lost[d][k])
      /\ Known(d)'[k] = (total'[d][k] + acc'[d][k]) + (b + lost[d][k])
  BY <1>1, KnownSum
<1>4. b = a - m BY <1>1, AwaitedLess
<1>5. /\ total[d][k] \in Nat /\ acc[d][k] \in Nat /\ lost[d][k] \in Nat
      /\ a \in Nat /\ m \in Nat /\ m \in {0, 1}
  BY KnownType DEF Moved
<1>6. Fold(e.dir) =>
        /\ d = e.dir => total'[d][k] = total[d][k] + acc[d][k]
        /\ d # e.dir => total'[d][k] = total[d][k]
  BY <1>1, <1>2, <1>5 DEF Fold, Plus, None, Fields
<1>7. /\ e.kind = "start" /\ d = e.dir => NewAccumulator[k] = m
      /\ e.kind = "end" \/ d # e.dir => m = 0
      /\ None[k] = 0
  BY DEF NewAccumulator, None, Moved, Counter, Fields
<1>8. m = 1 /\ e.kind \notin {"start", "end"} =>
        /\ e.dir = d /\ e.kind \in {"frame", "drop"}
        /\ e.kind = "drop" => k = "drops"
        /\ e.kind = "frame" => k = "frames"
  BY <1>2 DEF Moved, Kinds, Counter
<1> HIDE DEF a, b, m, e
<1>9. CASE e.kind = "start"
  <2>1. OnStart(e.dir) BY <1>9 DEF Consume, e
  <2>2. /\ d = e.dir => acc'[d] = NewAccumulator
        /\ d # e.dir => acc'[d] = acc[d]
    BY <1>1, <1>2, <2>1 DEF OnStart
  <2>3. Known(d)'[k] = Known(d)[k]
    BY <1>3, <1>4, <1>5, <1>6, <1>7, <1>9, <2>1, <2>2 DEF OnStart
  <2> QED BY <2>3
<1>10. CASE e.kind = "end"
  <2>1. OnEnd(e.dir) BY <1>10 DEF Consume, e
  <2>2. /\ d = e.dir => acc'[d] = None
        /\ d # e.dir => acc'[d] = acc[d]
    BY <1>1, <1>2, <2>1 DEF OnEnd
  <2>3. Known(d)'[k] = Known(d)[k]
    BY <1>3, <1>4, <1>5, <1>6, <1>7, <1>10, <2>1, <2>2 DEF OnEnd
  <2> QED BY <2>3
<1>11. CASE e.kind \notin {"start", "end"}
  <2>1. OnCount(e.dir, e.kind) /\ total' = total
    BY <1>11 DEF Consume, OnCount, e
  <2>2. CASE acc[e.dir] = None
    <3>1. acc' = acc BY <2>1, <2>2 DEF OnCount
    <3>2. Known(d)'[k] = Known(d)[k] - m
      <4>1. Known(d)'[k] = (total[d][k] + acc[d][k]) + ((a - m) + lost[d][k])
        BY <1>3, <1>4, <2>1, <3>1
      <4> QED BY <1>3, <1>5, <4>1
    <3>3. CASE m = 0
      <4>1. Known(d)'[k] = Known(d)[k] BY <1>3, <1>5, <3>2, <3>3
      <4> QED BY <4>1
    <3>4. CASE m = 1 BY <1>8, <1>11, <2>2, <3>2, <3>4 DEF e
    <3> QED BY <1>5, <3>3, <3>4
  <2>3. CASE acc[e.dir] # None
    <3>1. acc' = Count(acc, e.dir, e.kind) BY <2>1, <2>3 DEF OnCount
    <3>2. acc'[d][k] = acc[d][k] + m BY <1>1, <1>2, <3>1, CountMoves DEF m
    <3>3. Known(d)'[k] = (total[d][k] + (acc[d][k] + m)) + ((a - m) + lost[d][k])
      BY <1>3, <1>4, <2>1, <3>2
    <3>4. Known(d)'[k] = Known(d)[k] BY <1>3, <1>5, <3>3, Regroup
    <3> QED BY <3>4
  <2> QED BY <2>2, <2>3
<1> QED BY <1>9, <1>10, <1>11

\* What the events to come will find open, as one more is sent.
LEMMA OpenGrows ==
  ASSUME TypeOK, NEW d \in Dirs, NEW kind \in Kinds, acc' = acc,
         events' = Append(events, [dir |-> d, kind |-> kind]), NEW e \in Dirs
  PROVE  /\ Len(events) \in Nat /\ Len(events') = Len(events) + 1
         /\ events'[Len(events) + 1] = [dir |-> d, kind |-> kind]
         /\ \A i \in 1 .. Len(events) : events'[i] = events[i]
         /\ \A i \in 1 .. (Len(events) + 1) : OpenAt(e, i) => OpenAt(e, i)'
         /\ \A j : \A i \in 1 .. (Len(events) + 1) :
              j = Len(events) + 2 /\ i = Len(events) + 1 =>
                /\ OpenAt(e, i) /\ (d # e \/ kind # "end") => OpenAt(e, j)'
                /\ d = e /\ kind = "start" => OpenAt(e, j)'
<1> DEFINE n == Len(events)
           x == [dir |-> d, kind |-> kind]
<1>1. /\ n \in Nat /\ Len(events') = n + 1
      /\ events'[n + 1] = x /\ \A i \in 1 .. n : events'[i] = events[i]
  <2> DEFINE Event == [dir : Dirs, kind : Kinds]
  <2>1. events \in Seq(Event) /\ x \in Event BY DEF TypeOK
  <2> HIDE DEF Event, x
  <2> QED BY <2>1, AppendProperties DEF x
<1>2. /\ d # e \/ kind # "end" => x # EndOf(e)
      /\ d = e /\ kind = "start" => x = StartOf(e)
  <2>1. x.dir = d /\ x.kind = kind /\ EndOf(e).dir = e /\ EndOf(e).kind = "end"
    BY DEF EndOf
  <2> HIDE DEF x
  <2>2. d # e \/ kind # "end" => x # EndOf(e) BY <2>1
  <2> QED BY <2>2 DEF x, StartOf
<1> HIDE DEF n, x
<1>3. ASSUME NEW i \in 1 .. (n + 1), OpenAt(e, i) PROVE OpenAt(e, i)'
  <2>1. \A m \in 1 .. (i - 1) : m \in 1 .. n /\ events'[m] = events[m] BY <1>1
  <2>2. \A j \in 1 .. (i - 1) : \A m \in (j + 1) .. (i - 1) : m \in 1 .. (i - 1)
    BY <1>1
  <2>3. CASE acc[e] # None /\ \A m \in 1 .. (i - 1) : events[m] # EndOf(e)
    BY <2>1, <2>3 DEF OpenAt, EndOf
  <2>4. CASE \E j \in 1 .. (i - 1) :
               /\ events[j] = StartOf(e)
               /\ \A m \in (j + 1) .. (i - 1) : events[m] # EndOf(e)
    <3>1. PICK j \in 1 .. (i - 1) :
            /\ events[j] = StartOf(e)
            /\ \A m \in (j + 1) .. (i - 1) : events[m] # EndOf(e)
      BY <2>4
    <3>2. /\ events'[j] = StartOf(e)
          /\ \A m \in (j + 1) .. (i - 1) : events'[m] # EndOf(e)
      BY <2>1, <2>2, <3>1
    <3> QED BY <3>1, <3>2 DEF OpenAt, EndOf, StartOf
  <2> QED BY <1>3, <2>3, <2>4 DEF OpenAt
<1>4. ASSUME OpenAt(e, n + 1), x # EndOf(e), NEW j, j = n + 2
      PROVE  OpenAt(e, j)'
  <2>1. \A m \in 1 .. (j - 1) :
          m = n + 1 \/ (m \in 1 .. ((n + 1) - 1) /\ events'[m] = events[m])
    BY <1>1, <1>4
  <2>2. CASE acc[e] # None /\ \A m \in 1 .. ((n + 1) - 1) : events[m] # EndOf(e)
    <3>1. \A m \in 1 .. (j - 1) : events'[m] # EndOf(e)
      BY <1>1, <1>4, <2>1, <2>2
    <3> QED BY <2>2, <3>1 DEF OpenAt, EndOf
  <2>3. CASE \E i \in 1 .. ((n + 1) - 1) :
               /\ events[i] = StartOf(e)
               /\ \A m \in (i + 1) .. ((n + 1) - 1) : events[m] # EndOf(e)
    <3>1. PICK i \in 1 .. ((n + 1) - 1) :
            /\ events[i] = StartOf(e)
            /\ \A m \in (i + 1) .. ((n + 1) - 1) : events[m] # EndOf(e)
      BY <2>3
    <3>2. i \in 1 .. (j - 1) /\ i \in 1 .. n BY <1>1, <1>4
    <3>3. events'[i] = StartOf(e) BY <1>1, <3>1, <3>2
    <3>4. ASSUME NEW m \in (i + 1) .. (j - 1) PROVE events'[m] # EndOf(e)
      <4>1. m \in 1 .. (j - 1) /\ (m # n + 1 => m \in (i + 1) .. ((n + 1) - 1))
        BY <1>1, <1>4
      <4> QED BY <1>1, <1>4, <2>1, <3>1, <4>1
    <3> QED BY <3>2, <3>3, <3>4 DEF OpenAt, EndOf, StartOf
  <2> QED BY <1>4, <2>2, <2>3 DEF OpenAt
<1>5. ASSUME x = StartOf(e), NEW j, j = n + 2 PROVE OpenAt(e, j)'
  <2>1. n + 1 \in 1 .. (j - 1) /\ events'[n + 1] = StartOf(e) BY <1>1, <1>5
  <2>2. \A m : m \notin ((n + 1) + 1) .. (j - 1) BY <1>1, <1>5
  <2> QED BY <2>1, <2>2 DEF OpenAt, StartOf
<1> QED BY <1>1, <1>2, <1>3, <1>4, <1>5 DEF n, x

\* A start that gets into the channel opens a call, an end closes one, and a
\* frame is sent only in one.
LEMMA SendOpens ==
  ASSUME TypeOK, NEW d \in Dirs, NEW kind \in Kinds, Send(d, kind),
         NEW e \in Dirs, FramesOfCalls(e), lost'[e]["calls"] = 0,
         d # e => inCall'[e] = inCall[e],
         d = e /\ kind # "start" => inCall[e],
         d = e => (inCall'[e] <=> kind # "end")
  PROVE  FramesOfCalls(e)'
<1> DEFINE n == Len(events)
<1>1. acc' = acc /\ n \in Nat BY DEF Send, counters, TypeOK
<1>2. CASE n < Cap
  <2>1. events' = Append(events, [dir |-> d, kind |-> kind]) BY <1>2 DEF Send
  <2>2. /\ Len(events') = n + 1 /\ events'[n + 1] = [dir |-> d, kind |-> kind]
        /\ \A i \in 1 .. n : events'[i] = events[i]
        /\ \A i \in 1 .. (n + 1) : OpenAt(e, i) => OpenAt(e, i)'
        /\ \A j : \A i \in 1 .. (n + 1) :
             j = n + 2 /\ i = n + 1 =>
               /\ OpenAt(e, i) /\ (d # e \/ kind # "end") => OpenAt(e, j)'
               /\ d = e /\ kind = "start" => OpenAt(e, j)'
    BY <1>1, <2>1, OpenGrows
  <2> HIDE DEF n
  <2>3. ASSUME NEW i \in 1 .. (n + 2), NeedsCall(e, i)' PROVE OpenAt(e, i)'
    <3>1. CASE i \in 1 .. n
      <4>1. i # n + 2 /\ i # n + 1 /\ i \in 1 .. (n + 1) BY <1>1, <3>1
      <4>2. NeedsCall(e, i)
        BY <1>1, <2>2, <2>3, <3>1, <4>1 DEF NeedsCall, n
      <4> QED BY <2>2, <4>1, <4>2 DEF FramesOfCalls, n
    <3>2. CASE i = n + 1
      <4>1. i # n + 2 /\ i \in 1 .. (n + 1) BY <1>1, <3>2
      <4>2. d = e /\ kind \in {"frame", "drop"}
        BY <1>1, <2>2, <2>3, <3>2, <4>1 DEF NeedsCall, n
      <4>3. NeedsCall(e, i) BY <3>2, <4>2 DEF NeedsCall, n
      <4> QED BY <2>2, <4>1, <4>3 DEF FramesOfCalls, n
    <3>3. CASE i = n + 2
      <4>1. inCall'[e] BY <1>1, <2>2, <2>3, <3>3 DEF NeedsCall, n
      <4>2. CASE d = e /\ kind = "start"
        <5>1. n + 1 \in 1 .. (n + 1) BY <1>1
        <5> QED BY <2>2, <3>3, <4>2, <5>1
      <4>3. CASE ~(d = e /\ kind = "start")
        <5>1. inCall[e] /\ (d # e \/ kind # "end") BY <4>1, <4>3
        <5> DEFINE l == n + 1
        <5>2. l \in 1 .. (n + 1) BY <1>1
        <5>3. OpenAt(e, l) BY <5>1, <5>2 DEF FramesOfCalls, NeedsCall, n
        <5> QED BY <2>2, <3>3, <5>1, <5>2, <5>3
      <4> QED BY <4>2, <4>3
    <3>4. i \in 1 .. n \/ i = n + 1 \/ i = n + 2 BY <1>1
    <3> QED BY <3>1, <3>2, <3>3, <3>4
  <2>4. Len(events') + 1 = n + 2 BY <1>1, <2>2
  <2> QED BY <2>3, <2>4 DEF FramesOfCalls
<1>3. CASE ~(n < Cap)
  <2>1. lost' = Count(lost, d, kind) /\ events' = events BY <1>3 DEF Send
  <2>2. ~(d = e /\ kind = "start")
    <3>1. lost \in [Dirs -> Counts] /\ "calls" \in Fields BY DEF TypeOK, Fields
    <3>2. lost'[e]["calls"] = lost[e]["calls"] + Moved(d, kind, e, "calls")
      BY <2>1, <3>1, CountMoves
    <3>3. lost[e]["calls"] \in Nat BY <3>1 DEF Counts
    <3> QED BY <3>2, <3>3 DEF Moved, Counter
  <2>3. inCall'[e] => inCall[e] BY <2>2
  <2>4. ASSUME NEW i PROVE OpenAt(e, i) => OpenAt(e, i)'
    BY <1>1, <2>1 DEF OpenAt
  <2>5. ASSUME NEW i PROVE NeedsCall(e, i)' => NeedsCall(e, i)
    BY <2>1, <2>3 DEF NeedsCall
  <2> QED BY <2>1, <2>4, <2>5 DEF FramesOfCalls
<1> QED BY <1>2, <1>3

\* An accumulator is there until the end of its call is consumed, and after a
\* start.
LEMMA AccKept ==
  ASSUME TypeOK, Consume, NEW d \in Dirs,
         \/ acc[d] # None /\ Head(events) # EndOf(d)
         \/ Head(events) = StartOf(d)
  PROVE  acc'[d] # None
<1> DEFINE e == Head(events)
<1>1. e \in [dir : Dirs, kind : Kinds] BY Taken DEF Consume
<1>2. acc \in [Dirs -> Counts] /\ (acc[d] # None => acc[d].calls = 1)
  BY DEF TypeOK
<1>3. None.calls = 0 /\ NewAccumulator.calls = 1 BY DEF None, NewAccumulator
<1>4. e = [dir |-> e.dir, kind |-> e.kind] BY <1>1
<1>5. e.dir = d /\ e.kind = "end" => e = EndOf(d) BY <1>4 DEF EndOf
<1>6. e = StartOf(d) => e.dir = d /\ e.kind = "start" BY DEF StartOf
<1>7. (acc[d] # None /\ e # EndOf(d)) \/ e = StartOf(d) OBVIOUS
<1>8. e.dir \in Dirs /\ e.kind \in Kinds BY <1>1
<1> HIDE DEF e
<1>9. CASE e.kind = "start"
  <2>1. acc' = [acc EXCEPT ![e.dir] = NewAccumulator]
    BY <1>9 DEF Consume, OnStart, e
  <2>2. CASE e.dir = d BY <1>2, <1>3, <2>1, <2>2
  <2>3. CASE e.dir # d BY <1>2, <1>6, <1>7, <2>1, <2>3
  <2> QED BY <2>2, <2>3
<1>10. CASE e.kind = "end"
  <2>1. acc' = [acc EXCEPT ![e.dir] = None] BY <1>10 DEF Consume, OnEnd, e
  <2>2. acc[d] # None /\ e.dir # d BY <1>5, <1>6, <1>7, <1>10
  <2> QED BY <1>2, <2>1, <2>2
<1>11. CASE e.kind \notin {"start", "end"}
  <2>1. OnCount(e.dir, e.kind) BY <1>11 DEF Consume, e
  <2>2. acc[d] # None BY <1>6, <1>7, <1>11
  <2>3. CASE acc' = acc BY <2>2, <2>3
  <2>4. CASE acc' = Count(acc, e.dir, e.kind)
    <3>1. acc'[d].calls = acc[d].calls
      BY <1>2, <1>8, <1>11, <2>4, CountInCall
    <3> QED BY <1>2, <1>3, <2>2, <3>1
  <2> QED BY <2>1, <2>3, <2>4 DEF OnCount
<1> QED BY <1>9, <1>10, <1>11

LEMMA ConsumeOpens ==
  ASSUME TypeOK, Consume, NEW d \in Dirs, FramesOfCalls(d)
  PROVE  /\ FramesOfCalls(d)'
         /\ Head(events).dir = d /\ Head(events).kind \in {"frame", "drop"}
              => acc[d] # None
<1> DEFINE n == Len(events)
<1>1. /\ n \in Nat \ {0} /\ Len(events') = n - 1 /\ events[1] = Head(events)
      /\ \A i \in 1 .. (n - 1) : events'[i] = events[i + 1]
      /\ inCall' = inCall
  BY Taken DEF Consume, voiceVars
<1>2. Head(events).dir = d /\ Head(events).kind \in {"frame", "drop"}
        => acc[d] # None
  <2>1. 1 \in 1 .. (n + 1) /\ 1 # n + 1 BY <1>1
  <2> DEFINE one == 1
  <2>2. NeedsCall(d, one) => OpenAt(d, one) BY <2>1 DEF FramesOfCalls
  <2>3. \A j : j \notin 1 .. (one - 1) OBVIOUS
  <2>4. OpenAt(d, one) => acc[d] # None BY <2>3 DEF OpenAt
  <2> QED BY <1>1, <2>1, <2>2, <2>4 DEF NeedsCall
<1>3. /\ acc[d] # None /\ events[1] # EndOf(d) => acc'[d] # None
      /\ events[1] = StartOf(d) => acc'[d] # None
  BY <1>1, AccKept
<1> HIDE DEF n
<1>4. ASSUME NEW i \in 1 .. n, NEW k \in 2 .. (n + 1), k = i + 1, OpenAt(d, k)
      PROVE  OpenAt(d, i)'
  <2>1. \A m \in 1 .. (i - 1) : /\ m + 1 \in 2 .. (k - 1) /\ m \in 1 .. (n - 1)
                               /\ events'[m] = events[m + 1]
    BY <1>1, <1>4
  <2>2. 1 \in 1 .. (k - 1) BY <1>4
  <2>3. CASE acc[d] # None /\ \A m \in 1 .. (k - 1) : events[m] # EndOf(d)
    <3>1. acc'[d] # None BY <1>3, <2>2, <2>3
    <3>2. \A m \in 1 .. (i - 1) : m + 1 \in 1 .. (k - 1) BY <1>4
    <3>3. \A m \in 1 .. (i - 1) : events'[m] # EndOf(d) BY <2>1, <2>3, <3>2
    <3> QED BY <3>1, <3>3 DEF OpenAt, EndOf, None
  <2>4. CASE \E j \in 1 .. (k - 1) :
               /\ events[j] = StartOf(d)
               /\ \A m \in (j + 1) .. (k - 1) : events[m] # EndOf(d)
    <3>1. PICK j \in 1 .. (k - 1) :
            /\ events[j] = StartOf(d)
            /\ \A m \in (j + 1) .. (k - 1) : events[m] # EndOf(d)
      BY <2>4
    <3>2. CASE j = 1
      <4>1. acc'[d] # None BY <1>3, <3>1, <3>2
      <4>2. \A m \in 1 .. (i - 1) : m + 1 \in (j + 1) .. (k - 1) BY <1>4, <3>2
      <4>3. \A m \in 1 .. (i - 1) : events'[m] # EndOf(d) BY <2>1, <3>1, <4>2
      <4> QED BY <4>1, <4>3 DEF OpenAt, EndOf, None
    <3>3. CASE j # 1
      <4>1. j - 1 \in 1 .. (i - 1) /\ (j - 1) + 1 = j BY <1>4, <3>3
      <4>2. events'[j - 1] = StartOf(d) BY <2>1, <3>1, <4>1
      <4>3. \A m \in ((j - 1) + 1) .. (i - 1) :
              m \in 1 .. (i - 1) /\ m + 1 \in (j + 1) .. (k - 1)
        BY <1>4, <3>3
      <4>4. \A m \in ((j - 1) + 1) .. (i - 1) : events'[m] # EndOf(d)
        BY <2>1, <3>1, <4>3
      <4> QED BY <4>1, <4>2, <4>4 DEF OpenAt, EndOf, StartOf
    <3> QED BY <3>2, <3>3
  <2> QED BY <1>4, <2>3, <2>4 DEF OpenAt
<1>5. ASSUME NEW i \in 1 .. n, NEW k \in 2 .. (n + 1), k = i + 1,
             NeedsCall(d, i)'
      PROVE  NeedsCall(d, k)
  <2>1. (i = Len(events') + 1 <=> k = n + 1) /\ (k # n + 1 => i \in 1 .. (n - 1))
    BY <1>1, <1>5
  <2> QED BY <1>1, <1>5, <2>1 DEF NeedsCall, n
<1>6. ASSUME NEW i \in 1 .. n, NeedsCall(d, i)' PROVE OpenAt(d, i)'
  <2>1. PICK k \in 2 .. (n + 1) : k = i + 1 BY <1>1
  <2>2. k \in 1 .. (n + 1) BY <1>1
  <2>3. NeedsCall(d, k) BY <1>5, <1>6, <2>1
  <2>4. OpenAt(d, k) BY <2>2, <2>3 DEF FramesOfCalls, n
  <2> QED BY <1>4, <2>1, <2>4
<1>7. Len(events') + 1 = n BY <1>1
<1> QED BY <1>2, <1>6, <1>7 DEF FramesOfCalls

LEMMA CStep ==
  ASSUME TypeOK, CInv, [Next]_vars
  PROVE  CInv'
<1> USE DEF CInv
<1>1. ASSUME NEW d \in Dirs, NEW kind \in Kinds, Send(d, kind),
             NEW e \in Dirs,
             d # e => inCall'[e] = inCall[e],
             d = e /\ kind # "start" => inCall[e],
             d = e => (inCall'[e] <=> kind # "end")
      PROVE  Balanced(e)' /\ (lost'[e]["calls"] = 0 => FramesOfCalls(e)')
  BY <1>1, SendBalances, SendOpens
<1>2. {"start", "frame", "drop", "end"} \subseteq Kinds BY DEF Kinds, Counter
<1>3. inCall \in [Dirs -> BOOLEAN] BY DEF TypeOK
<1>4. ASSUME NEW d \in Dirs,
             CallStart(d) \/ VoiceFrame(d) \/ FrameDropped(d) \/ CallEnd(d),
             NEW e \in Dirs
      PROVE  Balanced(e)' /\ (lost'[e]["calls"] = 0 => FramesOfCalls(e)')
  <2>1. CASE CallStart(d) BY <1>1, <1>2, <1>3, <2>1 DEF CallStart
  <2>2. CASE VoiceFrame(d) BY <1>1, <1>2, <1>3, <2>2 DEF VoiceFrame
  <2>3. CASE FrameDropped(d) BY <1>1, <1>2, <1>3, <2>3 DEF FrameDropped
  <2>4. CASE CallEnd(d) BY <1>1, <1>2, <1>3, <2>4 DEF CallEnd
  <2> QED BY <1>4, <2>1, <2>2, <2>3, <2>4
<1>5. ASSUME Consume, NEW e \in Dirs
      PROVE  Balanced(e)' /\ (lost'[e]["calls"] = 0 => FramesOfCalls(e)')
  <2>1. made' = made /\ lost' = lost BY <1>5 DEF Consume, voiceVars
  <2>2. ASSUME NEW k \in Fields
        PROVE  /\ Known(e)'[k] = Known(e)[k] \/ Known(e)'[k] = Known(e)[k] - 1
               /\ k = "calls" => Known(e)'[k] = Known(e)[k]
               /\ lost[e]["calls"] = 0 => Known(e)'[k] = Known(e)[k]
    BY <1>5, ConsumeCounts, ConsumeOpens
  <2>3. \A k \in Fields : Known(e)[k] \in Nat /\ made[e][k] \in Nat BY KnownType
  <2>4. ASSUME NEW k \in Fields PROVE Known(e)'[k] <= made'[e][k]
    <3>1. Known(e)[k] <= made[e][k] BY DEF Balanced
    <3>2. \A a, b \in Nat : a <= b => a - 1 <= b OBVIOUS
    <3> QED BY <2>1, <2>2, <2>3, <3>1, <3>2
  <2>5. "calls" \in Fields BY DEF Fields
  <2>6. Balanced(e)' BY <2>1, <2>2, <2>4, <2>5 DEF Balanced
  <2> QED BY <1>5, <2>1, <2>6, ConsumeOpens
<1>6. ASSUME UNCHANGED <<inCall, events, acc, total, made, lost>>, NEW e \in Dirs
      PROVE  Balanced(e)' /\ (lost'[e]["calls"] = 0 => FramesOfCalls(e)')
  <2>1. Balanced(e)'
    <3>1. \A k \in Fields : Awaited(e, k)' = Awaited(e, k) BY <1>6 DEF Awaited
    <3>2. \A k \in Fields : Known(e)'[k] = Known(e)[k] BY <1>6, <3>1, KnownSum
    <3>3. "calls" \in Fields BY DEF Fields
    <3> QED BY <1>6, <3>2, <3>3 DEF Balanced
  <2>2. FramesOfCalls(e) => FramesOfCalls(e)'
    BY <1>6 DEF FramesOfCalls, NeedsCall, OpenAt, StartOf, EndOf
  <2> QED BY <1>6, <2>1, <2>2
<1>7. CASE Leave BY <1>6, <1>7 DEF Leave, counters
<1>8. CASE ConsumerEnds \/ Heartbeat \/ Summary
  BY <1>6, <1>8 DEF ConsumerEnds, Heartbeat, Summary, counters, voiceVars
<1>9. CASE Terminated \/ UNCHANGED vars
  BY <1>6, <1>9 DEF Terminated, vars, counters, voiceVars
<1> QED BY <1>4, <1>5, <1>7, <1>8, <1>9 DEF Next

\* Whichever events a full channel swallows, the totals are what was made of the
\* calls less what went with a lost event: nothing is counted twice, a call is
\* lost only with its start, and while none is, nothing else is lost.
THEOREM CountsKept == Spec => []CountsTrue
<1>1. Init => CInv
  <2> SUFFICES ASSUME Init, NEW d \in Dirs
               PROVE  Balanced(d) /\ FramesOfCalls(d)
    BY DEF CInv
  <2>1. \A k \in Fields : Known(d)[k] = 0 /\ made[d][k] = 0
    <3>1. \A k \in Fields : Cardinality(Awaited(d, k)) = 0
      <4>1. DOMAIN events = {} BY DEF Init
      <4>2. \A k \in Fields : Awaited(d, k) = {} BY <4>1 DEF Awaited
      <4> QED BY <4>2, FS_EmptySet
    <3>2. \A k \in Fields : None[k] = 0 BY DEF None, Fields
    <3> QED BY <3>1, <3>2, KnownSum DEF Init
  <2>2. "calls" \in Fields BY DEF Fields
  <2>3. Balanced(d) BY <2>1, <2>2 DEF Balanced
  <2>4. Len(events) = 0 /\ ~inCall[d] BY DEF Init
  <2>5. \A i \in 1 .. (Len(events) + 1) : i = Len(events) + 1 BY <2>4
  <2>6. FramesOfCalls(d) BY <2>4, <2>5 DEF FramesOfCalls, NeedsCall
  <2> QED BY <2>3, <2>6
<1>2. TypeOK /\ CInv /\ [Next]_vars => CInv' BY CStep
<1>3. TypeOK /\ CInv => CountsTrue
  <2> SUFFICES ASSUME TypeOK, CInv, NEW d \in Dirs
               PROVE  /\ Known(d).calls = made[d].calls
                      /\ lost[d].calls = 0 => Known(d) = made[d]
                      /\ \A k \in DOMAIN None : Known(d)[k] <= made[d][k]
    BY DEF CountsTrue, LostOnlyOnFullChannel, NeverOvercounted
  <2>1. DOMAIN None = Fields BY DEF None, Fields
  <2>2. Balanced(d) BY DEF CInv
  <2>3. Known(d) = [k \in Fields |-> Known(d)[k]] BY <2>1 DEF Known, Plus
  <2>4. made[d] = [k \in Fields |-> made[d][k]] BY DEF TypeOK, Counts, Fields
  <2>5. lost[d]["calls"] = 0 => Known(d) = made[d]
    BY <2>2, <2>3, <2>4 DEF Balanced
  <2> QED BY <2>1, <2>2, <2>5 DEF Balanced
<1> QED BY <1>1, <1>2, <1>3, TypeCorrect, PTL DEF Spec
=============================================================================
