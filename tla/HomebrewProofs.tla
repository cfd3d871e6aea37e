--------------------------- MODULE HomebrewProofs ---------------------------
(***************************************************************************)
(* Theorems about the session client for every value of its constants: it  *)
(* is well typed, it announces every session to voice_task, a dead session *)
(* is given up neither too late nor too early, and a handshake ends with a *)
(* master that accepted it.  NotLater and NotSooner tie the tracker to the *)
(* time since the last pong, Lockstep the client's step to the master's.   *)
(***************************************************************************)
EXTENDS Homebrew, SequenceTheorems, TLAPS

\* Saturation stays within the naturals and never adds anything.
LEMMA CappedType ==
  \A n \in Nat, b \in Nat : Capped(n, b) \in Nat /\ Capped(n, b) <= n
BY DEF Capped

LEMMA QueueType ==
  ASSUME TypeOK
  PROVE  /\ \A tag \in Tags : Send(tag) => toMaster' \in Seq(Tags)
         /\ inbox # <<>> => Tail(inbox) \in Seq(Packets)
         /\ <<>> \in Seq(Packets)
<1> HIDE DEF Tags, Packets
<1> QED BY DEF TypeOK, Send

LEMMA FailType ==
  ASSUME TypeOK, NEW authed \in BOOLEAN, Fail(authed)
  PROVE  /\ pc' = "backoff" /\ wait' \in Nat /\ backoff' \in Nat
         /\ inbox' = <<>> /\ ticker' \in 0 .. Keepalive
         /\ waiting' \in BOOLEAN /\ missed' \in 0 .. MissedLimit - 1
         /\ silence' \in Nat
<1>1. backoff' \in Nat /\ wait' \in Nat /\ pc' = "backoff" /\ inbox' = <<>>
  BY ConfigAssumption DEF Fail, TypeOK
<1>4. ticker' = 0 /\ waiting' = FALSE /\ missed' = 0 /\ silence' = 0
  BY DEF Fail, NoTracker
<1>5. 0 \in 0 .. Keepalive /\ 0 \in 0 .. MissedLimit - 1 BY ConfigAssumption
<1> QED BY <1>1, <1>4, <1>5, Zenon

LEMMA LeaveType ==
  ASSUME Leave
  PROVE  /\ pc' = "done" /\ inbox' = <<>> /\ ticker' \in 0 .. Keepalive
         /\ waiting' \in BOOLEAN /\ missed' \in 0 .. MissedLimit - 1
         /\ silence' \in Nat
<1>1. 0 \in 0 .. Keepalive /\ 0 \in 0 .. MissedLimit - 1 /\ 0 \in Nat
  BY ConfigAssumption
<1> QED BY <1>1, Zenon DEF Leave, NoTracker

\* Every handler of the client keeps the state well typed: in particular the
\* misses stay below the limit and the channels within their capacity.
LEMMA ClientTypeOK == TypeOK /\ Client => TypeOK'
<1> SUFFICES ASSUME TypeOK, Client PROVE TypeOK' OBVIOUS
<1>0. /\ {"RPTL", "RPTK", "RPTC", "RPTPING", "RPTCL"} \subseteq Tags
      /\ TRUE \in BOOLEAN /\ FALSE \in BOOLEAN
  BY DEF Tags
<1> USE ConfigAssumption, BoundAssumption, QueueType, <1>0
<1> USE DEF TypeOK, authVars, aliveVars, clientVars, netVars, voiceVars
<1>1. CASE Setup BY <1>1 DEF Setup
<1>2. CASE SetupFails
  <2>1. Fail(FALSE) BY <1>2 DEF SetupFails
  <2>2. faults' \in 0 .. MaxFaults BY <1>2 DEF SetupFails
  <2> HIDE BoundAssumption, ConfigAssumption
  <2> QED BY <1>2, <2>1, <2>2, FailType DEF SetupFails
<1>3. CASE Acked
  <2>1. pc' \in {"key", "config", "notify"}
    BY <1>3 DEF Acked, InHandshake, After
  <2>2. wait' \in Nat BY <1>3, <2>1 DEF Acked
  <2>3. toMaster' \in Seq(Tags)
    <3>1. CASE pc' = "notify" BY <1>3, <3>1 DEF Acked
    <3>2. CASE pc' # "notify"
      <4>1. Request[pc'] \in Tags BY <2>1, <3>2 DEF Request
      <4>2. Send(Request[pc']) BY <1>3, <3>2 DEF Acked
      <4> QED BY <4>1, <4>2
    <3> QED BY <3>1, <3>2
  <2>4. inbox' \in Seq(Packets) BY <1>3 DEF Acked, Take
  <2> QED BY <1>3, <2>1, <2>2, <2>3, <2>4 DEF Acked
<1>4. CASE Skipped BY <1>4 DEF Skipped, Take
<1>5. CASE Refused
  <2>1. Fail(FALSE) BY <1>5 DEF Refused
  <2> QED BY <1>5, <2>1, FailType DEF Refused
<1>17. CASE RequestFails
  <2>1. Fail(FALSE) BY <1>17 DEF RequestFails
  <2> QED BY <1>17, <2>1, FailType DEF RequestFails
<1>6. CASE AuthTimeout
  <2>1. Fail(FALSE) BY <1>6 DEF AuthTimeout
  <2> QED BY <1>6, <2>1, FailType DEF AuthTimeout
<1>7. CASE Retry
  <2>1. 2 * backoff \in Nat OBVIOUS
  <2>2. Capped(2 * backoff, BackoffMax) \in Nat BY <2>1, CappedType
  <2> QED BY <1>7, <2>2 DEF Retry
<1>8. CASE Notify
  <2>1. resets' \in 0 .. ControlCap
    BY <1>8 DEF Notify, Announce
  <2>2. pc' \in {"alive", "done"} /\ inbox' \in Seq(Packets)
    BY <1>8 DEF Notify, Announce
  <2>3. ticker' \in 0 .. Keepalive /\ missed' \in 0 .. MissedLimit - 1
        /\ silence' \in Nat
    BY <1>8 DEF Notify
  <2>4. waiting' \in BOOLEAN BY <1>8, Zenon DEF Notify
  <2> QED BY <1>8, <2>1, <2>2, <2>3, <2>4 DEF Notify
<1>9. CASE KeepaliveLost
  <2>1. Fail(TRUE) /\ toMaster' \in Seq(Tags)
    BY <1>9 DEF KeepaliveLost, EndSession
  <2> QED BY <1>9, <2>1, FailType DEF KeepaliveLost
<1>10. CASE Ping BY <1>10 DEF Ping, LimitReached
<1>18. CASE PingFails
  <2>1. Fail(TRUE) /\ toMaster' \in Seq(Tags)
    BY <1>18 DEF PingFails, EndSession
  <2> QED BY <1>18, <2>1, FailType DEF PingFails
<1>11. CASE OnPong
  <2>1. missed' \in 0 .. MissedLimit - 1 /\ silence' \in Nat
    BY <1>11 DEF OnPong, RecordPong
  <2>2. waiting' \in BOOLEAN BY <1>11, Zenon DEF OnPong, RecordPong
  <2> QED BY <1>11, <2>1, <2>2 DEF OnPong, Take
<1>12. CASE OnMasterGone
  <2>1. Fail(TRUE) /\ toMaster' \in Seq(Tags)
    BY <1>12 DEF OnMasterGone, EndSession
  <2> QED BY <1>12, <2>1, FailType DEF OnMasterGone
<1>13. CASE OnAck BY <1>13 DEF OnAck, Take
<1>14. CASE OnDmrd BY <1>14 DEF OnDmrd, Receive, Take
<1>15. CASE Forward
  <2>1. CASE voiceGone
    <3>1. Leave /\ toMaster' \in Seq(Tags) /\ UNCHANGED dmrdIn
      BY <1>15, <2>1 DEF Forward
    <3> QED BY <1>15, <3>1, LeaveType DEF Forward, Leave
  <2>2. CASE ~voiceGone
    <3>1. dmrdIn' \in 0 .. InCap
      BY <1>15, <2>2 DEF Forward, CanForward
    <3> QED BY <1>15, <2>2, <3>1 DEF Forward
  <2> QED BY <2>1, <2>2
<1>16. CASE Stop
  <2>1. toMaster' \in Seq(Tags) BY <1>16 DEF Stop
  <2>2. Leave BY <1>16 DEF Stop
  <2> QED BY <1>16, <2>1, <2>2, LeaveType DEF Stop, Leave
<1> QED
  BY <1>1, <1>2, <1>3, <1>4, <1>5, <1>6, <1>7, <1>8, <1>9, <1>10, <1>11, <1>12,
     <1>13, <1>14, <1>15, <1>16, <1>17, <1>18 DEF Client

\* So do the master, whatever it answers and whatever is lost or repeated on
\* the way.
LEMMA MasterTypeOK == TypeOK /\ Master => TypeOK'
<1> SUFFICES ASSUME TypeOK, Master PROVE TypeOK' OBVIOUS
<1> USE ConfigAssumption, BoundAssumption
<1> USE DEF TypeOK, vars, authVars, aliveVars, clientVars, netVars, voiceVars,
            Packets, Tags, Fault
<1>1. ASSUME NEW pkts \in Seq(Packets), Deliver(pkts)
      PROVE  /\ inbox' \in Seq(Packets) /\ faults' \in 0 .. MaxFaults
             /\ doubled' \in BOOLEAN
  <2>0. doubled' \in BOOLEAN BY <1>1, Zenon DEF Deliver
  <2>1. faults' \in 0 .. MaxFaults BY <1>1 DEF Deliver
  <2>2. inbox \o pkts \in Seq(Packets) /\ inbox \o pkts \o pkts \in Seq(Packets)
    <3> HIDE DEF Packets
    <3>1. inbox \in Seq(Packets) OBVIOUS
    <3>2. inbox \o pkts \in Seq(Packets) BY <1>1, <3>1, ConcatProperties
    <3> QED BY <1>1, <3>2, ConcatProperties
  <2>3. inbox' \in {inbox, inbox \o pkts, inbox \o pkts \o pkts}
    BY <1>1, Zenon DEF Deliver
  <2> QED BY <2>0, <2>1, <2>2, <2>3
<1>2. CASE MasterAnswers
  <2> DEFINE tag == Head(toMaster)
  <2>1. tag \in Tags /\ toMaster' \in Seq(Tags)
    <3> HIDE DEF Tags
    <3>1. toMaster \in Seq(Tags) /\ toMaster # <<>>
          /\ toMaster' = Tail(toMaster)
      BY <1>2, Zenon DEF MasterAnswers
    <3> QED BY <3>1, HeadTailProperties
  <2>2. /\ master' \in {"off", "challenged", "keyed", "ready"}
        /\ inbox' \in Seq(Packets) /\ faults' \in 0 .. MaxFaults
        /\ doubled' \in BOOLEAN
    <3>1. CASE ~up
      <4>1. Vanish BY <1>2, <3>1 DEF MasterAnswers
      <4>2. Append(inbox, "error") \in Seq(Packets) OBVIOUS
      <4> QED BY <4>1, <4>2 DEF Vanish
    <3>2. CASE up /\ tag = "RPTCL" BY <1>2, <3>2 DEF MasterAnswers
    <3>3. CASE up /\ tag # "RPTCL" /\ master \in Expects[tag]
      <4>1. /\ master' = Grants[tag]
            /\ Deliver(<<IF tag = "RPTPING" THEN "pong" ELSE "ack">>)
        BY <1>2, <3>3 DEF MasterAnswers
      <4>2. Grants[tag] \in {"challenged", "keyed", "ready"}
        BY <2>1, <3>3 DEF Grants
      <4>3. <<IF tag = "RPTPING" THEN "pong" ELSE "ack">> \in Seq(Packets)
        OBVIOUS
      <4> QED BY <1>1, <4>1, <4>2, <4>3
    <3>4. CASE up /\ tag # "RPTCL" /\ master \notin Expects[tag]
      <4>1. master' = "off" /\ Deliver(<<"nak">>)
        BY <1>2, <3>4 DEF MasterAnswers
      <4>2. <<"nak">> \in Seq(Packets) OBVIOUS
      <4> QED BY <1>1, <4>1, <4>2
    <3> QED BY <3>1, <3>2, <3>3, <3>4
  <2> QED BY <1>2, <2>1, <2>2 DEF MasterAnswers
<1>3. CASE MasterRejects BY <1>3 DEF MasterRejects
<1>4. CASE MasterTalks BY <1>4 DEF MasterTalks
<1>5. CASE MasterStrays BY <1>5 DEF MasterStrays
<1>6. CASE MasterCloses BY <1>6 DEF MasterCloses
<1>7. CASE MasterForgets BY <1>7 DEF MasterForgets
<1>8. CASE PathFails
  <2>1. faults' \in 0 .. MaxFaults BY <1>8 DEF PathFails
  <2>2. up' \in BOOLEAN BY <1>8, Zenon DEF PathFails
  <2> QED BY <1>8, <2>1, <2>2 DEF PathFails
<1>9. CASE PathHeals BY <1>9 DEF PathHeals
<1> QED
  BY <1>2, <1>3, <1>4, <1>5, <1>6, <1>7, <1>8, <1>9 DEF Master

LEMMA TypeStep == TypeOK /\ [Next]_vars => TypeOK'
<1> SUFFICES ASSUME TypeOK, [Next]_vars PROVE TypeOK' OBVIOUS
<1> USE ConfigAssumption, BoundAssumption
<1> USE DEF TypeOK, vars, authVars, aliveVars, clientVars, netVars, voiceVars
<1>1. CASE Client BY <1>1, ClientTypeOK
<1>2. CASE Master BY <1>2, MasterTypeOK
<1>3. CASE VoiceTakesDmrd BY <1>3 DEF VoiceTakesDmrd
<1>4. CASE VoiceTakesReset BY <1>4 DEF VoiceTakesReset
<1>5. CASE VoiceExits BY <1>5 DEF VoiceExits
<1>6. CASE Cancel BY <1>6 DEF Cancel
<1>7. CASE Tick
  <2>1. (MissedLimit + 2) * Keepalive \in Nat OBVIOUS
  <2> HIDE DEF vars
  <2> QED BY <1>7, <2>1, CappedType DEF Tick, Down, Capped
<1>8. CASE UNCHANGED vars BY <1>8
<1> QED
  BY <1>1, <1>2, <1>3, <1>4, <1>5, <1>6, <1>7, <1>8 DEF Next, Terminated

LEMMA TypeInit == Init => TypeOK
<1>1. /\ 0 \in Nat /\ 0 \in 0 .. Keepalive /\ 0 \in 0 .. MissedLimit - 1
      /\ 0 \in 0 .. MaxFaults /\ 0 \in 0 .. InCap /\ 0 \in 0 .. ControlCap
      /\ BackoffInit \in Nat
  BY ConfigAssumption, BoundAssumption
<1>2. <<>> \in Seq(Packets) /\ <<>> \in Seq(Tags) OBVIOUS
<1> QED BY <1>1, <1>2, Zenon DEF Init, TypeOK

\* The client's state is well typed in every behaviour.
THEOREM TypeCorrect == Spec => []TypeOK
BY TypeInit, TypeStep, PTL DEF Spec

-----------------------------------------------------------------------------
\* Towards voice_task every behaviour of the client is one of Link: a session
\* comes up only with its NetworkReset queued, within the channel's capacity.
THEOREM LinkImplemented == Spec => ImplementsLink
<1> USE DEF L!vars, InSession
<1>1. Init => L!Init BY DEF Init, L!Init
<1>2. [Next]_vars => [L!Next]_(L!vars)
  <2> SUFFICES ASSUME [Next]_vars PROVE [L!Next]_(L!vars) OBVIOUS
  <2> USE DEF L!Next, L!Connect, L!Disconnect, L!Take, clientVars, authVars,
              aliveVars, netVars, voiceVars, vars
  <2>1. CASE Client
    <3>1. CASE Setup \/ SetupFails \/ Acked \/ Skipped \/ Refused
               \/ RequestFails \/ AuthTimeout \/ Retry
      <4>1. ~InSession /\ ~InSession' /\ UNCHANGED resets
        BY <3>1 DEF Setup, SetupFails, Acked, After, Skipped, Refused,
                    RequestFails, AuthTimeout, AuthExpired, Retry, Fail, InHandshake
      <4> QED BY <4>1
    <3>2. CASE Notify BY <3>2 DEF Notify, Announce
    <3>3. CASE KeepaliveLost \/ OnMasterGone \/ PingFails
      BY <3>3 DEF KeepaliveLost, OnMasterGone, PingFails, Receive, EndSession,
                  Fail
    <3>4. CASE Ping \/ OnPong \/ OnAck \/ OnDmrd
      BY <3>4 DEF Ping, OnPong, OnAck, OnDmrd, Receive
    <3>5. CASE Forward BY <3>5 DEF Forward, Leave
    <3>6. CASE Stop BY <3>6 DEF Stop, Leave, InHandshake
    <3> QED BY <2>1, <3>1, <3>2, <3>3, <3>4, <3>5, <3>6 DEF Client
  <2>2. CASE Master
    BY <2>2 DEF Master, MasterAnswers, MasterRejects, MasterTalks,
                MasterStrays, MasterCloses, MasterForgets, PathFails, PathHeals
  <2>3. CASE VoiceTakesDmrd \/ VoiceExits \/ Cancel \/ Tick \/ UNCHANGED vars
    BY <2>3 DEF VoiceTakesDmrd, VoiceExits, Cancel, Tick
  <2>4. CASE VoiceTakesReset BY <2>4 DEF VoiceTakesReset
  <2> QED BY <2>1, <2>2, <2>3, <2>4 DEF Next, Terminated
<1> QED BY <1>1, <1>2, PTL DEF Spec, ImplementsLink, L!Spec

-----------------------------------------------------------------------------
(* The tracker measures the silence of the master. *)

LEMMA TimesMono ==
  \A a \in Nat, b \in Nat, k \in Nat : a <= b => a * k <= b * k
<1> TAKE a \in Nat, b \in Nat, k \in Nat
<1> SUFFICES ASSUME a <= b PROVE a * k <= b * k OBVIOUS
<1>1. b - a \in Nat OBVIOUS
<1>2. (b - a) * k \in Nat BY <1>1
<1>3. b * k = a * k + (b - a) * k OBVIOUS
<1> QED BY <1>2, <1>3

\* What the tracker has counted, in ticks: the intervals missed, the one whose
\* ping is still out and, before a first ping, the one of the session's start.
Counted == (IF waiting THEN missed + 2 ELSE 1) * Keepalive

\* The time since the last pong and to the next keepalive is at most what the
\* tracker has counted...
NotLater == InSession => (~waiting => missed = 0) /\ silence + ticker <= Counted

\* ... and short of it by less than the interval in which that pong came.
NotSooner ==
  InSession =>
    /\ ~waiting => missed = 0
    /\ waiting => silence + ticker >= (missed + 1) * Keepalive

LEMMA InSessionSteps ==
  ASSUME [Next]_vars, InSession'
  PROVE  \/ Notify
         \/ Ping
         \/ OnPong
         \/ Tick /\ InSession
         \/ InSession /\ UNCHANGED aliveVars
<1> USE DEF InSession, clientVars, vars
<1>1. CASE Client
  <2>1. CASE Setup \/ SetupFails \/ Acked \/ Skipped \/ Refused
             \/ RequestFails \/ AuthTimeout \/ Retry \/ KeepaliveLost
             \/ OnMasterGone \/ PingFails \/ Stop
    BY <2>1 DEF Setup, SetupFails, Acked, After, Skipped, Refused,
                RequestFails, PingFails, AuthTimeout, AuthExpired, Retry, Fail, InHandshake,
                KeepaliveLost, OnMasterGone, EndSession, Stop, Leave
  <2>2. CASE Notify \/ Ping \/ OnPong BY <2>2
  <2>3. CASE OnAck \/ OnDmrd BY <2>3 DEF OnAck, OnDmrd, Receive
  <2>4. CASE Forward BY <2>4 DEF Forward, Leave
  <2> QED BY <1>1, <2>1, <2>2, <2>3, <2>4 DEF Client
<1>2. CASE Master
  BY <1>2 DEF Master, MasterAnswers, MasterRejects, MasterTalks,
              MasterStrays, MasterCloses, MasterForgets, PathFails, PathHeals
<1>3. CASE VoiceTakesDmrd \/ VoiceTakesReset \/ VoiceExits \/ Cancel
           \/ UNCHANGED vars
  BY <1>3 DEF VoiceTakesDmrd, VoiceTakesReset, VoiceExits, Cancel
<1>4. CASE Tick BY <1>4 DEF Tick
<1> QED BY <1>1, <1>2, <1>3, <1>4 DEF Next, Terminated

LEMMA PingStep ==
  ASSUME TypeOK, Ping
  PROVE  /\ ticker = 0 /\ ticker' = Keepalive /\ silence' = silence
         /\ waiting' = TRUE /\ missed' = IF waiting THEN missed + 1 ELSE missed
         /\ InSession
BY DEF Ping, InSession

LEMMA NotLaterStep ==
  ASSUME Stalls = FALSE, TypeOK, TypeOK', NotLater, [Next]_vars
  PROVE  NotLater'
<1> SUFFICES ASSUME InSession'
             PROVE  /\ ~waiting' => missed' = 0
                    /\ silence' + ticker' <= Counted'
  BY DEF NotLater
<1>0. /\ Keepalive \in Nat /\ silence \in Nat /\ silence' \in Nat
      /\ missed \in Nat /\ missed' \in Nat /\ ticker \in Nat /\ ticker' \in Nat
  BY ConfigAssumption DEF TypeOK
<1>1. CASE Notify
  <2>1. silence' = 0 /\ ticker' = Keepalive /\ missed' = 0 /\ ~waiting'
    BY <1>1 DEF Notify
  <2> QED BY <1>0, <2>1 DEF Counted
<1>2. CASE Ping
  <2>1. /\ ticker = 0 /\ ticker' = Keepalive /\ silence' = silence
        /\ waiting' = TRUE /\ missed' = IF waiting THEN missed + 1 ELSE missed
        /\ (~waiting => missed = 0) /\ silence + ticker <= Counted
    BY <1>2, PingStep DEF NotLater
  <2>2. CASE waiting
    <3>1. silence <= (missed + 2) * Keepalive BY <1>0, <2>1, <2>2 DEF Counted
    <3>2. Counted' = (missed + 2) * Keepalive + Keepalive
      BY <1>0, <2>1, <2>2 DEF Counted
    <3> QED BY <1>0, <2>1, <3>1, <3>2
  <2>3. CASE ~waiting
    <3>1. silence <= Keepalive /\ missed' = 0
      BY <1>0, <2>1, <2>3 DEF Counted
    <3>2. Counted' = 2 * Keepalive BY <1>0, <2>1, <3>1 DEF Counted
    <3> QED BY <1>0, <2>1, <3>1, <3>2
  <2> QED BY <2>2, <2>3
<1>3. CASE OnPong
  <2>1. silence' = 0 /\ ticker' = ticker /\ missed' = 0 /\ ~waiting'
    BY <1>3 DEF OnPong, RecordPong
  <2>2. ticker <= Keepalive BY DEF TypeOK
  <2> QED BY <1>0, <2>1, <2>2 DEF Counted
<1>4. CASE Tick /\ InSession
  <2>1. ticker > 0
    <3>1. pc = "alive" /\ ticker # 0
      BY <1>4 DEF Tick, Prompt, InSession
    <3> QED BY <1>0, <3>1
  <2>2. ticker' = ticker - 1 BY <1>0, <1>4, <2>1 DEF Tick, Down
  <2>3. silence' <= silence + 1
    <3>1. (MissedLimit + 2) * Keepalive \in Nat BY ConfigAssumption
    <3> QED BY <1>0, <1>4, <3>1, CappedType DEF Tick
  <2>4. waiting' = waiting /\ missed' = missed BY <1>4 DEF Tick
  <2>5. ~waiting => missed = 0 BY <1>4 DEF NotLater
  <2>6. Counted' = Counted BY <2>4 DEF Counted
  <2>7. Counted \in Nat BY <1>0 DEF Counted
  <2>8. silence' + ticker' <= Counted
    <3>1. silence + ticker <= Counted BY <1>4 DEF NotLater
    <3>2. \A s \in Nat, t \in Nat :
            s <= silence + 1 /\ t = ticker - 1 => s + t <= Counted
      BY <1>0, <2>7, <3>1
    <3> QED BY <1>0, <2>2, <2>3, <3>2, Zenon
  <2> QED BY <2>4, <2>5, <2>6, <2>8
<1>5. CASE InSession /\ UNCHANGED aliveVars
  BY <1>5 DEF NotLater, aliveVars, Counted
<1> QED BY <1>1, <1>2, <1>3, <1>4, <1>5, InSessionSteps

\* As long as the client is not kept from running, a session without a pong
\* never lasts longer than missed-limit intervals after the last ping that
\* could have been answered, for every interval and limit.
THEOREM DeadNoticed ==
  ASSUME Stalls = FALSE
  PROVE  Spec => []DeadNoticedInTime
<1>1. Init => TypeOK /\ NotLater BY TypeInit DEF Init, NotLater, InSession
<1>2. TypeOK /\ NotLater /\ [Next]_vars => (TypeOK /\ NotLater)'
  BY TypeStep, NotLaterStep
<1>3. TypeOK /\ NotLater => DeadNoticedInTime
  <2> SUFFICES ASSUME TypeOK, NotLater, InSession
               PROVE  silence <= (MissedLimit + 1) * Keepalive
    BY DEF DeadNoticedInTime
  <2>0. /\ Keepalive \in Nat /\ MissedLimit \in Nat /\ MissedLimit > 0
        /\ silence \in Nat /\ missed \in Nat /\ missed + 1 <= MissedLimit
        /\ ticker \in Nat
    BY ConfigAssumption DEF TypeOK
  <2>1. silence <= Counted
    <3>1. Counted \in Nat BY <2>0 DEF Counted
    <3> QED BY <2>0, <3>1 DEF NotLater
  <2>2. CASE waiting
    <3>1. missed + 2 <= MissedLimit + 1 BY <2>0
    <3>2. (missed + 2) * Keepalive <= (MissedLimit + 1) * Keepalive
      BY <2>0, <3>1, TimesMono
    <3>3. /\ (missed + 2) * Keepalive \in Nat
          /\ (MissedLimit + 1) * Keepalive \in Nat
      BY <2>0
    <3>4. silence <= (missed + 2) * Keepalive BY <2>1, <2>2 DEF Counted
    <3> QED BY <2>0, <3>2, <3>3, <3>4
  <2>3. CASE ~waiting
    <3>1. 1 * Keepalive <= (MissedLimit + 1) * Keepalive
      BY <2>0, TimesMono
    <3>2. (MissedLimit + 1) * Keepalive \in Nat BY <2>0
    <3>3. silence <= 1 * Keepalive BY <2>1, <2>3 DEF Counted
    <3> QED BY <2>0, <3>1, <3>2, <3>3
  <2> QED BY <2>2, <2>3
<1> QED BY <1>1, <1>2, <1>3, PTL DEF Spec

LEMMA NotSoonerStep ==
  ASSUME TypeOK, TypeOK', NotSooner, [Next]_vars
  PROVE  NotSooner'
<1> SUFFICES ASSUME InSession'
             PROVE  /\ ~waiting' => missed' = 0
                    /\ waiting' =>
                         silence' + ticker' >= (missed' + 1) * Keepalive
  BY DEF NotSooner
<1>0. /\ Keepalive \in Nat /\ MissedLimit \in Nat
      /\ silence \in Nat /\ silence' \in Nat
      /\ missed \in Nat /\ missed' \in Nat /\ missed + 1 <= MissedLimit
      /\ ticker \in Nat /\ ticker' \in Nat
  BY ConfigAssumption DEF TypeOK
<1>1. CASE Notify BY <1>1 DEF Notify
<1>2. CASE Ping
  <2>1. /\ ticker = 0 /\ ticker' = Keepalive /\ silence' = silence
        /\ waiting' = TRUE /\ missed' = IF waiting THEN missed + 1 ELSE missed
        /\ InSession
    BY <1>2, PingStep
  <2>2. CASE waiting
    <3>1. silence >= (missed + 1) * Keepalive
      BY <1>0, <2>1, <2>2 DEF NotSooner
    <3>2. (missed' + 1) * Keepalive = (missed + 1) * Keepalive + Keepalive
      BY <1>0, <2>1, <2>2
    <3>3. (missed + 1) * Keepalive \in Nat BY <1>0
    <3>4. silence' + ticker' >= (missed' + 1) * Keepalive
      BY <1>0, <2>1, <3>1, <3>2, <3>3
    <3> QED BY <2>1, <3>4
  <2>3. CASE ~waiting
    <3>1. missed' = 0 BY <2>1, <2>3 DEF NotSooner
    <3>2. (missed' + 1) * Keepalive = Keepalive BY <1>0, <3>1
    <3>3. silence' + ticker' >= Keepalive BY <1>0, <2>1
    <3> QED BY <2>1, <3>2, <3>3
  <2> QED BY <2>2, <2>3
<1>3. CASE OnPong BY <1>3 DEF OnPong, RecordPong
<1>4. CASE Tick /\ InSession
  <2> DEFINE most == (MissedLimit + 2) * Keepalive
  <2> SUFFICES ASSUME waiting
               PROVE  silence' + ticker' >= (missed + 1) * Keepalive
    BY <1>4 DEF Tick, NotSooner
  <2>1. /\ ticker' = Down(ticker) /\ silence' = Capped(silence + 1, most)
    BY <1>4 DEF Tick
  <2>2. silence + ticker >= (missed + 1) * Keepalive
    BY <1>4, <2>1 DEF NotSooner
  <2>3. ticker' + 1 >= ticker /\ ticker' <= ticker
    BY <1>0, <2>1 DEF Down
  <2>4. (missed + 1) * Keepalive \in Nat /\ most \in Nat BY <1>0
  <2>5. CASE silence + 1 < most
    <3>1. silence' = silence + 1 BY <2>1, <2>5 DEF Capped
    <3> QED BY <1>0, <2>1, <2>2, <2>3, <2>4, <3>1
  <2>6. CASE ~(silence + 1 < most)
    <3>1. silence' = most BY <2>1, <2>6 DEF Capped
    <3>2. missed + 1 <= MissedLimit + 2 BY <1>0
    <3>3. (missed + 1) * Keepalive <= most BY <1>0, <3>2, TimesMono
    <3> HIDE DEF most
    <3> QED BY <1>0, <2>1, <2>4, <3>1, <3>3
  <2> QED BY <2>5, <2>6
<1>5. CASE InSession /\ UNCHANGED aliveVars
  BY <1>5 DEF NotSooner, aliveVars
<1> QED BY <1>1, <1>2, <1>3, <1>4, <1>5, InSessionSteps

\* A session is given up for nothing less than missed-limit intervals of
\* silence: pongs missed one here, one there never add up, even when the client
\* is kept from running.
THEOREM LostNotSooner == Spec => LostOnlyWhenSilent
<1>1. Init => TypeOK /\ NotSooner BY TypeInit DEF Init, NotSooner
<1>2. TypeOK /\ NotSooner /\ [Next]_vars => (TypeOK /\ NotSooner)'
  BY TypeStep, NotSoonerStep
<1>3. TypeOK /\ NotSooner /\ [Next]_vars
        => [KeepaliveLost => silence >= MissedLimit * Keepalive]_vars
  <2> SUFFICES ASSUME TypeOK, NotSooner, KeepaliveLost
               PROVE  silence >= MissedLimit * Keepalive
    OBVIOUS
  <2>1. waiting /\ missed + 1 >= MissedLimit /\ ticker = 0 /\ InSession
    BY DEF KeepaliveLost, LimitReached, InSession
  <2>0. /\ Keepalive \in Nat /\ MissedLimit \in Nat /\ silence \in Nat
        /\ missed + 1 \in Nat
    BY ConfigAssumption DEF TypeOK
  <2>2. silence >= (missed + 1) * Keepalive BY <2>0, <2>1 DEF NotSooner
  <2>3. MissedLimit * Keepalive <= (missed + 1) * Keepalive
    BY <2>0, <2>1, TimesMono
  <2>4. /\ MissedLimit * Keepalive \in Nat
        /\ (missed + 1) * Keepalive \in Nat
    BY <2>0
  <2> QED BY <2>0, <2>2, <2>3, <2>4
<1> QED BY <1>1, <1>2, <1>3, PTL DEF Spec, LostOnlyWhenSilent
-----------------------------------------------------------------------------
(* The handshake: client and master take its steps together.               *)

\* What each step waits to have answered.
Asks == [login |-> "RPTL", key |-> "RPTK", config |-> "RPTC"]

NoAck == \A i \in 1 .. Len(inbox) : inbox[i] # "ack"
OneAck ==
  \A i \in 1 .. Len(inbox), j \in 1 .. Len(inbox) :
    inbox[i] = "ack" /\ inbox[j] = "ack" => i = j

\* An attempt starts with nothing of the one before it left on the way: its
\* socket is gone, and the backoff sleep outlasts what it sent.
Quiet ==
  /\ backoff > 0
  /\ pc = "setup" \/ (pc = "backoff" /\ wait = 0) => toMaster = <<>>
  /\ pc \in {"setup", "backoff"} => inbox = <<>>

\* One request is out and unanswered, or answered by at most one ACK; an ACK is
\* there only if the master has taken the step it grants, or dropped us since.
Lockstep ==
  /\ InHandshake =>
       \/ toMaster = <<Asks[pc]>> /\ NoAck
       \/ /\ toMaster = <<>> /\ OneAck
          /\ NoAck \/ master \in {Grants[Asks[pc]], "off"}
  /\ pc = "notify" => toMaster = <<>> /\ master \in {"ready", "off"}

HInv == TypeOK /\ Quiet /\ (~doubled => Lockstep)

\* Another packet behind the queue is an ACK more only if it is one.
LEMMA AckAppended ==
  ASSUME TypeOK, NEW p \in Packets, inbox' = Append(inbox, p)
  PROVE  /\ p # "ack" => (NoAck => NoAck') /\ (OneAck => OneAck')
         /\ NoAck => OneAck'
<1>1. /\ Len(inbox) \in Nat /\ Len(inbox') = Len(inbox) + 1
      /\ \A i \in 1 .. Len(inbox) : inbox'[i] = inbox[i]
      /\ inbox'[Len(inbox) + 1] = p
  <2> HIDE DEF Packets
  <2> QED BY AppendProperties, LenProperties DEF TypeOK
<1>2. \A i \in 1 .. Len(inbox') : i \in 1 .. Len(inbox) \/ i = Len(inbox) + 1
  BY <1>1
<1> QED BY <1>1, <1>2 DEF NoAck, OneAck

\* Taking the one ACK leaves none.
LEMMA AckTaken ==
  ASSUME TypeOK, Take
  PROVE  /\ NoAck => NoAck' /\ Head(inbox) # "ack"
         /\ OneAck => OneAck'
         /\ OneAck /\ Head(inbox) = "ack" => NoAck'
<1>1. /\ Len(inbox) \in Nat \ {0} /\ Len(inbox') = Len(inbox) - 1
      /\ \A i \in 1 .. Len(inbox') : inbox'[i] = inbox[i + 1]
      /\ Head(inbox) = inbox[1]
  <2> HIDE DEF Packets
  <2>1. inbox \in Seq(Packets) /\ inbox # <<>> /\ inbox' = Tail(inbox)
    BY DEF TypeOK, Take
  <2> QED BY <2>1, HeadTailProperties
<1>2. 1 \in 1 .. Len(inbox)
      /\ \A i \in 1 .. Len(inbox') : i + 1 \in 1 .. Len(inbox) /\ i + 1 # 1
  BY <1>1
<1>3. \A i \in 1 .. Len(inbox'), j \in 1 .. Len(inbox') : i + 1 = j + 1 => i = j
  BY <1>1
<1> QED BY <1>1, <1>2, <1>3 DEF NoAck, OneAck

\* The client's own steps.
LEMMA ClientHandshake ==
  ASSUME HInv, Client
  PROVE  Quiet' /\ (~doubled' => Lockstep')
<1>0. TypeOK /\ backoff \in Nat /\ backoff > 0 BY DEF HInv, Quiet, TypeOK
<1> USE DEF authVars, aliveVars, clientVars, netVars, voiceVars, InHandshake
<1>a. ASSUME NEW authed \in BOOLEAN, Fail(authed)
      PROVE  Quiet' /\ Lockstep'
  BY <1>0, <1>a, ConfigAssumption DEF Fail, Quiet, Lockstep
<1>b. ASSUME pc \notin {"setup", "backoff"}, pc' \in {"alive", "forward", "done"},
             UNCHANGED backoff
      PROVE  Quiet' /\ Lockstep'
  BY <1>0, <1>b DEF Quiet, Lockstep
<1>1. CASE Setup
  <2>1. toMaster = <<>> /\ inbox = <<>> BY <1>1 DEF Setup, HInv, Quiet
  <2>2. toMaster' = <<"RPTL">> /\ inbox' = <<>> /\ pc' = "login" /\ backoff' > 0
    BY <1>0, <1>1, <2>1 DEF Setup, Send
  <2> QED BY <2>2 DEF Quiet, Lockstep, Asks, NoAck
<1>2. CASE SetupFails \/ Refused \/ RequestFails \/ AuthTimeout
  BY <1>a, <1>2 DEF SetupFails, Refused, RequestFails, AuthTimeout
<1>3. CASE Acked
  <2>1. /\ Take /\ Head(inbox) = "ack" /\ pc' = After[pc]
        /\ UNCHANGED <<backoff, master, doubled>>
        /\ pc \in {"login", "key", "config"} /\ pc' \in {"key", "config", "notify"}
    BY <1>3 DEF Acked, After
  <2>2. Quiet' BY <1>0, <2>1 DEF Quiet
  <2>3. ASSUME ~doubled PROVE Lockstep'
    <3>1. /\ toMaster = <<>> /\ NoAck'
          /\ master \in {Grants[Asks[pc]], "off"}
      BY <1>0, <2>1, <2>3, AckTaken DEF HInv, Lockstep
    <3>2. CASE pc = "config"
      <4>1. pc' = "notify" /\ UNCHANGED toMaster
        BY <1>3, <2>1, <3>2 DEF Acked, After
      <4>2. Grants[Asks[pc]] = "ready" BY <3>2 DEF Grants, Asks
      <4> QED BY <2>1, <3>1, <4>1, <4>2 DEF Lockstep
    <3>3. CASE pc # "config"
      <4>1. pc' # "notify" /\ pc' \in {"key", "config"}
            /\ Request[pc'] = Asks[pc']
        BY <2>1, <3>3 DEF After, Request, Asks
      <4>2. toMaster' = <<Asks[pc']>>
        BY <1>3, <3>1, <4>1 DEF Acked, Send
      <4> QED BY <3>1, <4>1, <4>2 DEF Lockstep
    <3> QED BY <3>2, <3>3
  <2> QED BY <2>1, <2>2, <2>3
<1>4. CASE Skipped
  <2>1. /\ Take /\ UNCHANGED <<pc, backoff, wait, toMaster, master, doubled>>
        /\ pc = "login"
    BY <1>4 DEF Skipped
  <2> QED BY <1>0, <2>1, AckTaken DEF HInv, Quiet, Lockstep
<1>5. CASE Retry
  <2>1. 2 * backoff \in Nat /\ 2 * backoff > 0 BY <1>0
  <2>2. backoff' > 0 BY <1>5, <2>1, ConfigAssumption DEF Retry, Capped
  <2> QED BY <1>5, <2>2 DEF Retry, HInv, Quiet, Lockstep
<1>6. CASE Notify BY <1>b, <1>6 DEF Notify, Announce
<1>7. CASE KeepaliveLost \/ PingFails \/ OnMasterGone
  BY <1>a, <1>7 DEF KeepaliveLost, PingFails, OnMasterGone, EndSession
<1>8. CASE Ping \/ OnPong \/ OnAck \/ OnDmrd \/ Forward
  BY <1>b, <1>8 DEF Ping, OnPong, OnAck, OnDmrd, Receive, Forward, Leave
<1>9. CASE Stop
  <2>1. pc' = "done" /\ UNCHANGED backoff BY <1>9 DEF Stop, Leave
  <2> QED BY <1>0, <2>1 DEF Quiet, Lockstep
<1> QED
  BY <1>1, <1>2, <1>3, <1>4, <1>5, <1>6, <1>7, <1>8, <1>9 DEF Client

\* The master, and what happens on the way.  A reply that arrives once comes when
\* the request it answers has left the way to the master.
LEMMA MasterHandshake ==
  ASSUME HInv, Master
  PROVE  Quiet' /\ (~doubled' => Lockstep')
<1>0. /\ TypeOK /\ UNCHANGED <<pc, backoff, wait>> /\ (doubled => doubled')
      /\ ~SocketOpen => UNCHANGED inbox
  <2>1. UNCHANGED <<pc, backoff, wait>>
    BY DEF Master, MasterAnswers, MasterRejects, MasterTalks, MasterStrays,
           MasterCloses, MasterForgets, PathFails, PathHeals, clientVars, authVars
  <2>2. doubled => doubled'
    BY Zenon
       DEF Master, MasterAnswers, MasterRejects, MasterTalks, MasterStrays,
           MasterCloses, MasterForgets, PathFails, PathHeals, Vanish, Deliver,
           Fault, netVars
  <2>3. ~SocketOpen => UNCHANGED inbox
    BY DEF Master, MasterAnswers, MasterRejects, MasterTalks, MasterStrays,
           MasterCloses, MasterForgets, PathFails, PathHeals, Vanish, Deliver,
           Registered, SocketOpen
  <2> QED BY <2>1, <2>2, <2>3 DEF HInv
<1>1. toMaster = <<>> => UNCHANGED toMaster
  BY DEF Master, MasterAnswers, MasterRejects, MasterTalks, MasterStrays,
         MasterCloses, MasterForgets, PathFails, PathHeals, clientVars, netVars
<1>2. Quiet'
  <2>1. pc \in {"setup", "backoff"} => ~SocketOpen
    BY DEF SocketOpen, InHandshake, InSession
  <2> QED BY <1>0, <1>1, <2>1 DEF HInv, Quiet
<1>3. ASSUME ~doubled',
             \/ UNCHANGED inbox
             \/ \E p \in Packets \ {"ack"} : inbox' = Append(inbox, p),
             master' \in {master, "off"},
             UNCHANGED toMaster \/ (toMaster # <<>> /\ toMaster' = Tail(toMaster))
      PROVE  Lockstep'
  <2>1. (NoAck => NoAck') /\ (OneAck => OneAck')
    <3>1. CASE UNCHANGED inbox BY <3>1 DEF NoAck, OneAck
    <3>2. CASE \E p \in Packets \ {"ack"} : inbox' = Append(inbox, p)
      BY <1>0, <3>2, AckAppended
    <3> QED BY <1>3, <3>1, <3>2
  <2>2. \A x : toMaster = <<x>> /\ toMaster' = Tail(toMaster) => toMaster' = <<>>
    OBVIOUS
  <2>3. NoAck => OneAck BY DEF NoAck, OneAck
  <2>4. Lockstep BY <1>0, <1>3 DEF HInv
  <2>5. InHandshake => Lockstep'
    BY <1>0, <1>1, <1>3, <2>1, <2>2, <2>3, <2>4 DEF Lockstep, InHandshake
  <2>6. pc = "notify" => Lockstep'
    BY <1>0, <1>1, <1>3, <2>4 DEF Lockstep, InHandshake
  <2> QED BY <1>0, <2>5, <2>6 DEF Lockstep, InHandshake
<1>4. CASE MasterAnswers
  <2> SUFFICES ASSUME ~doubled' PROVE Lockstep' BY <1>2
  <2> DEFINE tag == Head(toMaster)
  <2>1. toMaster # <<>> /\ toMaster' = Tail(toMaster)
    BY <1>4 DEF MasterAnswers
  <2>2. CASE ~up
    <3>1. Vanish BY <1>4, <2>2 DEF MasterAnswers
    <3> QED BY <1>3, <2>1, <3>1 DEF Vanish, Packets
  <2>3. CASE up /\ tag = "RPTCL"
    BY <1>3, <1>4, <2>1, <2>3 DEF MasterAnswers
  <2>4. CASE up /\ tag # "RPTCL" /\ master \in Expects[tag]
    <3>1. /\ master' = Grants[tag]
          /\ Deliver(<<IF tag = "RPTPING" THEN "pong" ELSE "ack">>)
      BY <1>4, <2>4 DEF MasterAnswers
    <3>2. ~doubled /\ inbox' \in {inbox, inbox \o <<IF tag = "RPTPING" THEN "pong" ELSE "ack">>}
      BY <1>0, <2>4, <3>1 DEF Deliver, Fault
    <3>3. pc # "notify" BY <1>0, <2>1, <3>2 DEF HInv, Lockstep
    <3>4. ASSUME InHandshake PROVE Lockstep'
      <4>1. toMaster = <<Asks[pc]>> /\ NoAck
        BY <2>1, <3>2, <3>4 DEF HInv, Lockstep
      <4>2. tag = Asks[pc] /\ tag # "RPTPING" /\ toMaster' = <<>>
        BY <2>1, <3>4, <4>1 DEF Asks, InHandshake
      <4>3. NoAck' \/ OneAck'
        <5>1. CASE UNCHANGED inbox BY <4>1, <5>1 DEF NoAck
        <5>2. CASE inbox' = inbox \o <<"ack">>
          <6>1. inbox' = Append(inbox, "ack")
            <7> HIDE DEF Packets
            <7>1. "ack" \in Packets BY DEF Packets
            <7> QED BY <1>0, <5>2, <7>1, AppendIsConcat DEF TypeOK
          <6>2. "ack" \in Packets BY DEF Packets
          <6> QED BY <1>0, <4>1, <6>1, <6>2, AckAppended
        <5> QED BY <3>2, <4>2, <5>1, <5>2
      <4>4. OneAck' BY <4>3 DEF NoAck, OneAck
      <4>5. master' \in {Grants[Asks[pc']], "off"} BY <1>0, <3>1, <4>2
      <4> QED BY <1>0, <3>4, <4>2, <4>4, <4>5 DEF Lockstep, InHandshake
    <3> QED BY <1>0, <3>3, <3>4 DEF Lockstep, InHandshake
  <2>5. CASE up /\ tag # "RPTCL" /\ master \notin Expects[tag]
    <3>1. master' = "off" /\ Deliver(<<"nak">>)
      BY <1>4, <2>5 DEF MasterAnswers
    <3>2. inbox' \in {inbox, inbox \o <<"nak">>}
      BY <3>1 DEF Deliver, Fault
    <3>3. inbox \o <<"nak">> = Append(inbox, "nak")
      <4> HIDE DEF Packets
      <4>1. "nak" \in Packets BY DEF Packets
      <4> QED BY <1>0, <4>1, AppendIsConcat DEF TypeOK
    <3> QED BY <1>3, <2>1, <3>1, <3>2, <3>3 DEF Packets
  <2> QED BY <2>2, <2>3, <2>4, <2>5
<1>5. CASE MasterRejects
  BY <1>2, <1>3, <1>5 DEF MasterRejects, Packets
<1>6. CASE MasterTalks \/ MasterStrays
  BY <1>2, <1>3, <1>6 DEF MasterTalks, MasterStrays, netVars, Packets
<1>7. CASE MasterCloses BY <1>2, <1>3, <1>7 DEF MasterCloses, Packets
<1>8. CASE MasterForgets \/ PathFails \/ PathHeals
  BY <1>2, <1>3, <1>8 DEF MasterForgets, PathFails, PathHeals
<1> QED
  BY <1>4, <1>5, <1>6, <1>7, <1>8 DEF Master

LEMMA HandshakeStep == HInv /\ [Next]_vars => HInv'
<1> SUFFICES ASSUME HInv, [Next]_vars PROVE Quiet' /\ (~doubled' => Lockstep')
  BY TypeStep DEF HInv
<1>1. CASE Client BY <1>1, ClientHandshake
<1>2. CASE Master BY <1>2, MasterHandshake
<1>3. CASE Tick
  <2>1. /\ toMaster = <<>>
        /\ UNCHANGED <<pc, backoff, inbox, toMaster, master, doubled>>
    BY <1>3 DEF Tick, Prompt, netVars
  <2> QED
    BY <2>1 DEF HInv, Quiet, Lockstep, InHandshake, NoAck, OneAck
<1>4. CASE VoiceTakesDmrd \/ VoiceTakesReset \/ VoiceExits \/ Cancel
           \/ UNCHANGED vars
  <2>1. UNCHANGED <<pc, backoff, wait, inbox, toMaster, master, doubled>>
    BY <1>4 DEF VoiceTakesDmrd, VoiceTakesReset, VoiceExits, Cancel, vars,
                clientVars, authVars, netVars
  <2> QED
    BY <2>1 DEF HInv, Quiet, Lockstep, InHandshake, NoAck, OneAck
<1> QED BY <1>1, <1>2, <1>3, <1>4 DEF Next, Terminated

\* Whatever is lost, refused, delayed or strays in, and however often client or
\* master start over, the client ends a handshake only with a master that accepted
\* its configuration or has dropped it since.
THEOREM AuthedIsAccepted == Spec => []AuthedMeansAccepted
<1>1. Init => HInv
  BY TypeInit, ConfigAssumption
     DEF Init, HInv, Quiet, Lockstep, InHandshake
<1>2. HInv => AuthedMeansAccepted BY DEF HInv, Lockstep, AuthedMeansAccepted
<1> QED BY <1>1, <1>2, HandshakeStep, PTL DEF Spec
=============================================================================
