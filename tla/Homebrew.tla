------------------------------ MODULE Homebrew ------------------------------
(***************************************************************************)
(* The Homebrew session client (bridge/src/homebrew_client.rs): run() and  *)
(* its reconnect backoff, connect_once() and its login handshake,          *)
(* keepalive_loop() and its missed-pong tracker, closed with the DMR       *)
(* master and the UDP path to it, and with voice_task, which takes the     *)
(* inbound DMRD packets and the NetworkReset events.                       *)
(*                                                                         *)
(* `pc' is the await the client is at.  The outbound DMRD queues that      *)
(* keepalive_loop also serves are in Ptt.  Time is counted down in ticks.  *)
(***************************************************************************)
EXTENDS Integers, Sequences

CONSTANTS
  Keepalive,      \* network.keepalive_interval (5 s)
  MissedLimit,    \* network.keepalive_missed_limit (3)
  AuthDeadline,   \* AUTH_TIMEOUT (10 s)
  BackoffInit, BackoffMax,  \* BACKOFF_INITIAL (1 s), BACKOFF_MAX (60 s)
  InCap,          \* capacity of the inbound DMRD channel (8)
  ControlCap,     \* capacity of the control channel (4)
  SocketCap,      \* bound of the model on unsolicited packets in the socket
  Faults,         \* what may go wrong outside the client, see FaultKinds
  MaxFaults,      \* how often
  Stalls,         \* time may pass while the client has something to do
  MayCancel       \* the bridge may be shut down

FaultKinds ==
  {"lose", "dup", "stray", "resolve", "reject", "close", "forget", "down"}

ASSUME ConfigAssumption ==
  /\ Keepalive \in Nat \ {0} /\ MissedLimit \in Nat \ {0}
  /\ AuthDeadline \in Nat \ {0}
  /\ BackoffInit \in Nat \ {0} /\ BackoffMax \in Nat \ {0}
  /\ InCap \in Nat \ {0} /\ ControlCap \in Nat \ {0}

ASSUME BoundAssumption ==
  /\ SocketCap \in Nat /\ MaxFaults \in Nat
  /\ Faults \subseteq FaultKinds
  /\ Stalls \in BOOLEAN /\ MayCancel \in BOOLEAN

VARIABLES
  pc,         \* setup, login, key, config, notify, alive, forward, backoff, done
  wait,       \* ticks left of AUTH_TIMEOUT or of the backoff sleep
  backoff,    \* ReconnectBackoff.current
  ticker,     \* ticks left to the next keepalive
  waiting,    \* KeepaliveTracker: last_pong < last_ping
  missed,     \* KeepaliveTracker.missed
  silence,    \* history: ticks since the last pong taken, or session start
  inbox,      \* the socket's receive queue
  toMaster,   \* packets on their way to the master
  master,     \* where the master has us: off, challenged, keyed, ready
  up,         \* the master and the path to it are there
  faults,     \* faults so far
  doubled,    \* history: an answer of the master arrived twice
  dmrdIn,     \* packets in the inbound DMRD channel
  resets,     \* events in the control channel
  voiceGone,  \* voice_task has returned
  cancel      \* the CancellationToken

authVars == <<wait, backoff>>
aliveVars == <<ticker, waiting, missed, silence>>
clientVars == <<pc, authVars, aliveVars>>
netVars == <<master, up, faults, doubled>>
voiceVars == <<dmrdIn, resets, voiceGone, cancel>>
vars == <<clientVars, inbox, toMaster, netVars, voiceVars>>

-----------------------------------------------------------------------------
InHandshake == pc \in {"login", "key", "config"}
InSession == pc \in {"alive", "forward"}
SocketOpen == InHandshake \/ InSession \/ pc = "notify"

Send(tag) == toMaster' = Append(toMaster, tag)
Take == inbox # <<>> /\ inbox' = Tail(inbox)
Capped(n, bound) == IF n < bound THEN n ELSE bound

\* The ticker and the tracker of a session are made anew with it.
NoTracker == ticker' = 0 /\ waiting' = FALSE /\ missed' = 0 /\ silence' = 0

\* connect_once returns Err: the socket is dropped and run() sleeps.
Fail(authed) ==
  /\ backoff' = IF authed THEN BackoffInit ELSE backoff
  /\ wait' = backoff'
  /\ pc' = "backoff" /\ inbox' = <<>>
  /\ NoTracker

\* keepalive_loop returns Err, and connect_once says goodbye.
EndSession == Fail(TRUE) /\ Send("RPTCL")

\* connect_once returns Ok: run() returns.
Leave == pc' = "done" /\ inbox' = <<>> /\ NoTracker /\ UNCHANGED authVars

-----------------------------------------------------------------------------
(* Setup, login and backoff. *)

\* lookup_host, bind, connect; then RPTL on the new socket.  Any may fail.
Setup ==
  /\ pc = "setup" /\ ~cancel
  /\ pc' = "login" /\ wait' = AuthDeadline
  /\ Send("RPTL")
  /\ UNCHANGED <<backoff, aliveVars, inbox, netVars, voiceVars>>

SetupFails ==
  /\ pc = "setup" /\ ~cancel
  /\ "resolve" \in Faults /\ faults < MaxFaults /\ faults' = faults + 1
  /\ UNCHANGED doubled
  /\ Fail(FALSE)
  /\ UNCHANGED <<toMaster, master, up, voiceVars>>

\* Mutant: the reply to RPTC is not waited for.
AfterSkipsConfig == [login |-> "key", key |-> "notify", config |-> "notify"]

\* The step after each acknowledged one, and what it sends.
After == [login |-> "key", key |-> "config", config |-> "notify"]
Request == [key |-> "RPTK", config |-> "RPTC"]

Acked ==
  /\ InHandshake /\ ~cancel /\ Take /\ Head(inbox) = "ack"
  /\ pc' = After[pc]
  /\ IF pc' = "notify" THEN wait' = 0 /\ UNCHANGED toMaster
                       ELSE Send(Request[pc']) /\ UNCHANGED wait
  /\ UNCHANGED <<backoff, aliveVars, netVars, voiceVars>>

\* Waiting for the nonce, anything but an ACK or a NAK is skipped; the
\* deadline keeps running.
Skipped ==
  /\ pc = "login" /\ ~cancel /\ Take
  /\ Head(inbox) \notin {"ack", "nak", "error"}
  /\ UNCHANGED <<clientVars, toMaster, netVars, voiceVars>>

\* A NAK, a socket error or, after RPTL's reply, anything else than an ACK.
Refused ==
  /\ InHandshake /\ ~cancel /\ inbox # <<>>
  /\ Head(inbox) \in {"nak", "error"} \/ (pc # "login" /\ Head(inbox) # "ack")
  /\ Fail(FALSE)
  /\ UNCHANGED <<toMaster, netVars, voiceVars>>

\* The next request cannot be sent.
RequestFails ==
  /\ pc \in {"login", "key"} /\ ~cancel /\ ~up
  /\ inbox # <<>> /\ Head(inbox) = "ack"
  /\ Fail(FALSE)
  /\ UNCHANGED <<toMaster, netVars, voiceVars>>

\* Mutant: the deadline only covers the first reply.
LoginExpired == pc = "login" /\ wait = 0

AuthExpired == InHandshake /\ wait = 0

AuthTimeout ==
  /\ AuthExpired /\ ~cancel /\ inbox = <<>>
  /\ Fail(FALSE)
  /\ UNCHANGED <<toMaster, netVars, voiceVars>>

\* run() wakes up, and doubles the delay of the next time.
Retry ==
  /\ pc = "backoff" /\ wait = 0 /\ ~cancel
  /\ backoff' = Capped(2 * backoff, BackoffMax)
  /\ pc' = "setup"
  /\ UNCHANGED <<wait, aliveVars, inbox, toMaster, netVars, voiceVars>>

\* Mutant: the event is only tried, and lost on a full channel.
NotifyTried ==
  /\ resets' = Capped(resets + 1, ControlCap)
  /\ pc' = "alive"
  /\ UNCHANGED inbox

\* The queues are drained and voice_task told, for which the client waits for
\* a slot, cancelled or not; then the ticker starts a full interval ahead.
Announce ==
  IF voiceGone
  THEN pc' = "done" /\ inbox' = <<>> /\ UNCHANGED resets
  ELSE /\ resets < ControlCap
       /\ resets' = resets + 1
       /\ pc' = "alive"
       /\ UNCHANGED inbox

Notify ==
  /\ pc = "notify"
  /\ Announce
  /\ ticker' = Keepalive
  /\ waiting' = FALSE /\ missed' = 0 /\ silence' = 0
  /\ UNCHANGED <<authVars, toMaster, netVars, dmrdIn, voiceGone, cancel>>

-----------------------------------------------------------------------------
(* keepalive_loop.  Its select polls cancel, the ticker, then the socket.  *)

\* Mutant: one miss more than the limit is allowed.
LimitReachedLate == waiting /\ missed + 1 > MissedLimit

LimitReached == waiting /\ missed + 1 >= MissedLimit

KeepaliveLost ==
  /\ pc = "alive" /\ ~cancel /\ ticker = 0 /\ LimitReached
  /\ EndSession
  /\ UNCHANGED <<netVars, voiceVars>>

Ping ==
  /\ pc = "alive" /\ ~cancel /\ ticker = 0 /\ ~LimitReached
  /\ missed' = IF waiting THEN missed + 1 ELSE missed
  /\ waiting' = TRUE
  /\ ticker' = Keepalive
  /\ Send("RPTPING")
  /\ UNCHANGED <<pc, authVars, silence, inbox, netVars, voiceVars>>

PingFails ==
  /\ pc = "alive" /\ ~cancel /\ ticker = 0 /\ ~LimitReached /\ ~up
  /\ EndSession
  /\ UNCHANGED <<netVars, voiceVars>>

Receive(kind) ==
  /\ pc = "alive" /\ ~cancel /\ ticker > 0
  /\ inbox # <<>> /\ Head(inbox) = kind

\* Mutant: a pong does not clear the count of missed ones.
PongKeepsMissed == waiting' = FALSE /\ UNCHANGED missed

RecordPong == waiting' = FALSE /\ missed' = 0

OnPong ==
  /\ Receive("pong") /\ Take
  /\ RecordPong /\ silence' = 0
  /\ UNCHANGED <<pc, authVars, ticker, toMaster, netVars, voiceVars>>

OnMasterGone ==
  /\ Receive("nak") \/ Receive("cl") \/ Receive("error")
  /\ EndSession
  /\ UNCHANGED <<netVars, voiceVars>>

\* A late RPTACK is only logged.
OnAck ==
  /\ Receive("ack") /\ Take
  /\ UNCHANGED <<clientVars, toMaster, netVars, voiceVars>>

OnDmrd ==
  /\ Receive("dmrd") /\ Take
  /\ pc' = "forward"
  /\ UNCHANGED <<authVars, aliveVars, toMaster, netVars, voiceVars>>

\* Mutant: a send on the inbound channel does not notice that voice_task left.
ForwardWhenRoom == InCap > dmrdIn

CanForward == voiceGone \/ dmrdIn < InCap

\* dmrd_tx.send().await: holds the whole loop, keepalives included, while the
\* channel is full.
Forward ==
  /\ pc = "forward" /\ CanForward
  /\ IF voiceGone THEN Leave /\ Send("RPTCL") /\ UNCHANGED dmrdIn
     ELSE /\ dmrdIn' = dmrdIn + 1 /\ pc' = "alive"
          /\ UNCHANGED <<authVars, aliveVars, inbox, toMaster>>
  /\ UNCHANGED <<netVars, resets, voiceGone, cancel>>

\* The token, polled first wherever it is polled at all.
Stop ==
  /\ cancel /\ (InHandshake \/ pc \in {"setup", "alive", "backoff"})
  /\ IF pc = "alive" THEN Send("RPTCL") ELSE UNCHANGED toMaster
  /\ Leave
  /\ UNCHANGED <<netVars, voiceVars>>

Client ==
  \/ Setup \/ SetupFails \/ Acked \/ Skipped \/ Refused \/ RequestFails
  \/ AuthTimeout \/ Retry \/ Notify
  \/ KeepaliveLost \/ Ping \/ PingFails \/ OnPong \/ OnMasterGone \/ OnAck \/ OnDmrd
  \/ Forward \/ Stop

-----------------------------------------------------------------------------
(* The master and the path to it. *)

Fault(kind) ==
  /\ kind \in Faults /\ faults < MaxFaults /\ faults' = faults + 1
  /\ doubled' = (doubled \/ kind = "dup")

\* Packets reach the socket once, or by a fault never or twice.
Deliver(pkts) ==
  \/ inbox' = (IF SocketOpen THEN inbox \o pkts ELSE inbox)
     /\ UNCHANGED <<faults, doubled>>
  \/ Fault("lose") /\ UNCHANGED inbox
  \/ Fault("dup") /\ inbox' = IF SocketOpen THEN inbox \o pkts \o pkts ELSE inbox

\* Where a request finds us registered, and where it takes us.
Expects == [RPTL |-> {"off", "challenged", "keyed", "ready"},
            RPTK |-> {"challenged"}, RPTC |-> {"keyed"},
            RPTPING |-> {"ready"}, RPTCL |-> {}]
Grants == [RPTL |-> "challenged", RPTK |-> "keyed", RPTC |-> "ready",
           RPTPING |-> "ready"]

\* A packet sent where nobody listens may come back as a socket error.
Vanish ==
  /\ inbox' \in {inbox} \cup IF SocketOpen THEN {Append(inbox, "error")} ELSE {}
  /\ UNCHANGED <<master, faults, doubled>>

MasterAnswers ==
  /\ toMaster # <<>> /\ toMaster' = Tail(toMaster)
  /\ LET tag == Head(toMaster) IN
     CASE ~up -> Vanish
       [] up /\ tag = "RPTCL" -> master' = "off" /\ UNCHANGED <<inbox, faults, doubled>>
       [] up /\ tag # "RPTCL" /\ master \in Expects[tag] ->
            /\ master' = Grants[tag]
            /\ Deliver(<<IF tag = "RPTPING" THEN "pong" ELSE "ack">>)
       [] OTHER -> master' = "off" /\ Deliver(<<"nak">>)
  /\ UNCHANGED <<clientVars, up, voiceVars>>

\* The master refuses a request it could have granted.
MasterRejects ==
  /\ toMaster # <<>> /\ Head(toMaster) # "RPTCL" /\ up
  /\ Fault("reject")
  /\ toMaster' = Tail(toMaster)
  /\ master' = "off"
  /\ inbox' = IF SocketOpen THEN Append(inbox, "nak") ELSE inbox
  /\ UNCHANGED <<clientVars, up, voiceVars>>

\* The master has us registered at the socket now open: before it answers
\* RPTL it has us, if at all, at an older one.
Registered == up /\ master = "ready" /\ SocketOpen /\ pc # "login"

\* A packet of an inbound call.
MasterTalks ==
  /\ Registered /\ Len(inbox) < SocketCap
  /\ inbox' = Append(inbox, "dmrd")
  /\ UNCHANGED <<clientVars, toMaster, netVars, voiceVars>>

\* The same, in the middle of a handshake.
MasterStrays ==
  /\ up /\ InHandshake /\ Fault("stray")
  /\ inbox' = Append(inbox, "dmrd")
  /\ UNCHANGED <<clientVars, toMaster, master, up, voiceVars>>

MasterCloses ==
  /\ Registered /\ Fault("close")
  /\ master' = "off"
  /\ inbox' = Append(inbox, "cl")
  /\ UNCHANGED <<clientVars, toMaster, up, voiceVars>>

\* The master restarts, and no longer knows us.
MasterForgets ==
  /\ master # "off" /\ Fault("forget")
  /\ master' = "off"
  /\ UNCHANGED <<clientVars, inbox, toMaster, up, voiceVars>>

PathFails ==
  /\ up /\ Fault("down")
  /\ up' = FALSE
  /\ UNCHANGED <<clientVars, inbox, toMaster, master, voiceVars>>

PathHeals ==
  /\ ~up /\ up' = TRUE
  /\ UNCHANGED <<clientVars, inbox, toMaster, master, faults, doubled, voiceVars>>

Master == MasterAnswers \/ MasterRejects \/ MasterTalks \/ MasterStrays
          \/ MasterCloses \/ MasterForgets \/ PathFails \/ PathHeals

-----------------------------------------------------------------------------
(* voice_task, the token and time. *)

VoiceTakesDmrd ==
  /\ ~voiceGone /\ dmrdIn > 0
  /\ dmrdIn' = dmrdIn - 1
  /\ UNCHANGED <<clientVars, inbox, toMaster, netVars, resets, voiceGone,
                 cancel>>

VoiceTakesReset ==
  /\ ~voiceGone /\ resets > 0
  /\ resets' = resets - 1
  /\ UNCHANGED <<clientVars, inbox, toMaster, netVars, dmrdIn, voiceGone,
                 cancel>>

\* voice_task returns, on the token or on its own, which trips the token.
VoiceExits ==
  /\ ~voiceGone /\ (cancel \/ MayCancel)
  /\ voiceGone' = TRUE /\ cancel' = TRUE
  /\ UNCHANGED <<clientVars, inbox, toMaster, netVars, dmrdIn, resets>>

Cancel ==
  /\ MayCancel /\ ~cancel
  /\ cancel' = TRUE
  /\ UNCHANGED <<clientVars, inbox, toMaster, netVars, dmrdIn, resets,
                 voiceGone>>

\* The client, or the path, has something to do now.
Prompt ==
  \/ toMaster # <<>>
  \/ ~Stalls /\ ( \/ inbox # <<>>
                  \/ pc \in {"setup", "notify", "forward"}
                  \/ (InHandshake \/ pc = "backoff") /\ wait = 0
                  \/ pc = "alive" /\ ticker = 0 )

Down(n) == IF n > 0 THEN n - 1 ELSE 0

Tick ==
  /\ ~Prompt /\ pc # "done"
  /\ wait' = Down(wait)
  /\ IF InSession
     THEN /\ ticker' = Down(ticker)
          /\ silence' = Capped(silence + 1, (MissedLimit + 2) * Keepalive)
     ELSE UNCHANGED <<ticker, silence>>
  /\ UNCHANGED <<pc, backoff, waiting, missed, inbox, toMaster,
                 netVars, voiceVars>>

Terminated == pc = "done" /\ UNCHANGED vars

-----------------------------------------------------------------------------
Init ==
  /\ pc = "setup" /\ wait = 0 /\ backoff = BackoffInit
  /\ ticker = 0 /\ waiting = FALSE /\ missed = 0 /\ silence = 0
  /\ inbox = <<>> /\ toMaster = <<>>
  /\ master = "off" /\ up = TRUE /\ faults = 0
  /\ doubled = FALSE
  /\ dmrdIn = 0 /\ resets = 0 /\ voiceGone = FALSE /\ cancel = FALSE

Next == Client \/ Master \/ VoiceTakesDmrd \/ VoiceTakesReset \/ VoiceExits
        \/ Cancel \/ Tick \/ Terminated

Spec == Init /\ [][Next]_vars

\* The runtime keeps polling the client and voice_task, time passes, and the
\* master answers what reaches it.  Nothing is assumed of the faults.
Fairness ==
  /\ WF_vars(Client)
  /\ WF_vars(MasterAnswers)
  /\ WF_vars(VoiceTakesDmrd)
  /\ WF_vars(VoiceTakesReset)
  /\ WF_vars(cancel /\ VoiceExits)
  /\ WF_vars(Tick)

FairSpec == Spec /\ Fairness

-----------------------------------------------------------------------------
Packets == {"ack", "nak", "pong", "cl", "dmrd", "error"}
Tags == {"RPTL", "RPTK", "RPTC", "RPTPING", "RPTCL"}

TypeOK ==
  /\ pc \in {"setup", "login", "key", "config", "notify", "alive", "forward",
             "backoff", "done"}
  /\ wait \in Nat /\ backoff \in Nat
  /\ ticker \in 0 .. Keepalive /\ waiting \in BOOLEAN
  /\ missed \in 0 .. MissedLimit - 1 /\ silence \in Nat
  /\ inbox \in Seq(Packets) /\ toMaster \in Seq(Tags)
  /\ master \in {"off", "challenged", "keyed", "ready"}
  /\ up \in BOOLEAN /\ faults \in 0 .. MaxFaults
  /\ doubled \in BOOLEAN
  /\ dmrdIn \in 0 .. InCap /\ resets \in 0 .. ControlCap
  /\ voiceGone \in BOOLEAN /\ cancel \in BOOLEAN

\* The client takes itself for authenticated only when the master, once it has
\* dealt with every request, has accepted the configuration or dropped the peer
\* since: the two never part in the middle of the handshake.  Replies carry no
\* mark of what they answer, so this holds as long as none arrives twice.
AuthedMeansAccepted ==
  pc = "notify" /\ toMaster = <<>> /\ ~doubled => master \in {"ready", "off"}

\* A session without pongs is given up after the missed-limit's intervals and
\* the one of the last ping, however much inbound voice arrives meanwhile.
DeadNoticedInTime == InSession => silence <= (MissedLimit + 1) * Keepalive

\* It is given up for nothing less: not for pongs missed one here, one there.
LostOnlyWhenSilent ==
  [][KeepaliveLost => silence >= MissedLimit * Keepalive]_vars

\* Once faults stop and the path stays up, the client gets a session and keeps
\* it.
Recovers == <>[]up => <>[](InSession \/ cancel)

\* Once cancelled the client returns, whatever it waits for: its socket, its
\* backoff, a full channel, or a master that is gone.
Stops == cancel ~> pc = "done"

\* Towards voice_task the client is a link whose every coming up is announced.
L == INSTANCE Link WITH up <- InSession

ImplementsLink == L!Spec
=============================================================================
