------------------------------ MODULE AmbeProxy ------------------------------
(***************************************************************************)
(* The vocoder shared over UDP: the ambeserver proxy (ambeserver/src),     *)
(* with its holder exclusivity and its two kinds of backend, and its       *)
(* clients (ambe/src/ambeserver.rs over udp_dv.rs), each a socket that     *)
(* sends one request at a time and takes the next packet for its answer.   *)
(*                                                                         *)
(* A peer is one socket, hence one session of the proxy.  Time is counted  *)
(* in ticks.  Loopback keeps packets in order; a fault may lose one.       *)
(***************************************************************************)
EXTENDS Naturals, Sequences

CONSTANTS
  Peers,       \* client sockets
  Tools,       \* those driven by AmbeServerClient; the others are AmbeServer
  Nobody,      \* Option::None of a peer
  Backends,    \* the kinds of backend the proxy may be started with
  Hold,        \* EXCLUSIVE_HOLD (1 s)
  Timeout,     \* RECV_TIMEOUT of a client, SERIAL_TIMEOUT of the proxy (2 s)
  Faults,      \* what may go wrong: subset of lose, mute, crash
  MaxFaults    \* how often

ASSUME PeerAssumption == Nobody \notin Peers /\ Tools \subseteq Peers

ASSUME ConfigAssumption ==
  /\ Backends \subseteq {"soft", "chip"}
  /\ Hold \in Nat \ {0} /\ Timeout \in Nat \ {0}
  /\ Faults \subseteq {"lose", "mute", "crash"} /\ MaxFaults \in Nat

VARIABLES
  backend,     \* args.backend: soft for dynarmic and neural, chip for thumbdv
  phase,       \* per peer: new, reset, rate (connect() running), open, closed
  pending,     \* per peer: the request it awaits the answer of
  wait,        \* per peer: ticks left of the receive timeout
  mark,        \* history, per peer: tells a request from the one before
  inbox,       \* per peer: the answers in its socket
  toServer,    \* requests in the proxy's socket
  holder,      \* the peer that drives the backend
  held,        \* ticks since its last packet, up to Hold
  rateAcked,   \* SoftBackend.ratep_acked
  poisoned,    \* SoftBackend.poisoned
  chipRate,    \* the rate the chip is set to
  relayed,     \* the request whose answer the proxy reads from the serial port
  readWait,    \* ticks left of the serial timeout
  serial,      \* answers of the chip not read yet
  tuner,       \* history: the peer that set the rate voice is coded at
  heard,       \* history: peers whose voice is in the software vocoder's state
  called,      \* peers that made a call since the last tick
  faults       \* faults so far

clientVars == <<phase, pending, wait, mark>>
softVars == <<rateAcked, poisoned>>
portVars == <<relayed, readWait>>
chipVars == <<chipRate, serial>>
history == <<tuner, heard>>
serverVars == <<holder, held, softVars, portVars, history>>
vars == <<backend, clientVars, called, inbox, toServer, serverVars, chipVars,
          faults>>

-----------------------------------------------------------------------------
Rates == {"dmr", "raw"}                     \* operands of RATEP
Ops == Rates \cup {"reset", "gain", "voice"} \* voice: a frame to en- or decode
Answers == {"ready", "rateAck", "rateReject", "gainAck", "voice", "bits"}
Requests == [peer : Peers, op : Ops, mark : 0 .. 1]
Replies == [kind : Answers, mark : 0 .. 1]
NoRequest == [peer |-> Nobody, op |-> "reset", mark |-> 0]

Reply(kind, r) == [kind |-> kind, mark |-> r.mark]

Fault(kind) ==
  kind \in Faults /\ faults < MaxFaults /\ faults' = faults + 1

-----------------------------------------------------------------------------
(* Clients. *)

\* send_recv's first half: the answer must come within the receive timeout.
\* The request, or the datagram of it, may be lost.
SendRequest(p, op) ==
  /\ pending' = [pending EXCEPT ![p] = op]
  /\ wait' = [wait EXCEPT ![p] = Timeout]
  /\ mark' = [mark EXCEPT ![p] = 1 - @]
  /\ \/ /\ toServer' = Append(toServer,
                              [peer |-> p, op |-> op, mark |-> 1 - mark[p]])
        /\ UNCHANGED faults
     \/ Fault("lose") /\ UNCHANGED toServer

NoMoreRequests(p) ==
  /\ pending' = [pending EXCEPT ![p] = "none"]
  /\ wait' = [wait EXCEPT ![p] = 0]
  /\ UNCHANGED <<mark, toServer, faults>>

\* AmbeServer::connect resets and tunes the vocoder before it returns;
\* AmbeServerClient::connect only opens the socket.
Connect(p) ==
  /\ phase[p] = "new"
  /\ IF p \in Tools
     THEN /\ phase' = [phase EXCEPT ![p] = "open"]
          /\ UNCHANGED <<pending, wait, mark, toServer, faults>>
     ELSE /\ phase' = [phase EXCEPT ![p] = "reset"]
          /\ SendRequest(p, "reset")
  /\ UNCHANGED <<backend, called, inbox, serverVars, chipVars>>

\* A method of an open client.  Calls take time: one a tick.
Call(p) ==
  /\ phase[p] = "open" /\ pending[p] = "none"
  /\ p \notin called /\ called' = called \cup {p}
  /\ \E op \in IF p \in Tools THEN Ops ELSE {"gain", "voice"} :
       SendRequest(p, op)
  /\ UNCHANGED <<backend, phase, inbox, serverVars, chipVars>>

\* The answers each request is content with.
Content(p) ==
  CASE pending[p] = "reset" -> {"ready"}
    [] pending[p] \in Rates -> {"rateAck"}
    [] pending[p] = "gain"  -> {"gainAck"}
    [] pending[p] = "voice" -> IF p \in Tools THEN {"voice", "bits"}
                                              ELSE {"voice"}

\* What the outcome of a request makes of a client: connect() goes on, returns
\* Ok, or returns Err and drops the socket; an open client stays open.
Conclude(p, ok) ==
  /\ phase' = [phase EXCEPT ![p] =
                 IF @ = "open" THEN "open"
                 ELSE IF ~ok THEN "closed"
                 ELSE IF @ = "reset" THEN "rate" ELSE "open"]
  /\ IF ok /\ phase[p] = "reset" THEN SendRequest(p, "dmr")
                                 ELSE NoMoreRequests(p)

\* recv takes the next packet in the socket, whichever request it answers.
Take(p) ==
  /\ pending[p] # "none" /\ inbox[p] # <<>>
  /\ inbox' = [inbox EXCEPT ![p] = Tail(@)]
  /\ Conclude(p, Head(inbox[p]).kind \in Content(p))
  /\ UNCHANGED <<backend, called, serverVars, chipVars>>

\* Mutant: the socket does not block.
ExpiredAtOnce(p) == TRUE

Expired(p) == wait[p] = 0

RecvTimeout(p) ==
  /\ pending[p] # "none" /\ inbox[p] = <<>> /\ Expired(p)
  /\ Conclude(p, FALSE)
  /\ UNCHANGED <<backend, called, inbox, serverVars, chipVars>>

\* The client's process ends, between two requests or in the middle of one.
Close(p) ==
  /\ phase[p] \in {"reset", "rate", "open"}
  /\ IF pending[p] = "none" THEN UNCHANGED faults ELSE Fault("crash")
  /\ phase' = [phase EXCEPT ![p] = "closed"]
  /\ pending' = [pending EXCEPT ![p] = "none"]
  /\ wait' = [wait EXCEPT ![p] = 0]
  /\ inbox' = [inbox EXCEPT ![p] = <<>>]
  /\ UNCHANGED <<backend, called, mark, toServer, serverVars, chipVars>>

Client(p) == Connect(p) \/ Call(p) \/ Take(p) \/ RecvTimeout(p) \/ Close(p)

-----------------------------------------------------------------------------
(* The proxy. *)

\* send_to: the socket of a closed peer is gone, and a packet may be lost.
SendAnswer(p, reply) ==
  \/ /\ inbox' = IF phase[p] = "closed" THEN inbox
                 ELSE [inbox EXCEPT ![p] = Append(@, reply)]
     /\ UNCHANGED faults
  \/ Fault("lose") /\ UNCHANGED inbox

Incoming == relayed = NoRequest /\ toServer # <<>>
Request == Head(toServer)

\* Mutant: a RESET is refused like anything else.
RefusedWithReset == holder \notin {Nobody, Request.peer} /\ held < Hold

\* Another peer than the holder, while that one is active; a RESET always
\* gets through.
Refused ==
  /\ Request.op # "reset"
  /\ holder \notin {Nobody, Request.peer}
  /\ held < Hold

Refuse ==
  /\ Incoming /\ Refused
  /\ toServer' = Tail(toServer)
  /\ UNCHANGED <<backend, clientVars, called, inbox, serverVars, chipVars,
                 faults>>

Admit ==
  /\ Incoming /\ ~Refused
  /\ toServer' = Tail(toServer)
  /\ holder' = Request.peer
  /\ held' = 0

TakesOver == holder # Request.peer

\* A soft backend has one rate for voice, the chip any.
RatesOf == IF backend = "soft" THEN {"dmr"} ELSE Rates

Tuning(r) ==
  tuner' = IF r.op \in RatesOf THEN r.peer
           ELSE IF r.op \in Rates \cup {"reset"} THEN Nobody ELSE tuner

\* Mutant: on_takeover does not reset the vocoder.
TakeoverKeepsVoice ==
  [acked |-> rateAcked /\ ~TakesOver, poisoned |-> poisoned /\ ~TakesOver,
   heard |-> heard]

\* on_takeover: a soft backend starts over when the peer changes.
AfterTakeover ==
  [acked |-> rateAcked /\ ~TakesOver, poisoned |-> poisoned /\ ~TakesOver,
   heard |-> IF TakesOver THEN {} ELSE heard]

\* SoftBackend::handle, for the state s the takeover leaves.
SoftReset(r) ==
  /\ r.op = "reset"
  /\ rateAcked' = FALSE /\ poisoned' = FALSE /\ heard' = {}
  /\ SendAnswer(r.peer, Reply("ready", r))

Keep(s) == rateAcked' = s.acked /\ poisoned' = s.poisoned /\ heard' = s.heard

\* Dropped: anything on a poisoned session, voice before a DMR rate, and what
\* the vocoder fails on (with the lost answers).
SoftDrop(r, s) ==
  /\ r.op # "reset"
  /\ s.poisoned \/ (r.op = "voice" /\ ~s.acked)
  /\ Keep(s)
  /\ UNCHANGED <<inbox, faults>>

\* Mutant: a rate other than DMR is rejected and nothing more.
RejectOnly(s) == Keep(s)

Poison(s) == poisoned' = TRUE /\ rateAcked' = s.acked /\ heard' = s.heard

SoftRate(r, s) ==
  /\ r.op \in Rates /\ ~s.poisoned
  /\ IF r.op = "dmr"
     THEN /\ Keep([s EXCEPT !.acked = TRUE])
          /\ SendAnswer(r.peer, Reply("rateAck", r))
     ELSE Poison(s) /\ SendAnswer(r.peer, Reply("rateReject", r))

SoftGain(r, s) ==
  /\ r.op = "gain" /\ ~s.poisoned
  /\ Keep(s)
  /\ SendAnswer(r.peer, Reply("gainAck", r))

SoftVoice(r, s) ==
  /\ r.op = "voice" /\ ~s.poisoned /\ s.acked
  /\ Keep([s EXCEPT !.heard = @ \cup {r.peer}])
  /\ SendAnswer(r.peer, Reply("voice", r))

HandleSoft ==
  /\ backend = "soft" /\ Admit
  /\ LET r == Request
         s == AfterTakeover IN
     \/ SoftReset(r) \/ SoftDrop(r, s) \/ SoftRate(r, s) \/ SoftGain(r, s)
     \/ SoftVoice(r, s)
  /\ Tuning(Request)
  /\ UNCHANGED <<backend, clientVars, called, portVars, chipVars>>

\* The answer the chip will give to a request.
ChipAnswer(r) ==
  CASE r.op = "reset" -> "ready"
    [] r.op \in Rates -> "rateAck"
    [] r.op = "gain"  -> "gainAck"
    [] r.op = "voice" -> IF chipRate = "raw" THEN "bits" ELSE "voice"

\* ThumbDvBackend::handle writes the request, then reads one answer.  The chip
\* answers at once or, by a fault, not at all.
Relay ==
  /\ backend = "chip" /\ Admit
  /\ LET r == Request IN
     /\ \/ /\ serial' = Append(serial, Reply(ChipAnswer(r), r))
           /\ UNCHANGED faults
        \/ Fault("mute") /\ UNCHANGED serial
     /\ chipRate' = IF r.op \in Rates THEN r.op
                    ELSE IF r.op = "reset" THEN "none" ELSE chipRate
     /\ relayed' = r
     /\ Tuning(r)
  /\ readWait' = Timeout
  /\ UNCHANGED <<backend, clientVars, called, inbox, softVars, heard>>

NoRelay == relayed' = NoRequest /\ readWait' = 0

RelayAnswer ==
  /\ relayed # NoRequest /\ serial # <<>>
  /\ serial' = Tail(serial)
  /\ SendAnswer(relayed.peer, Head(serial))
  /\ NoRelay
  /\ UNCHANGED <<backend, clientVars, called, toServer, holder, held, softVars,
                 chipRate, history>>

SerialTimeout ==
  /\ relayed # NoRequest /\ serial = <<>> /\ readWait = 0
  /\ NoRelay
  /\ UNCHANGED <<backend, clientVars, called, inbox, toServer, holder, held,
                 softVars, chipVars, history, faults>>

Server == Refuse \/ HandleSoft \/ Relay \/ RelayAnswer \/ SerialTimeout

-----------------------------------------------------------------------------
(* Time. *)

\* Someone has something to do now.
Prompt ==
  \/ Incoming
  \/ relayed # NoRequest /\ (serial # <<>> \/ readWait = 0)
  \/ \E p \in Peers : pending[p] # "none" /\ (inbox[p] # <<>> \/ wait[p] = 0)

Down(n) == IF n > 0 THEN n - 1 ELSE 0

Tick ==
  /\ ~Prompt
  /\ \/ \E p \in Peers : wait[p] > 0
     \/ held < Hold \/ readWait > 0 \/ called # {}
  /\ wait' = [p \in Peers |-> Down(wait[p])]
  /\ held' = IF held < Hold THEN held + 1 ELSE held
  /\ readWait' = Down(readWait)
  /\ called' = {}
  /\ UNCHANGED <<backend, phase, pending, mark, inbox, toServer, holder,
                 softVars, relayed, chipVars, history, faults>>

-----------------------------------------------------------------------------
Init ==
  /\ backend \in Backends
  /\ phase = [p \in Peers |-> "new"] /\ pending = [p \in Peers |-> "none"]
  /\ wait = [p \in Peers |-> 0] /\ mark = [p \in Peers |-> 0]
  /\ inbox = [p \in Peers |-> <<>>] /\ toServer = <<>>
  /\ holder = Nobody /\ held = Hold
  /\ rateAcked = FALSE /\ poisoned = FALSE
  /\ chipRate = "none" /\ serial = <<>>
  /\ relayed = NoRequest /\ readWait = 0
  /\ tuner = Nobody /\ heard = {} /\ called = {} /\ faults = 0

Next ==
  \/ \E p \in Peers : Client(p)
  \/ Server \/ Tick

Spec == Init /\ [][Next]_vars

\* A client in a request waits for its answer or its timeout, the proxy's loop
\* runs, and time passes.  Nobody has to call.
Fairness ==
  /\ \A p \in Peers : WF_vars(Take(p) \/ RecvTimeout(p))
  /\ WF_vars(Server)
  /\ WF_vars(Tick)

FairSpec == Spec /\ Fairness

-----------------------------------------------------------------------------
TypeOK ==
  /\ backend \in {"soft", "chip"}
  /\ phase \in [Peers -> {"new", "reset", "rate", "open", "closed"}]
  /\ pending \in [Peers -> Ops \cup {"none"}]
  /\ wait \in [Peers -> 0 .. Timeout] /\ mark \in [Peers -> 0 .. 1]
  /\ inbox \in [Peers -> Seq(Replies)] /\ toServer \in Seq(Requests)
  /\ holder \in Peers \cup {Nobody} /\ held \in 0 .. Hold
  /\ rateAcked \in BOOLEAN /\ poisoned \in BOOLEAN
  /\ chipRate \in Rates \cup {"none"}
  /\ relayed \in Requests \cup {NoRequest} /\ readWait \in 0 .. Timeout
  /\ serial \in Seq(Replies)
  /\ tuner \in Peers \cup {Nobody} /\ heard \subseteq Peers
  /\ called \subseteq Peers /\ faults \in 0 .. MaxFaults

\* The vocoder state a peer's voice goes through in a soft backend holds no
\* other peer's voice, however the peers take the backend from each other.
OneVoiceStream == backend = "soft" => heard \subseteq {holder}

\* A soft backend codes voice only for the peer that negotiated the rate: its
\* RATEP DMR is the last rate request handled, and nobody took over since.
ServedAtOwnRate ==
  backend = "soft" /\ rateAcked /\ ~poisoned => tuner = holder

\* No client of a soft backend takes the answer to an earlier request, one it
\* gave up on, for the answer to the one it waits for: requests carry no
\* number, and what is refused or lost must not be answered late.  (Behind the
\* chip it can: while the proxy waits out a serial timeout, as long as a
\* client's, the requests in its socket go stale.)
AnswersMatch ==
  [][\A p \in Peers :
       Take(p) /\ backend = "soft" => Head(inbox[p]).mark = mark[p]]_vars

\* A client that died, in whatever state it left the backend, does not keep
\* the next one from connecting.
NoWedge ==
  \A p \in Peers :
    /\ phase[p] = "reset"
    /\ \A q \in Peers \ {p} : phase[q] = "closed"
    /\ toServer # <<>> /\ \A i \in DOMAIN toServer : toServer[i].peer = p
    /\ faults = 0
    ~> phase[p] = "open" \/ faults > 0

=============================================================================
