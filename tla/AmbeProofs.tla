----------------------------- MODULE AmbeProofs -----------------------------
(* Proofs about AmbeProxy: its type invariant, that a software backend      *)
(* keeps the peers that take turns on it apart, and that no client of one   *)
(* takes the answer to an earlier request for the one it waits for.         *)
EXTENDS AmbeProxy, Integers, SequenceTheorems, TLAPS

USE PeerAssumption, ConfigAssumption

LEMMA Ranges ==
  /\ Timeout \in 0 .. Timeout /\ 0 \in 0 .. Timeout
  /\ \A n \in 0 .. 1 : 1 - n \in 0 .. 1
<1>1. Timeout \in Nat OBVIOUS
<1> QED BY <1>1, SMT

-----------------------------------------------------------------------------
(* Types. *)

Phases == {"new", "reset", "rate", "open", "closed"}

LEMMA AppendType ==
  ASSUME NEW S, NEW s \in Seq(S), NEW x \in S
  PROVE  Append(s, x) \in Seq(S)
OBVIOUS

\* The two ends of the path: what a step may leave in the sockets.
LEMMA SendRequestType ==
  ASSUME NEW p \in Peers, NEW op \in Ops, TypeOK, SendRequest(p, op)
  PROVE  /\ pending' \in [Peers -> Ops \cup {"none"}]
         /\ wait' \in [Peers -> 0 .. Timeout]
         /\ mark' \in [Peers -> 0 .. 1]
         /\ toServer' \in Seq(Requests)
         /\ faults' \in 0 .. MaxFaults
<1> USE DEF TypeOK
<1>1. pending' \in [Peers -> Ops \cup {"none"}] BY DEF SendRequest
<1>2. Timeout \in 0 .. Timeout BY Ranges
<1>3. wait' \in [Peers -> 0 .. Timeout] BY <1>2 DEF SendRequest
<1>4. 1 - mark[p] \in 0 .. 1
  <2>1. mark[p] \in 0 .. 1 OBVIOUS
  <2> QED BY <2>1, Ranges
<1>5. mark' \in [Peers -> 0 .. 1] BY <1>4 DEF SendRequest
<1>6. [peer |-> p, op |-> op, mark |-> 1 - mark[p]] \in Requests
  BY <1>4 DEF Requests
<1>7. toServer' \in Seq(Requests)
  <2>1. toServer \in Seq(Requests) OBVIOUS
  <2>2. Append(toServer, [peer |-> p, op |-> op, mark |-> 1 - mark[p]])
          \in Seq(Requests)
    BY <1>6, <2>1, AppendType
  <2> QED BY <2>1, <2>2 DEF SendRequest
<1>8. faults' \in 0 .. MaxFaults BY SMT DEF SendRequest, Fault
<1> QED BY <1>1, <1>3, <1>5, <1>7, <1>8

LEMMA SendAnswerType ==
  ASSUME NEW p \in Peers, NEW reply \in Replies, TypeOK, SendAnswer(p, reply)
  PROVE  inbox' \in [Peers -> Seq(Replies)] /\ faults' \in 0 .. MaxFaults
<1> USE DEF TypeOK
<1>1. Append(inbox[p], reply) \in Seq(Replies) OBVIOUS
<1>2. inbox' \in [Peers -> Seq(Replies)] BY <1>1 DEF SendAnswer
<1>3. faults' \in 0 .. MaxFaults BY SMT DEF SendAnswer, Fault
<1> QED BY <1>2, <1>3

LEMMA IncomingType ==
  ASSUME TypeOK, toServer # <<>>
  PROVE  Request \in Requests /\ Tail(toServer) \in Seq(Requests)
BY DEF TypeOK, Request

LEMMA ConcludeType ==
  ASSUME NEW p \in Peers, NEW ok \in BOOLEAN, TypeOK, Conclude(p, ok)
  PROVE  /\ phase' \in [Peers -> Phases]
         /\ pending' \in [Peers -> Ops \cup {"none"}]
         /\ wait' \in [Peers -> 0 .. Timeout]
         /\ mark' \in [Peers -> 0 .. 1]
         /\ toServer' \in Seq(Requests)
         /\ faults' \in 0 .. MaxFaults
<1>1. phase' \in [Peers -> Phases] BY DEF TypeOK, Conclude, Phases
<1>2. CASE ok /\ phase[p] = "reset"
  <2>1. "dmr" \in Ops BY DEF Ops, Rates
  <2> QED BY <1>1, <1>2, <2>1, SendRequestType DEF Conclude
<1>3. CASE ~(ok /\ phase[p] = "reset")
  <2>1. NoMoreRequests(p) BY <1>3 DEF Conclude
  <2>2. pending' \in [Peers -> Ops \cup {"none"}]
    BY <2>1 DEF TypeOK, NoMoreRequests
  <2>3. 0 \in 0 .. Timeout BY Ranges
  <2>4. wait' \in [Peers -> 0 .. Timeout] BY <2>1, <2>3 DEF TypeOK, NoMoreRequests
  <2> QED BY <1>1, <2>1, <2>2, <2>4 DEF TypeOK, NoMoreRequests
<1> QED BY <1>2, <1>3

-----------------------------------------------------------------------------
(* The clients' steps. *)

LEMMA ConnectType ==
  ASSUME NEW p \in Peers, TypeOK, Connect(p)
  PROVE  TypeOK'
<1>1. "reset" \in Ops BY DEF Ops
<1>2. CASE p \in Tools BY <1>2 DEF TypeOK, Connect, serverVars, chipVars,
  softVars, portVars, history
<1>3. CASE p \notin Tools
  <2>1. SendRequest(p, "reset") BY <1>3 DEF Connect
  <2> QED BY <1>1, <1>3, <2>1, SendRequestType DEF TypeOK, Connect,
    serverVars, chipVars, softVars, portVars, history
<1> QED BY <1>2, <1>3

LEMMA CallType ==
  ASSUME NEW p \in Peers, TypeOK, Call(p)
  PROVE  TypeOK'
<1>1. PICK op \in Ops : SendRequest(p, op) BY DEF Call, Ops
<1> QED BY <1>1, SendRequestType DEF TypeOK, Call, serverVars, chipVars,
  softVars, portVars, history

LEMMA TakeType ==
  ASSUME NEW p \in Peers, TypeOK, Take(p)
  PROVE  TypeOK'
<1>1. inbox' \in [Peers -> Seq(Replies)] BY DEF TypeOK, Take
<1>2. (Head(inbox[p]).kind \in Content(p)) \in BOOLEAN OBVIOUS
<1> QED BY <1>1, <1>2, ConcludeType DEF TypeOK, Take, Phases, serverVars,
  chipVars, softVars, portVars, history

LEMMA RecvTimeoutType ==
  ASSUME NEW p \in Peers, TypeOK, RecvTimeout(p)
  PROVE  TypeOK'
<1>1. Conclude(p, FALSE) BY DEF RecvTimeout
<1> QED BY <1>1, ConcludeType DEF TypeOK, RecvTimeout, Phases, serverVars,
  chipVars, softVars, portVars, history

LEMMA CloseType ==
  ASSUME NEW p \in Peers, TypeOK, Close(p)
  PROVE  TypeOK'
<1>1. faults' \in 0 .. MaxFaults
  <2>1. faults \in 0 .. MaxFaults BY DEF TypeOK
  <2> QED BY <2>1 DEF Close, Fault
<1>2. inbox' \in [Peers -> Seq(Replies)] BY DEF TypeOK, Close
<1>3. wait' \in [Peers -> 0 .. Timeout] BY Ranges DEF TypeOK, Close
<1> QED BY <1>1, <1>2, <1>3 DEF TypeOK, Close, serverVars, chipVars,
  softVars, portVars, history

-----------------------------------------------------------------------------
(* The proxy's steps. *)

LEMMA AdmitType ==
  ASSUME TypeOK, Admit
  PROVE  /\ Request \in Requests /\ toServer' \in Seq(Requests)
         /\ holder' \in Peers /\ held' \in 0 .. Hold
<1>1. Request \in Requests /\ toServer' \in Seq(Requests)
  BY IncomingType DEF Admit, Incoming
<1>2. 0 \in 0 .. Hold OBVIOUS
<1> QED BY <1>1, <1>2 DEF Admit, Requests

LEMMA HandleSoftType ==
  ASSUME TypeOK, HandleSoft
  PROVE  TypeOK'
<1> DEFINE r == Request
           s == AfterTakeover
<1>1. /\ r \in Requests /\ toServer' \in Seq(Requests)
      /\ holder' \in Peers /\ held' \in 0 .. Hold
  BY AdmitType DEF HandleSoft
<1>2. r.peer \in Peers /\ r.mark \in 0 .. 1 BY <1>1 DEF Requests
<1>3. \A kind \in Answers : Reply(kind, r) \in Replies
  BY <1>2 DEF Reply, Replies
<1>4. s.acked \in BOOLEAN /\ s.poisoned \in BOOLEAN /\ s.heard \subseteq Peers
  BY DEF TypeOK, AfterTakeover
<1>5. tuner' \in Peers \cup {Nobody} BY <1>2 DEF TypeOK, HandleSoft, Tuning
<1>6. /\ inbox' \in [Peers -> Seq(Replies)] /\ faults' \in 0 .. MaxFaults
      /\ rateAcked' \in BOOLEAN /\ poisoned' \in BOOLEAN /\ heard' \subseteq Peers
  <2>1. CASE SoftReset(r)
    BY <1>2, <1>3, <2>1, SendAnswerType DEF SoftReset, Answers
  <2>2. CASE SoftDrop(r, s) BY <1>4, <2>2 DEF TypeOK, SoftDrop, Keep
  <2>3. CASE SoftRate(r, s)
    <3>1. PICK kind \in Answers : SendAnswer(r.peer, Reply(kind, r))
      BY <2>3 DEF SoftRate, Answers
    <3>2. /\ rateAcked' \in BOOLEAN /\ poisoned' \in BOOLEAN
          /\ heard' \subseteq Peers
      BY <1>4, <2>3 DEF SoftRate, Keep, Poison, AfterTakeover
    <3> QED BY <1>2, <1>3, <3>1, <3>2, SendAnswerType
  <2>4. CASE SoftGain(r, s)
    BY <1>2, <1>3, <1>4, <2>4, SendAnswerType DEF SoftGain, Keep, Answers
  <2>5. CASE SoftVoice(r, s)
    <3>1. SendAnswer(r.peer, Reply("voice", r)) /\ "voice" \in Answers
      BY <2>5 DEF SoftVoice, Answers
    <3>2. /\ rateAcked' \in BOOLEAN /\ poisoned' \in BOOLEAN
          /\ heard' \subseteq Peers
      BY <1>2, <1>4, <2>5 DEF SoftVoice, Keep, AfterTakeover
    <3> QED BY <1>2, <1>3, <3>1, <3>2, SendAnswerType
  <2> QED BY <2>1, <2>2, <2>3, <2>4, <2>5 DEF HandleSoft
<1> QED BY <1>1, <1>5, <1>6 DEF TypeOK, HandleSoft, clientVars, portVars,
  chipVars

LEMMA RelayType ==
  ASSUME TypeOK, Relay
  PROVE  TypeOK'
<1> DEFINE r == Request
<1>1. /\ r \in Requests /\ toServer' \in Seq(Requests)
      /\ holder' \in Peers /\ held' \in 0 .. Hold
  BY AdmitType DEF Relay
<1>2. r.peer \in Peers /\ r.mark \in 0 .. 1 /\ r.op \in Ops
  BY <1>1 DEF Requests
<1>3. Reply(ChipAnswer(r), r) \in Replies
  BY <1>2 DEF Reply, Replies, Answers, ChipAnswer, Ops
<1>4. serial' \in Seq(Replies)
  <2>1. serial \in Seq(Replies) BY DEF TypeOK
  <2>2. Append(serial, Reply(ChipAnswer(r), r)) \in Seq(Replies)
    BY <1>3, <2>1, AppendType
  <2> QED BY <2>1, <2>2 DEF Relay
<1>5. faults' \in 0 .. MaxFaults
  <2>1. faults \in 0 .. MaxFaults BY DEF TypeOK
  <2> QED BY <2>1 DEF Relay, Fault
<1>6. chipRate' \in Rates \cup {"none"} BY DEF TypeOK, Relay
<1>7. tuner' \in Peers \cup {Nobody} BY <1>2 DEF TypeOK, Relay, Tuning
<1>8. readWait' \in 0 .. Timeout BY Ranges DEF Relay
<1>9. relayed' \in Requests \cup {NoRequest} BY <1>1 DEF Relay
<1> QED BY <1>1, <1>4, <1>5, <1>6, <1>7, <1>8, <1>9 DEF TypeOK, Relay,
  clientVars, softVars

LEMMA RelayAnswerType ==
  ASSUME TypeOK, RelayAnswer
  PROVE  TypeOK'
<1>1. relayed.peer \in Peers BY DEF TypeOK, RelayAnswer, Requests
<1>2. Head(serial) \in Replies /\ serial' \in Seq(Replies)
  BY DEF TypeOK, RelayAnswer
<1>3. inbox' \in [Peers -> Seq(Replies)] /\ faults' \in 0 .. MaxFaults
  BY <1>1, <1>2, SendAnswerType DEF RelayAnswer
<1>4. readWait' \in 0 .. Timeout BY Ranges DEF RelayAnswer, NoRelay
<1> QED BY <1>2, <1>3, <1>4 DEF TypeOK, RelayAnswer, NoRelay, clientVars,
  softVars, history

LEMMA TickType ==
  ASSUME TypeOK, Tick
  PROVE  TypeOK'
<1>1. \A m \in Nat : \A n \in 0 .. m : Down(n) \in 0 .. m BY SMT DEF Down
<1>2. wait' \in [Peers -> 0 .. Timeout] BY <1>1 DEF TypeOK, Tick
<1>3. readWait' \in 0 .. Timeout BY <1>1 DEF TypeOK, Tick
<1>4. held' \in 0 .. Hold
  <2>1. held \in 0 .. Hold BY DEF TypeOK
  <2> QED BY <2>1 DEF Tick
<1> QED BY <1>2, <1>3, <1>4 DEF TypeOK, Tick, softVars, chipVars, history

\* Every variable of the proxy and of its clients keeps its type.
THEOREM TypeCorrect == Spec => []TypeOK
<1>1. Init => TypeOK
  <2> SUFFICES ASSUME Init PROVE TypeOK OBVIOUS
  <2>1. 0 \in 0 .. 1 /\ Hold \in 0 .. Hold /\ 0 \in 0 .. MaxFaults OBVIOUS
  <2>2. <<>> \in Seq(Replies) /\ <<>> \in Seq(Requests) OBVIOUS
  <2>3. /\ backend \in {"soft", "chip"}
        /\ phase \in [Peers -> {"new", "reset", "rate", "open", "closed"}]
        /\ pending \in [Peers -> Ops \cup {"none"}]
    BY DEF Init
  <2>4. /\ wait \in [Peers -> 0 .. Timeout] /\ mark \in [Peers -> 0 .. 1]
        /\ inbox \in [Peers -> Seq(Replies)] /\ toServer \in Seq(Requests)
    BY <2>1, <2>2, Ranges DEF Init
  <2>5. /\ holder \in Peers \cup {Nobody} /\ held \in 0 .. Hold
        /\ rateAcked \in BOOLEAN /\ poisoned \in BOOLEAN
        /\ chipRate \in Rates \cup {"none"}
    BY <2>1 DEF Init
  <2>6. /\ relayed \in Requests \cup {NoRequest} /\ readWait \in 0 .. Timeout
        /\ serial \in Seq(Replies)
        /\ tuner \in Peers \cup {Nobody} /\ heard \subseteq Peers
        /\ called \subseteq Peers /\ faults \in 0 .. MaxFaults
    BY <2>1, <2>2, Ranges DEF Init
  <2> QED BY <2>3, <2>4, <2>5, <2>6 DEF TypeOK
<1>2. TypeOK /\ [Next]_vars => TypeOK'
  <2> SUFFICES ASSUME TypeOK, [Next]_vars PROVE TypeOK' OBVIOUS
  <2>1. ASSUME NEW p \in Peers, Client(p) PROVE TypeOK'
    BY <2>1, ConnectType, CallType, TakeType, RecvTimeoutType, CloseType
    DEF Client
  <2>2. CASE Refuse
    BY <2>2, IncomingType DEF TypeOK, Refuse, Incoming, clientVars,
    serverVars, chipVars, softVars, portVars, history
  <2>3. CASE HandleSoft BY <2>3, HandleSoftType
  <2>4. CASE Relay BY <2>4, RelayType
  <2>5. CASE RelayAnswer BY <2>5, RelayAnswerType
  <2>6. CASE SerialTimeout
    BY <2>6, Ranges DEF TypeOK, SerialTimeout, NoRelay, clientVars,
    softVars, chipVars, history
  <2>7. CASE Tick BY <2>7, TickType
  <2>8. CASE UNCHANGED vars
    BY <2>8 DEF TypeOK, vars, clientVars, serverVars, chipVars, softVars,
    portVars, history
  <2> QED BY <2>1, <2>2, <2>3, <2>4, <2>5, <2>6, <2>7, <2>8 DEF Next, Server
<1> QED BY <1>1, <1>2, PTL DEF Spec

-----------------------------------------------------------------------------
(* A software backend keeps its peers apart.  Only HandleSoft disturbs what *)
(* these say: a step that changes the holder goes through AfterTakeover,    *)
(* whose cleared rate and voice are what makes the two inductive.           *)

SoftState == <<backend, holder, softVars, history>>

LEMMA OthersKeepSoft ==
  ASSUME Next, ~HandleSoft, backend = "soft"
  PROVE  backend' = backend /\ (UNCHANGED SoftState)
<1>1. ASSUME NEW p \in Peers, Client(p) PROVE UNCHANGED SoftState
  BY <1>1 DEF Client, Connect, Call, Take, RecvTimeout, Close, serverVars,
  SoftState
<1>2. CASE Refuse BY <1>2 DEF Refuse, serverVars, SoftState
<1>3. CASE Relay BY <1>3 DEF Relay
<1>4. CASE RelayAnswer BY <1>4 DEF RelayAnswer, SoftState
<1>5. CASE SerialTimeout BY <1>5 DEF SerialTimeout, SoftState
<1>6. CASE Tick BY <1>6 DEF Tick, SoftState
<1> QED BY <1>1, <1>2, <1>3, <1>4, <1>5, <1>6 DEF Next, Server, SoftState

LEMMA BackendKept ==
  ASSUME [Next]_vars PROVE backend' = backend
BY DEF Next, Client, Server, Connect, Call, Take, RecvTimeout, Close, Refuse,
  HandleSoft, Relay, RelayAnswer, SerialTimeout, Tick, vars

\* However its peers take it from each other, a software backend never runs
\* one's voice through state that holds another's.
THEOREM VoicesKeptApart == Spec => []OneVoiceStream
<1>1. Init => OneVoiceStream BY DEF Init, OneVoiceStream
<1>2. OneVoiceStream /\ [Next]_vars => OneVoiceStream'
  <2> SUFFICES ASSUME OneVoiceStream, [Next]_vars, backend' = "soft"
               PROVE  heard' \subseteq {holder'}
    BY DEF OneVoiceStream
  <2>1. backend = "soft" BY BackendKept
  <2>2. heard \subseteq {holder} BY <2>1 DEF OneVoiceStream
  <2>3. CASE HandleSoft
    <3> DEFINE s == AfterTakeover
    <3>1. holder' = Request.peer BY <2>3 DEF HandleSoft, Admit
    <3>2. s.heard \subseteq {holder'}
      BY <2>2, <3>1 DEF AfterTakeover, TakesOver
    <3>3. heard' \subseteq s.heard \cup {Request.peer}
      BY <2>3 DEF HandleSoft, SoftReset, SoftDrop, SoftRate, SoftGain,
      SoftVoice, Keep, Poison, AfterTakeover
    <3> QED BY <3>1, <3>2, <3>3
  <2>4. CASE Next /\ ~HandleSoft
    BY <2>1, <2>2, <2>4, OthersKeepSoft DEF SoftState, history
  <2>5. CASE UNCHANGED vars BY <2>2, <2>5 DEF vars, serverVars, history
  <2> QED BY <2>3, <2>4, <2>5
<1> QED BY <1>1, <1>2, PTL DEF Spec

\* A software backend codes voice only for the peer that negotiated the rate.
THEOREM RateNegotiated == Spec => []ServedAtOwnRate
<1>1. Init => ServedAtOwnRate BY DEF Init, ServedAtOwnRate
<1>2. ServedAtOwnRate /\ [Next]_vars => ServedAtOwnRate'
  <2> SUFFICES ASSUME ServedAtOwnRate, [Next]_vars, backend' = "soft",
                      rateAcked', ~poisoned'
               PROVE  tuner' = holder'
    BY DEF ServedAtOwnRate
  <2>1. backend = "soft" BY BackendKept
  <2>2. CASE HandleSoft
    <3> DEFINE r == Request
               s == AfterTakeover
    <3>1. holder' = r.peer BY <2>2 DEF HandleSoft, Admit
    <3>2. RatesOf = {"dmr"} BY <2>1 DEF RatesOf
    <3>3. ASSUME s.acked, ~s.poisoned, r.op \notin Rates \cup {"reset"}
          PROVE  tuner' = holder'
      <4>1. rateAcked /\ ~TakesOver BY <3>3 DEF AfterTakeover
      <4>2. ~poisoned BY <3>3, <4>1 DEF AfterTakeover
      <4>3. tuner = holder BY <2>1, <4>1, <4>2 DEF ServedAtOwnRate
      <4>4. holder = r.peer BY <4>1 DEF TakesOver
      <4>5. tuner' = tuner
        BY <2>2, <3>2, <3>3 DEF HandleSoft, Tuning, Rates
      <4> QED BY <3>1, <4>3, <4>4, <4>5
    <3>4. CASE SoftReset(r) BY <3>4 DEF SoftReset
    <3>5. CASE SoftDrop(r, s)
      <4>1. s.acked /\ ~s.poisoned BY <3>5 DEF SoftDrop, Keep
      <4> QED BY <3>5, <4>1 DEF SoftDrop
    <3>6. CASE SoftRate(r, s)
      <4>1. r.op = "dmr" BY <3>6 DEF SoftRate, Poison
      <4> QED BY <2>2, <3>1, <3>2, <4>1 DEF HandleSoft, Tuning
    <3>7. CASE SoftGain(r, s)
      BY <3>3, <3>7 DEF SoftGain, Keep, Rates
    <3>8. CASE SoftVoice(r, s)
      BY <3>3, <3>8 DEF SoftVoice, Keep, Rates
    <3> QED BY <2>2, <3>4, <3>5, <3>6, <3>7, <3>8 DEF HandleSoft
  <2>3. CASE Next /\ ~HandleSoft
    BY <2>1, <2>3, OthersKeepSoft DEF SoftState, softVars, history,
    ServedAtOwnRate
  <2>4. CASE UNCHANGED vars
    BY <2>1, <2>4 DEF vars, serverVars, softVars, history, ServedAtOwnRate
  <2> QED BY <2>2, <2>3, <2>4
<1> QED BY <1>1, <1>2, PTL DEF Spec

-----------------------------------------------------------------------------
(* The exchange of one client with a software backend: what it has on the   *)
(* way, one request or one answer and never both, is of the request it      *)
(* waits for.  A request it gives up on is gone, since the proxy empties    *)
(* its socket before any time passes.                                       *)

Unasked(p) == \A i \in 1 .. Len(toServer) : toServer[i].peer # p

AskedOnce(p) ==
  /\ \A i \in 1 .. Len(toServer) :
       toServer[i].peer = p => toServer[i].mark = mark[p]
  /\ \A i \in 1 .. Len(toServer), j \in 1 .. Len(toServer) :
       toServer[i].peer = p /\ toServer[j].peer = p => i = j

Answered(p) == \E x \in Replies : inbox[p] = <<x>> /\ x.mark = mark[p]

Exchange(p) ==
  /\ phase[p] = "new" => pending[p] = "none"
  /\ phase[p] = "closed" => inbox[p] = <<>> /\ pending[p] = "none"
  /\ phase[p] # "closed" =>
       \/ Unasked(p) /\ inbox[p] = <<>>
       \/ Unasked(p) /\ Answered(p) /\ pending[p] # "none"
       \/ /\ AskedOnce(p) /\ inbox[p] = <<>>
          /\ pending[p] # "none" /\ wait[p] = Timeout

Exchanged ==
  backend = "soft" => relayed = NoRequest /\ \A p \in Peers : Exchange(p)

AInv == TypeOK /\ Exchanged

\* A step that neither touches a peer nor asks anything for it.
LEMMA ExchangeKept ==
  ASSUME NEW q, Exchange(q),
         phase'[q] = phase[q], pending'[q] = pending[q], mark'[q] = mark[q],
         inbox'[q] = inbox[q], wait'[q] = wait[q],
         Unasked(q) => Unasked(q)', AskedOnce(q) => AskedOnce(q)'
  PROVE  Exchange(q)'
<1>1. Answered(q) => Answered(q)' BY DEF Answered
<1> QED BY <1>1 DEF Exchange

\* Sending a request on an idle exchange.
LEMMA Asking ==
  ASSUME TypeOK, NEW p \in Peers, NEW op \in Ops, SendRequest(p, op), Unasked(p)
  PROVE  /\ AskedOnce(p)' /\ pending'[p] # "none" /\ wait'[p] = Timeout
         /\ \A q \in Peers \ {p} :
              /\ pending'[q] = pending[q] /\ wait'[q] = wait[q]
              /\ mark'[q] = mark[q]
              /\ Unasked(q) => Unasked(q)'
              /\ AskedOnce(q) => AskedOnce(q)'
<1> DEFINE r == [peer |-> p, op |-> op, mark |-> 1 - mark[p]]
<1>1. /\ pending'[p] = op /\ wait'[p] = Timeout /\ mark'[p] = 1 - mark[p]
      /\ \A q \in Peers \ {p} :
           /\ pending'[q] = pending[q] /\ wait'[q] = wait[q]
           /\ mark'[q] = mark[q]
  BY DEF SendRequest, TypeOK
<1>2. op # "none" BY DEF Ops, Rates
<1>3. CASE toServer' = Append(toServer, r)
  <2>1. r \in Requests
    <3>1. mark[p] \in 0 .. 1 BY DEF TypeOK
    <3>2. 1 - mark[p] \in 0 .. 1 BY <3>1, Ranges
    <3> QED BY <3>2 DEF Requests
  <2> DEFINE n == Len(toServer)
  <2>2. /\ n \in Nat /\ Len(toServer') = n + 1 /\ toServer'[n + 1] = r
        /\ \A i \in 1 .. n : toServer'[i] = toServer[i]
    BY <1>3, <2>1, AppendProperties, LenProperties DEF TypeOK
  <2>3. r.peer = p /\ r.mark = mark'[p] BY <1>1
  <2> HIDE DEF r
  <2>4. \A i \in 1 .. Len(toServer') :
          \/ i \in 1 .. n /\ toServer'[i] = toServer[i]
          \/ i = n + 1 /\ toServer'[i] = r
    BY <2>2
  <2>5. AskedOnce(p)' BY <2>3, <2>4 DEF AskedOnce, Unasked
  <2>6. \A q \in Peers \ {p} : Unasked(q) => Unasked(q)'
    BY <2>3, <2>4 DEF Unasked
  <2>7. \A q \in Peers \ {p} : AskedOnce(q) => AskedOnce(q)'
    BY <1>1, <2>3, <2>4 DEF AskedOnce
  <2> QED BY <1>1, <1>2, <2>5, <2>6, <2>7
<1>4. CASE UNCHANGED toServer
  BY <1>1, <1>2, <1>4 DEF AskedOnce, Unasked
<1> QED BY <1>3, <1>4 DEF SendRequest

\* Taking a request out of the proxy's socket.
LEMMA Unqueued ==
  ASSUME TypeOK, toServer # <<>>, toServer' = Tail(toServer), UNCHANGED mark
  PROVE  \A q \in Peers :
           /\ Unasked(q) => Unasked(q)' /\ Request.peer # q
           /\ AskedOnce(q) => AskedOnce(q)'
           /\ AskedOnce(q) /\ Request.peer = q
                => Unasked(q)' /\ Request.mark = mark[q]
<1>1. /\ Len(toServer) \in Nat \ {0} /\ Len(toServer') = Len(toServer) - 1
      /\ \A i \in 1 .. Len(toServer') : toServer'[i] = toServer[i + 1]
      /\ Request = toServer[1]
  <2>1. toServer \in Seq(Requests) BY DEF TypeOK
  <2> QED BY <2>1, HeadTailProperties DEF Request
<1>2. 1 \in 1 .. Len(toServer)
      /\ \A i \in 1 .. Len(toServer') : i + 1 \in 1 .. Len(toServer) /\ i + 1 # 1
  BY <1>1
<1>3. \A i \in 1 .. Len(toServer'), j \in 1 .. Len(toServer') :
        i + 1 = j + 1 => i = j
  BY <1>1
<1> QED BY <1>1, <1>2, <1>3 DEF Unasked, AskedOnce

\* A client between two requests has nothing on the way.
LEMMA IdleExchange ==
  ASSUME NEW p, Exchange(p), phase[p] # "closed", pending[p] = "none"
  PROVE  Unasked(p) /\ inbox[p] = <<>>
BY DEF Exchange

\* Whatever comes of a request, the next one finds nothing of it left.
LEMMA ConcludedExchange ==
  ASSUME TypeOK, NEW p \in Peers, NEW ok \in BOOLEAN, Conclude(p, ok),
         Unasked(p), inbox'[p] = <<>>, phase[p] # "new",
         \A q \in Peers \ {p} : Exchange(q) /\ inbox'[q] = inbox[q]
  PROVE  \A q \in Peers : Exchange(q)'
<1>1. /\ \A q \in Peers \ {p} : phase'[q] = phase[q]
      /\ phase'[p] \in {"open", "closed", "rate"}
  BY DEF Conclude, TypeOK
<1>2. CASE ok /\ phase[p] = "reset"
  <2>1. SendRequest(p, "dmr") /\ "dmr" \in Ops /\ phase'[p] # "closed"
    BY <1>2 DEF Conclude, Ops, Rates, TypeOK
  <2>2. Exchange(p)' BY <1>1, <2>1, Asking DEF Exchange
  <2>3. \A q \in Peers \ {p} : Exchange(q)'
    BY <1>1, <2>1, Asking, ExchangeKept
  <2> QED BY <2>2, <2>3
<1>3. CASE ~(ok /\ phase[p] = "reset")
  <2>1. /\ UNCHANGED <<mark, toServer>> /\ pending'[p] = "none"
        /\ \A q \in Peers \ {p} : pending'[q] = pending[q] /\ wait'[q] = wait[q]
    BY <1>3 DEF Conclude, NoMoreRequests, TypeOK
  <2>2. \A q : (Unasked(q) => Unasked(q)') /\ (AskedOnce(q) => AskedOnce(q)')
    BY <2>1 DEF Unasked, AskedOnce
  <2>3. Exchange(p)' BY <1>1, <2>1, <2>2 DEF Exchange
  <2>4. \A q \in Peers \ {p} : Exchange(q)'
    BY <1>1, <2>1, <2>2, ExchangeKept
  <2> QED BY <2>3, <2>4
<1> QED BY <1>2, <1>3

LEMMA ClientExchange ==
  ASSUME TypeOK, \A q \in Peers : Exchange(q), NEW p \in Peers, Client(p)
  PROVE  \A q \in Peers : Exchange(q)'
<1>0. Exchange(p) OBVIOUS
<1>1. CASE Connect(p)
  <2>1. Unasked(p) /\ inbox[p] = <<>> /\ UNCHANGED inbox
    BY <1>0, <1>1, IdleExchange DEF Connect, Exchange
  <2>2. CASE p \in Tools
    <3>1. /\ UNCHANGED <<pending, wait, mark, toServer>>
          /\ phase' = [phase EXCEPT ![p] = "open"]
      BY <1>1, <2>2 DEF Connect
    <3>2. \A q : (Unasked(q) => Unasked(q)') /\ (AskedOnce(q) => AskedOnce(q)')
      BY <3>1 DEF Unasked, AskedOnce
    <3>3. phase'[p] = "open" /\ \A q \in Peers \ {p} : phase'[q] = phase[q]
      BY <3>1 DEF TypeOK
    <3>4. Exchange(p)' BY <2>1, <3>1, <3>2, <3>3 DEF Exchange
    <3>5. \A q \in Peers \ {p} : Exchange(q)'
      BY <2>1, <3>1, <3>2, <3>3, ExchangeKept
    <3> QED BY <3>4, <3>5
  <2>3. CASE p \notin Tools
    <3>1. SendRequest(p, "reset") /\ "reset" \in Ops BY <1>1, <2>3 DEF Connect, Ops
    <3>2. phase'[p] = "reset" /\ \A q \in Peers \ {p} : phase'[q] = phase[q]
      BY <1>1, <2>3 DEF Connect, TypeOK
    <3>3. Exchange(p)' BY <2>1, <3>1, <3>2, Asking DEF Exchange
    <3>4. \A q \in Peers \ {p} : Exchange(q)'
      BY <2>1, <3>1, <3>2, Asking, ExchangeKept
    <3> QED BY <3>3, <3>4
  <2> QED BY <2>2, <2>3
<1>2. CASE Call(p)
  <2>1. Unasked(p) /\ inbox[p] = <<>> /\ UNCHANGED <<inbox, phase>>
        /\ phase[p] = "open"
    BY <1>0, <1>2, IdleExchange DEF Call
  <2>2. PICK op \in Ops : SendRequest(p, op) BY <1>2 DEF Call, Ops
  <2>3. Exchange(p)' BY <2>1, <2>2, Asking DEF Exchange
  <2>4. \A q \in Peers \ {p} : Exchange(q)'
    BY <2>1, <2>2, Asking, ExchangeKept
  <2> QED BY <2>3, <2>4
<1>3. CASE Take(p)
  <2>1. /\ pending[p] # "none" /\ inbox[p] # <<>>
        /\ inbox' = [inbox EXCEPT ![p] = Tail(@)]
        /\ Conclude(p, Head(inbox[p]).kind \in Content(p))
    BY <1>3 DEF Take
  <2>2. Unasked(p) /\ Answered(p) /\ phase[p] # "new"
    BY <1>0, <2>1 DEF Exchange
  <2>3. Tail(inbox[p]) = <<>> BY <2>2 DEF Answered
  <2>4. inbox'[p] = <<>> /\ \A q \in Peers \ {p} : inbox'[q] = inbox[q]
    BY <2>1, <2>3 DEF TypeOK
  <2>5. (Head(inbox[p]).kind \in Content(p)) \in BOOLEAN OBVIOUS
  <2>6. \A q \in Peers \ {p} : Exchange(q) OBVIOUS
  <2> QED BY <2>1, <2>2, <2>4, <2>5, <2>6, ConcludedExchange
<1>4. CASE RecvTimeout(p)
  <2>1. /\ pending[p] # "none" /\ inbox[p] = <<>> /\ wait[p] = 0
        /\ Conclude(p, FALSE) /\ UNCHANGED inbox
    BY <1>4 DEF RecvTimeout, Expired
  <2>2. wait[p] # Timeout BY <2>1
  <2>3. Unasked(p) /\ phase[p] # "new" BY <1>0, <2>1, <2>2 DEF Exchange
  <2> QED BY <2>1, <2>3, ConcludedExchange
<1>5. CASE Close(p)
  <2>1. /\ phase'[p] = "closed" /\ pending'[p] = "none" /\ inbox'[p] = <<>>
        /\ UNCHANGED <<mark, toServer>>
        /\ \A q \in Peers \ {p} :
             /\ phase'[q] = phase[q] /\ pending'[q] = pending[q]
             /\ wait'[q] = wait[q] /\ inbox'[q] = inbox[q]
    BY <1>5 DEF Close, TypeOK
  <2>2. \A q : (Unasked(q) => Unasked(q)') /\ (AskedOnce(q) => AskedOnce(q)')
    BY <2>1 DEF Unasked, AskedOnce
  <2>3. \A q \in Peers \ {p} : Exchange(q)' BY <2>1, <2>2, ExchangeKept
  <2> QED BY <2>1, <2>3 DEF Exchange
<1> QED BY <1>1, <1>2, <1>3, <1>4, <1>5 DEF Client

\* What a software backend may do to its clients in handling a request.
LEMMA SoftAnswers ==
  ASSUME TypeOK, HandleSoft
  PROVE  /\ toServer # <<>> /\ toServer' = Tail(toServer) /\ relayed' = relayed
         /\ UNCHANGED <<phase, pending, wait, mark>>
         /\ Request.peer \in Peers
         /\ \A q \in Peers \ {Request.peer} : inbox'[q] = inbox[q]
         /\ \/ inbox'[Request.peer] = inbox[Request.peer]
            \/ \E x \in Replies :
                 /\ x.mark = Request.mark /\ phase[Request.peer] # "closed"
                 /\ inbox'[Request.peer] = Append(inbox[Request.peer], x)
<1> DEFINE r == Request
           s == AfterTakeover
<1>1. /\ toServer # <<>> /\ toServer' = Tail(toServer) /\ relayed' = relayed
      /\ UNCHANGED <<phase, pending, wait, mark>>
  BY DEF HandleSoft, Admit, Incoming, clientVars, portVars
<1>2. r.peer \in Peers /\ r.mark \in 0 .. 1
  BY <1>1, IncomingType DEF Requests
<1>3. \/ inbox' = inbox
      \/ \E kind \in Answers : SendAnswer(r.peer, Reply(kind, r))
  BY DEF HandleSoft, SoftReset, SoftDrop, SoftRate, SoftGain, SoftVoice,
  Answers
<1>4. CASE inbox' = inbox BY <1>1, <1>2, <1>4
<1>5. CASE \E kind \in Answers : SendAnswer(r.peer, Reply(kind, r))
  <2>1. PICK kind \in Answers : SendAnswer(r.peer, Reply(kind, r)) BY <1>5
  <2> DEFINE x == Reply(kind, r)
  <2>2. x \in Replies /\ x.mark = r.mark BY <1>2 DEF Reply, Replies
  <2>3. CASE inbox' = inbox BY <1>1, <1>2, <2>3
  <2>4. CASE inbox' # inbox
    <3>1. /\ phase[r.peer] # "closed"
          /\ inbox' = [inbox EXCEPT ![r.peer] = Append(@, x)]
      BY <2>1, <2>4 DEF SendAnswer
    <3> HIDE DEF r, x
    <3>2. /\ inbox'[r.peer] = Append(inbox[r.peer], x)
          /\ \A q \in Peers \ {r.peer} : inbox'[q] = inbox[q]
      BY <1>2, <3>1 DEF TypeOK
    <3> QED BY <1>1, <1>2, <2>2, <3>1, <3>2 DEF r
  <2> QED BY <2>3, <2>4
<1> QED BY <1>3, <1>4, <1>5

LEMMA SoftExchange ==
  ASSUME TypeOK, \A q \in Peers : Exchange(q), HandleSoft
  PROVE  relayed' = relayed /\ \A q \in Peers : Exchange(q)'
<1>0. PICK p \in Peers : p = Request.peer BY SoftAnswers
<1>1. /\ toServer # <<>> /\ toServer' = Tail(toServer) /\ relayed' = relayed
      /\ UNCHANGED <<phase, pending, wait, mark>>
      /\ \A q \in Peers \ {p} : inbox'[q] = inbox[q]
  BY <1>0, SoftAnswers
<1>2. \A q \in Peers :
        /\ Unasked(q) => Unasked(q)' /\ p # q
        /\ AskedOnce(q) => AskedOnce(q)'
        /\ AskedOnce(q) /\ p = q => Unasked(q)' /\ Request.mark = mark[q]
  BY <1>0, <1>1, Unqueued
<1>3. \A q \in Peers \ {p} : Exchange(q)' BY <1>1, <1>2, ExchangeKept
<1>4. CASE inbox'[p] = inbox[p] BY <1>1, <1>2, <1>3, <1>4, ExchangeKept
<1>5. CASE inbox'[p] # inbox[p]
  <2>1. PICK x \in Replies :
          /\ x.mark = Request.mark /\ phase[p] # "closed"
          /\ inbox'[p] = Append(inbox[p], x)
    BY <1>0, <1>5, SoftAnswers
  <2>2. AskedOnce(p) /\ inbox[p] = <<>> /\ pending[p] # "none"
    BY <1>1, <1>2, <2>1 DEF Exchange
  <2>3. Append(<<>>, x) = <<x>> OBVIOUS
  <2>4. Unasked(p)' /\ Request.mark = mark[p] BY <1>1, <1>2, <2>2
  <2>5. inbox'[p] = <<x>> /\ x.mark = mark'[p]
    BY <1>1, <2>1, <2>2, <2>3, <2>4
  <2>6. Answered(p)' BY <2>5 DEF Answered
  <2>7. phase[p] # "new" BY <1>1, <2>2 DEF Exchange
  <2>8. Exchange(p)' BY <1>1, <2>1, <2>2, <2>4, <2>6, <2>7 DEF Exchange
  <2> QED BY <1>1, <1>3, <2>8
<1> QED BY <1>4, <1>5

\* Time passes only when the proxy's socket is empty: a client that times out
\* has nothing left in it.
LEMMA TickExchange ==
  ASSUME TypeOK, \A q \in Peers : Exchange(q), relayed = NoRequest, Tick
  PROVE  \A q \in Peers : Exchange(q)'
<1>1. /\ toServer = <<>>
      /\ UNCHANGED <<phase, pending, mark, inbox, toServer>>
  BY DEF Tick, Prompt, Incoming
<1>2. ASSUME NEW q \in Peers PROVE Unasked(q) /\ Unasked(q)'
  BY <1>1 DEF Unasked
<1>3. ASSUME NEW q \in Peers PROVE Answered(q) => Answered(q)'
  BY <1>1 DEF Answered
<1>4. ASSUME NEW q \in Peers, Exchange(q) PROVE Exchange(q)'
  <2>1. phase[q] # "closed" =>
          inbox[q] = <<>> \/ (Answered(q) /\ pending[q] # "none")
    BY <1>4 DEF Exchange
  <2> QED BY <1>1, <1>2, <1>3, <1>4, <2>1 DEF Exchange
<1> QED BY <1>4

LEMMA AStep ==
  ASSUME AInv, [Next]_vars, TypeOK'
  PROVE  AInv'
<1> SUFFICES ASSUME backend = "soft"
             PROVE  relayed' = NoRequest /\ \A q \in Peers : Exchange(q)'
  BY BackendKept DEF AInv, Exchanged
<1>1. TypeOK /\ relayed = NoRequest /\ \A q \in Peers : Exchange(q)
  BY DEF AInv, Exchanged
<1>2. ASSUME NEW p \in Peers, Client(p)
      PROVE  relayed' = NoRequest /\ \A q \in Peers : Exchange(q)'
  <2>1. relayed' = relayed
    BY <1>2 DEF Client, Connect, Call, Take, RecvTimeout, Close, serverVars,
    portVars, chipVars
  <2> QED BY <1>1, <1>2, <2>1, ClientExchange
<1>3. CASE Refuse
  <2>1. /\ toServer # <<>> /\ toServer' = Tail(toServer) /\ relayed' = relayed
        /\ UNCHANGED <<phase, pending, wait, mark, inbox>>
    BY <1>3 DEF Refuse, Incoming, clientVars, serverVars, portVars
  <2>2. \A q \in Peers : /\ Unasked(q) => Unasked(q)'
                         /\ AskedOnce(q) => AskedOnce(q)'
    BY <1>1, <2>1, Unqueued
  <2> QED BY <1>1, <2>1, <2>2, ExchangeKept
<1>4. CASE HandleSoft BY <1>1, <1>4, SoftExchange
<1>5. CASE Relay BY <1>5 DEF Relay
<1>6. CASE RelayAnswer \/ SerialTimeout
  BY <1>1, <1>6 DEF RelayAnswer, SerialTimeout
<1>7. CASE Tick
  <2>1. relayed' = relayed BY <1>7 DEF Tick
  <2> QED BY <1>1, <1>7, <2>1, TickExchange
<1>8. CASE UNCHANGED vars
  <2>1. UNCHANGED <<phase, pending, wait, mark, inbox, toServer, relayed>>
    BY <1>8 DEF vars, clientVars, serverVars, portVars, chipVars
  <2>2. \A q : (Unasked(q) => Unasked(q)') /\ (AskedOnce(q) => AskedOnce(q)')
    BY <2>1 DEF Unasked, AskedOnce
  <2> QED BY <1>1, <2>1, <2>2, ExchangeKept
<1> QED BY <1>2, <1>3, <1>4, <1>5, <1>6, <1>7, <1>8 DEF Next, Server

\* No client of a software backend takes the answer to a request it gave up
\* on for the answer to the one it waits for, although requests carry no
\* number: what is left of a request is gone before its client asks again.
THEOREM NeverTheAnswerBefore == Spec => AnswersMatch
<1>1. Init => Exchanged
  <2> SUFFICES ASSUME Init, NEW p \in Peers PROVE Exchange(p)
    BY DEF Init, Exchanged
  <2>1. Unasked(p) BY DEF Init, Unasked
  <2> QED BY <2>1 DEF Init, Exchange
<1>2. TypeOK /\ TypeOK' /\ Exchanged /\ [Next]_vars => Exchanged'
  BY AStep DEF AInv, Exchanged
<1>3. TypeOK /\ Exchanged /\ [Next]_vars =>
        [\A p \in Peers :
           Take(p) /\ backend = "soft" => Head(inbox[p]).mark = mark[p]]_vars
  <2> SUFFICES ASSUME TypeOK, Exchanged, NEW p \in Peers, Take(p),
                      backend = "soft"
               PROVE  Head(inbox[p]).mark = mark[p]
    OBVIOUS
  <2>1. inbox[p] # <<>> BY DEF Take
  <2>2. Exchange(p) BY DEF Exchanged
  <2>3. Answered(p) BY <2>1, <2>2 DEF Exchange
  <2>4. PICK x \in Replies : inbox[p] = <<x>> /\ x.mark = mark[p]
    BY <2>3 DEF Answered
  <2> QED BY <2>4
<1> QED BY <1>1, <1>2, <1>3, TypeCorrect, PTL DEF Spec, AnswersMatch

=============================================================================
