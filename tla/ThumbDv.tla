------------------------------ MODULE ThumbDv ------------------------------
(***************************************************************************)
(* The serial clients of a DV3000 chip (ambe/src/thumbdv.rs): ThumbDv, the *)
(* vocoder of a bridge, and ThumbDvClient, the ChipClient of a tool.       *)
(*                                                                         *)
(* A client writes a request and reads the next answer off a byte stream,  *)
(* header first.  The stream outlives a client: what one did not read, or  *)
(* what the chip answers once it is gone, the next one may find.           *)
(***************************************************************************)
EXTENDS Dv3000

CONSTANTS
  Ready,         \* bound of the model on the answers awaiting a reader
  MaxOpens,      \* sessions on one port, a process restarting after each
  MaxCalls,      \* calls of a session
  MaxTimeouts,   \* reads that run into SERIAL_TIMEOUT (2 s)
  Gains          \* gains asked for, in dB

ASSUME BoundAssumption ==
  /\ Ready \in Nat \ {0} /\ MaxOpens \in Nat \ {0}
  /\ MaxCalls \in Nat /\ MaxTimeouts \in Nat /\ Gains \subseteq Int

VARIABLES
  role,       \* who has the port: vocoder (ThumbDv) or tool (ThumbDvClient)
  phase,      \* closed, opening (open() runs), open
  step,       \* the request of open() it is at
  call,       \* the operation under way, "none" between two
  inPayload,  \* it has read the header and wants the payload
  toChip,     \* requests written
  rate,       \* the chip's rate; "reset" for its power-on default
  gain,       \* the chip's gains
  port,       \* answers of the chip not wholly read
  ends,       \* the byte each of them ends at, from the start of the first
  skip,       \* bytes already read of the first of them
  have,       \* bytes in the port's receive buffer
  stale,      \* history: answers that were still to come when it was opened
  failures,   \* history: reads of the session that ended in an error
  opens, calls, timeouts

bounds == <<opens, calls, timeouts>>
client == <<role, phase, step, call, inPayload>>
chip == <<rate, gain>>
stream == <<port, ends, skip, have>>
history == <<stale, failures>>
vars == <<client, toChip, chip, stream, history, bounds>>

-----------------------------------------------------------------------------
(* The byte stream. *)

\* Where the first i answers of the port end.
End(i) == IF i = 0 THEN 0 ELSE ends[i]
Unread == End(Len(port)) - skip

\* Reading n bytes, or dropping them: the answers that end within them are gone.
Consume(n) ==
  /\ \E k \in 0 .. Len(port) :
       /\ End(k) <= skip + n /\ \A i \in k + 1 .. Len(port) : skip + n < End(i)
       /\ port' = SubSeq(port, k + 1, Len(port))
       /\ ends' = [i \in 1 .. Len(port) - k |-> End(k + i) - End(k)]
       /\ skip' = skip + n - End(k)
  /\ have' = have - n

\* Bytes arrive: all there are, or all but the payload of the last answer.
Arrive ==
  /\ have < Unread
  /\ \E missing \in {0, port[Len(port)].len} :
       /\ have < Unread - missing
       /\ have' = Unread - missing
  /\ UNCHANGED <<client, toChip, chip, port, ends, skip, history, bounds>>

-----------------------------------------------------------------------------
(* The chip, an AMBE-3000R: it answers each request in turn, with a frame at *)
(* the rate it is set to, and may refuse a setting.                          *)
Answers(packet) ==
  CASE packet.type = "audio" ->
         {BuildAmbeForBits(RATEP[IF rate = "reset" THEN "RAW" ELSE rate],
                           packet.data)}
    [] packet.type = "ambe" -> {BuildAudio(packet.data)}
    [] packet.type = "control" ->
         CASE packet.field = "reset" -> {BuildReady}
           [] packet.field = "prodid" -> {BuildProdidResponse}
           [] OTHER -> {BuildControlAck(packet.field, result) : result \in {0, 1}}

ChipAnswers ==
  /\ toChip # <<>> /\ Len(port) < Ready
  /\ toChip' = Tail(toChip)
  /\ LET packet == Head(toChip) IN
     \E answer \in Answers(packet) :
       /\ port' = Append(port, answer)
       /\ ends' = Append(ends, End(Len(port)) + Size(answer))
       /\ rate' = CASE packet.field = "reset" -> "reset"
                    [] packet.field = "ratep" /\ answer.data = 0 -> packet.data
                    [] OTHER -> rate
       /\ gain' = CASE packet.field = "reset" -> <<0, 0>>
                    [] packet.field = "gain" /\ answer.data = 0 -> packet.data
                    [] OTHER -> gain
  /\ UNCHANGED <<client, skip, have, history, bounds>>

-----------------------------------------------------------------------------
(* A client. *)

Opening == [vocoder |-> <<"reset", "prodid", "ratep">>, tool |-> <<"reset">>]

\* The packet of an operation: a vocoder runs the chip at the DMR rate.
Requests(op) ==
  CASE op = "reset" -> {BuildReset}
    [] op = "prodid" -> {BuildProdid}
    [] op = "ratep" -> {BuildRatep(r) : r \in IF role = "tool" THEN {"DMR", "RAW"}
                                              ELSE {"DMR"}}
    [] op = "gain" -> {BuildGain(i, 0) : i \in Gains}
    [] op = "encode" -> {BuildAudio("pcm")}
    [] op = "decode" -> IF role = "tool" THEN {BuildAmbeForBits(49, "bits")}
                        ELSE {BuildAmbe("frame"), BuildAmbeLostFrame}

\* Mutant: the ack of a gain is not waited for.
WriteGainUnread(op) ==
  /\ call' = IF op = "gain" THEN "none" ELSE op
  /\ \E packet \in Requests(op) : toChip' = Append(toChip, packet)

\* send_raw: written and flushed.
Write(op) ==
  /\ call' = op
  /\ \E packet \in Requests(op) : toChip' = Append(toChip, packet)

\* The settings a latency_timer file may be found in; REQUIRED_LATENCY_MS is 1.
LatencyTimers == {"absent", "1ms", "16ms", "unparseable"}
LatencyOk(timer) == timer \in {"absent", "1ms"}

\* open() up to its first request.  The bridge checks the latency timer; the
\* tool empties the port's buffers.
Open ==
  /\ phase = "closed" /\ opens < MaxOpens /\ opens' = opens + 1
  /\ \E r \in DOMAIN Opening, timer \in LatencyTimers :
       /\ role' = r
       /\ phase' = IF r = "tool" \/ LatencyOk(timer) THEN "opening" ELSE "closed"
       /\ IF r = "tool"
          THEN Consume(have)
          ELSE UNCHANGED stream
  /\ stale' = Len(toChip) + Len(port') /\ failures' = 0
  /\ step' = 1 /\ call' = "none" /\ calls' = 0
  /\ UNCHANGED <<inPayload, toChip, chip, timeouts>>

Ask ==
  /\ phase = "opening" /\ call = "none"
  /\ Write(Opening[role][step])
  /\ UNCHANGED <<role, phase, step, inPayload, chip, stream, history, bounds>>

Methods == {"encode", "decode", "gain"} \cup
           IF role = "tool" THEN {"reset", "ratep"} ELSE {}
Call ==
  /\ phase = "open" /\ call = "none" /\ calls < MaxCalls /\ calls' = calls + 1
  /\ \E op \in Methods : Write(op)
  /\ UNCHANGED <<role, phase, step, inPayload, chip, stream, history, opens,
                 timeouts>>

\* The answer each operation is content with; open() asks nothing of PRODID's.
Content(op, answer) ==
  CASE op = "reset" -> IsReady(answer)
    [] op = "prodid" -> answer.kind # "error"
    [] op = "ratep" -> IsRatepAck(answer)
    [] op = "gain" -> IsGainAck(answer)
    [] op = "encode" -> answer.kind \in IF role = "tool" THEN {"Ambe", "AmbeBits"}
                                        ELSE {"Ambe"}
    [] op = "decode" -> answer.kind = "Audio"

\* Err: open() gives the port back, and the program ends; a method returns.
Failed ==
  /\ phase' = IF phase = "opening" THEN "closed" ELSE phase
  /\ call' = "none" /\ inPayload' = FALSE /\ failures' = failures + 1
  /\ UNCHANGED <<role, step>>

Returned ==
  /\ IF phase = "opening" /\ step < Len(Opening[role])
     THEN step' = step + 1 /\ UNCHANGED phase
     ELSE phase' = "open" /\ UNCHANGED step
  /\ call' = "none" /\ inPayload' = FALSE
  /\ UNCHANGED <<role, failures>>

\* recv reads a header.  Out of step it finds other bytes where the start byte
\* should be, and leaves what follows them for the next call.
ReadHeader ==
  /\ call # "none" /\ ~inPayload /\ have >= HEADER_SIZE
  /\ Consume(HEADER_SIZE)
  /\ IF skip = 0 /\ Size(Head(port)) <= MAX_PACKET
     THEN inPayload' = TRUE /\ UNCHANGED <<role, phase, step, call, failures>>
     ELSE Failed
  /\ UNCHANGED <<toChip, chip, stale, bounds>>

ReadPayload ==
  /\ inPayload /\ have >= Head(port).len
  /\ Consume(Head(port).len)
  /\ IF Content(call, Parse(Head(port)))
     THEN Returned
     ELSE Failed
  /\ UNCHANGED <<toChip, chip, stale, bounds>>

\* SERIAL_TIMEOUT: what read_exact had taken is gone.
ReadTimesOut ==
  /\ call # "none" /\ timeouts < MaxTimeouts /\ timeouts' = timeouts + 1
  /\ have < IF inPayload THEN Head(port).len ELSE HEADER_SIZE
  /\ Consume(have)
  /\ Failed
  /\ UNCHANGED <<toChip, chip, stale, opens, calls>>

\* The process ends, killed or done, whatever it waits for.  The driver keeps
\* what has arrived for the next one, or drops it.
Close ==
  /\ phase # "closed" /\ opens < MaxOpens
  /\ phase' = "closed" /\ call' = "none" /\ inPayload' = FALSE
  /\ UNCHANGED stream \/ Consume(have)
  /\ UNCHANGED <<role, step, toChip, chip, history, bounds>>

\* The bounds are used up.
Rest ==
  /\ IF call = "none"
     THEN IF phase = "open" THEN calls = MaxCalls ELSE opens = MaxOpens
     ELSE timeouts = MaxTimeouts
  /\ UNCHANGED vars

-----------------------------------------------------------------------------
Init ==
  /\ role = "vocoder" /\ phase = "closed" /\ step = 1
  /\ call = "none" /\ inPayload = FALSE
  /\ toChip = <<>> /\ rate \in {"reset", "RAW"} /\ gain = <<0, 0>>
  /\ port = <<>> /\ ends = <<>> /\ skip = 0 /\ have = 0
  /\ stale = 0 /\ failures = 0
  /\ opens = 0 /\ calls = 0 /\ timeouts = 0

Next ==
  \/ Open \/ Ask \/ Call \/ ReadHeader \/ ReadPayload \/ ReadTimesOut \/ Close
  \/ ChipAnswers \/ Arrive \/ Rest

Spec == Init /\ [][Next]_vars

-----------------------------------------------------------------------------
Pending == Len(toChip) + Len(port)

\* A port that holds fewer stale answers than open() asks questions is no
\* danger: when open() returns a vocoder, the chip is at the DMR rate and
\* nothing is left to read.  A READY or an ack of an earlier session, killed
\* or timed out at any request, is not taken for the chip's own at each step.
OpenedInStep ==
  [][phase = "opening" /\ phase' = "open" /\ role = "vocoder"
       /\ stale < Len(Opening[role])
       => rate = "DMR" /\ Pending' = 0]_vars

\* Between calls an open client is behind the chip by one answer at most for
\* each read that failed, so until one does each call returns its own answer:
\* the only other cause is a residue as long as open() itself.
BehindByFailures ==
  phase = "open" /\ call = "none"
    => Pending <= failures + IF stale < Len(Opening[role]) THEN 0 ELSE stale
=============================================================================
