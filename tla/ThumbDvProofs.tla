--------------------------- MODULE ThumbDvProofs ---------------------------
(***************************************************************************)
(* That a client of the serial port is behind the chip by its failed reads *)
(* at most, and that one opened on a port with fewer stale answers than    *)
(* questions is in step with a chip at the DMR rate: for any number of     *)
(* sessions, calls and timeouts, any buffer, any gains.                    *)
(***************************************************************************)
EXTENDS ThumbDv, SequenceTheorems, TLAPS

-----------------------------------------------------------------------------
(* The packets. *)

Fields == {"speech", "channel", "reset", "prodid", "ratep", "gain", "ready"}
Data == {"pcm", "frame", "lost", "bits", "product", "nothing", "DMR", "RAW"}
          \cup Int \cup Int \X Int
Packets ==
  [type : {"audio", "ambe", "control"}, field : Fields, count : Nat, data : Data,
   len : Nat \ {0}]

Rates == {"DMR", "RAW"}
Asks == {p \in Packets : p.field = "ratep" => p.data \in Rates}

\* The field of the answer to a request.
AnswerField(packet) ==
  IF packet.type = "audio" THEN "channel"
  ELSE IF packet.type = "ambe" THEN "speech"
  ELSE IF packet.field = "reset" THEN "ready" ELSE packet.field

Operations == {"reset", "prodid", "ratep", "gain", "encode", "decode"}

LEMMA DataFit ==
  /\ \A d \in {"pcm", "frame", "lost", "bits", "product", "nothing", "DMR", "RAW"} : d \in Data
  /\ \A i \in Int : i \in Data
  /\ \A i, j \in Int : <<i, j>> \in Data
  BY DEF Data

\* What is asked is a request with an answer of its own.
LEMMA RequestsFit ==
  ASSUME NEW op \in Operations, NEW packet \in Requests(op)
  PROVE  /\ packet \in Asks
         /\ op = "reset" => AnswerField(packet) = "ready"
         /\ op = "prodid" => AnswerField(packet) = "prodid"
         /\ op = "ratep" => AnswerField(packet) = "ratep"
         /\ op = "ratep" /\ role # "tool" => packet = BuildRatep("DMR")
  <1>0. /\ op = "reset" => packet = BuildReset
        /\ op = "prodid" => packet = BuildProdid
        /\ op = "ratep" => \E r \in IF role = "tool" THEN Rates ELSE {"DMR"} :
                             packet = BuildRatep(r)
        /\ op = "gain" => \E g \in Gains : packet = BuildGain(g, 0)
        /\ op = "encode" => packet = BuildAudio("pcm")
        /\ op = "decode" => packet \in {BuildAmbeForBits(49, "bits"),
                                       BuildAmbe("frame"), BuildAmbeLostFrame}
    BY Zenon DEF Requests, Operations, Rates
  <1>1. CASE op = "reset"
    <2>1. packet = Payload("control", "reset", 0, "nothing", 1 + 0)
      BY <1>0, <1>1 DEF BuildReset, Control
    <2>2. packet \in Packets /\ packet.type = "control" /\ packet.field = "reset"
      BY <2>1, DataFit DEF Fields, Payload, Packets
    <2> QED BY <1>1, <2>2 DEF Asks, AnswerField
  <1>2. CASE op = "prodid"
    <2>1. packet = Payload("control", "prodid", 0, "nothing", 1 + 0)
      BY <1>0, <1>2 DEF BuildProdid, Control
    <2>2. packet \in Packets /\ packet.type = "control" /\ packet.field = "prodid"
      BY <2>1, DataFit DEF Fields, Payload, Packets
    <2> QED BY <1>2, <2>2 DEF Asks, AnswerField
  <1>3. CASE op = "ratep"
    <2>1. PICK r \in IF role = "tool" THEN Rates ELSE {"DMR"} : packet = BuildRatep(r)
      BY <1>0, <1>3
    <2>2. r \in Rates /\ (role # "tool" => r = "DMR")
      BY <2>1 DEF Rates
    <2>3. packet = Payload("control", "ratep", 0, r, 1 + 12)
      BY <2>1 DEF BuildRatep, Control
    <2>4. /\ packet \in Packets /\ packet.type = "control" /\ packet.field = "ratep"
          /\ packet.data = r
      BY <2>2, <2>3, DataFit DEF Fields, Payload, Packets, Rates
    <2> QED BY <1>3, <2>1, <2>2, <2>4 DEF Asks, AnswerField
  <1>4. CASE op = "gain"
    <2>1. PICK g \in Gains : packet = BuildGain(g, 0)
      BY <1>0, <1>4
    <2>2. \A db \in Int : Clamp(db) \in Int
      BY DEF Clamp, GAIN_MIN_DB, GAIN_MAX_DB
    <2>3. packet = Payload("control", "gain", 0, <<Clamp(g), Clamp(0)>>, 1 + 2)
      BY <2>1 DEF BuildGain, Control
    <2>4. <<Clamp(g), Clamp(0)>> \in Data
      BY <2>2, BoundAssumption, DataFit
    <2>5. packet \in Packets /\ packet.field = "gain"
      BY <2>3, <2>4, SMT DEF Fields, Payload, Packets
    <2> QED BY <1>4, <2>5 DEF Asks
  <1>5. CASE op = "encode"
    <2>1. packet = Payload("audio", "speech", 160, "pcm", 325)
      BY <1>0, <1>5 DEF BuildAudio, PCM_SAMPLES
    <2>2. packet \in Packets /\ packet.field = "speech"
      BY <2>1, DataFit DEF Fields, Payload, Packets
    <2> QED BY <1>5, <2>2 DEF Asks
  <1>6. CASE op = "decode"
    <2>1. Bytes(49) = 7 /\ Bytes(72) = 9
      BY DEF Bytes
    <2>2. \/ packet = Payload("ambe", "channel", 49, "bits", 9)
          \/ packet = Payload("ambe", "channel", 72, "frame", 11)
          \/ packet = Payload("ambe", "channel", 72, "lost", 14)
      BY <1>0, <1>6, <2>1 DEF BuildAmbe, BuildAmbeLostFrame, BuildAmbeForBits,
                              AMBE_BITS, Payload
    <2>3. packet \in Packets /\ packet.field = "channel"
      BY <2>2, DataFit DEF Fields, Payload, Packets
    <2> QED BY <1>6, <2>3 DEF Asks
  <1> QED BY <1>1, <1>2, <1>3, <1>4, <1>5, <1>6 DEF Operations

\* What the chip answers is a packet of the field its request calls for.
LEMMA AnswersFit ==
  ASSUME rate \in Rates \cup {"reset"}, NEW packet \in Asks,
         NEW answer \in Answers(packet)
  PROVE  answer \in Packets /\ answer.field = AnswerField(packet)
  <1>1. /\ packet.type \in {"audio", "ambe", "control"}
        /\ packet.field \in Fields /\ packet.data \in Data
    BY DEF Asks, Packets
  <1>2. /\ packet.type = "audio" =>
             answer = BuildAmbeForBits(RATEP[IF rate = "reset" THEN "RAW" ELSE rate],
                                       packet.data)
        /\ packet.type = "ambe" => answer = BuildAudio(packet.data)
        /\ packet.type = "control" =>
             /\ packet.field = "reset" => answer = BuildReady
             /\ packet.field = "prodid" => answer = BuildProdidResponse
             /\ packet.field \notin {"reset", "prodid"} =>
                  \E result \in {0, 1} : answer = BuildControlAck(packet.field, result)
    BY Zenon DEF Answers
  <1>3. CASE packet.type = "audio"
    <2> DEFINE bits == RATEP[IF rate = "reset" THEN "RAW" ELSE rate]
    <2>1. bits \in {49, 72}
      BY DEF RATEP, Rates
    <2> HIDE DEF bits
    <2>2. \A n \in {49, 72} : n \in Nat /\ 1 + 1 + Bytes(n) \in Nat \ {0}
      BY DEF Bytes
    <2>3. answer = Payload("ambe", "channel", bits, packet.data, 1 + 1 + Bytes(bits))
      BY <1>2, <1>3 DEF BuildAmbeForBits, bits
    <2>4. answer \in Packets /\ answer.field = "channel"
      BY <1>1, <2>1, <2>2, <2>3, SMT DEF Fields, Payload, Packets
    <2> QED BY <1>3, <2>4 DEF AnswerField
  <1>4. CASE packet.type = "ambe"
    <2>1. answer = Payload("audio", "speech", 160, packet.data, 325)
      BY <1>2, <1>4 DEF BuildAudio, PCM_SAMPLES
    <2>2. answer \in Packets /\ answer.field = "speech"
      BY <1>1, <2>1, SMT DEF Fields, Payload, Packets
    <2> QED BY <1>4, <2>2 DEF AnswerField
  <1>5. CASE packet.type = "control"
    <2>1. CASE packet.field = "reset"
      <3>1. answer = Payload("control", "ready", 0, "nothing", 1 + 0)
        BY <1>2, <1>5, <2>1 DEF BuildReady, Control
      <3>2. answer \in Packets /\ answer.field = "ready"
        BY <3>1, DataFit DEF Fields, Payload, Packets
      <3> QED BY <1>5, <2>1, <3>2 DEF AnswerField
    <2>2. CASE packet.field = "prodid"
      <3>1. answer = Payload("control", "prodid", 0, "product", 1 + 12)
        BY <1>2, <1>5, <2>2 DEF BuildProdidResponse, Control
      <3>2. answer \in Packets /\ answer.field = "prodid"
        BY <3>1, DataFit DEF Fields, Payload, Packets
      <3> QED BY <1>5, <2>2, <3>2 DEF AnswerField
    <2>3. CASE packet.field \notin {"reset", "prodid"}
      <3>1. PICK result \in {0, 1} : answer = BuildControlAck(packet.field, result)
        BY <1>2, <1>5, <2>3
      <3>2. answer = Payload("control", packet.field, 0, result, 1 + 1)
        BY <3>1 DEF BuildControlAck, Control
      <3>3. answer \in Packets /\ answer.field = packet.field
        <4>1. result \in Data /\ 1 + 1 \in Nat \ {0}
          BY DataFit
        <4> QED BY <1>1, <3>2, <4>1 DEF Payload, Packets
      <3> QED BY <1>5, <2>3, <3>3 DEF AnswerField
    <2> QED BY <2>1, <2>2, <2>3
  <1> QED BY <1>1, <1>3, <1>4, <1>5

-----------------------------------------------------------------------------
(* The byte stream. *)

\* The ends are those of the answers, the client is in the first of them, and
\* what has arrived is no more than what was sent.
Stream ==
  /\ port \in Seq(Packets) /\ ends \in Seq(Nat) /\ Len(ends) = Len(port)
  /\ skip \in Nat /\ have \in Nat /\ have <= Unread
  /\ \A i \in 1 .. Len(port) : End(i) = End(i - 1) + Size(port[i])
  /\ \A i, j \in 0 .. Len(port) : i < j => End(i) < End(j)
  /\ port = <<>> => skip = 0
  /\ port # <<>> => skip < End(1)

\* Reading takes whole answers off the front: none, if it stays in the first, and
\* that one, if it ends with it.
LEMMA Consumed ==
  ASSUME Stream, NEW n \in Nat, n <= have, Consume(n)
  PROVE  /\ Stream'
         /\ \E k \in 0 .. Len(port) :
              /\ Len(port') = Len(port) - k
              /\ \A i \in 1 .. Len(port') : port'[i] = port[k + i]
              /\ port # <<>> /\ skip + n < End(1) =>
                   k = 0 /\ port' = port /\ skip' = skip + n
              /\ port # <<>> /\ skip + n = End(1) => k = 1 /\ skip' = 0
  <1>1. PICK k \in 0 .. Len(port) :
          /\ End(k) <= skip + n /\ \A i \in k + 1 .. Len(port) : skip + n < End(i)
          /\ port' = SubSeq(port, k + 1, Len(port))
          /\ ends' = [i \in 1 .. Len(port) - k |-> End(k + i) - End(k)]
          /\ skip' = skip + n - End(k)
    BY DEF Consume
  <1>2. have' = have - n
    BY DEF Consume
  <1>3. \A i \in 0 .. Len(port) : End(i) \in Nat /\ (i <= k => End(i) <= End(k))
    BY DEF Stream, End
  <1>4. /\ port' \in Seq(Packets) /\ Len(port') = Len(port) - k
        /\ \A i \in 1 .. Len(port) - k : port'[i] = port[k + i]
    BY <1>1, SubSeqProperties DEF Stream
  <1>5. /\ ends' \in Seq(Nat) /\ Len(ends') = Len(port) - k
        /\ \A i \in 0 .. Len(port) - k : End(i)' = End(k + i) - End(k)
    <2>1. \A i \in 1 .. Len(port) - k : End(k + i) - End(k) \in Nat
      BY <1>3 DEF Stream
    <2>2. ends' \in Seq(Nat) /\ Len(ends') = Len(port) - k
      BY <1>1, <2>1 DEF Stream
    <2>3. \A i \in 1 .. Len(port) - k : End(i)' = End(k + i) - End(k)
      <3>1. \A i \in 1 .. Len(port) - k : ends'[i] = End(k + i) - End(k)
        BY <1>1
      <3>2. \A i \in 1 .. Len(port) - k : i # 0
        OBVIOUS
      <3> QED BY <3>1, <3>2, Zenon DEF End
    <2>4. End(0)' = 0 /\ End(k + 0) - End(k) = 0
      BY <1>3 DEF End
    <2> QED BY <2>2, <2>3, <2>4
  <1>6. skip' \in Nat /\ have' \in Nat /\ have' <= Unread'
    <2>1. End(k) \in Nat /\ End(Len(port)) \in Nat
      BY <1>3 DEF Stream
    <2>2. Unread' = (End(Len(port)) - End(k)) - skip'
      BY <1>4, <1>5 DEF Unread, Stream
    <2>3. Unread = End(Len(port)) - skip
      BY DEF Unread
    <2>4. skip \in Nat /\ have \in Nat /\ have <= Unread
      BY DEF Stream
    <2>5. skip' = skip + n - End(k) /\ End(k) <= skip + n
      BY <1>1
    <2>6. n \in Nat /\ n <= have /\ have' = have - n
      BY <1>2
    <2>7. skip' \in Nat /\ have' \in Nat
      BY <2>1, <2>4, <2>5, <2>6
    <2>8. PICK l \in Nat, e \in Nat : l = End(Len(port)) /\ e = End(k)
      BY <2>1
    <2>9. have' <= (l - e) - skip'
      <3>1. have <= l - skip /\ skip' = skip + n - e
        BY <2>3, <2>4, <2>5, <2>8
      <3> QED BY <2>4, <2>6, <2>8, <3>1
    <2> QED BY <2>2, <2>7, <2>8, <2>9
  <1>7. \A i \in 1 .. Len(port') : End(i)' = End(i - 1)' + Size(port'[i])
    <2> TAKE i \in 1 .. Len(port')
    <2>1. /\ k + i \in 1 .. Len(port) /\ i \in 0 .. Len(port) - k
          /\ i - 1 \in 0 .. Len(port) - k /\ (k + i) - 1 = k + (i - 1)
      BY <1>4 DEF Stream
    <2>2. End(k + i) = End(k + (i - 1)) + Size(port[k + i])
      BY <2>1 DEF Stream
    <2>3. /\ End(i)' = End(k + i) - End(k) /\ End(i - 1)' = End(k + (i - 1)) - End(k)
          /\ port'[i] = port[k + i]
      BY <1>4, <1>5, <2>1
    <2>4. Size(port[k + i]) \in Nat
      <3>1. port[k + i] \in Packets
        BY <2>1 DEF Stream
      <3>2. port[k + i].len \in Nat
        BY <3>1 DEF Packets
      <3> QED BY <3>2 DEF Size, HEADER_SIZE
    <2>5. End(k) \in Nat /\ End(k + (i - 1)) \in Nat
      BY <1>3, <2>1
    <2> QED BY <2>2, <2>3, <2>4, <2>5
  <1>8. \A i, j \in 0 .. Len(port') : i < j => End(i)' < End(j)'
    <2> TAKE i, j \in 0 .. Len(port')
    <2>1. /\ k + i \in 0 .. Len(port) /\ k + j \in 0 .. Len(port)
          /\ i < j => k + i < k + j
          /\ i \in 0 .. Len(port) - k /\ j \in 0 .. Len(port) - k
      BY <1>4 DEF Stream
    <2>2. i < j => End(k + i) < End(k + j)
      BY <2>1 DEF Stream
    <2>3. End(k) \in Nat /\ End(k + i) \in Nat /\ End(k + j) \in Nat
      BY <1>3, <2>1
    <2> QED BY <1>5, <2>1, <2>2, <2>3
  <1>9. port' = <<>> => skip' = 0
    <2> SUFFICES ASSUME port' = <<>> PROVE skip' = 0
      OBVIOUS
    <2>1. k = Len(port)
      BY <1>4 DEF Stream
    <2>2. End(k) \in Nat
      BY <1>3
    <2> QED BY <1>1, <2>1, <2>2 DEF Stream, Unread
  <1>10. port' # <<>> => skip' < End(1)'
    <2> SUFFICES ASSUME port' # <<>> PROVE skip' < End(1)'
      OBVIOUS
    <2>1. Len(port') >= 1
      BY <1>4
    <2>2. k + 1 \in k + 1 .. Len(port) /\ 1 \in 0 .. Len(port) - k
      BY <1>4, <2>1 DEF Stream
    <2>3. skip + n < End(k + 1) /\ End(1)' = End(k + 1) - End(k)
      BY <1>1, <1>5, <2>2
    <2>4. End(k) \in Nat /\ End(k + 1) \in Nat
      BY <1>3, <2>2
    <2> QED BY <1>1, <2>3, <2>4 DEF Stream
  <1>11. port # <<>> => 1 \in 0 .. Len(port) /\ End(1) \in Nat
    BY <1>3 DEF Stream
  <1>12. port # <<>> /\ skip + n < End(1) => k = 0 /\ port' = port /\ skip' = skip + n
    <2> SUFFICES ASSUME port # <<>>, skip + n < End(1)
                 PROVE  k = 0 /\ port' = port /\ skip' = skip + n
      OBVIOUS
    <2>1. k = 0
      <3>1. k > 1 => End(1) < End(k)
        BY <1>11 DEF Stream
      <3>2. End(k) \in Nat
        BY <1>3
      <3> QED BY <1>1, <1>11, <3>1, <3>2 DEF Stream
    <2>2. skip' = skip + n
      BY <1>1, <2>1 DEF End, Stream
    <2>3. port' = port
      <3>1. Len(port') = Len(port) /\ \A i \in 1 .. Len(port) : port'[i] = port[i]
        BY <1>4, <2>1 DEF Stream
      <3> QED BY <1>4, <3>1, SeqEqual DEF Stream
    <2> QED BY <2>1, <2>2, <2>3
  <1>13. port # <<>> /\ skip + n = End(1) => k = 1 /\ skip' = 0
    <2> SUFFICES ASSUME port # <<>>, skip + n = End(1) PROVE k = 1 /\ skip' = 0
      OBVIOUS
    <2>1. k > 1 => End(1) < End(k)
      BY <1>11 DEF Stream
    <2>2. End(k) \in Nat
      BY <1>3
    <2>3. k = 0 => skip + n < End(1)
      <3>1. k = 0 => 1 \in k + 1 .. Len(port)
        BY <1>11
      <3> QED BY <1>1, <3>1
    <2>4. k = 1
      BY <1>1, <1>11, <2>1, <2>2, <2>3 DEF Stream
    <2> QED BY <1>1, <1>11, <2>4 DEF Stream
  <1>14. Stream'
    BY <1>4, <1>5, <1>6, <1>7, <1>8, <1>9, <1>10 DEF Stream
  <1> QED BY <1>4, <1>12, <1>13, <1>14

\* An answer more, behind the others.
LEMMA Answered ==
  ASSUME Stream, toChip \in Seq(Asks), rate \in Rates \cup {"reset"}, ChipAnswers
  PROVE  /\ Stream' /\ toChip' \in Seq(Asks) /\ rate' \in Rates \cup {"reset"}
         /\ toChip # <<>> /\ toChip' = Tail(toChip)
         /\ \E answer \in Answers(Head(toChip)) :
              /\ answer \in Packets /\ answer.field = AnswerField(Head(toChip))
              /\ port' = Append(port, answer)
              /\ Head(toChip).field = "ratep" /\ answer.data = 0 =>
                   rate' = Head(toChip).data
  <1>0. PICK last \in Nat : last = Len(port)
    BY DEF Stream
  <1>1. Head(toChip) \in Asks /\ toChip # <<>> /\ toChip' = Tail(toChip)
    BY HeadTailProperties DEF ChipAnswers
  <1>2. PICK answer \in Answers(Head(toChip)) :
          /\ port' = Append(port, answer)
          /\ ends' = Append(ends, End(Len(port)) + Size(answer))
          /\ rate' = CASE Head(toChip).field = "reset" -> "reset"
                       [] Head(toChip).field = "ratep" /\ answer.data = 0 ->
                            Head(toChip).data
                       [] OTHER -> rate
    BY DEF ChipAnswers
  <1>3. answer \in Packets /\ answer.field = AnswerField(Head(toChip))
    BY <1>1, AnswersFit
  <1>4. /\ Head(toChip).field = "ratep" /\ answer.data = 0 => rate' = Head(toChip).data
        /\ rate' \in Rates \cup {"reset"}
    <2>1. Head(toChip).field = "ratep" => Head(toChip).data \in Rates
      BY <1>1 DEF Asks
    <2> QED BY <1>2, <2>1
  <1>5. toChip' \in Seq(Asks)
    BY <1>1, HeadTailProperties
  <1>6. /\ port' \in Seq(Packets) /\ Len(port') = last + 1
        /\ \A i \in 1 .. last : port'[i] = port[i]
        /\ port'[last + 1] = answer /\ port' # <<>>
    BY <1>0, <1>2, <1>3, AppendProperties DEF Stream
  <1>7. \A i \in 0 .. last : End(i) \in Nat
    BY <1>0 DEF Stream, End
  <1>8. Size(answer) \in Nat \ {0}
    <2>1. answer.len \in Nat
      BY <1>3 DEF Packets
    <2> QED BY <2>1 DEF Size, HEADER_SIZE
  <1>9. End(last) \in Nat /\ End(last) + Size(answer) \in Nat
    <2>1. End(last) \in Nat
      BY <1>0, <1>7 DEF Stream
    <2> QED BY <1>8, <2>1
  <1>10. /\ ends' \in Seq(Nat) /\ Len(ends') = last + 1
         /\ \A i \in 1 .. last : ends'[i] = ends[i]
         /\ ends'[last + 1] = End(last) + Size(answer)
    BY <1>0, <1>2, <1>9, AppendProperties DEF Stream
  <1>11. /\ \A i \in 0 .. last : End(i)' = End(i)
         /\ \A i : i = last + 1 => End(i)' = End(last) + Size(answer)
    <2>1. \A i \in 0 .. last : i = 0 \/ i \in 1 .. last
      OBVIOUS
    <2>2. last + 1 # 0
      BY <1>0 DEF Stream
    <2> QED BY <1>10, <2>1, <2>2 DEF End
  <1>12. skip' = skip /\ have' = have
    BY DEF ChipAnswers
  <1>13. have' <= Unread'
    <2>1. Unread' = (End(last) + Size(answer)) - skip
      <3>1. PICK i : i = last + 1
        OBVIOUS
      <3>2. Unread' = End(i)' - skip
        BY <1>6, <1>12, <3>1 DEF Unread
      <3> QED BY <1>11, <3>1, <3>2
    <2>2. PICK l \in Nat, n \in Nat : l = End(last) /\ n = Size(answer)
      BY <1>8, <1>9
    <2>3. have <= l - skip /\ have \in Nat /\ skip \in Nat
      BY <1>0, <2>2 DEF Stream, Unread
    <2>4. Unread' = (l + n) - skip
      BY <2>1, <2>2
    <2> QED BY <1>12, <2>2, <2>3, <2>4
  <1>14. \A i \in 1 .. Len(port') : End(i)' = End(i - 1)' + Size(port'[i])
    <2> TAKE i \in 1 .. Len(port')
    <2>1. CASE i = last + 1
      <3>1. i - 1 = last /\ last \in 0 .. last
        BY <1>0, <2>1 DEF Stream
      <3> QED BY <1>6, <1>11, <2>1, <3>1
    <2>2. CASE i \in 1 .. last
      <3>1. i \in 0 .. last /\ i - 1 \in 0 .. last
        BY <2>2
      <3>2. End(i) = End(i - 1) + Size(port[i])
        BY <1>0, <2>2 DEF Stream
      <3> QED BY <1>6, <1>11, <2>2, <3>1, <3>2
    <2> QED BY <1>0, <1>6, <2>1, <2>2 DEF Stream
  <1>15. \A i, j \in 0 .. Len(port') : i < j => End(i)' < End(j)'
    <2> TAKE i, j \in 0 .. Len(port')
    <2>1. CASE i \in 0 .. last /\ j \in 0 .. last
      BY <1>0, <1>11, <2>1 DEF Stream
    <2>2. CASE i \in 0 .. last /\ j = last + 1
      <3>1. End(i) \in Nat /\ End(i) <= End(last)
        BY <1>0, <1>7, <2>2 DEF Stream
      <3>2. PICK a \in Nat, l \in Nat, n \in Nat \ {0} :
              a = End(i) /\ l = End(last) /\ n = Size(answer)
        BY <1>8, <1>9, <3>1
      <3>3. End(i)' = a /\ End(j)' = l + n /\ a <= l
        BY <1>11, <2>2, <3>1, <3>2
      <3> QED BY <3>2, <3>3
    <2> QED BY <1>0, <1>6, <2>1, <2>2 DEF Stream
  <1>16. skip' < End(1)'
    <2>1. CASE port # <<>>
      <3>1. 1 \in 0 .. last /\ skip < End(1)
        BY <1>0, <2>1 DEF Stream
      <3> QED BY <1>11, <1>12, <3>1
    <2>2. CASE port = <<>>
      <3>1. last = 0 /\ skip = 0 /\ End(0) = 0
        BY <1>0, <2>2 DEF Stream, End
      <3>2. PICK n \in Nat \ {0} : n = Size(answer)
        BY <1>8
      <3>3. End(1)' = 0 + n
        BY <1>11, <3>1, <3>2
      <3> QED BY <1>12, <3>1, <3>2, <3>3
    <2> QED BY <2>1, <2>2
  <1>17. Stream'
    BY <1>0, <1>6, <1>10, <1>12, <1>13, <1>14, <1>15, <1>16 DEF Stream
  <1> QED BY <1>1, <1>2, <1>3, <1>4, <1>5, <1>17

-----------------------------------------------------------------------------
(* The client and what it is owed. *)

\* The answers in the order they come: those of the port, then those to what
\* the chip has still to read.
Awaited(i) ==
  IF i <= Len(port) THEN port[i].field ELSE AnswerField(toChip[i - Len(port)])

Awaiting == IF call = "none" THEN 0 ELSE 1
Asked == [vocoder |-> <<"ready", "prodid", "ratep">>, tool |-> <<"ready">>]
Slack == IF stale < Len(Opening[role]) THEN 0 ELSE stale

Client ==
  /\ role \in {"vocoder", "tool"} /\ phase \in {"closed", "opening", "open"}
  /\ step \in 1 .. Len(Opening[role])
  /\ phase = "closed" => call = "none"
  /\ phase = "opening" => call \in {"none", Opening[role][step]}
  /\ inPayload \in BOOLEAN
  /\ inPayload => call # "none" /\ skip = HEADER_SIZE /\ port # <<>>

\* An opening has taken as many answers as it has asked questions, whoever they
\* were for, and the answers to its own questions are the last to come; at the
\* third of them, with nothing stale, all there is to come is the chip's ack.
Owed ==
  /\ phase = "open" => Pending <= failures + Slack + Awaiting
  /\ phase = "opening" =>
       /\ Pending = stale + Awaiting
       /\ \A j \in 1 .. step - 1 + Awaiting :
            stale + j >= step => Awaited(stale + j - step + 1) = Asked[role][j]
       /\ step = 3 /\ call # "none" /\ stale = 0 =>
            \/ toChip = <<BuildRatep("DMR")>>
            \/ toChip = <<>> /\ (port[1].data = 0 => rate = "DMR")

DInv ==
  /\ Stream /\ toChip \in Seq(Asks) /\ rate \in Rates \cup {"reset"}
  /\ stale \in Nat /\ failures \in Nat
  /\ Client /\ Owed

\* Only what these two are is needed of the two sequences.
LEMMA Openings ==
  /\ Len(Opening.vocoder) = 3 /\ Len(Opening.tool) = 1
  /\ Opening.vocoder[1] = "reset" /\ Opening.vocoder[2] = "prodid"
  /\ Opening.vocoder[3] = "ratep" /\ Opening.tool[1] = "reset"
  /\ Asked.vocoder[1] = "ready" /\ Asked.vocoder[2] = "prodid"
  /\ Asked.vocoder[3] = "ratep" /\ Asked.tool[1] = "ready"
  BY DEF Opening, Asked

LEMMA QuestionsAsked ==
  ASSUME Client
  PROVE  /\ Opening[role][step] \in Operations \ {"none"}
         /\ step \in {1, 2, 3}
         /\ \A packet \in Requests(Opening[role][step]) :
              /\ packet \in Asks /\ AnswerField(packet) = Asked[role][step]
              /\ step = 3 => packet = BuildRatep("DMR")
  <1> DEFINE op == Opening[role][step]
             answered == Asked[role][step]
  <1> SUFFICES /\ op \in {"reset", "prodid", "ratep"} /\ step \in {1, 2, 3}
               /\ op = "reset" => answered = "ready"
               /\ op # "reset" => answered = op
               /\ step = 3 => op = "ratep" /\ role # "tool"
    <2> HIDE DEF op, answered
    <2> QED BY RequestsFit DEF Operations, op, answered
  <1>1. CASE role = "tool"
    <2>1. step = 1
      <3>1. step \in 1 .. Len(Opening[role])
        BY DEF Client
      <3>2. Len(Opening[role]) = 1
        BY <1>1, Openings
      <3> QED BY <3>1, <3>2
    <2>2. Opening[role][step] = "reset" /\ Asked[role][step] = "ready"
      BY <1>1, <2>1, Openings
    <2> QED BY <2>1, <2>2
  <1>2. CASE role = "vocoder"
    <2>1. step \in {1, 2, 3}
      <3>1. step \in 1 .. Len(Opening[role])
        BY DEF Client
      <3>2. Len(Opening[role]) = 3
        BY <1>2, Openings
      <3> QED BY <3>1, <3>2
    <2>2. /\ step = 1 => Opening[role][step] = "reset" /\ Asked[role][step] = "ready"
          /\ step = 2 => Opening[role][step] = "prodid" /\ Asked[role][step] = "prodid"
          /\ step = 3 => Opening[role][step] = "ratep" /\ Asked[role][step] = "ratep"
      BY <1>2, Openings
    <2> QED BY <1>2, <2>1, <2>2
  <1> QED BY <1>1, <1>2 DEF Client

\* A request of the opening more.
LEMMA AskOwed == DInv /\ Ask => DInv'
  <1> SUFFICES ASSUME DInv, Ask PROVE DInv'
    OBVIOUS
  <1>1. PICK packet \in Requests(Opening[role][step]) : toChip' = Append(toChip, packet)
    BY DEF Ask, Write
  <1>2. /\ phase = "opening" /\ call = "none" /\ call' = Opening[role][step]
        /\ UNCHANGED <<role, phase, step, inPayload, rate, port, ends, skip, have,
                       stale, failures>>
    BY DEF Ask, Write, chip, stream, history
  <1>3. /\ Opening[role][step] # "none" /\ packet \in Asks /\ step \in {1, 2, 3}
        /\ AnswerField(packet) = Asked[role][step]
        /\ step = 3 => packet = BuildRatep("DMR")
    BY <1>1, QuestionsAsked DEF DInv, Operations
  <1>4. /\ toChip' \in Seq(Asks) /\ Len(toChip') = Len(toChip) + 1
        /\ \A i \in 1 .. Len(toChip) : toChip'[i] = toChip[i]
        /\ toChip'[Len(toChip) + 1] = packet
        /\ Len(toChip) \in Nat /\ Len(port) \in Nat
    BY <1>1, <1>3, AppendProperties, LenProperties DEF DInv, Stream
  <1>5. Stream'
    BY <1>2 DEF DInv, Stream, Unread, End
  <1>6. Client'
    BY <1>2 DEF DInv, Client
  <1>7. /\ Awaiting = 0 /\ Awaiting' = 1 /\ Pending' = Pending + 1
        /\ Pending = stale /\ stale \in Nat
    BY <1>2, <1>3, <1>4 DEF Awaiting, Pending, DInv, Owed
  <1>8. \A i \in 1 .. Pending : Awaited(i)' = Awaited(i)
    <2> TAKE i \in 1 .. Pending
    <2>1. CASE i <= Len(port)
      BY <1>2, <2>1 DEF Awaited
    <2>2. CASE ~(i <= Len(port))
      <3>1. i - Len(port) \in 1 .. Len(toChip)
        BY <1>4, <2>2 DEF Pending
      <3> QED BY <1>2, <1>4, <2>2, <3>1 DEF Awaited
    <2> QED BY <2>1, <2>2
  <1>9. \A i : i = Pending + 1 => Awaited(i)' = AnswerField(packet)
    <2> TAKE i
    <2> SUFFICES ASSUME i = Pending + 1 PROVE Awaited(i)' = AnswerField(packet)
      OBVIOUS
    <2>1. ~(i <= Len(port)) /\ i - Len(port) = Len(toChip) + 1
      BY <1>4 DEF Pending
    <2> QED BY <1>2, <1>4, <2>1 DEF Awaited
  <1>10. ASSUME NEW j \in 1 .. step, stale + j >= step,
                NEW i, i = stale + j - step + 1
         PROVE  Awaited(i)' = Asked[role][j]
    <2>1. CASE j = step
      <3>1. i = Pending + 1
        BY <1>3, <1>7, <1>10, <2>1
      <3> QED BY <1>3, <1>9, <2>1, <3>1
    <2>2. CASE j # step
      <3>1. i \in 1 .. Pending /\ j \in 1 .. step - 1 + Awaiting
        BY <1>3, <1>7, <1>10, <2>2
      <3> QED BY <1>2, <1>8, <1>10, <3>1 DEF DInv, Owed
    <2> QED BY <2>1, <2>2
  <1>11. step = 3 /\ stale = 0 => toChip' = <<BuildRatep("DMR")>>
    <2> SUFFICES ASSUME step = 3, stale = 0 PROVE toChip' = <<BuildRatep("DMR")>>
      OBVIOUS
    <2>1. Len(toChip) = 0
      BY <1>4, <1>7 DEF Pending
    <2>2. toChip = <<>>
      BY <2>1, EmptySeq DEF DInv
    <2> QED BY <1>1, <1>3, <2>2
  <1>12. Owed'
    <2>1. Pending' = stale' + Awaiting'
      BY <1>2, <1>7
    <2>2. \A j \in 1 .. step' - 1 + Awaiting' :
            stale' + j >= step' =>
              Awaited(stale + j - step + 1)' = Asked[role'][j]
      <3> TAKE j \in 1 .. step' - 1 + Awaiting'
      <3>1. j \in 1 .. step
        BY <1>2, <1>3, <1>7
      <3>2. PICK i : i = stale + j - step + 1
        OBVIOUS
      <3>3. stale + j >= step => Awaited(i)' = Asked[role][j]
        BY <1>10, <3>1, <3>2
      <3> QED BY <1>2, <3>2, <3>3
    <2> QED BY <1>2, <1>11, <2>1, <2>2 DEF Owed
  <1> QED BY <1>2, <1>4, <1>5, <1>6, <1>12 DEF DInv

\* What there is to read of a client's own stream is read, if no more.
LEMMA Reads ==
  ASSUME DInv
  PROVE  /\ have \in Nat
         /\ have >= HEADER_SIZE /\ skip = 0 => port # <<>>
         /\ port # <<>> => /\ Head(port) = port[1] /\ port[1] \in Packets
                           /\ End(1) = Size(port[1]) /\ Len(port) >= 1
                           /\ port[1].len \in Nat \ {0}
  <1>1. have \in Nat /\ have <= Unread /\ Len(port) \in Nat
    BY LenProperties DEF DInv, Stream
  <1>2. ASSUME have >= HEADER_SIZE, skip = 0, port = <<>> PROVE FALSE
    <2>1. Unread = 0
      BY <1>2 DEF Unread, End
    <2> QED BY <1>1, <1>2, <2>1 DEF HEADER_SIZE
  <1>3. ASSUME port # <<>>
        PROVE  /\ Head(port) = port[1] /\ port[1] \in Packets
               /\ End(1) = Size(port[1]) /\ Len(port) >= 1
               /\ port[1].len \in Nat \ {0}
    <2>1. Len(port) >= 1
      BY <1>1, <1>3, EmptySeq DEF DInv, Stream
    <2>2. port[1] \in Packets /\ Head(port) = port[1]
      BY <1>3, <2>1, HeadTailProperties DEF DInv, Stream
    <2>3. End(1) = Size(port[1])
      <3>1. End(1) = End(1 - 1) + Size(port[1])
        BY <2>1 DEF DInv, Stream
      <3>2. End(1 - 1) = 0
        BY DEF End
      <3>3. port[1].len \in Nat
        BY <2>2 DEF Packets
      <3>4. Size(port[1]) \in Nat
        BY <3>3 DEF Size, HEADER_SIZE
      <3> QED BY <3>1, <3>2, <3>4
    <2> QED BY <2>1, <2>2, <2>3 DEF Packets
  <1> QED BY <1>1, <1>2, <1>3

\* A read that fails leaves a session no further behind than one answer more.
LEMMA FailedOwed ==
  ASSUME DInv, Stream', Len(port') <= Len(port), Failed, call # "none",
         UNCHANGED <<toChip, rate, stale>>
  PROVE  DInv'
  <1>1. /\ Len(port) \in Nat /\ Len(port') \in Nat /\ Len(toChip) \in Nat
    BY LenProperties DEF DInv, Stream
  <1>2. /\ phase' = (IF phase = "opening" THEN "closed" ELSE phase)
        /\ call' = "none" /\ inPayload' = FALSE /\ failures' = failures + 1
        /\ role' = role /\ step' = step
    BY DEF Failed
  <1>3. Client'
    <2>1. inPayload' \in BOOLEAN /\ ~inPayload'
      BY <1>2
    <2> QED BY <1>2, <2>1 DEF DInv, Client
  <1>4. Slack' = Slack /\ Slack \in Nat /\ Awaiting = 1 /\ Awaiting' = 0
    BY <1>2 DEF Slack, Awaiting, DInv
  <1>5. Pending' <= Pending /\ Pending \in Nat /\ Pending' \in Nat
    BY <1>1 DEF Pending
  <1>6. phase' # "opening" /\ (phase' = "open" => phase = "open")
    BY <1>2
  <1>7. Owed'
    <2>1. phase = "open" => Pending <= failures + Slack + 1
      BY <1>4 DEF DInv, Owed
    <2>2. phase' = "open" => Pending' <= failures' + Slack' + Awaiting'
      BY <1>2, <1>4, <1>5, <1>6, <2>1 DEF DInv
    <2> QED BY <1>6, <2>2 DEF Owed
  <1> QED BY <1>2, <1>3, <1>7 DEF DInv

LEMMA OpenOwed == DInv /\ Open => DInv'
  <1> SUFFICES ASSUME DInv, Open PROVE DInv'
    OBVIOUS
  <1>1. /\ role' \in {"vocoder", "tool"} /\ phase' \in {"opening", "closed"}
        /\ call' = "none" /\ step' = 1 /\ failures' = 0
        /\ stale' = Len(toChip) + Len(port') /\ phase = "closed"
        /\ UNCHANGED <<inPayload, toChip, rate>>
        /\ Consume(have) \/ UNCHANGED stream
    BY DEF Open, Opening, chip
  <1>2. Stream' /\ Len(port') \in Nat
    <2>1. CASE Consume(have)
      <3>1. Stream'
        BY <2>1, Reads, Consumed DEF DInv
      <3> QED BY <3>1, LenProperties DEF Stream
    <2>2. CASE UNCHANGED stream
      BY <2>2, LenProperties DEF DInv, Stream, stream, Unread, End
    <2> QED BY <1>1, <2>1, <2>2
  <1>3. Len(toChip) \in Nat
    BY LenProperties DEF DInv
  <1>4. ~inPayload' /\ inPayload' \in BOOLEAN
    BY <1>1 DEF DInv, Client
  <1>5. Client'
    <2>1. 1 \in 1 .. Len(Opening[role'])
      BY <1>1, Openings
    <2> QED BY <1>1, <1>4, <2>1 DEF Client
  <1>6. Pending' = stale' + Awaiting' /\ Awaiting' = 0 /\ stale' \in Nat
    BY <1>1, <1>2, <1>3 DEF Pending, Awaiting
  <1>7. Owed'
    BY <1>1, <1>6 DEF Owed
  <1> QED BY <1>1, <1>2, <1>5, <1>6, <1>7 DEF DInv

LEMMA CallOwed == DInv /\ Call => DInv'
  <1> SUFFICES ASSUME DInv, Call PROVE DInv'
    OBVIOUS
  <1>1. PICK op \in Methods : Write(op)
    BY DEF Call
  <1>2. op \in Operations /\ op # "none"
    BY <1>1 DEF Methods, Operations
  <1>3. PICK packet \in Requests(op) : toChip' = Append(toChip, packet)
    BY <1>1 DEF Write
  <1>4. packet \in Asks
    BY <1>2, <1>3, RequestsFit
  <1>5. /\ phase = "open" /\ call = "none" /\ call' = op
        /\ UNCHANGED <<role, phase, step, inPayload, rate, port, ends, skip, have,
                       stale, failures>>
    BY <1>1 DEF Call, Write, chip, stream, history
  <1>6. /\ toChip' \in Seq(Asks) /\ Len(toChip') = Len(toChip) + 1
        /\ Len(toChip) \in Nat /\ Len(port) \in Nat
    BY <1>3, <1>4, AppendProperties, LenProperties DEF DInv, Stream
  <1>7. Stream'
    BY <1>5 DEF DInv, Stream, Unread, End
  <1>8. Client'
    BY <1>5 DEF DInv, Client
  <1>9. Slack' = Slack /\ Slack \in Nat /\ Awaiting = 0 /\ Awaiting' = 1
    BY <1>2, <1>5 DEF Slack, Awaiting, DInv
  <1>10. Pending' = Pending + 1 /\ Pending \in Nat
    BY <1>5, <1>6 DEF Pending
  <1>11. Pending <= failures + Slack + Awaiting /\ failures \in Nat
    BY <1>5 DEF DInv, Owed
  <1>12. Owed'
    BY <1>5, <1>9, <1>10, <1>11 DEF Owed
  <1> QED BY <1>5, <1>6, <1>7, <1>8, <1>12 DEF DInv

\* A header takes no answer off the port; what it finds out of step is a failure.
LEMMA HeaderOwed == DInv /\ ReadHeader => DInv'
  <1> SUFFICES ASSUME DInv, ReadHeader PROVE DInv'
    OBVIOUS
  <1>1. /\ call # "none" /\ ~inPayload /\ have >= HEADER_SIZE /\ Consume(HEADER_SIZE)
        /\ UNCHANGED <<toChip, rate, stale>>
    BY DEF ReadHeader, chip
  <1>2. HEADER_SIZE \in Nat /\ HEADER_SIZE <= have /\ have \in Nat
    BY <1>1, Reads DEF HEADER_SIZE
  <1>3. /\ Stream' /\ Len(port') <= Len(port)
        /\ port # <<>> /\ skip + HEADER_SIZE < End(1) =>
             port' = port /\ skip' = skip + HEADER_SIZE
    <2>1. Len(port) \in Nat
      BY LenProperties DEF DInv, Stream
    <2> QED BY <1>1, <1>2, <2>1, Consumed DEF DInv
  <1>4. CASE Failed
    BY <1>1, <1>3, <1>4, FailedOwed
  <1>5. CASE ~Failed
    <2>1. /\ skip = 0 /\ inPayload' = TRUE
          /\ UNCHANGED <<role, phase, step, call, failures>>
      BY <1>5 DEF ReadHeader
    <2>2. port # <<>> /\ skip + HEADER_SIZE < End(1)
      <3>1. port # <<>>
        BY <1>1, <2>1, Reads
      <3>2. End(1) = HEADER_SIZE + port[1].len /\ port[1].len \in Nat \ {0}
        BY <3>1, Reads DEF Size
      <3> QED BY <2>1, <3>1, <3>2 DEF HEADER_SIZE
    <2>3. port' = port /\ skip' = HEADER_SIZE
      BY <1>3, <2>1, <2>2 DEF HEADER_SIZE
    <2>4. Client'
      <3>1. inPayload' \in BOOLEAN
        BY <2>1
      <3> QED BY <1>1, <2>1, <2>2, <2>3, <3>1 DEF DInv, Client
    <2>5. Owed'
      BY <1>1, <2>1, <2>3 DEF DInv, Owed, Pending, Slack, Awaiting, Awaited
    <2> QED BY <1>1, <1>3, <2>1, <2>4, <2>5 DEF DInv
  <1> QED BY <1>4, <1>5

\* What is taken for a RATEP ack is one.
LEMMA AckTaken ==
  ASSUME NEW p \in Packets, IsRatepAck(Parse(p))
  PROVE  p.field = "ratep" /\ p.data = 0
  <1>1. Parse(p).kind = "Control"
    BY DEF IsRatepAck, IsAck
  <1>2. p.type \in {"audio", "ambe", "control"} /\ p.len # 0
    BY DEF Packets
  <1>3. ParseAmbe(p).kind # "Control" /\ ParseAudio(p).kind # "Control"
    <2>1. \A e : ParseError(e).kind # "Control"
      BY DEF ParseError
    <2>2. ParseAmbe(p).kind # "Control"
      <3>1. CASE p.len < 2
        BY <2>1, <3>1, Zenon DEF ParseAmbe
      <3>2. CASE p.len >= 2 /\ ~(p.len < 2)
        <4>1. CASE p.field # "channel"
          BY <2>1, <3>2, <4>1, Zenon DEF ParseAmbe
        <4>2. CASE p.field = "channel"
          <5>1. ParseAmbe(p) =
                  IF p.len < 2 + Bytes(p.count) THEN ParseError("TooShort")
                  ELSE [kind |-> IF p.count = AMBE_BITS THEN "Ambe" ELSE "AmbeBits",
                        bits |-> p.count, data |-> p.data]
            BY <3>2, <4>2, Zenon DEF ParseAmbe
          <5> QED BY <2>1, <5>1
        <4> QED BY <4>1, <4>2
      <3> QED BY <3>1, <3>2 DEF Packets
    <2>3. ParseAudio(p).kind # "Control"
      <3> DEFINE least == 2 + PCM_SAMPLES * 2
      <3>1. CASE p.len < least
        BY <2>1, <3>1, Zenon DEF ParseAudio
      <3>2. CASE p.len >= least /\ ~(p.len < least)
        <4>1. CASE p.field # "speech"
          BY <2>1, <3>2, <4>1, Zenon DEF ParseAudio
        <4>2. CASE p.field = "speech"
          <5>1. ParseAudio(p) =
                  IF p.count # PCM_SAMPLES THEN ParseError("BadSampleCount")
                  ELSE [kind |-> "Audio", data |-> p.data]
            BY <3>2, <4>2, Zenon DEF ParseAudio
          <5> QED BY <2>1, <5>1
        <4> QED BY <4>1, <4>2
      <3> QED BY <3>1, <3>2 DEF Packets, PCM_SAMPLES
    <2> QED BY <2>2, <2>3
  <1>4. p.type = "control"
    BY <1>1, <1>2, <1>3, Zenon DEF Parse
  <1>5. Parse(p) = [kind |-> "Control", field |-> p.field, data |-> p.data]
    <2>1. Parse(p) = ParseControl(p)
      BY <1>4, Zenon DEF Parse
    <2> QED BY <1>2, <2>1 DEF ParseControl
  <1> QED BY <1>5 DEF IsRatepAck, IsAck

\* The whole of the first answer is read.
LEMMA AnswerRead ==
  ASSUME DInv, ReadPayload
  PROVE  /\ call # "none" /\ port # <<>> /\ Head(port) = port[1]
         /\ port[1] \in Packets
         /\ Stream' /\ Pending \in Nat /\ Pending' = Pending - 1
         /\ UNCHANGED <<toChip, rate, stale>>
         /\ \A i \in 1 .. Pending' : Awaited(i)' = Awaited(i + 1)
         /\ Len(port') < Len(port)
  <1>1. /\ inPayload /\ have >= Head(port).len /\ Consume(Head(port).len)
        /\ UNCHANGED <<toChip, rate, stale>>
    BY DEF ReadPayload, chip
  <1>2. call # "none" /\ skip = HEADER_SIZE /\ port # <<>>
    BY <1>1 DEF DInv, Client
  <1>3. /\ Head(port) = port[1] /\ port[1] \in Packets
        /\ End(1) = Size(port[1]) /\ Len(port) >= 1
        /\ port[1].len \in Nat \ {0} /\ have \in Nat
    BY <1>2, Reads
  <1>4. skip + Head(port).len = End(1)
    BY <1>2, <1>3 DEF Size
  <1>5. /\ Stream'
        /\ \E k \in 0 .. Len(port) :
              /\ Len(port') = Len(port) - k
              /\ \A i \in 1 .. Len(port') : port'[i] = port[k + i]
              /\ port # <<>> /\ skip + Head(port).len = End(1) => k = 1 /\ skip' = 0
    <2> DEFINE n == Head(port).len
    <2>1. n \in Nat /\ n <= have /\ Consume(n) /\ Stream
      BY <1>1, <1>3 DEF DInv
    <2> HIDE DEF n
    <2>2. /\ Stream'
          /\ \E k \in 0 .. Len(port) :
                /\ Len(port') = Len(port) - k
                /\ \A i \in 1 .. Len(port') : port'[i] = port[k + i]
                /\ port # <<>> /\ skip + n = End(1) => k = 1 /\ skip' = 0
      BY <2>1, Consumed
    <2> QED BY <2>2 DEF n
  <1>6. /\ Len(port') = Len(port) - 1
        /\ \A i \in 1 .. Len(port') : port'[i] = port[1 + i]
    BY <1>2, <1>4, <1>5
  <1>7. Len(port) \in Nat /\ Len(toChip) \in Nat
    BY LenProperties DEF DInv, Stream
  <1>8. Pending \in Nat /\ Pending' = Pending - 1
    BY <1>1, <1>6, <1>7 DEF Pending
  <1>9. \A i \in 1 .. Pending' : Awaited(i)' = Awaited(i + 1)
    <2> TAKE i \in 1 .. Pending'
    <2>1. i \in Nat /\ i >= 1
      BY <1>8
    <2>2. CASE i <= Len(port')
      <3>1. i + 1 <= Len(port) /\ i \in 1 .. Len(port') /\ 1 + i = i + 1
        BY <1>6, <1>7, <2>1, <2>2
      <3> QED BY <1>6, <2>2, <3>1 DEF Awaited
    <2>3. CASE ~(i <= Len(port'))
      <3>1. ~(i + 1 <= Len(port)) /\ i - Len(port') = (i + 1) - Len(port)
        BY <1>6, <1>7, <2>1, <2>3
      <3> QED BY <1>1, <2>3, <3>1 DEF Awaited
    <2> QED BY <2>2, <2>3
  <1>10. Len(port') < Len(port)
    BY <1>6, <1>7
  <1> QED BY <1>1, <1>2, <1>3, <1>5, <1>8, <1>9, <1>10

\* The last answer of an opening is the one to its last question, unless there
\* were as many stale ones as it asks.
LEMMA LastAnswer ==
  ASSUME DInv, ReadPayload, Content(call, Parse(Head(port))),
         phase = "opening", step = Len(Opening[role]), stale < Len(Opening[role])
  PROVE  /\ stale = 0 /\ Pending' = 0
         /\ role = "vocoder" => rate = "DMR"
  <1>1. /\ call # "none" /\ port # <<>> /\ Head(port) = port[1] /\ port[1] \in Packets
        /\ Pending \in Nat /\ Pending' = Pending - 1
    BY AnswerRead
  <1>2. Pending = stale + 1 /\ stale \in Nat /\ Awaiting = 1
    BY <1>1 DEF DInv, Owed, Awaiting
  <1>3. Len(port) \in Nat /\ Len(toChip) \in Nat /\ Len(port) >= 1
    BY <1>1, LenProperties, Reads DEF DInv, Stream
  <1>4. CASE role = "tool"
    <2>1. stale = 0
      <3>1. Len(Opening[role]) = 1
        BY <1>4, Openings
      <3> QED BY <1>2, <3>1
    <2> QED BY <1>1, <1>2, <1>4, <2>1
  <1>5. CASE role = "vocoder"
    <2>1. step = 3 /\ stale < 3
      BY <1>5, Openings
    <2>2. call = "ratep"
      <3>1. call = Opening[role][step]
        BY <1>1 DEF DInv, Client
      <3> QED BY <1>5, <2>1, <3>1, Openings
    <2>3. IsRatepAck(Parse(port[1]))
      <3>1. Content("ratep", Parse(port[1]))
        BY <1>1, <2>2
      <3> QED BY <3>1, Zenon DEF Content
    <2>4. port[1].field = "ratep" /\ port[1].data = 0
      BY <1>1, <2>3, AckTaken
    <2>5. Awaited(1) = "ratep"
      BY <1>3, <2>4 DEF Awaited
    <2>6. \A j \in 1 .. 3 : stale + j >= 3 => Awaited(stale + j - 3 + 1) = Asked[role][j]
      BY <1>2, <2>1 DEF DInv, Owed
    <2>7. ASSUME stale = 1 PROVE FALSE
      <3>1. Awaited(1) = Asked[role][2]
        BY <2>6, <2>7
      <3> QED BY <1>5, <2>5, <3>1, Openings
    <2>8. ASSUME stale = 2 PROVE FALSE
      <3>1. Awaited(1) = Asked[role][1]
        BY <2>6, <2>8
      <3> QED BY <1>5, <2>5, <3>1, Openings
    <2>9. stale = 0
      BY <1>2, <2>1, <2>7, <2>8
    <2>10. rate = "DMR"
      <3>1. Len(toChip) = 0
        BY <1>2, <1>3, <2>9 DEF Pending
      <3>2. Len(<<BuildRatep("DMR")>>) = 1
        OBVIOUS
      <3>3. toChip # <<BuildRatep("DMR")>>
        BY <3>1, <3>2
      <3> QED BY <1>1, <2>1, <2>4, <2>9, <3>3 DEF DInv, Owed
    <2> QED BY <1>1, <1>2, <2>9, <2>10
  <1> QED BY <1>4, <1>5 DEF DInv, Client

LEMMA PayloadOwed == DInv /\ ReadPayload => DInv'
  <1> SUFFICES ASSUME DInv, ReadPayload PROVE DInv'
    OBVIOUS
  <1>1. /\ call # "none" /\ Stream' /\ Pending \in Nat /\ Pending' = Pending - 1
        /\ UNCHANGED <<toChip, rate, stale>>
        /\ \A i \in 1 .. Pending' : Awaited(i)' = Awaited(i + 1)
        /\ Len(port') < Len(port)
    BY AnswerRead
  <1>2. CASE ~Content(call, Parse(Head(port)))
    <2>1. Failed
      BY <1>2 DEF ReadPayload
    <2>2. Len(port) \in Nat /\ Len(port') \in Nat
      BY <1>1, LenProperties DEF DInv, Stream
    <2>3. Len(port') <= Len(port)
      BY <1>1, <2>2
    <2> QED BY <1>1, <2>1, <2>3, FailedOwed
  <1>3. CASE Content(call, Parse(Head(port)))
    <2>1. /\ call' = "none" /\ inPayload' = FALSE /\ UNCHANGED <<role, failures>>
          /\ IF phase = "opening" /\ step < Len(Opening[role])
             THEN step' = step + 1 /\ phase' = phase
             ELSE phase' = "open" /\ step' = step
      BY <1>3 DEF ReadPayload, Returned
    <2>2. /\ Awaiting = 1 /\ Awaiting' = 0 /\ Slack' = Slack /\ Slack \in Nat
          /\ stale \in Nat /\ failures \in Nat
      BY <1>1, <2>1 DEF Awaiting, Slack, DInv
    <2>3. inPayload' \in BOOLEAN /\ ~inPayload'
      BY <2>1
    <2>4. step \in Nat /\ step >= 1 /\ step <= Len(Opening[role])
            /\ Len(Opening[role]) \in Nat /\ phase # "closed"
      <3>1. Len(Opening[role]) \in {1, 3}
        BY Openings DEF DInv, Client
      <3> QED BY <1>1, <3>1 DEF DInv, Client
    <2>5. CASE phase = "opening" /\ step < Len(Opening[role])
      <3>1. step' = step + 1 /\ phase' = "opening"
        BY <2>1, <2>5
      <3>2. step' \in 1 .. Len(Opening[role])
        BY <2>4, <2>5, <3>1
      <3>3. Client'
        BY <2>1, <2>3, <3>1, <3>2 DEF DInv, Client
      <3>4. Pending = stale + 1
        BY <2>2, <2>5 DEF DInv, Owed
      <3>5. Pending' = stale' + Awaiting'
        BY <1>1, <2>2, <3>4
      <3>6. \A j \in 1 .. step' - 1 + Awaiting' :
              stale' + j >= step' =>
                Awaited(stale + j - step + 1)' = Asked[role'][j]
        <4> TAKE j \in 1 .. step' - 1 + Awaiting'
        <4>1. j \in 1 .. step
          BY <2>2, <2>4, <3>1
        <4>2. PICK i : i = stale + j - step' + 1
          OBVIOUS
        <4>3. stale + j >= step' => i \in 1 .. Pending'
          BY <1>1, <2>2, <2>4, <3>1, <3>4, <4>1, <4>2
        <4>4. i + 1 = stale + j - step + 1
          BY <2>2, <2>4, <3>1, <4>1, <4>2
        <4>5. stale + j >= step' => Awaited(i + 1) = Asked[role][j]
          <5>1. j \in 1 .. step - 1 + Awaiting
            BY <2>2, <2>4, <4>1
          <5>2. stale + j >= step' => stale + j >= step
            BY <2>2, <2>4, <3>1, <4>1
          <5> QED BY <2>5, <4>4, <5>1, <5>2 DEF DInv, Owed
        <4>6. stale + j >= step' => Awaited(i)' = Asked[role][j]
          BY <1>1, <4>3, <4>5
        <4>7. stale' = stale /\ role' = role
          BY <1>1, <2>1
        <4> QED BY <4>2, <4>6, <4>7
      <3>7. Owed'
        BY <2>1, <3>1, <3>5, <3>6 DEF Owed
      <3> QED BY <1>1, <2>1, <3>3, <3>7 DEF DInv
    <2>6. CASE ~(phase = "opening" /\ step < Len(Opening[role]))
      <3>1. phase' = "open" /\ step' = step
        BY <2>1, <2>6
      <3>2. Client'
        BY <2>1, <2>3, <3>1 DEF DInv, Client
      <3>3. Pending' <= failures' + Slack' + Awaiting'
        <4>1. CASE phase = "opening"
          <5>1. step = Len(Opening[role])
            BY <2>4, <2>6, <4>1
          <5>2. Pending = stale + 1
            BY <2>2, <4>1 DEF DInv, Owed
          <5>3. CASE stale < Len(Opening[role])
            <6>1. Pending' = 0
              BY <1>3, <4>1, <5>1, <5>3, LastAnswer
            <6> QED BY <2>1, <2>2, <6>1
          <5>4. CASE ~(stale < Len(Opening[role]))
            <6>1. Slack = stale
              BY <5>4 DEF Slack
            <6> QED BY <1>1, <2>1, <2>2, <5>2, <6>1
          <5> QED BY <5>3, <5>4
        <4>2. CASE phase = "open"
          <5>1. Pending <= failures + Slack + 1
            BY <2>2, <4>2 DEF DInv, Owed
          <5> QED BY <1>1, <2>1, <2>2, <5>1
        <4> QED BY <2>4, <4>1, <4>2 DEF DInv, Client
      <3>4. Owed'
        BY <3>1, <3>3 DEF Owed
      <3> QED BY <1>1, <2>1, <3>2, <3>4 DEF DInv
    <2> QED BY <2>5, <2>6
  <1> QED BY <1>2, <1>3

LEMMA TimeoutOwed == DInv /\ ReadTimesOut => DInv'
  <1> SUFFICES ASSUME DInv, ReadTimesOut PROVE DInv'
    OBVIOUS
  <1>1. /\ call # "none" /\ Consume(have) /\ Failed
        /\ UNCHANGED <<toChip, rate, stale>>
    BY DEF ReadTimesOut, chip
  <1>2. Stream' /\ Len(port') <= Len(port)
    <2>1. have \in Nat /\ have <= have
      BY Reads
    <2>2. Len(port) \in Nat
      BY LenProperties DEF DInv, Stream
    <2> QED BY <1>1, <2>1, <2>2, Consumed DEF DInv
  <1> QED BY <1>1, <1>2, FailedOwed

LEMMA CloseOwed == DInv /\ Close => DInv'
  <1> SUFFICES ASSUME DInv, Close PROVE DInv'
    OBVIOUS
  <1>1. /\ phase' = "closed" /\ call' = "none" /\ inPayload' = FALSE
        /\ UNCHANGED <<role, step, toChip, rate, stale, failures>>
        /\ Consume(have) \/ UNCHANGED stream
    BY DEF Close, chip, history
  <1>2. Stream'
    <2>1. CASE Consume(have)
      <3>1. have \in Nat /\ have <= have
        BY Reads
      <3> QED BY <2>1, <3>1, Consumed DEF DInv
    <2>2. CASE UNCHANGED stream
      BY <2>2 DEF DInv, Stream, stream, Unread, End
    <2> QED BY <1>1, <2>1, <2>2
  <1>3. ~inPayload' /\ inPayload' \in BOOLEAN
    BY <1>1
  <1>4. Client'
    BY <1>1, <1>3 DEF DInv, Client
  <1>5. Owed'
    BY <1>1 DEF Owed
  <1> QED BY <1>1, <1>2, <1>4, <1>5 DEF DInv

LEMMA ArriveOwed == DInv /\ Arrive => DInv'
  <1> SUFFICES ASSUME DInv, Arrive PROVE DInv'
    OBVIOUS
  <1>1. /\ have < Unread
        /\ UNCHANGED <<client, toChip, chip, port, ends, skip, history>>
    BY DEF Arrive
  <1>2. PICK missing \in {0, port[Len(port)].len} :
          have < Unread - missing /\ have' = Unread - missing
    BY DEF Arrive
  <1>3. have \in Nat /\ skip \in Nat /\ Len(port) \in Nat
    BY LenProperties DEF DInv, Stream
  <1>4. port # <<>>
    <2>1. ASSUME port = <<>> PROVE Unread = 0
      <3>1. skip = 0 /\ Len(port) = 0
        BY <2>1 DEF DInv, Stream
      <3> QED BY <3>1 DEF Unread, End
    <2> QED BY <1>1, <1>3, <2>1
  <1>5. missing \in Nat
    <2>1. Len(port) >= 1
      BY <1>4, Reads
    <2>2. port[Len(port)] \in Packets
      BY <1>3, <2>1 DEF DInv, Stream
    <2>3. port[Len(port)].len \in Nat
      BY <2>2 DEF Packets
    <2> QED BY <2>3
  <1>6. Unread \in Int
    <2>1. Len(port) >= 1
      BY <1>4, Reads
    <2>2. End(Len(port)) = ends[Len(port)] /\ ends[Len(port)] \in Nat
      BY <1>3, <2>1 DEF End, DInv, Stream
    <2> QED BY <1>3, <2>2 DEF Unread
  <1>7. Unread' = Unread
    BY <1>1 DEF Unread, End
  <1>8. have' \in Nat /\ have' <= Unread'
    BY <1>2, <1>3, <1>5, <1>6, <1>7
  <1>9. Stream'
    BY <1>1, <1>8 DEF DInv, Stream, End
  <1>10. Client' /\ Owed'
    BY <1>1 DEF DInv, Client, Owed, Pending, Slack, Awaiting, Awaited, client, chip,
                history
  <1> QED BY <1>1, <1>9, <1>10 DEF DInv, client, chip, history

\* An answer comes where its request was.
LEMMA ChipOwed == DInv /\ ChipAnswers => DInv'
  <1> SUFFICES ASSUME DInv, ChipAnswers PROVE DInv'
    OBVIOUS
  <1>1. /\ Stream' /\ toChip' \in Seq(Asks) /\ rate' \in Rates \cup {"reset"}
        /\ toChip # <<>> /\ toChip' = Tail(toChip)
        /\ UNCHANGED <<client, skip, stale, failures>>
    BY Answered DEF DInv, ChipAnswers, history
  <1>2. PICK answer \in Answers(Head(toChip)) :
          /\ answer \in Packets /\ answer.field = AnswerField(Head(toChip))
          /\ port' = Append(port, answer)
          /\ Head(toChip).field = "ratep" /\ answer.data = 0 =>
               rate' = Head(toChip).data
    BY Answered DEF DInv
  <1>3. /\ Len(port) \in Nat /\ Len(toChip) \in Nat /\ Len(toChip) >= 1
        /\ Head(toChip) = toChip[1] /\ Len(toChip') = Len(toChip) - 1
        /\ \A i \in 1 .. Len(toChip') : toChip'[i] = toChip[i + 1]
    BY <1>1, HeadTailProperties, LenProperties, EmptySeq DEF DInv, Stream
  <1>4. /\ Len(port') = Len(port) + 1 /\ port'[Len(port) + 1] = answer
        /\ \A i \in 1 .. Len(port) : port'[i] = port[i]
    BY <1>2, AppendProperties DEF DInv, Stream
  <1>5. Pending' = Pending /\ Pending \in Nat
    BY <1>3, <1>4 DEF Pending
  <1>6. \A i \in 1 .. Pending : Awaited(i)' = Awaited(i)
    <2> TAKE i \in 1 .. Pending
    <2>1. i \in Nat /\ i >= 1
      BY <1>5
    <2>2. CASE i <= Len(port)
      <3>1. i \in 1 .. Len(port) /\ i <= Len(port')
        BY <1>3, <1>4, <2>1, <2>2
      <3> QED BY <1>4, <2>2, <3>1 DEF Awaited
    <2>3. CASE i = Len(port) + 1
      <3>1. /\ ~(i <= Len(port)) /\ i <= Len(port') /\ i - Len(port) = 1
        BY <1>3, <1>4, <2>3
      <3> QED BY <1>2, <1>3, <1>4, <2>3, <3>1 DEF Awaited
    <2>4. CASE i > Len(port) + 1
      <3>1. /\ ~(i <= Len(port)) /\ ~(i <= Len(port'))
            /\ i - Len(port') \in 1 .. Len(toChip')
            /\ (i - Len(port')) + 1 = i - Len(port)
        BY <1>3, <1>4, <2>1, <2>4 DEF Pending
      <3> QED BY <1>3, <3>1 DEF Awaited
    <2> QED BY <1>3, <2>1, <2>2, <2>3, <2>4
  <1>7. Client'
    <2>1. port' # <<>>
      <3>1. Len(port') # 0
        BY <1>3, <1>4
      <3> QED BY <3>1
    <2> QED BY <1>1, <2>1 DEF DInv, Client, client
  <1>8. Awaiting' = Awaiting /\ Slack' = Slack
    BY <1>1 DEF Awaiting, Slack, client
  <1>9. CASE phase # "opening"
    <2>1. Owed'
      BY <1>1, <1>5, <1>8, <1>9 DEF DInv, Owed, client
    <2> QED BY <1>1, <1>7, <2>1 DEF DInv
  <1>10. CASE phase = "opening"
    <2>1. Pending = stale + Awaiting /\ Awaiting \in {0, 1}
      BY <1>10 DEF DInv, Owed, Awaiting
    <2>2. step \in Nat /\ step >= 1
      <3>1. Len(Opening[role]) \in {1, 3}
        BY Openings DEF DInv, Client
      <3> QED BY <3>1 DEF DInv, Client
    <2>3. \A j \in 1 .. step - 1 + Awaiting :
            stale + j >= step =>
              Awaited(stale + j - step + 1)' = Asked[role][j]
      <3> TAKE j \in 1 .. step - 1 + Awaiting
      <3>1. PICK i : i = stale + j - step + 1
        OBVIOUS
      <3>2. stale + j >= step => i \in 1 .. Pending
        BY <2>1, <2>2, <3>1 DEF DInv
      <3>3. stale + j >= step => Awaited(i) = Asked[role][j]
        BY <1>10, <3>1 DEF DInv, Owed
      <3>4. stale' = stale /\ step' = step
        BY <1>1 DEF client
      <3> QED BY <1>6, <3>1, <3>2, <3>3, <3>4
    <2>4. ASSUME step = 3, call # "none", stale = 0
          PROVE  toChip' = <<>> /\ (port'[1].data = 0 => rate' = "DMR")
      <3>1. toChip = <<BuildRatep("DMR")>>
        BY <1>1, <1>10, <2>4 DEF DInv, Owed
      <3>2. toChip' = <<>> /\ Head(toChip) = BuildRatep("DMR")
        BY <1>1, <3>1
      <3>3. /\ BuildRatep("DMR").field = "ratep" /\ BuildRatep("DMR").data = "DMR"
        BY DEF BuildRatep, Control, Payload
      <3>4. Len(toChip) = 1
        BY <3>1
      <3>5. Len(port) = 0
        BY <1>3, <2>1, <2>4, <3>4 DEF Pending, Awaiting
      <3>6. port'[1] = answer
        BY <1>4, <3>5
      <3> QED BY <1>2, <3>2, <3>3, <3>6
    <2>5. Owed'
      <3>1. UNCHANGED <<role, phase, step, call, stale>>
        BY <1>1 DEF client
      <3>2. \A j \in 1 .. step' - 1 + Awaiting' :
              stale' + j >= step' =>
                Awaited(stale + j - step + 1)' = Asked[role'][j]
        BY <1>8, <2>3, <3>1
      <3> QED BY <1>5, <1>8, <1>10, <2>1, <2>4, <3>1, <3>2 DEF Owed
    <2> QED BY <1>1, <1>7, <2>5 DEF DInv
  <1> QED BY <1>9, <1>10

LEMMA DInvInit == Init => DInv
  <1> SUFFICES ASSUME Init PROVE DInv
    OBVIOUS
  <1>1. port = <<>> /\ ends = <<>> /\ skip = 0 /\ have = 0 /\ toChip = <<>>
    BY DEF Init
  <1>2. /\ port \in Seq(Packets) /\ ends \in Seq(Nat) /\ toChip \in Seq(Asks)
        /\ Len(port) = 0 /\ Len(ends) = 0
    BY <1>1
  <1>3. Stream
    BY <1>1, <1>2 DEF Stream, Unread, End
  <1>4. 1 \in 1 .. Len(Opening["vocoder"])
    BY Openings
  <1>5. Client /\ Owed
    BY <1>4 DEF Init, Client, Owed
  <1> QED BY <1>2, <1>3, <1>5 DEF Init, DInv, Rates

LEMMA DInvNext == DInv /\ [Next]_vars => DInv'
  <1> SUFFICES ASSUME DInv, [Next]_vars PROVE DInv'
    OBVIOUS
  <1>1. CASE UNCHANGED vars
    BY <1>1 DEF DInv, Stream, Client, Owed, Unread, End, Pending, Slack, Awaiting,
                Awaited, vars, client, chip, stream, history
  <1> QED BY <1>1, OpenOwed, AskOwed, CallOwed, HeaderOwed, PayloadOwed, TimeoutOwed,
             CloseOwed, ChipOwed, ArriveOwed DEF Next, Rest

\* Between calls an open client is behind the chip by one answer at most for
\* each read that failed, unless the port held as many stale answers as open()
\* asks questions (ThumbDv::recv, ThumbDvClient::client_send_recv).
THEOREM BehindByItsFailures == Spec => []BehindByFailures
  <1>1. DInv => BehindByFailures
    BY DEF DInv, Owed, BehindByFailures, Slack, Awaiting
  <1> QED BY DInvInit, DInvNext, <1>1, PTL DEF Spec

\* A vocoder that opens on a port with fewer stale answers than open() asks
\* questions has met none, has read all there is, and its chip is at the DMR
\* rate (ThumbDv::init).
THEOREM OpensInStep == Spec => OpenedInStep
  <1>1. DInv /\ [Next]_vars =>
          [phase = "opening" /\ phase' = "open" /\ role = "vocoder"
             /\ stale < Len(Opening[role])
             => rate = "DMR" /\ Pending' = 0]_vars
    <2> SUFFICES ASSUME DInv, Next, phase = "opening", phase' = "open",
                        role = "vocoder", stale < Len(Opening[role])
                 PROVE  rate = "DMR" /\ Pending' = 0
      OBVIOUS
    <2>1. ReadPayload /\ Content(call, Parse(Head(port)))
      BY DEF Next, Open, Ask, Call, ReadHeader, ReadPayload, ReadTimesOut, Close,
             ChipAnswers, Arrive, Rest, Failed, client, vars
    <2>2. step = Len(Opening[role])
      <3>1. ~(step < Len(Opening[role]))
        BY <2>1 DEF ReadPayload, Returned
      <3>2. step \in 1 .. Len(Opening[role]) /\ Len(Opening[role]) = 3
        BY Openings DEF DInv, Client
      <3> QED BY <3>1, <3>2
    <2> QED BY <2>1, <2>2, LastAnswer
  <1> QED BY DInvInit, DInvNext, <1>1, PTL DEF Spec, OpenedInStep
=============================================================================
