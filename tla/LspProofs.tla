------------------------------ MODULE LspProofs ------------------------------
(***************************************************************************)
(* Proofs about Lsp, for all sizes of headers, contents and buffers and    *)
(* any number of messages.                                                 *)
(***************************************************************************)
EXTENDS Lsp, SequenceTheorems, TLAPS

(***************************************************************************)
(* The inductive invariant.                                                *)
(***************************************************************************)
Sent == [end : Nat, size : Nat, request : BOOLEAN]

\* What was sent, handled and answered.
Stream ==
    /\ sent \in Seq(Sent) /\ Len(sent) <= MaxMsgs
    /\ \A i \in 1 .. Len(sent) :
          /\ [size |-> sent[i].size, request |-> sent[i].request] \in Message
          /\ sent[i].end = sent[i].size + (IF i = 1 THEN 0 ELSE sent[i - 1].end)
    /\ handled \in Seq(Nat)
    /\ \A i \in 1 .. Len(handled) : handled[i] \in {Garbled} \cup 1 .. Len(sent)
    /\ replies \in Seq(Nat)
    /\ \A i \in 1 .. Len(replies) : replies[i] \in {Garbled} \cup 1 .. Len(sent)

\* The other variables.
Scalars ==
    /\ sock \in {"invalid", "unconnected", "connected"}
    /\ peer \in {"open", "closed", "reset"}
    /\ arrived \in Nat /\ readTo \in Nat
    /\ readTo <= arrived /\ arrived <= SentEnd
    /\ lpc \in {"connect", "poll", "read", "frame", "rest", "handle", "done"}
    /\ avail \in Nat /\ got \in Nat /\ pack \in Nat /\ room \in Nat
    /\ stale \in Nat /\ filled \in Nat /\ live \in Nat
    /\ heap \in BOOLEAN /\ header \in BOOLEAN /\ slip \in BOOLEAN
    /\ (lpc = "done") = (lout # "running")
    /\ lout \in {"running", "returned", "panic", "crash"}

\* What is sent is counted without wrapping around.
BytesCounted ==
    \A i \in 1 .. Len(sent) :
        \E c \in ContSizes : sent[i].end <= i * (HdrSize + c)

\* A message begins where no earlier one goes on.
Apart ==
    \A i, j \in 1 .. Len(sent) :
        i < j => sent[i].end <= sent[j].end - sent[j].size

\* The connection has ended, and all of it was read.
Ended == peer = "closed" /\ arrived = readTo

\* The client has sent more than was handled.
Pending == Len(handled) < Len(sent)

\* The message that is to be handled next.
NextMsg == sent[Len(handled) + 1]

InMessage == lpc \in {"read", "frame", "rest", "handle"}

Connection ==
    /\ lpc = "connect" => peer = "open" /\ sock = "invalid"
    /\ peer # "open" => sock = "connected"
    /\ InMessage => sock = "connected"

\* What the server has read of the stream and is told to read.
ReadSoFar ==
    /\ got <= readTo
    /\ lpc \in {"connect", "poll", "read"} => got = 0
    /\ lpc = "read" =>
          /\ avail = 0 => peer # "open" /\ arrived = readTo
          /\ \/ readTo + avail <= arrived
             \/ peer = "reset" /\ arrived = readTo
    /\ lpc = "frame" => got = avail /\ (avail = 0 => Ended)
    /\ lpc \in {"rest", "handle"} => got >= avail /\ pack < U32
    /\ lpc = "rest" => got # pack
    /\ lpc = "handle" => got = pack \/ Ended
    /\ stale <= U32

\* Where in the stream the server is, until it slips.
InStep ==
    ~slip =>
        /\ Len(handled) <= Len(sent)
        /\ lpc \in {"connect", "poll"} => readTo = HandledEnd \/ Ended
        /\ lpc = "read" /\ avail # 0 => readTo = HandledEnd
        /\ lpc = "frame" /\ avail # 0 => readTo = HandledEnd + got
        /\ lpc \in {"rest", "handle"} =>
              \/ lpc = "rest" /\ avail = 0 /\ got = 0 /\ Ended
              \/ /\ got > 0 /\ header
                 /\ readTo = HandledEnd + got
                 /\ Pending
                 /\ pack = NextMsg.size

\* What was handled as it was sent ends before the reads that go on now.
HandledBefore ==
    \A i \in 1 .. Len(handled) :
        handled[i] # Garbled => sent[handled[i]].end <= Start

\* There is no header in the buffer before the first message.
NoneBefore ==
    handled = <<>> =>
        /\ ~slip
        /\ lpc \in {"connect", "poll", "read"} => stale = 0
        /\ lpc = "frame" /\ avail < CrlfSize => stale = 0

\* Until the server slips, a garbled message is the last one.
GarbledLast ==
    ~slip /\ (\E i \in 1 .. Len(handled) : handled[i] = Garbled) =>
        /\ Ended
        /\ lpc \in {"poll", "read", "frame", "rest", "done"}
        /\ lpc \in {"read", "frame", "rest"} => avail = 0

\* The buffer is one of its own only while a message is read.
Buffers ==
    /\ heap /\ lout = "running" => InMessage
    /\ InMessage => avail < room /\ RecvBufSize < room

IInv == /\ Stream /\ Scalars /\ BytesCounted /\ Apart
        /\ Connection /\ ReadSoFar /\ InStep /\ HandledBefore /\ NoneBefore
        /\ GarbledLast /\ Buffers /\ LeakPerMessage /\ StopsOnlyFor
-----------------------------------------------------------------------------
(***************************************************************************)
(* The stream.                                                             *)
(***************************************************************************)
\* What is sent has an end, a size and a kind.
LEMMA Sizes ==
    ASSUME Stream
    PROVE  \A i \in 1 .. Len(sent) :
               /\ sent[i] \in Sent
               /\ sent[i].end \in Nat /\ sent[i].size \in Nat
               /\ sent[i].request \in BOOLEAN
<1>1. \A i \in 1 .. Len(sent) : sent[i] \in Sent
  BY DEF Stream
<1>2. \A m \in Sent : m.end \in Nat /\ m.size \in Nat /\ m.request \in BOOLEAN
  BY DEF Sent
<1>3. QED
  BY <1>1, <1>2

\* A message begins where the one before it ends.
LEMMA Places ==
    ASSUME Stream
    PROVE  \A i \in 1 .. Len(sent) :
               sent[i].end = sent[i].size + (IF i = 1 THEN 0 ELSE sent[i - 1].end)
BY DEF Stream

\* The ends of what was sent and of what was handled are places in it.
LEMMA EndsTyped ==
    ASSUME Stream
    PROVE  /\ SentEnd \in Nat
           /\ Len(handled) <= Len(sent) => HandledEnd \in Nat
           /\ Len(handled) = Len(sent) => HandledEnd = SentEnd
<1>1. \A i \in 1 .. Len(sent) : sent[i].end \in Nat
  BY Sizes
<1>2. sent # <<>> => Len(sent) \in 1 .. Len(sent)
  BY DEF Stream
<1>3. Len(handled) <= Len(sent) /\ handled # <<>>
        => Len(handled) \in 1 .. Len(sent)
  BY DEF Stream
<1>4. Len(handled) = Len(sent) => (sent = <<>> <=> handled = <<>>)
  BY DEF Stream
<1>5. /\ SentEnd \in Nat
      /\ Len(handled) <= Len(sent) => HandledEnd \in Nat
  BY <1>1, <1>2, <1>3 DEF SentEnd, HandledEnd
<1>6. Len(handled) = Len(sent) => HandledEnd = SentEnd
  BY <1>4 DEF SentEnd, HandledEnd
<1>7. QED
  BY <1>5, <1>6

\* The message that is handled next begins where the last one ended.
LEMMA NextEnd ==
    ASSUME Stream, Pending
    PROVE  /\ NextMsg.size \in Nat
           /\ HdrSize < NextMsg.size
           /\ Len(handled) + 1 \in 1 .. Len(sent)
           /\ sent[Len(handled) + 1].end = HandledEnd + NextMsg.size
           /\ HandledEnd \in Nat
<1>1. Len(handled) + 1 \in 1 .. Len(sent)
  BY DEF Stream, Pending
<1>2. NextMsg.size \in Nat
  BY <1>1, Sizes DEF NextMsg
<1>3. NextMsg.size \in { HdrSize + c : c \in ContSizes }
  BY <1>1 DEF Stream, Message, NextMsg
<1>4. HdrSize < NextMsg.size
  BY <1>3, LspAssumption
<1>5. sent[Len(handled) + 1].end
        = NextMsg.size + (IF Len(handled) + 1 = 1 THEN 0
                          ELSE sent[Len(handled) + 1 - 1].end)
  BY <1>1, Places DEF NextMsg
<1>6. Len(handled) \in Nat /\ (handled = <<>> <=> Len(handled) = 0)
  BY DEF Stream
<1>7. sent[Len(handled) + 1].end
        = NextMsg.size + (IF handled = <<>> THEN 0 ELSE sent[Len(handled)].end)
  BY <1>5, <1>6
<1>8. HandledEnd \in Nat
  BY EndsTyped DEF Pending
<1>9. QED
  BY <1>1, <1>2, <1>4, <1>7, <1>8 DEF HandledEnd

\* No place in the stream is beyond a u32.
LEMMA EndSmall ==
    ASSUME Stream, BytesCounted
    PROVE  /\ U32 \in Nat /\ U32 # 0 /\ SentEnd < U32
           /\ \A i \in 1 .. Len(sent) : sent[i].end < U32
<1>1. ASSUME NEW i \in 1 .. Len(sent) PROVE sent[i].end < U32
  <2>1. PICK c \in ContSizes : sent[i].end <= i * (HdrSize + c)
    BY DEF BytesCounted
  <2>2. /\ MaxMsgs \in Nat /\ U32 \in Nat /\ HdrSize \in Nat /\ c \in Nat
        /\ MaxMsgs * (HdrSize + c) < U32
    BY LspAssumption
  <2>3. i \in Nat /\ i <= MaxMsgs /\ sent[i].end \in Nat
    BY <2>2, Sizes DEF Stream
  <2>4. \A m \in Nat : i * m <= MaxMsgs * m
    BY <2>2, <2>3
  <2>5. HdrSize + c \in Nat
    BY <2>2
  <2>6. i * (HdrSize + c) <= MaxMsgs * (HdrSize + c)
    BY <2>4, <2>5
  <2>7. QED
    BY <2>1, <2>2, <2>3, <2>5, <2>6
<1>2. sent # <<>> => Len(sent) \in 1 .. Len(sent)
  BY DEF Stream
<1>3. U32 \in Nat /\ U32 # 0
  BY LspAssumption
<1>4. \A i \in 1 .. Len(sent) : sent[i].end \in Nat
  BY Sizes
<1>5. QED
  BY <1>1, <1>2, <1>3, <1>4 DEF SentEnd

\* A message is larger than its header.
LEMMA Large ==
    ASSUME Stream
    PROVE  /\ HdrSize \in Nat /\ CrlfSize \in Nat
           /\ CrlfSize < HdrSize /\ 2 < CrlfSize
           /\ \A i \in 1 .. Len(sent) : HdrSize < sent[i].size
<1>1. ASSUME NEW i \in 1 .. Len(sent) PROVE HdrSize < sent[i].size
  <2>1. sent[i].size \in { HdrSize + c : c \in ContSizes }
    BY DEF Stream, Message
  <2>2. PICK c \in ContSizes : sent[i].size = HdrSize + c
    BY <2>1
  <2>3. HdrSize \in Nat /\ c \in Nat /\ c > 0
    BY LspAssumption
  <2>4. QED
    BY <2>2, <2>3
<1>2. QED
  BY <1>1, LspAssumption DEF CrlfSize

\* There is one message at most that begins where the reads do.
LEMMA OneBegins ==
    ASSUME Stream, Apart, NEW i \in 1 .. Len(sent), Begins(i)
    PROVE  AtHeader /\ Number = i /\ Current = sent[i]
<1>1. ASSUME NEW j \in 1 .. Len(sent), Begins(j) PROVE j = i
  <2>1. /\ sent[i].end \in Nat /\ sent[i].size \in Nat
        /\ sent[j].end \in Nat /\ sent[j].size \in Nat
        /\ 0 < sent[i].size /\ 0 < sent[j].size
        /\ i \in Nat /\ j \in Nat
    BY Sizes, Large
  <2>2. sent[i].end - sent[i].size = sent[j].end - sent[j].size
    BY <1>1 DEF Begins
  <2>3. /\ i < j => sent[i].end <= sent[j].end - sent[j].size
        /\ j < i => sent[j].end <= sent[i].end - sent[i].size
    BY DEF Apart
  <2>4. QED
    BY <2>1, <2>2, <2>3
<1>2. AtHeader
  BY DEF AtHeader
<1>3. Number \in 1 .. Len(sent) /\ Begins(Number)
  BY Zenon DEF Number
<1>4. Number = i
  BY <1>1, <1>3
<1>5. QED
  BY <1>2, <1>4 DEF Current

\* The message at whose header the reads begin.
LEMMA HeaderFacts ==
    ASSUME Stream, AtHeader
    PROVE  /\ Number \in 1 .. Len(sent)
           /\ Current = sent[Number]
           /\ sent[Number].end - sent[Number].size = Start
           /\ Current.size \in Nat /\ Current.request \in BOOLEAN
           /\ HdrSize < Current.size
<1>1. Number \in 1 .. Len(sent) /\ Begins(Number)
  BY Zenon DEF AtHeader, Number
<1>2. QED
  BY <1>1, Sizes, Large DEF Current, Begins

\* Where the reads begin depends on what was sent and read.
LEMMA StartSame ==
    ASSUME UNCHANGED <<sent, readTo, got>>
    PROVE  /\ Start' = Start /\ AtHeader' = AtHeader
           /\ Number' = Number /\ Current' = Current
<1>1. Start' = Start
  BY DEF Start
<1>2. QED
  BY <1>1 DEF AtHeader, Number, Current, Begins

\* Nothing of the stream changes when nothing is sent or handled.
LEMMA StreamSame ==
    ASSUME Stream, BytesCounted, Apart, UNCHANGED <<sent, handled, replies>>
    PROVE  /\ Stream' /\ BytesCounted' /\ Apart'
           /\ SentEnd' = SentEnd /\ HandledEnd' = HandledEnd
           /\ NextMsg' = NextMsg /\ Pending' = Pending
<1>1. /\ SentEnd' = SentEnd /\ HandledEnd' = HandledEnd
      /\ NextMsg' = NextMsg /\ Pending' = Pending
  BY DEF SentEnd, HandledEnd, NextMsg, Pending
<1>2. Stream' /\ BytesCounted' /\ Apart'
  BY DEF Stream, BytesCounted, Apart
<1>3. QED
  BY <1>1, <1>2

\* The larger and the smaller of two.
LEMMA MaxOfTwo ==
    ASSUME NEW a \in Nat, NEW b \in Nat
    PROVE  /\ Max({a, b}) \in {a, b}
           /\ Max({a, b}) >= a /\ Max({a, b}) >= b
<1>1. \E x \in {a, b} : \A y \in {a, b} : x >= y
  <2>1. CASE a >= b
    BY <2>1
  <2>2. CASE b >= a
    BY <2>2
  <2>3. QED
    BY <2>1, <2>2
<1>2. Max({a, b}) \in {a, b} /\ \A y \in {a, b} : Max({a, b}) >= y
  BY <1>1, Zenon DEF Max
<1>3. QED
  BY <1>2

\* As MaxOfTwo, for the smaller.
LEMMA MinOfTwo ==
    ASSUME NEW a \in Nat, NEW b \in Nat
    PROVE  /\ Min({a, b}) \in {a, b}
           /\ Min({a, b}) <= a /\ Min({a, b}) <= b
<1>1. \E x \in {a, b} : \A y \in {a, b} : x <= y
  <2>1. CASE a <= b
    BY <2>1
  <2>2. CASE b <= a
    BY <2>2
  <2>3. QED
    BY <2>1, <2>2
<1>2. Min({a, b}) \in {a, b} /\ \A y \in {a, b} : Min({a, b}) <= y
  BY <1>1, Zenon DEF Min
<1>3. QED
  BY <1>2

\* size_left, which wraps around.
LEMMA Left ==
    ASSUME Scalars, U32 \in Nat, got < U32, pack < U32
    PROVE  /\ SizeLeft \in Nat
           /\ got <= pack => SizeLeft = pack - got
           /\ pack < got => SizeLeft = pack - got + U32
<1>1. got \in Nat /\ pack \in Nat
  BY DEF Scalars
<1>2. got <= pack => (pack - got) % U32 = pack - got
  BY <1>1
<1>3. pack < got => (pack - got) % U32 = pack - got + U32
  BY <1>1
<1>4. QED
  BY <1>1, <1>2, <1>3 DEF SizeLeft
-----------------------------------------------------------------------------
(***************************************************************************)
(* The client and the network.                                             *)
(***************************************************************************)
\* While the connection lasts and the server is in step nothing was handled
\* garbled.
LEMMA NoneGarbled ==
    ASSUME IInv, peer # "closed", ~slip
    PROVE  \A i \in 1 .. Len(handled) : handled[i] # Garbled
BY DEF IInv, GarbledLast, Ended

\* Sending a message keeps the places of those sent before.
LEMMA SendStream ==
    ASSUME IInv, Send
    PROVE  /\ Stream' /\ BytesCounted' /\ Apart'
           /\ SentEnd <= SentEnd' /\ SentEnd' \in Nat
           /\ ~slip => /\ HandledEnd' = HandledEnd
                       /\ Pending'
                       /\ Pending => NextMsg' = NextMsg
           /\ \A i \in 1 .. Len(sent) : sent'[i] = sent[i]
           /\ Len(sent) <= Len(sent')
<1> USE DEF IInv
<1>1. PICK m \in Message :
        sent' = Append(sent, [end |-> SentEnd + m.size, size |-> m.size,
                              request |-> m.request])
  BY DEF Send
<1>2. PICK c \in ContSizes : m.size = HdrSize + c /\ m.request \in BOOLEAN
  BY DEF Message
<1>3. HdrSize \in Nat /\ c \in Nat /\ m.size \in Nat
  BY <1>2, LspAssumption
<1>4. SentEnd \in Nat
  BY EndsTyped
<1> DEFINE new == [end |-> SentEnd + m.size, size |-> m.size,
                   request |-> m.request]
<1>5. new \in Sent
  BY <1>2, <1>3, <1>4 DEF Sent
<1>6. sent \in Seq(Sent) /\ Len(sent) \in Nat
  BY DEF Stream
<1>7. /\ sent' \in Seq(Sent) /\ Len(sent') = Len(sent) + 1
      /\ \A i \in 1 .. Len(sent) : sent'[i] = sent[i]
      /\ sent'[Len(sent) + 1] = new
  <2> HIDE DEF new
  <2>1. sent' = Append(sent, new)
    BY <1>1 DEF new
  <2>2. QED
    BY <1>5, <1>6, <2>1
<1>8. UNCHANGED <<handled, replies>> /\ Len(sent) < MaxMsgs /\ MaxMsgs \in Nat
  BY LspAssumption DEF Send, done
<1>9. /\ handled \in Seq(Nat) /\ Len(handled) \in Nat
      /\ ~slip => Len(handled) <= Len(sent)
  BY DEF Stream, InStep
<1>10. SentEnd' = SentEnd + m.size
  BY <1>6, <1>7 DEF SentEnd
<1>11. ~slip => HandledEnd' = HandledEnd
  BY <1>6, <1>7, <1>8, <1>9 DEF HandledEnd
<1>12. ~slip => Pending' /\ (Pending => NextMsg' = NextMsg)
  <2>1. handled' = handled
    BY <1>8
  <2>2. ~slip => Pending'
    BY <1>6, <1>7, <1>9, <2>1 DEF Pending
  <2>3. Pending => Len(handled) + 1 \in 1 .. Len(sent)
    BY <1>6, <1>9 DEF Pending
  <2>4. Pending => NextMsg' = NextMsg
    BY <1>7, <2>1, <2>3 DEF NextMsg
  <2>5. QED
    BY <2>2, <2>4
<1>13. SentEnd = (IF Len(sent) = 0 THEN 0 ELSE sent[Len(sent)].end)
  BY <1>6 DEF SentEnd
<1>14. Stream'
  <2>1. sent' \in Seq(Sent) /\ Len(sent') <= MaxMsgs
    BY <1>6, <1>7, <1>8
  <2>2. ASSUME NEW i \in 1 .. Len(sent')
        PROVE  /\ [size |-> sent'[i].size, request |-> sent'[i].request] \in Message
               /\ sent'[i].end = sent'[i].size + (IF i = 1 THEN 0 ELSE sent'[i - 1].end)
    <3>1. CASE i \in 1 .. Len(sent)
      <4>1. sent'[i] = sent[i] /\ (i # 1 => sent'[i - 1] = sent[i - 1])
        BY <1>6, <1>7, <3>1
      <4>2. QED
        BY <3>1, <4>1 DEF Stream, Message
    <3>2. CASE i = Len(sent) + 1
      <4>1. sent'[i].size = m.size /\ sent'[i].request = m.request
            /\ sent'[i].end = SentEnd + m.size
        BY <1>7, <3>2
      <4>2. [size |-> m.size, request |-> m.request] \in Message
        BY <1>2 DEF Message
      <4>3. i # 1 => sent'[i - 1] = sent[Len(sent)]
        BY <1>6, <1>7, <3>2
      <4>4. sent'[i].end = sent'[i].size + (IF i = 1 THEN 0 ELSE sent'[i - 1].end)
        BY <1>3, <1>4, <1>6, <1>13, <3>2, <4>1, <4>3
      <4>5. QED
        BY <4>1, <4>2, <4>4
    <3>3. QED
      BY <1>6, <1>7, <3>1, <3>2
  <2>3. /\ \A i \in 1 .. Len(handled) : handled[i] \in {Garbled} \cup 1 .. Len(sent')
        /\ \A i \in 1 .. Len(replies) : replies[i] \in {Garbled} \cup 1 .. Len(sent')
    BY <1>6, <1>7, <1>9 DEF Stream
  <2>4. QED
    BY <1>8, <2>1, <2>2, <2>3 DEF Stream, Message
<1>15. BytesCounted'
  <2> SUFFICES ASSUME NEW i \in 1 .. Len(sent')
               PROVE  \E d \in ContSizes : sent'[i].end <= i * (HdrSize + d)
    BY DEF BytesCounted
  <2>1. CASE i \in 1 .. Len(sent)
    BY <1>7, <2>1 DEF BytesCounted
  <2>2. CASE i = Len(sent) + 1
    <3>1. sent'[i].end = SentEnd + HdrSize + c
      BY <1>2, <1>3, <1>4, <1>7, <2>2
    <3>2. CASE Len(sent) = 0
      <4>1. sent'[i].end = 1 * (HdrSize + c)
        BY <1>3, <1>13, <3>1, <3>2
      <4>2. QED
        BY <1>3, <2>2, <3>2, <4>1
    <3>3. CASE Len(sent) # 0
      <4>1. PICK b \in ContSizes : SentEnd <= Len(sent) * (HdrSize + b)
        BY <1>6, <1>13, <3>3 DEF BytesCounted
      <4>2. b \in Nat
        BY LspAssumption
      <4>3. \E d \in ContSizes : d \in Nat /\ c <= d /\ b <= d
        <5>1. CASE c <= b
          BY <4>2, <5>1
        <5>2. CASE b <= c
          BY <1>3, <5>2
        <5>3. QED
          BY <1>3, <4>2, <5>1, <5>2
      <4>4. PICK d \in ContSizes : d \in Nat /\ c <= d /\ b <= d
        BY <4>3
      <4>5. Len(sent) * (HdrSize + b) <= Len(sent) * (HdrSize + d)
        <5>1. \A n, x, y \in Nat : x <= y => n * x <= n * y
          OBVIOUS
        <5>2. HdrSize + b \in Nat /\ HdrSize + d \in Nat
              /\ HdrSize + b <= HdrSize + d
          BY <1>3, <4>2, <4>4
        <5>3. QED
          BY <1>6, <5>1, <5>2
      <4>6. (Len(sent) + 1) * (HdrSize + d) = Len(sent) * (HdrSize + d) + HdrSize + d
        BY <1>3, <1>6, <4>4
      <4>7. /\ Len(sent) * (HdrSize + b) \in Nat
            /\ Len(sent) * (HdrSize + d) \in Nat
        <5>1. \A n, x \in Nat : n * x \in Nat
          OBVIOUS
        <5>2. HdrSize + b \in Nat /\ HdrSize + d \in Nat
          BY <1>3, <4>2, <4>4
        <5>3. QED
          BY <1>6, <5>1, <5>2
      <4>8. sent'[i].end <= (Len(sent) + 1) * (HdrSize + d)
        <5>1. \A p, q, s, h, x, y \in Nat :
                 s <= p /\ p <= q /\ x <= y => s + h + x <= q + h + y
          OBVIOUS
        <5>2. SentEnd + HdrSize + c <= Len(sent) * (HdrSize + d) + HdrSize + d
          BY <1>3, <1>4, <4>1, <4>4, <4>5, <4>7, <5>1
        <5>3. QED
          BY <3>1, <4>6, <5>2
      <4>9. QED
        BY <2>2, <4>4, <4>8
    <3>4. QED
      BY <3>2, <3>3
  <2>3. QED
    BY <1>6, <1>7, <2>1, <2>2
<1>16. Apart'
  <2> SUFFICES ASSUME NEW i \in 1 .. Len(sent'), NEW j \in 1 .. Len(sent'), i < j
               PROVE  sent'[i].end <= sent'[j].end - sent'[j].size
    BY DEF Apart
  <2>1. i \in 1 .. Len(sent) /\ sent'[i] = sent[i]
    BY <1>6, <1>7
  <2>2. CASE j \in 1 .. Len(sent)
    BY <1>7, <2>1, <2>2 DEF Apart
  <2>3. CASE j = Len(sent) + 1
    <3>1. sent'[j].end - sent'[j].size = SentEnd
      BY <1>3, <1>4, <1>7, <2>3
    <3>2. SentEnd = sent[Len(sent)].end /\ Len(sent) \in 1 .. Len(sent)
      BY <1>6, <1>13, <2>1
    <3>3. sent[i].end <= SentEnd
      <4>1. CASE i = Len(sent)
        BY <1>4, <3>2, <4>1
      <4>2. CASE i < Len(sent)
        <5>1. sent[i].end <= sent[Len(sent)].end - sent[Len(sent)].size
          BY <2>1, <3>2, <4>2 DEF Apart
        <5>2. sent[Len(sent)].size \in Nat /\ sent[i].end \in Nat
          BY <2>1, <3>2, Sizes
        <5>3. QED
          BY <1>4, <3>2, <5>1, <5>2
      <4>3. QED
        BY <1>6, <2>1, <4>1, <4>2
    <3>4. QED
      BY <2>1, <3>1, <3>3
  <2>4. QED
    BY <1>6, <1>7, <2>2, <2>3
<1>17. QED
  BY <1>3, <1>4, <1>6, <1>7, <1>10, <1>11, <1>12, <1>14, <1>15, <1>16

\* The client sends, the network delivers, the connection ends.
LEMMA ClientSteps ==
    ASSUME IInv, Client
    PROVE  IInv'
<1> USE DEF IInv
<1>1. /\ Connected /\ lout' = "running" /\ lpc' = lpc
      /\ UNCHANGED <<sock, readTo, buffer, done, live, lout>>
  BY DEF Client, Send, Deliver, Close, Reset, Connected
<1>2. UNCHANGED <<avail, got, pack, heap, room, stale, header, slip, filled,
                  handled, replies>>
  BY <1>1 DEF buffer, done
<1>3. /\ Stream' /\ BytesCounted' /\ Apart'
      /\ SentEnd <= SentEnd' /\ SentEnd' \in Nat
      /\ ~slip => /\ HandledEnd' = HandledEnd
                  /\ Pending => Pending' /\ NextMsg' = NextMsg
      /\ \A i \in 1 .. Len(sent) : sent'[i] = sent[i]
      /\ Len(sent) <= Len(sent') /\ Len(sent') \in Nat
  <2>1. CASE Send
    BY <2>1, SendStream DEF Stream
  <2>2. CASE ~Send
    <3>1. UNCHANGED <<sent, handled, replies>>
      BY <1>2, <2>2 DEF Client, Deliver, Close, Reset
    <3>2. QED
      BY <3>1, StreamSame, EndsTyped DEF Stream
  <2>3. QED
    BY <2>1, <2>2
<1>4. /\ peer = "open" /\ sock = "connected"
      /\ peer' \in {"open", "closed", "reset"}
      /\ arrived' \in Nat /\ readTo <= arrived' /\ arrived' <= SentEnd'
      /\ (peer' = "reset" /\ arrived' = readTo) \/ arrived <= arrived'
  <2>1. SentEnd \in Nat
    BY EndsTyped
  <2>2. CASE Send
    BY <1>1, <1>3, <2>1, <2>2 DEF Send, Connected, Scalars
  <2>3. CASE Deliver
    BY <1>1, <1>3, <2>1, <2>3 DEF Deliver, Connected, Scalars
  <2>4. CASE Close
    BY <1>1, <1>3, <2>1, <2>4 DEF Close, Connected, Scalars
  <2>5. CASE Reset
    BY <1>1, <1>3, <2>1, <2>5 DEF Reset, Connected, Scalars
  <2>6. QED
    BY <2>2, <2>3, <2>4, <2>5 DEF Client
<1>5. Scalars'
  BY <1>1, <1>2, <1>4 DEF Scalars
<1>6. Connection'
  BY <1>1, <1>4 DEF Connection, InMessage
<1>7. ~Ended
  BY <1>4 DEF Ended
<1>8. ReadSoFar'
  <2>1. CASE lpc = "read"
    BY <1>1, <1>2, <1>4, <2>1 DEF ReadSoFar, Scalars
  <2>2. CASE lpc # "read"
    BY <1>1, <1>2, <1>4, <1>7, <2>2 DEF ReadSoFar
  <2>3. QED
    BY <2>1, <2>2
<1>9. InStep'
  <2>1. Len(handled) \in Nat /\ Len(sent) \in Nat
    BY DEF Stream
  <2>2. QED
    BY <1>1, <1>2, <1>3, <1>7, <2>1 DEF InStep
<1>10. HandledBefore' /\ NoneBefore'
  <2>1. Start' = Start
    BY <1>1, <1>2 DEF Start
  <2>2. HandledBefore'
    BY <1>2, <1>3, <2>1 DEF HandledBefore, Stream
  <2>3. NoneBefore'
    BY <1>1, <1>2 DEF NoneBefore
  <2>4. QED
    BY <2>2, <2>3
<1>11. GarbledLast'
  BY <1>2, <1>4, NoneGarbled DEF GarbledLast
<1>12. Buffers' /\ LeakPerMessage' /\ StopsOnlyFor'
  BY <1>1, <1>2 DEF Buffers, InMessage, LeakPerMessage, StopsOnlyFor
<1>13. QED
  BY <1>3, <1>5, <1>6, <1>8, <1>9, <1>10, <1>11, <1>12
-----------------------------------------------------------------------------
(***************************************************************************)
(* lsp_connect, lsp_run and the reads.                                     *)
(***************************************************************************)
\* The server stops, for one of the reasons it may.
LEMMA Stops ==
    ASSUME IInv, lpc # "done", NEW how, Stop(how),
           how \in {"panic", "crash"}, StopsOnlyFor'
    PROVE  IInv'
<1> USE DEF IInv
<1>1. /\ lpc' = "done" /\ lout' = how
      /\ UNCHANGED <<sock, peer, sent, arrived, readTo, avail, got, pack, heap,
                     room, stale, header, slip, filled, handled, replies,
                     live>>
  BY DEF Stop, client, buffer, done
<1>2. /\ Stream' /\ BytesCounted' /\ Apart' /\ SentEnd' = SentEnd
  BY <1>1, StreamSame
<1>3. Scalars'
  BY <1>1, <1>2 DEF Scalars
<1>4. Connection' /\ ReadSoFar' /\ InStep' /\ Buffers' /\ LeakPerMessage'
  BY <1>1 DEF Connection, ReadSoFar, InStep, Buffers, LeakPerMessage, InMessage
<1>5. GarbledLast' /\ HandledBefore' /\ NoneBefore'
  BY <1>1, StartSame DEF GarbledLast, Ended, HandledBefore, NoneBefore
<1>6. QED
  BY <1>2, <1>3, <1>4, <1>5

\* The server returns from lsp_run.
LEMMA Returns ==
    ASSUME IInv, PollFails \/ ReadFails
    PROVE  IInv'
<1> USE DEF IInv
<1>1. /\ lpc' = "done" /\ lout' = "returned"
      /\ UNCHANGED <<sock, peer, sent, arrived, readTo, avail, got, pack, heap,
                     room, stale, header, slip, filled, handled, replies,
                     live>>
  BY DEF PollFails, ReadFails, Return, buffer, done
<1>2. /\ Stream' /\ BytesCounted' /\ Apart' /\ SentEnd' = SentEnd
  BY <1>1, StreamSame
<1>3. Scalars'
  BY <1>1, <1>2 DEF Scalars
<1>4. Connection' /\ ReadSoFar' /\ InStep' /\ Buffers' /\ LeakPerMessage'
  BY <1>1 DEF Connection, ReadSoFar, InStep, Buffers, LeakPerMessage, InMessage
<1>5. GarbledLast' /\ HandledBefore' /\ NoneBefore'
  BY <1>1, StartSame DEF GarbledLast, Ended, HandledBefore, NoneBefore
<1>6. StopsOnlyFor'
  BY <1>1 DEF StopsOnlyFor, PollFails, ReadFails
<1>7. QED
  BY <1>2, <1>3, <1>4, <1>5, <1>6

\* lsp_connect, whatever its result.
LEMMA Connects ==
    ASSUME IInv, Connect
    PROVE  IInv'
<1> USE DEF IInv
<1>1. /\ lpc = "connect" /\ lpc' = "poll"
      /\ sock' \in {"invalid", "unconnected", "connected"}
      /\ UNCHANGED <<peer, sent, arrived, readTo, avail, got, pack, heap,
                     room, stale, header, slip, filled, handled, replies,
                     live, lout>>
  BY DEF Connect, client, buffer, done
<1>2. /\ Stream' /\ BytesCounted' /\ Apart'
      /\ SentEnd' = SentEnd /\ HandledEnd' = HandledEnd
  BY <1>1, StreamSame
<1>3. Scalars' /\ lout = "running" /\ peer = "open"
  BY <1>1, <1>2 DEF Scalars, Connection
<1>4. Connection' /\ ReadSoFar' /\ InStep' /\ Buffers'
  BY <1>1, <1>2, <1>3
  DEF Connection, ReadSoFar, InStep, Buffers, InMessage, Ended
<1>5. GarbledLast' /\ HandledBefore' /\ NoneBefore'
  BY <1>1, <1>3, NoneGarbled, StartSame DEF GarbledLast, HandledBefore, NoneBefore
<1>6. StopsOnlyFor' /\ LeakPerMessage'
  BY <1>1, <1>3 DEF StopsOnlyFor, LeakPerMessage
<1>7. QED
  BY <1>2, <1>3, <1>4, <1>5, <1>6

\* What is available is what has arrived since the last message.
LEMMA Polls ==
    ASSUME IInv, Poll
    PROVE  IInv'
<1> USE DEF IInv
<1>1. /\ lpc = "poll" /\ lpc' = "read" /\ sock = "connected" /\ Readable
      /\ UNCHANGED <<sock, peer, sent, arrived, readTo, got, pack,
                     stale, header, slip, filled, handled, replies, lout>>
  BY DEF Poll, client, done
<1>2. /\ Stream' /\ BytesCounted' /\ Apart'
      /\ SentEnd' = SentEnd /\ HandledEnd' = HandledEnd
  BY <1>1, StreamSame
<1>3. /\ avail' \in Nat /\ readTo + avail' <= arrived
      /\ avail' = 0 <=> arrived = readTo
  <2>1. avail' = arrived - readTo
    BY DEF Poll
  <2>2. arrived \in Nat /\ readTo \in Nat /\ readTo <= arrived
    BY DEF Scalars
  <2>3. \A a, r \in Nat : r <= a => /\ a - r \in Nat /\ r + (a - r) <= a
                                   /\ a - r = 0 <=> a = r
    OBVIOUS
  <2>4. QED
    BY <2>1, <2>2, <2>3
<1>4. room' \in Nat /\ avail' < room' /\ RecvBufSize < room'
  <2>1. RecvBufSize \in Nat
    BY LspAssumption
  <2>2. room' = Max({avail', RecvBufSize}) + 1
    BY DEF Poll
  <2>3. QED
    BY <1>3, <2>1, <2>2, MaxOfTwo
<1>5. lout = "running" /\ ~heap
  BY <1>1 DEF Scalars, Buffers, InMessage
<1>6. heap' \in BOOLEAN /\ live' = live + (IF heap' THEN 1 ELSE 0)
  BY DEF Poll, Scalars
<1>7. Scalars'
  BY <1>1, <1>2, <1>3, <1>4, <1>6 DEF Scalars
<1>8. Connection' /\ Buffers'
  BY <1>1, <1>4 DEF Connection, Buffers, InMessage
<1>9. ReadSoFar' /\ InStep'
  <2>1. arrived \in Nat /\ readTo \in Nat
    BY DEF Scalars
  <2>2. ~slip => readTo = HandledEnd \/ Ended
    BY <1>1 DEF InStep
  <2>3. avail' = 0 => peer # "open" /\ arrived = readTo
    BY <1>1, <1>3, <2>1 DEF Readable
  <2>4. ~slip /\ avail' # 0 => readTo = HandledEnd
    BY <1>3, <2>1, <2>2 DEF Ended
  <2>5. ReadSoFar'
    BY <1>1, <1>3, <2>3 DEF ReadSoFar
  <2>6. InStep'
    BY <1>1, <1>2, <2>4 DEF InStep
  <2>7. QED
    BY <2>5, <2>6
<1>10. GarbledLast' /\ HandledBefore' /\ NoneBefore'
  <2>1. Ended => avail' = 0
    BY <1>3 DEF Ended
  <2>2. QED
    BY <1>1, <2>1, StartSame DEF GarbledLast, Ended, HandledBefore, NoneBefore
<1>11. StopsOnlyFor' /\ LeakPerMessage'
  <2>1. live = Len(handled) + Len(replies) /\ Len(handled) \in Nat
        /\ Len(replies) \in Nat
    BY <1>5 DEF LeakPerMessage, Stream
  <2>2. QED
    BY <1>1, <1>5, <1>6, <2>1 DEF StopsOnlyFor, LeakPerMessage
<1>12. QED
  BY <1>2, <1>7, <1>8, <1>9, <1>10, <1>11

\* What a buffer begins with is a size or Stray.
LEMMA BegunTyped ==
    ASSUME IInv, NEW n \in Nat
    PROVE  Begun(n) \in Nat /\ Begun(n) <= U32
<1>1. stale \in Nat /\ stale <= U32
  BY DEF IInv, Scalars, ReadSoFar
<1>2. U32 \in Nat /\ \A i \in 1 .. Len(sent) : sent[i].end < U32
  BY EndSmall DEF IInv
<1>3. AtHeader => Current.size \in Nat /\ Current.size <= U32
  <2>1. got <= readTo /\ got \in Nat /\ readTo \in Nat
    BY DEF IInv, ReadSoFar, Scalars
  <2>2. AtHeader => /\ Number \in 1 .. Len(sent) /\ Current = sent[Number]
                    /\ sent[Number].end - sent[Number].size = Start
                    /\ sent[Number].end \in Nat /\ sent[Number].size \in Nat
    BY HeaderFacts, Sizes DEF IInv
  <2>3. QED
    BY <1>2, <2>1, <2>2 DEF Start
<1>4. QED
  BY <1>1, <1>2, <1>3 DEF Begun, Stray

\* A read takes what was available.
LEMMA Reads ==
    ASSUME IInv, Read
    PROVE  IInv'
<1> USE DEF IInv
<1>1. /\ lpc = "read" /\ lpc' = "frame"
      /\ readTo' = readTo + avail /\ got' = avail
      /\ ~(peer = "reset" /\ arrived = readTo)
      /\ stale' = Begun(avail)
      /\ UNCHANGED <<sock, peer, sent, arrived, avail, pack, heap, room,
                     header, slip, handled, replies, live, lout>>
  BY DEF Read, client, done
<1>2. /\ Stream' /\ BytesCounted' /\ Apart'
      /\ SentEnd' = SentEnd /\ HandledEnd' = HandledEnd
  BY <1>1, StreamSame
<1>3. /\ readTo + avail <= arrived /\ got = 0
      /\ avail = 0 => Ended
      /\ ~slip /\ avail # 0 => readTo = HandledEnd
  BY <1>1 DEF ReadSoFar, InStep, Scalars, Ended
<1>4. filled' \in Nat
  <2>1. filled' = IF heap THEN filled ELSE Max({filled, avail})
    BY DEF Read
  <2>2. filled \in Nat /\ avail \in Nat
    BY DEF Scalars
  <2>3. QED
    BY <2>1, <2>2, MaxOfTwo
<1>5. Scalars' /\ stale' <= U32
  <2>1. avail \in Nat
    BY DEF Scalars
  <2>2. stale' \in Nat /\ stale' <= U32
    BY <1>1, <2>1, BegunTyped
  <2>3. Scalars'
    BY <1>1, <1>2, <1>3, <1>4, <2>2 DEF Scalars
  <2>4. QED
    BY <2>2, <2>3
<1>6. Connection' /\ Buffers'
  BY <1>1 DEF Connection, Buffers, InMessage
<1>7. ReadSoFar' /\ InStep'
  BY <1>1, <1>2, <1>3, <1>5 DEF ReadSoFar, InStep, Scalars, Ended
<1>8. GarbledLast' /\ HandledBefore' /\ NoneBefore'
  <2>1. Start' = Start
    BY <1>1, <1>3 DEF Start, Scalars
  <2>2. avail < CrlfSize => stale' = stale
    BY <1>1 DEF Begun
  <2>3. QED
    BY <1>1, <2>1, <2>2 DEF GarbledLast, Ended, Scalars, HandledBefore, NoneBefore
<1>9. StopsOnlyFor' /\ LeakPerMessage'
  BY <1>1 DEF StopsOnlyFor, LeakPerMessage, Scalars
<1>10. QED
  BY <1>2, <1>5, <1>6, <1>7, <1>8, <1>9
-----------------------------------------------------------------------------
(***************************************************************************)
(* Framing and the rest of a message.                                      *)
(***************************************************************************)
\* Until the server slips, a read that returned something began at the
\* header of the message that is next.
LEMMA AtNext ==
    ASSUME IInv, ~slip, got > 0, lpc \in {"frame", "rest", "handle"}
    PROVE  /\ AtHeader /\ Number = Len(handled) + 1 /\ Current = NextMsg
           /\ Pending /\ readTo = HandledEnd + got
           /\ Current.size \in Nat /\ HdrSize < Current.size
           /\ Current.size < U32
<1> USE DEF IInv
<1>1. /\ readTo = HandledEnd + got /\ got \in Nat /\ readTo \in Nat
      /\ Len(handled) <= Len(sent)
  BY DEF InStep, Scalars, ReadSoFar
<1>2. HandledEnd \in Nat /\ SentEnd \in Nat /\ readTo <= SentEnd
  BY <1>1, EndsTyped DEF Scalars
<1>3. Pending
  <2>1. Len(handled) # Len(sent)
    BY <1>1, <1>2, EndsTyped
  <2>2. QED
    BY <1>1, <2>1 DEF Pending, Stream
<1>4. /\ NextMsg.size \in Nat /\ HdrSize < NextMsg.size
      /\ Len(handled) + 1 \in 1 .. Len(sent)
      /\ sent[Len(handled) + 1].end = HandledEnd + NextMsg.size
  BY <1>3, NextEnd
<1>5. Begins(Len(handled) + 1)
  BY <1>1, <1>2, <1>4 DEF Begins, Start, NextMsg
<1>6. AtHeader /\ Number = Len(handled) + 1 /\ Current = NextMsg
  BY <1>4, <1>5, OneBegins DEF NextMsg
<1>7. NextMsg.size < U32
  <2>1. sent[Len(handled) + 1].end < U32 /\ U32 \in Nat
    BY <1>4, EndSmall
  <2>2. QED
    BY <1>2, <1>4, <2>1
<1>8. QED
  BY <1>1, <1>3, <1>4, <1>6, <1>7

\* The header is not found, or the digits of the length do not fit.
LEMMA FrameStops ==
    ASSUME IInv, CopyCrashes \/ CutHeader \/ ScanCrashes
    PROVE  IInv'
<1>1. lpc # "done"
  BY DEF CopyCrashes, CutHeader, ScanCrashes
<1>2. CASE CopyCrashes
  <2>1. Stop("crash") /\ StopsOnlyFor'
    BY <1>2 DEF CopyCrashes, Stop, StopsOnlyFor, buffer
  <2>2. QED
    BY <1>1, <2>1, Stops
<1>3. CASE CutHeader
  <2>1. /\ Stop("panic") /\ lpc = "frame" /\ avail >= CrlfSize
        /\ AtHeader => avail < HdrSize
    BY <1>3 DEF CutHeader
  <2>2. /\ avail \in Nat /\ got = avail
        /\ HdrSize \in Nat /\ CrlfSize \in Nat /\ 2 < CrlfSize
    BY <2>1, Large DEF IInv, Scalars, ReadSoFar
  <2>3. got > 0
    BY <2>1, <2>2
  <2>4. slip \/ avail \in CrlfSize .. HdrSize - 1
    BY <2>1, <2>2, <2>3, AtNext
  <2>5. StopsOnlyFor'
    BY <2>1, <2>4 DEF Stop, StopsOnlyFor, buffer
  <2>6. QED
    BY <1>1, <2>1, <2>5, Stops
<1>4. CASE ScanCrashes
  <2>1. Stop("crash") /\ StopsOnlyFor'
    BY <1>4 DEF ScanCrashes, Stop, StopsOnlyFor, buffer
  <2>2. QED
    BY <1>1, <2>1, Stops
<1>5. QED
  BY <1>2, <1>3, <1>4

\* A length is found; the buffer may have to grow.
LEMMA Frames ==
    ASSUME IInv, lpc = "frame", NEW size \in Nat, FrameAs(size)
    PROVE  /\ pack' = size
           /\ heap' \in BOOLEAN /\ live' \in Nat /\ LeakPerMessage'
           /\ lpc' = IF size = avail THEN "handle" ELSE "rest"
           /\ UNCHANGED <<sock, peer, sent, arrived, readTo, avail, got, room,
                          stale, filled, handled, replies, lout>>
           /\ Stream' /\ BytesCounted' /\ Apart' /\ Pending' = Pending
           /\ SentEnd' = SentEnd /\ HandledEnd' = HandledEnd
           /\ NextMsg' = NextMsg /\ HandledBefore' /\ StopsOnlyFor'
           /\ Connection' /\ Buffers'
           /\ size < U32 => ReadSoFar'
<1> USE DEF IInv
<1>1. /\ pack' = size /\ Resize(size)
      /\ lpc' = IF size = avail THEN "handle" ELSE "rest"
      /\ UNCHANGED <<sock, peer, sent, arrived, readTo, avail, got, room,
                     stale, filled, handled, replies, lout>>
  BY DEF FrameAs, client, done
<1>2. /\ Stream' /\ BytesCounted' /\ Apart' /\ Pending' = Pending
      /\ SentEnd' = SentEnd /\ HandledEnd' = HandledEnd
      /\ NextMsg' = NextMsg
  BY <1>1, StreamSame
<1>3. heap \in BOOLEAN /\ live \in Nat /\ lout = "running"
  BY DEF Scalars
<1>4. /\ live = Len(handled) + Len(replies) + (IF heap THEN 1 ELSE 0)
      /\ Len(replies) \in Nat /\ Len(handled) \in Nat
  BY <1>3 DEF LeakPerMessage, Stream
<1>5. \/ heap' = TRUE /\ live' = (IF heap THEN live ELSE live + 1)
      \/ heap' = heap /\ live' = live
  BY <1>1 DEF Resize
<1>6. heap' \in BOOLEAN /\ live' \in Nat
  <2>1. heap' \in BOOLEAN
    BY <1>3, <1>5
  <2>2. live' = live \/ live' = live + 1
    BY <1>5
  <2>3. QED
    BY <1>3, <2>1, <2>2
<1>7. live' = Len(handled) + Len(replies) + (IF heap' THEN 1 ELSE 0)
  BY <1>3, <1>4, <1>5
<1>8. LeakPerMessage'
  BY <1>1, <1>7 DEF LeakPerMessage
<1>9. Connection' /\ Buffers'
  BY <1>1, <1>3 DEF Connection, Buffers, InMessage
<1>10. HandledBefore' /\ StopsOnlyFor'
  BY <1>1, <1>3, StartSame DEF HandledBefore, StopsOnlyFor
<1>11. size < U32 => ReadSoFar'
  <2>1. got = avail /\ avail \in Nat
    BY DEF ReadSoFar, Scalars
  <2>2. QED
    BY <1>1, <2>1 DEF ReadSoFar
<1>12. QED
  BY <1>1, <1>2, <1>6, <1>8, <1>9, <1>10, <1>11

\* The length of an earlier message is found.
LEMMA FramesStale ==
    ASSUME IInv, FrameStale
    PROVE  IInv'
<1> USE DEF IInv
<1>1. /\ lpc = "frame" /\ avail < CrlfSize /\ stale # 0 /\ header' = TRUE
      /\ slip' = (slip \/ (avail > 0 /\ ~(AtHeader /\ Current.size = stale)))
      /\ FrameAs(stale) /\ stale \in Nat /\ stale < U32
  <2>1. stale # U32 /\ stale \in Nat /\ stale <= U32 /\ U32 \in Nat
    BY EndSmall DEF FrameStale, Stray, Scalars, ReadSoFar
  <2>2. stale < U32
    BY <2>1
  <2>3. QED
    BY <2>1, <2>2 DEF FrameStale
<1>2. /\ pack' = stale /\ heap' \in BOOLEAN /\ live' \in Nat
      /\ lpc' = (IF stale = avail THEN "handle" ELSE "rest")
      /\ UNCHANGED <<sock, peer, sent, arrived, readTo, avail, got, room,
                     stale, filled, handled, replies, lout>>
      /\ Stream' /\ BytesCounted' /\ Apart' /\ SentEnd' = SentEnd
      /\ HandledEnd' = HandledEnd /\ Pending' = Pending /\ NextMsg' = NextMsg
      /\ Connection' /\ Buffers' /\ LeakPerMessage'
      /\ HandledBefore' /\ StopsOnlyFor' /\ ReadSoFar'
  BY <1>1, Frames
<1>3. Scalars'
  <2>1. slip' \in BOOLEAN
    BY <1>1
  <2>2. QED
    BY <1>1, <1>2, <2>1 DEF Scalars
<1>4. InStep' /\ GarbledLast'
  <2>1. avail \in Nat /\ got = avail
    BY <1>1 DEF ReadSoFar, Scalars
  <2>2. CASE avail = 0
    <3>1. lpc' = "rest" /\ slip' = slip /\ Ended
      BY <1>1, <1>2, <2>2 DEF ReadSoFar, Scalars
    <3>2. InStep'
      BY <1>2, <2>1, <2>2, <3>1 DEF InStep, Ended
    <3>3. GarbledLast'
      BY <1>1, <1>2, <2>2, <3>1 DEF GarbledLast, Ended
    <3>4. QED
      BY <3>2, <3>3
  <2>3. CASE avail > 0 /\ slip'
    BY <2>3 DEF InStep, GarbledLast
  <2>4. CASE avail > 0 /\ ~slip'
    <3>1. ~slip /\ AtHeader /\ Current.size = stale
      BY <1>1, <2>4
    <3>2. Current = NextMsg /\ Pending /\ readTo = HandledEnd + got
      BY <1>1, <2>1, <2>4, <3>1, AtNext
    <3>3. InStep'
      BY <1>1, <1>2, <2>1, <2>4, <3>1, <3>2 DEF InStep
    <3>4. GarbledLast'
      BY <1>1, <1>2, <2>1, <2>4, <3>1 DEF GarbledLast
    <3>5. QED
      BY <3>3, <3>4
  <2>5. QED
    BY <2>1, <2>2, <2>3, <2>4
<1>5. NoneBefore'
  BY <1>1, <1>2 DEF NoneBefore
<1>6. QED
  BY <1>2, <1>3, <1>4, <1>5

\* Something is taken for a length: the server slips, and has handled a
\* message before.
LEMMA FramesStray ==
    ASSUME IInv, FrameStray
    PROVE  IInv'
<1> USE DEF IInv
<1>1. /\ lpc = "frame" /\ slip' = TRUE /\ header' \in {FALSE, AtHeader}
      /\ IF avail < CrlfSize THEN stale = Stray
                             ELSE ~AtHeader /\ avail > CrlfSize
  BY DEF FrameStray
<1>2. PICK size \in StraySizes : FrameAs(size)
  BY DEF FrameStray
<1>3. size \in Nat /\ size < U32 /\ U32 # 0 /\ U32 \in Nat
  BY LspAssumption
<1>4. /\ pack' = size /\ heap' \in BOOLEAN /\ live' \in Nat
      /\ lpc' = (IF size = avail THEN "handle" ELSE "rest")
      /\ UNCHANGED <<sock, peer, sent, arrived, readTo, avail, got, room,
                     stale, filled, handled, replies, lout>>
      /\ Stream' /\ BytesCounted' /\ Apart' /\ SentEnd' = SentEnd
      /\ Connection' /\ Buffers' /\ LeakPerMessage'
      /\ HandledBefore' /\ StopsOnlyFor' /\ ReadSoFar'
  BY <1>1, <1>2, <1>3, Frames
<1>5. Scalars'
  <2>1. header' \in BOOLEAN
    BY <1>1 DEF AtHeader
  <2>2. QED
    BY <1>1, <1>3, <1>4, <2>1 DEF Scalars
<1>6. InStep' /\ GarbledLast'
  BY <1>1 DEF InStep, GarbledLast
<1>7. handled # <<>>
  <2> SUFFICES ASSUME handled = <<>> PROVE FALSE
    OBVIOUS
  <2>1. ~slip /\ (avail < CrlfSize => stale = 0)
    BY <1>1 DEF NoneBefore
  <2>2. /\ avail \in Nat /\ got = avail
        /\ CrlfSize \in Nat /\ 2 < CrlfSize
    BY <1>1, Large DEF Scalars, ReadSoFar
  <2>3. ~(avail < CrlfSize)
    BY <1>1, <1>3, <2>1 DEF Stray
  <2>4. got > 0
    BY <2>2, <2>3
  <2>5. AtHeader
    BY <1>1, <2>1, <2>4, AtNext
  <2>6. QED
    BY <1>1, <2>3, <2>5
<1>8. NoneBefore'
  BY <1>4, <1>7 DEF NoneBefore
<1>9. QED
  BY <1>4, <1>5, <1>6, <1>8

\* The length of the message that begins the buffer is found.
LEMMA FramesMessage ==
    ASSUME IInv, Frame
    PROVE  IInv'
<1> USE DEF IInv
<1>1. /\ lpc = "frame" /\ avail >= HdrSize /\ FrameAs(Current.size)
      /\ AtHeader /\ header' = TRUE /\ slip' = slip
  BY DEF Frame
<1>2. HdrSize \in Nat /\ HdrSize > 0
  BY LspAssumption DEF CrlfSize
<1>3. avail \in Nat /\ got = avail /\ got > 0
  BY <1>1, <1>2 DEF ReadSoFar, Scalars
<1>4. Current.size \in Nat /\ Current.size < U32
  <2>1. /\ Number \in 1 .. Len(sent) /\ Current = sent[Number]
        /\ sent[Number].end - sent[Number].size = Start
        /\ sent[Number].end \in Nat /\ sent[Number].size \in Nat
    BY <1>1, HeaderFacts, Sizes
  <2>2. sent[Number].end < U32 /\ U32 \in Nat
    BY <2>1, EndSmall
  <2>3. Start \in Nat
    BY DEF Start, ReadSoFar, Scalars
  <2>4. QED
    BY <2>1, <2>2, <2>3
<1>5. /\ pack' = Current.size /\ heap' \in BOOLEAN /\ live' \in Nat
      /\ lpc' = (IF Current.size = avail THEN "handle" ELSE "rest")
      /\ UNCHANGED <<sock, peer, sent, arrived, readTo, avail, got, room,
                     stale, filled, handled, replies, lout>>
      /\ Stream' /\ BytesCounted' /\ Apart' /\ SentEnd' = SentEnd
      /\ HandledEnd' = HandledEnd /\ Pending' = Pending /\ NextMsg' = NextMsg
      /\ Connection' /\ Buffers' /\ LeakPerMessage'
      /\ HandledBefore' /\ StopsOnlyFor' /\ ReadSoFar'
  BY <1>1, <1>4, Frames
<1>6. Scalars'
  BY <1>1, <1>4, <1>5 DEF Scalars
<1>7. InStep'
  <2>1. ~slip => Current = NextMsg /\ Pending /\ readTo = HandledEnd + got
    BY <1>1, <1>3, AtNext
  <2>2. lpc' \in {"rest", "handle"}
    BY <1>5
  <2>3. QED
    BY <1>1, <1>3, <1>5, <2>1, <2>2 DEF InStep
<1>8. GarbledLast' /\ NoneBefore'
  BY <1>1, <1>3, <1>5 DEF GarbledLast, NoneBefore, Scalars
<1>9. QED
  BY <1>5, <1>6, <1>7, <1>8

\* size_left while the rest is read, and what one read takes of it.
LEMMA RestLeft ==
    ASSUME IInv, lpc = "rest"
    PROVE  /\ RestSize \in Nat /\ SizeLeft \in Nat
           /\ readTo + RestSize <= arrived /\ RestSize <= SizeLeft
           /\ got + RestSize < U32
           /\ got # pack /\ got \in Nat /\ pack \in Nat
           /\ got < pack => SizeLeft = pack - got
           /\ pack < got => SizeLeft = pack - got + U32
<1> USE DEF IInv
<1>1. /\ arrived \in Nat /\ readTo \in Nat /\ readTo <= arrived
      /\ arrived <= SentEnd /\ got \in Nat /\ pack \in Nat
      /\ got <= readTo /\ got # pack /\ pack < U32
  BY DEF Scalars, ReadSoFar
<1>2. U32 \in Nat /\ SentEnd < U32 /\ SentEnd \in Nat
  BY EndSmall, EndsTyped
<1>3. got < U32
  BY <1>1, <1>2
<1>4. /\ SizeLeft \in Nat
      /\ got <= pack => SizeLeft = pack - got
      /\ pack < got => SizeLeft = pack - got + U32
  BY <1>1, <1>2, <1>3, Left
<1>5. arrived - readTo \in Nat
  BY <1>1
<1>6. RestSize \in Nat /\ RestSize <= arrived - readTo /\ RestSize <= SizeLeft
  BY <1>4, <1>5, MinOfTwo DEF RestSize
<1>7. readTo + RestSize <= arrived /\ got + RestSize < U32
  BY <1>1, <1>2, <1>6
<1>8. QED
  BY <1>1, <1>4, <1>6, <1>7

\* A write past the end of the buffer is a message that was not foreseen.
LEMMA RestStops ==
    ASSUME IInv, RestCrashes
    PROVE  IInv'
<1>1. lpc = "rest" /\ got + RestSize > room /\ Stop("crash")
  BY DEF RestCrashes
<1>2. /\ RestSize \in Nat /\ RestSize <= SizeLeft
      /\ got # pack /\ got \in Nat /\ pack \in Nat
      /\ got < pack => SizeLeft = pack - got
  BY <1>1, RestLeft
<1>3. /\ avail < room /\ RecvBufSize < room
      /\ avail \in Nat /\ room \in Nat /\ RecvBufSize \in Nat
  BY <1>1, LspAssumption DEF IInv, Buffers, InMessage, Scalars
<1>4. pack < got \/ (avail < pack /\ RecvBufSize < pack)
  <2>1. CASE got < pack
    <3>1. got + RestSize <= pack
      BY <1>2, <2>1
    <3>2. QED
      BY <1>1, <1>2, <1>3, <3>1
  <2>2. QED
    BY <1>2, <2>1
<1>5. StopsOnlyFor'
  BY <1>1, <1>4 DEF StopsOnlyFor, Stop, buffer
<1>6. QED
  BY <1>1, <1>5, Stops

\* A read takes more of the message, never more than is left of it, and
\* size_left that has wrapped around is never counted down to nothing.
LEMMA RestReads ==
    ASSUME IInv, RestRead
    PROVE  IInv'
<1> USE DEF IInv
<1>1. /\ lpc = "rest" /\ RestSize > 0
      /\ readTo' = readTo + RestSize /\ got' = got + RestSize
      /\ stale' = Begun(got')
      /\ filled' = IF heap THEN filled ELSE Max({filled, got'})
      /\ lpc' = IF RestSize = SizeLeft THEN "handle" ELSE "rest"
      /\ UNCHANGED <<sock, peer, sent, arrived, avail, pack, heap, room,
                     header, slip, handled, replies, live, lout>>
  BY DEF RestRead, client, done
<1>2. /\ Stream' /\ BytesCounted' /\ Apart' /\ Pending' = Pending
      /\ SentEnd' = SentEnd /\ HandledEnd' = HandledEnd /\ NextMsg' = NextMsg
  BY <1>1, StreamSame
<1>3. /\ RestSize \in Nat /\ SizeLeft \in Nat
      /\ readTo + RestSize <= arrived /\ RestSize <= SizeLeft
      /\ got + RestSize < U32
      /\ got # pack /\ got \in Nat /\ pack \in Nat
      /\ got < pack => SizeLeft = pack - got
      /\ pack < got => SizeLeft = pack - got + U32
  BY <1>1, RestLeft
<1>4. /\ arrived \in Nat /\ readTo \in Nat /\ arrived <= SentEnd
      /\ avail \in Nat /\ filled \in Nat /\ U32 \in Nat
      /\ got <= readTo /\ got >= avail /\ pack < U32
  BY <1>1, EndSmall DEF Scalars, ReadSoFar
<1>5. ~Ended
  BY <1>1, <1>3, <1>4 DEF Ended
<1>6. RestSize = SizeLeft => got' = pack
  <2>1. CASE got < pack
    BY <1>1, <1>3, <2>1
  <2>2. CASE pack < got
    BY <1>3, <1>4, <2>2
  <2>3. QED
    BY <1>3, <2>1, <2>2
<1>7. RestSize # SizeLeft => got' # pack
  BY <1>1, <1>3
<1>8. got' \in Nat /\ readTo' \in Nat /\ stale' \in Nat /\ stale' <= U32
  <2>1. got' \in Nat /\ readTo' \in Nat
    BY <1>1, <1>3, <1>4
  <2>2. QED
    BY <1>1, <2>1, BegunTyped
<1>9. Scalars'
  <2>1. filled' \in Nat
    BY <1>1, <1>4, <1>8, MaxOfTwo
  <2>2. QED
    BY <1>1, <1>2, <1>3, <1>8, <2>1 DEF Scalars
<1>10. ReadSoFar'
  <2>1. got' <= readTo' /\ got' >= avail'
    BY <1>1, <1>3, <1>4
  <2>2. QED
    BY <1>1, <1>4, <1>6, <1>7, <1>8, <2>1 DEF ReadSoFar
<1>11. InStep'
  <2> SUFFICES ASSUME ~slip PROVE InStep'
    BY <1>1 DEF InStep
  <2>1. /\ got > 0 /\ header /\ readTo = HandledEnd + got
        /\ Pending /\ pack = NextMsg.size /\ Len(handled) <= Len(sent)
    BY <1>1, <1>5 DEF InStep
  <2>2. HandledEnd \in Nat
    BY <2>1, EndsTyped
  <2>3. readTo' = HandledEnd' + got' /\ got' > 0
    BY <1>1, <1>2, <1>3, <2>1, <2>2
  <2>4. QED
    BY <1>1, <1>2, <2>1, <2>3 DEF InStep
<1>12. HandledBefore' /\ NoneBefore'
  <2>1. Start' = Start
    BY <1>1, <1>3, <1>4 DEF Start
  <2>2. QED
    BY <1>1, <2>1 DEF HandledBefore, NoneBefore
<1>13. Connection' /\ Buffers'
  BY <1>1 DEF Connection, Buffers, InMessage
<1>14. GarbledLast'
  BY <1>1, <1>5 DEF GarbledLast
<1>15. StopsOnlyFor' /\ LeakPerMessage'
  BY <1>1 DEF StopsOnlyFor, LeakPerMessage, Scalars
<1>16. QED
  BY <1>2, <1>9, <1>10, <1>11, <1>12, <1>13, <1>14, <1>15

\* The error of a read is not looked at: the connection has ended.
LEMMA RestErrs ==
    ASSUME IInv, RestFails
    PROVE  IInv'
<1> USE DEF IInv
<1>1. /\ lpc = "rest" /\ lpc' = "handle"
      /\ peer = "reset" /\ peer' = "closed" /\ arrived = readTo
      /\ UNCHANGED <<sock, sent, arrived, readTo, avail, got, pack, heap, room,
                     stale, header, slip, filled, handled, replies, live, lout>>
  BY DEF RestFails, buffer, done
<1>2. /\ Stream' /\ BytesCounted' /\ Apart' /\ Pending' = Pending
      /\ SentEnd' = SentEnd /\ HandledEnd' = HandledEnd /\ NextMsg' = NextMsg
  BY <1>1, StreamSame
<1>3. Scalars'
  BY <1>1, <1>2 DEF Scalars
<1>4. Connection' /\ Buffers'
  BY <1>1 DEF Connection, Buffers, InMessage
<1>5. ReadSoFar' /\ InStep'
  BY <1>1, <1>2 DEF ReadSoFar, InStep, Ended
<1>6. GarbledLast' /\ HandledBefore' /\ NoneBefore'
  BY <1>1, NoneGarbled, StartSame DEF GarbledLast, HandledBefore, NoneBefore
<1>7. StopsOnlyFor' /\ LeakPerMessage'
  BY <1>1 DEF StopsOnlyFor, LeakPerMessage, Scalars
<1>8. QED
  BY <1>2, <1>3, <1>4, <1>5, <1>6, <1>7
-----------------------------------------------------------------------------
(***************************************************************************)
(* Handling.                                                               *)
(***************************************************************************)
\* A message is handled only when the server has read as far as it was told;
\* until it slips this is the message that is next, all of it or what is
\* left of it.
LEMMA HandleFacts ==
    ASSUME IInv, lpc = "handle"
    PROVE  /\ pack \in Nat /\ got \in Nat /\ readTo \in Nat /\ got <= readTo
           /\ got = pack \/ Ended
           /\ lout = "running" /\ sock = "connected"
           /\ ~slip => /\ readTo = HandledEnd + got
                       /\ Pending /\ Number = Len(handled) + 1
                       /\ pack = NextMsg.size
                       /\ AsSent <=> got >= pack
                       /\ \A i \in 1 .. Len(handled) : handled[i] # Garbled
<1>1. /\ pack \in Nat /\ got \in Nat /\ readTo \in Nat /\ got <= readTo
      /\ got = pack \/ Ended
      /\ lout = "running" /\ sock = "connected"
  BY DEF IInv, Scalars, ReadSoFar, Connection, InMessage
<1>2. ASSUME ~slip
      PROVE  /\ readTo = HandledEnd + got
             /\ Pending /\ Number = Len(handled) + 1 /\ pack = NextMsg.size
             /\ AsSent <=> got >= pack
  <2>1. /\ got > 0 /\ header /\ readTo = HandledEnd + got
        /\ Pending /\ pack = NextMsg.size
    BY <1>2 DEF IInv, InStep
  <2>2. AtHeader /\ Number = Len(handled) + 1 /\ Current = NextMsg
    BY <1>2, <2>1, AtNext
  <2>3. AsSent <=> got >= pack
    BY <1>1, <2>1, <2>2 DEF AsSent
  <2>4. QED
    BY <2>1, <2>2, <2>3
<1>3. ~slip => \A i \in 1 .. Len(handled) : handled[i] # Garbled
  BY DEF IInv, GarbledLast
<1>4. QED
  BY <1>1, <1>2, <1>3

\* The server panics over a message, or writes past the end of the buffer.
LEMMA HandleStops ==
    ASSUME IInv, NulCrashes \/ HandleStrId \/ HandleCut
    PROVE  IInv'
<1>1. lpc = "handle"
  BY DEF NulCrashes, HandleStrId, HandleCut
<1>2. CASE NulCrashes
  <2>1. Stop("crash") /\ pack >= room
    BY <1>2 DEF NulCrashes
  <2>2. /\ avail < room /\ RecvBufSize < room
        /\ avail \in Nat /\ room \in Nat /\ pack \in Nat /\ RecvBufSize \in Nat
    BY <1>1, LspAssumption DEF IInv, Buffers, InMessage, Scalars
  <2>3. avail < pack /\ RecvBufSize < pack
    BY <2>1, <2>2
  <2>4. StopsOnlyFor'
    BY <2>1, <2>3 DEF StopsOnlyFor, Stop, buffer
  <2>5. QED
    BY <1>1, <2>1, <2>4, Stops
<1>3. CASE HandleStrId
  <2>1. Stop("panic") /\ AsSent /\ Current.request
    BY <1>3 DEF HandleStrId
  <2>2. UNCHANGED <<sent, readTo, got, pack, header>>
    BY <2>1 DEF Stop, client, buffer
  <2>3. StopsOnlyFor'
    BY <2>1, <2>2, StartSame DEF StopsOnlyFor, Stop, AsSent
  <2>4. QED
    BY <1>1, <2>1, <2>3, Stops
<1>4. CASE HandleCut
  <2>1. Stop("panic") /\ (slip \/ got < pack)
    BY <1>1, <1>4, HandleFacts DEF HandleCut
  <2>2. slip \/ (got < pack /\ peer = "closed")
    BY <1>1, <2>1, HandleFacts DEF Ended
  <2>3. StopsOnlyFor'
    BY <2>1, <2>2 DEF StopsOnlyFor, Stop, buffer, client
  <2>4. QED
    BY <1>1, <2>1, <2>3, Stops
<1>5. QED
  BY <1>2, <1>3, <1>4

\* The end of lsp_recv: the message is handled, answered or not, and the
\* buffer is released.
LEMMA Received ==
    ASSUME IInv, lpc = "handle", NEW number \in Nat, NEW reply \in BOOLEAN,
           number \in {Garbled} \cup 1 .. Len(sent),
           number # Garbled => sent[number].end <= readTo,
           EndOfRecv(number, reply)
    PROVE  /\ Stream' /\ BytesCounted' /\ Apart' /\ Scalars'
           /\ Connection' /\ ReadSoFar' /\ HandledBefore' /\ NoneBefore'
           /\ Buffers' /\ LeakPerMessage' /\ StopsOnlyFor'
           /\ handled' = Append(handled, number) /\ lpc' = "poll"
           /\ ~slip => /\ Len(handled') <= Len(sent')
                       /\ HandledEnd' = HandledEnd + pack
           /\ UNCHANGED <<sock, peer, sent, arrived, readTo, stale, slip, lout>>
<1> USE DEF IInv
<1>1. /\ handled' = Append(handled, number)
      /\ replies' = IF reply THEN Append(replies, number) ELSE replies
      /\ live' = live + MsgLeak(reply) - (IF heap THEN 1 ELSE 0)
      /\ heap' = FALSE /\ header' = FALSE
      /\ avail' = 0 /\ got' = 0 /\ pack' = 0 /\ room' = 0
      /\ lpc' = "poll"
      /\ UNCHANGED <<sock, peer, sent, arrived, readTo, stale, slip, filled, lout>>
  BY DEF EndOfRecv, client
<1>2. /\ handled \in Seq(Nat) /\ Len(handled) \in Nat
      /\ replies \in Seq(Nat) /\ Len(replies) \in Nat
      /\ sent \in Seq(Sent) /\ Len(sent) \in Nat
  BY DEF Stream
<1>3. /\ handled' \in Seq(Nat) /\ Len(handled') = Len(handled) + 1
      /\ \A i \in 1 .. Len(handled) : handled'[i] = handled[i]
      /\ handled'[Len(handled) + 1] = number
  BY <1>1, <1>2
<1>4. /\ replies' \in Seq(Nat)
      /\ Len(replies') = Len(replies) + (IF reply THEN 1 ELSE 0)
      /\ \A i \in 1 .. Len(replies') : \/ i \in 1 .. Len(replies)
                                            /\ replies'[i] = replies[i]
                                       \/ replies'[i] = number
  <2>1. CASE reply
    <3>1. replies' = Append(replies, number)
      BY <1>1, <2>1
    <3>2. QED
      BY <1>2, <2>1, <3>1
  <2>2. CASE ~reply
    BY <1>1, <1>2, <2>2
  <2>3. QED
    BY <2>1, <2>2
<1>5. Stream'
  <2>1. sent' \in Seq(Sent) /\ Len(sent') <= MaxMsgs
    BY <1>1, <1>2, <1>3 DEF Stream
  <2>2. \A i \in 1 .. Len(sent') :
          /\ [size |-> sent'[i].size, request |-> sent'[i].request] \in Message
          /\ sent'[i].end = sent'[i].size + (IF i = 1 THEN 0 ELSE sent'[i - 1].end)
    BY <1>1 DEF Stream
  <2>3. \A i \in 1 .. Len(handled') :
          handled'[i] \in {Garbled} \cup 1 .. Len(sent')
    <3>1. \A i \in 1 .. Len(handled) : handled[i] \in {Garbled} \cup 1 .. Len(sent)
      BY DEF Stream
    <3>2. \A i \in 1 .. Len(handled') : i \in 1 .. Len(handled)
                                          \/ i = Len(handled) + 1
      BY <1>2, <1>3
    <3>3. QED
      BY <1>1, <1>3, <3>1, <3>2
  <2>4. \A i \in 1 .. Len(replies') :
          replies'[i] \in {Garbled} \cup 1 .. Len(sent')
    <3>1. \A i \in 1 .. Len(replies) : replies[i] \in {Garbled} \cup 1 .. Len(sent)
      BY DEF Stream
    <3>2. QED
      BY <1>1, <1>4, <3>1
  <2>5. QED
    BY <1>3, <1>4, <2>1, <2>2, <2>3, <2>4 DEF Stream, Message
<1>6. BytesCounted' /\ Apart'
  BY <1>1 DEF BytesCounted, Apart
<1>7. SentEnd' = SentEnd
  BY <1>1 DEF SentEnd
<1>8. ASSUME ~slip
      PROVE  Len(handled') <= Len(sent') /\ HandledEnd' = HandledEnd + pack
  <2>1. Pending /\ pack = NextMsg.size
    BY <1>8, HandleFacts
  <2>2. HandledEnd' = sent[Len(handled) + 1].end
    <3>1. handled' # <<>>
      BY <1>2, <1>3
    <3>2. QED
      BY <1>1, <1>3, <3>1 DEF HandledEnd
  <2>3. HandledEnd' = HandledEnd + pack
    BY <2>1, <2>2, NextEnd
  <2>4. Len(handled') <= Len(sent')
    BY <1>1, <1>2, <1>3, <2>1 DEF Pending
  <2>5. QED
    BY <2>3, <2>4
<1>9. heap \in BOOLEAN /\ live \in Nat
      /\ live = Len(handled) + Len(replies) + (IF heap THEN 1 ELSE 0)
  BY HandleFacts DEF Scalars, LeakPerMessage
<1>10. /\ live' = Len(handled') + Len(replies')
       /\ live' \in Nat /\ Len(handled') \in Nat /\ Len(replies') \in Nat
  <2>1. CASE reply
    <3>1. live' = live + 2 - (IF heap THEN 1 ELSE 0)
      BY <1>1, <2>1 DEF MsgLeak
    <3>2. Len(replies') = Len(replies) + 1
      BY <1>4, <2>1
    <3>3. CASE heap
      BY <1>2, <1>3, <1>9, <3>1, <3>2, <3>3
    <3>4. CASE ~heap
      BY <1>2, <1>3, <1>9, <3>1, <3>2, <3>4
    <3>5. QED
      BY <3>3, <3>4
  <2>2. CASE ~reply
    <3>1. live' = live + 1 - (IF heap THEN 1 ELSE 0)
      BY <1>1, <2>2 DEF MsgLeak
    <3>2. Len(replies') = Len(replies)
      BY <1>1, <2>2
    <3>3. CASE heap
      BY <1>2, <1>3, <1>9, <3>1, <3>2, <3>3
    <3>4. CASE ~heap
      BY <1>2, <1>3, <1>9, <3>1, <3>2, <3>4
    <3>5. QED
      BY <3>3, <3>4
  <2>3. QED
    BY <2>1, <2>2
<1>11. live' = Len(handled') + Len(replies') + (IF heap' THEN 1 ELSE 0)
  <2>1. heap' = FALSE
    BY <1>1
  <2>2. \A m, n \in Nat : m + n + 0 = m + n
    OBVIOUS
  <2>3. live' = Len(handled') + Len(replies') + 0
    BY <1>10, <2>2
  <2>4. QED
    BY <2>1, <2>3
<1>12. Scalars'
  BY <1>1, <1>7, <1>10, HandleFacts DEF Scalars
<1>13. Connection' /\ Buffers'
  BY <1>1 DEF Connection, Buffers, InMessage
<1>14. LeakPerMessage' /\ StopsOnlyFor'
  BY <1>1, <1>11, HandleFacts DEF LeakPerMessage, StopsOnlyFor
<1>15. ReadSoFar' /\ NoneBefore'
  <2>1. handled' # <<>>
    BY <1>2, <1>3
  <2>2. 0 <= readTo
    BY DEF Scalars
  <2>3. QED
    BY <1>1, <2>1, <2>2 DEF ReadSoFar, NoneBefore
<1>16. HandledBefore'
  <2> SUFFICES ASSUME NEW i \in 1 .. Len(handled'), handled'[i] # Garbled
               PROVE  sent[handled'[i]].end <= readTo
    BY <1>1, HandleFacts DEF HandledBefore, Start
  <2>1. CASE i \in 1 .. Len(handled)
    <3>1. handled'[i] = handled[i] /\ sent[handled[i]].end <= Start
      BY <1>3, <2>1 DEF HandledBefore
    <3>2. handled[i] \in 1 .. Len(sent)
      BY <2>1, <3>1 DEF Stream
    <3>3. sent[handled[i]].end \in Nat
      BY <3>2, Sizes
    <3>4. QED
      BY <3>1, <3>3, HandleFacts DEF Start
  <2>2. CASE i = Len(handled) + 1
    BY <1>3, <2>2
  <2>3. QED
    BY <1>2, <1>3, <2>1, <2>2
<1>17. QED
  BY <1>1, <1>5, <1>6, <1>8, <1>12, <1>13, <1>14, <1>15, <1>16

\* A message in the buffer as it was sent is no longer than what was read.
LEMMA SentFacts ==
    ASSUME IInv, lpc = "handle", AsSent
    PROVE  /\ Number \in 1 .. Len(sent) /\ Current = sent[Number]
           /\ Current.request \in BOOLEAN /\ sent[Number].end <= readTo
           /\ sent[Number].end \in Nat /\ sent[Number].size \in Nat
           /\ Start \in Nat /\ sent[Number].end - sent[Number].size = Start
<1>1. AtHeader /\ Current.size <= got
  BY DEF AsSent
<1>2. /\ Number \in 1 .. Len(sent) /\ Current = sent[Number]
      /\ sent[Number].end - sent[Number].size = Start
      /\ Current.request \in BOOLEAN
      /\ sent[Number].end \in Nat /\ sent[Number].size \in Nat
  BY <1>1, HeaderFacts, Sizes DEF IInv
<1>3. Start \in Nat /\ sent[Number].end <= readTo
  BY <1>1, <1>2, HandleFacts DEF Start
<1>4. QED
  BY <1>2, <1>3

\* A whole message is handled: the next read begins where it ends.
LEMMA HandlesMessage ==
    ASSUME IInv, HandleMsg
    PROVE  IInv'
<1>1. lpc = "handle" /\ AsSent /\ EndOfRecv(Number, Current.request)
  BY DEF HandleMsg
<1>2. /\ Number \in 1 .. Len(sent) /\ Number # Garbled /\ Number \in Nat
      /\ Current.request \in BOOLEAN /\ sent[Number].end <= readTo
  BY <1>1, SentFacts DEF Garbled
<1>3. /\ Stream' /\ BytesCounted' /\ Apart' /\ Scalars'
      /\ Connection' /\ ReadSoFar' /\ HandledBefore' /\ NoneBefore'
      /\ Buffers' /\ LeakPerMessage' /\ StopsOnlyFor'
      /\ handled' = Append(handled, Number) /\ lpc' = "poll"
      /\ ~slip => Len(handled') <= Len(sent') /\ HandledEnd' = HandledEnd + pack
      /\ UNCHANGED <<sock, peer, sent, arrived, readTo, stale, slip, lout>>
  BY <1>1, <1>2, Received
<1>4. InStep'
  <2> SUFFICES ASSUME ~slip PROVE InStep'
    BY <1>3 DEF InStep
  <2>1. readTo = HandledEnd + got /\ (got = pack \/ Ended)
    BY <1>1, HandleFacts
  <2>2. QED
    BY <1>3, <2>1 DEF InStep, Ended
<1>5. GarbledLast'
  <2> SUFFICES ASSUME ~slip PROVE GarbledLast'
    BY <1>3 DEF GarbledLast
  <2>1. \A i \in 1 .. Len(handled) : handled[i] # Garbled
    BY <1>1, HandleFacts
  <2>2. ASSUME NEW i \in 1 .. Len(handled') PROVE handled'[i] # Garbled
    <3>1. handled \in Seq(Nat)
      BY DEF IInv, Stream
    <3>2. CASE i \in 1 .. Len(handled)
      BY <1>2, <1>3, <2>1, <3>1, <3>2
    <3>3. CASE i = Len(handled) + 1
      BY <1>2, <1>3, <3>1, <3>3
    <3>4. QED
      BY <1>2, <1>3, <3>1, <3>2, <3>3
  <2>3. QED
    BY <2>2 DEF GarbledLast
<1>6. QED
  BY <1>3, <1>4, <1>5 DEF IInv

\* What is left of a message that a reset cut off is handled: the
\* connection has ended, and nothing is read after it.
LEMMA HandlesGarbled ==
    ASSUME IInv, HandleGarbled
    PROVE  IInv'
<1>1. lpc = "handle" /\ ~AsSent
  BY DEF HandleGarbled
<1>2. PICK reply \in BOOLEAN : EndOfRecv(Garbled, reply)
  BY DEF HandleGarbled
<1>3. ~slip => Ended
  BY <1>1, HandleFacts
<1>4. Garbled \in Nat /\ Garbled \in {Garbled} \cup 1 .. Len(sent)
  BY DEF Garbled
<1>5. /\ Stream' /\ BytesCounted' /\ Apart' /\ Scalars'
      /\ Connection' /\ ReadSoFar' /\ HandledBefore' /\ NoneBefore'
      /\ Buffers' /\ LeakPerMessage' /\ StopsOnlyFor' /\ lpc' = "poll"
      /\ ~slip => Len(handled') <= Len(sent')
      /\ UNCHANGED <<sock, peer, sent, arrived, readTo, stale, slip, lout>>
  BY <1>1, <1>2, <1>4, Received
<1>6. InStep' /\ GarbledLast'
  BY <1>3, <1>5 DEF InStep, GarbledLast, Ended
<1>7. QED
  BY <1>5, <1>6 DEF IInv
-----------------------------------------------------------------------------
(***************************************************************************)
(* The theorems.                                                           *)
(***************************************************************************)
\* The invariant holds at first.
LEMMA LspInitIInv == LspInit => IInv
<1> SUFFICES ASSUME LspInit PROVE IInv
  OBVIOUS
<1> USE DEF LspInit
<1>1. Stream /\ BytesCounted /\ Apart
  BY LspAssumption DEF Stream, BytesCounted, Apart
<1>2. Scalars
  <2>1. SentEnd = 0
    BY DEF SentEnd
  <2>2. (lpc = "done") = (lout # "running")
    OBVIOUS
  <2>3. /\ arrived \in Nat /\ readTo \in Nat
        /\ readTo <= arrived /\ arrived <= SentEnd
    BY <2>1
  <2>4. /\ avail \in Nat /\ got \in Nat /\ pack \in Nat /\ room \in Nat
        /\ stale \in Nat /\ filled \in Nat /\ live \in Nat
        /\ heap \in BOOLEAN /\ header \in BOOLEAN /\ slip \in BOOLEAN
    OBVIOUS
  <2>5. QED
    BY <2>2, <2>3, <2>4 DEF Scalars
<1>3. Connection /\ ReadSoFar /\ InStep /\ Buffers
  BY LspAssumption
  DEF Connection, ReadSoFar, InStep, Buffers, InMessage, HandledEnd, Ended
<1>4. GarbledLast /\ HandledBefore /\ NoneBefore /\ LeakPerMessage /\ StopsOnlyFor
  BY DEF GarbledLast, HandledBefore, NoneBefore, LeakPerMessage, StopsOnlyFor
<1>5. QED
  BY <1>1, <1>2, <1>3, <1>4 DEF IInv

\* Every step of the client, the network and the server preserves it.
LEMMA LspNextIInv == IInv /\ [LspNext]_lspVars => IInv'
<1> SUFFICES ASSUME IInv, [LspNext]_lspVars PROVE IInv'
  OBVIOUS
<1>1. CASE Client
  BY <1>1, ClientSteps
<1>2. CASE Connect
  BY <1>2, Connects
<1>3. CASE PollFails \/ ReadFails
  BY <1>3, Returns
<1>4. CASE Poll
  BY <1>4, Polls
<1>5. CASE Read
  BY <1>5, Reads
<1>6. CASE CopyCrashes \/ CutHeader \/ ScanCrashes
  BY <1>6, FrameStops
<1>7. CASE FrameStale
  BY <1>7, FramesStale
<1>8. CASE Frame
  BY <1>8, FramesMessage
<1>9. CASE RestCrashes
  BY <1>9, RestStops
<1>10. CASE RestRead
  BY <1>10, RestReads
<1>11. CASE RestFails
  BY <1>11, RestErrs
<1>12. CASE NulCrashes \/ HandleStrId \/ HandleCut
  BY <1>12, HandleStops
<1>13. CASE HandleMsg
  BY <1>13, HandlesMessage
<1>14. CASE HandleGarbled
  BY <1>14, HandlesGarbled
<1>15. CASE FrameStray
  BY <1>15, FramesStray
<1>16. CASE UNCHANGED lspVars
  <2>1. UNCHANGED <<sent, handled, replies, lpc, lout, sock, peer, arrived,
                    readTo, avail, got, pack, heap, room, stale, header, slip,
                    filled, live>>
    BY <1>16 DEF lspVars
  <2>2. /\ Stream' /\ BytesCounted' /\ Apart' /\ Pending' = Pending
        /\ SentEnd' = SentEnd /\ HandledEnd' = HandledEnd /\ NextMsg' = NextMsg
    BY <2>1, StreamSame DEF IInv
  <2>3. Scalars' /\ Connection' /\ Buffers'
    BY <2>1, <2>2 DEF IInv, Scalars, Connection, Buffers, InMessage
  <2>4. ReadSoFar' /\ InStep'
    BY <2>1, <2>2 DEF IInv, ReadSoFar, InStep, Ended
  <2>5. HandledBefore' /\ NoneBefore' /\ GarbledLast' /\ LeakPerMessage'
    BY <2>1, StartSame
    DEF IInv, HandledBefore, NoneBefore, GarbledLast, LeakPerMessage, Ended
  <2>6. StopsOnlyFor'
    BY <2>1, StartSame DEF IInv, StopsOnlyFor, AsSent
  <2>7. QED
    BY <2>2, <2>3, <2>4, <2>5, <2>6 DEF IInv
<1>17. QED
  BY <1>1, <1>2, <1>3, <1>4, <1>5, <1>6, <1>7, <1>8, <1>9, <1>10, <1>11,
     <1>12, <1>13, <1>14, <1>15, <1>16
  DEF LspNext, Server, Recv

\* What the invariant says of the stream and of the buffer.
LEMMA IInvImplies ==
    IInv => LspTypeOK /\ FramedAtBoundary /\ StopsOnlyFor /\ LeakPerMessage
<1> SUFFICES ASSUME IInv
             PROVE  LspTypeOK /\ FramedAtBoundary /\ StopsOnlyFor /\ LeakPerMessage
  OBVIOUS
<1>1. LspTypeOK
  BY DEF IInv, Stream, Scalars, LspTypeOK
<1>2. FramedAtBoundary
  BY DEF IInv, Scalars, InStep, Ended, FramedAtBoundary
<1>3. QED
  BY <1>1, <1>2 DEF IInv
-----------------------------------------------------------------------------
(***************************************************************************)
(* The server is a MessageServer.                                          *)
(***************************************************************************)
\* The messages of the MessageServer: without their sizes and places.
Sents == [i \in 1 .. Len(sent) |-> [request |-> sent[i].request]]

\* A message sent is one message more of the MessageServer.
LEMMA SentsAppend ==
    ASSUME Stream, NEW m, m.request \in BOOLEAN, NEW e, NEW size,
           sent' = Append(sent, [end |-> e, size |-> size, request |-> m.request])
    PROVE  Sents' = Append(Sents, [request |-> m.request])
<1> DEFINE new == [end |-> e, size |-> size, request |-> m.request]
<1>1. sent \in Seq(Sent) /\ Len(sent) \in Nat
  BY DEF Stream
<1>2. \A i \in 1 .. Len(sent) : sent[i].request \in BOOLEAN
  BY Sizes
<1>3. /\ Len(sent') = Len(sent) + 1
      /\ \A i \in 1 .. Len(sent) : sent'[i] = sent[i]
      /\ sent'[Len(sent) + 1] = new
  <2> HIDE DEF new
  <2>1. sent' = Append(sent, new)
    BY DEF new
  <2>2. sent \in Seq(Sent \cup {new})
    BY <1>1, SeqMonotonic
  <2>3. QED
    BY <1>1, <2>1, <2>2
<1>4. Sents' = [i \in 1 .. Len(sent) + 1 |-> [request |-> sent'[i].request]]
  BY <1>3 DEF Sents
<1> DEFINE R == [request : BOOLEAN]
<1>5. Sents \in Seq(R) /\ Len(Sents) = Len(sent)
  BY <1>1, <1>2 DEF Sents
<1>6. [request |-> m.request] \in R
  OBVIOUS
<1>7. \A i \in 1 .. Len(sent) + 1 : sent'[i].request \in BOOLEAN
  <2>1. new.request = m.request
    OBVIOUS
  <2>2. \A i \in 1 .. Len(sent) + 1 : i \in 1 .. Len(sent) \/ i = Len(sent) + 1
    BY <1>1
  <2>3. QED
    BY <1>2, <1>3, <2>1, <2>2
<1>8. Sents' \in Seq(R) /\ Len(Sents') = Len(sent) + 1
  BY <1>1, <1>4, <1>7
<1>9. /\ Append(Sents, [request |-> m.request]) \in Seq(R)
      /\ Len(Append(Sents, [request |-> m.request])) = Len(sent) + 1
  <2> HIDE DEF R
  <2>1. QED
    BY <1>5, <1>6
<1>10. ASSUME NEW i \in 1 .. Len(sent) + 1
       PROVE  Sents'[i] = Append(Sents, [request |-> m.request])[i]
  <2>1. CASE i \in 1 .. Len(sent)
    <3>1. Sents'[i] = [request |-> sent[i].request]
      BY <1>3, <1>4, <2>1
    <3>2. Append(Sents, [request |-> m.request])[i] = Sents[i]
      <4> HIDE DEF R
      <4>1. QED
        BY <1>5, <1>6, <2>1
    <3>3. Sents[i] = [request |-> sent[i].request]
      BY <2>1 DEF Sents
    <3>4. QED
      BY <3>1, <3>2, <3>3
  <2>2. CASE i = Len(sent) + 1
    <3>1. Sents'[i] = [request |-> m.request]
      <4>1. new.request = m.request
        OBVIOUS
      <4>2. QED
        BY <1>3, <1>4, <2>2, <4>1
    <3>2. Append(Sents, [request |-> m.request])[i] = [request |-> m.request]
      <4> HIDE DEF R
      <4>1. QED
        BY <1>5, <1>6, <2>2
    <3>3. QED
      BY <3>1, <3>2
  <2>3. i \in 1 .. Len(sent) \/ i = Len(sent) + 1
    BY <1>1
  <2>4. QED
    BY <2>1, <2>2, <2>3
<1> HIDE DEF R
<1>11. QED
  BY <1>8, <1>9, <1>10, SeqEqual

\* A step of the client or the network sends, resets or does nothing.
LEMMA ClientRefines ==
    ASSUME IInv, Client
    PROVE  [Abstract!Next]_(Abstract!vars)
<1>1. CASE Send
  <2>1. PICK m \in Message :
          sent' = Append(sent, [end |-> SentEnd + m.size, size |-> m.size,
                                request |-> m.request])
    BY <1>1 DEF Send
  <2>2. UNCHANGED <<handled, replies, sock, peer, slip>>
    BY <1>1 DEF Send, done, buffer
  <2>3. m.request \in BOOLEAN
    BY DEF Message
  <2>4. Sents' = Append(Sents, [request |-> m.request])
    BY <2>1, <2>3, SentsAppend DEF IInv
  <2>5. Abstract!Send
    BY <2>2, <2>3, <2>4 DEF Abstract!Send, Sents
  <2>6. QED
    BY <2>5 DEF Abstract!Next
<1>2. CASE Deliver
  <2>1. UNCHANGED <<sent, handled, replies, sock, peer, slip>>
    BY <1>2 DEF Deliver, done, buffer
  <2>2. QED
    BY <2>1 DEF Abstract!vars
<1>3. CASE Close \/ Reset
  <2>1. /\ UNCHANGED <<sent, handled, replies, sock, slip>>
        /\ sock = "connected" /\ peer' # "open"
    BY <1>3 DEF Close, Reset, done, buffer, Connected
  <2>2. Abstract!Reset
    BY <2>1 DEF Abstract!Reset
  <2>3. QED
    BY <2>2 DEF Abstract!Next
<1>4. QED
  BY <1>1, <1>2, <1>3 DEF Client

\* lsp_recv handles a message later than all before it, and until it slips
\* the one that is next.
LEMMA HandleRefines ==
    ASSUME IInv, HandleMsg
    PROVE  Abstract!Next
<1>1. /\ lpc = "handle" /\ AsSent
      /\ UNCHANGED <<sent, sock, peer, slip>>
      /\ handled' = Append(handled, Number)
      /\ replies' = IF Current.request THEN Append(replies, Number) ELSE replies
  BY DEF HandleMsg, EndOfRecv, client
<1>2. /\ Number \in 1 .. Len(sent) /\ Current = sent[Number]
      /\ sent[Number].end - sent[Number].size = Start
      /\ Start \in Nat
      /\ sent[Number].end \in Nat /\ sent[Number].size \in Nat
      /\ 0 < sent[Number].size
  BY <1>1, SentFacts, Large DEF IInv
<1>3. ~slip => Abstract!Intact /\ Number = Len(handled) + 1
  BY <1>1, HandleFacts DEF Abstract!Intact, Abstract!Garbled, Garbled
<1>4. \A i \in 1 .. Len(handled) : handled[i] < Number
  <2> SUFFICES ASSUME NEW i \in 1 .. Len(handled)
               PROVE  handled[i] < Number
    OBVIOUS
  <2>1. handled[i] \in {Garbled} \cup 1 .. Len(sent)
    BY DEF IInv, Stream
  <2>2. CASE handled[i] = Garbled
    BY <1>2, <2>2 DEF Garbled
  <2>3. CASE handled[i] # Garbled
    <3>1. handled[i] \in 1 .. Len(sent) /\ sent[handled[i]].end <= Start
      BY <2>1, <2>3 DEF IInv, HandledBefore
    <3>2. sent[handled[i]].end \in Nat /\ sent[handled[i]].size \in Nat
          /\ 0 < sent[handled[i]].size
      BY <3>1, Sizes, Large DEF IInv
    <3>3. handled[i] # Number
      BY <1>2, <3>1, <3>2
    <3>4. ~(Number < handled[i])
      <4>1. Number < handled[i]
              => sent[Number].end <= sent[handled[i]].end - sent[handled[i]].size
        BY <1>2, <3>1 DEF IInv, Apart
      <4>2. QED
        BY <1>2, <3>1, <3>2, <4>1
    <3>5. QED
      BY <1>2, <3>1, <3>3, <3>4
  <2>4. QED
    BY <2>2, <2>3
<1>5. Sents[Number].request = sent[Number].request /\ Number \in 1 .. Len(Sents)
  <2>1. Len(sent) \in Nat
    BY DEF IInv, Stream
  <2>2. QED
    BY <1>2, <2>1 DEF Sents
<1>6. Abstract!Handle(Number)
  BY <1>1, <1>2, <1>3, <1>4, <1>5 DEF Abstract!Handle, Sents
<1>7. QED
  BY <1>5, <1>6 DEF Abstract!Next, Sents

\* Something else is handled when a reset cut a message off, or after a slip.
LEMMA GarbledRefines ==
    ASSUME IInv, HandleGarbled
    PROVE  Abstract!Next
<1>1. lpc = "handle" /\ ~AsSent
  BY DEF HandleGarbled
<1>2. PICK reply \in BOOLEAN : EndOfRecv(Garbled, reply)
  BY DEF HandleGarbled
<1>3. /\ handled' = Append(handled, Garbled)
      /\ replies' \in {replies, Append(replies, Garbled)}
      /\ UNCHANGED <<sent, sock, peer, slip>>
  BY <1>2 DEF EndOfRecv, client
<1>4. ~slip => Ended /\ sock = "connected" /\ Abstract!Intact
  BY <1>1, HandleFacts DEF Abstract!Intact, Abstract!Garbled, Garbled
<1>5. Abstract!HandleGarbled
  BY <1>3, <1>4 DEF Abstract!HandleGarbled, Abstract!Garbled, Garbled, Ended
<1>6. QED
  BY <1>5 DEF Abstract!Next

\* The server slips only when it has handled a message.
LEMMA SlipRefines ==
    ASSUME IInv, FrameStale \/ FrameStray
    PROVE  [Abstract!Next]_(Abstract!vars)
<1>1. /\ UNCHANGED <<sent, handled, replies, sock, peer>>
      /\ slip' \in {slip, TRUE}
  BY DEF FrameStale, FrameStray, FrameAs, client, done, IInv, Scalars
<1>2. CASE slip' = slip
  BY <1>1, <1>2 DEF Abstract!vars
<1>3. CASE slip' # slip
  <2>1. IInv'
    BY FramesStale, FramesStray
  <2>2. slip' = TRUE /\ handled' # <<>>
    BY <1>1, <1>3, <2>1 DEF IInv, NoneBefore
  <2>3. Abstract!Slip
    BY <1>1, <2>2 DEF Abstract!Slip
  <2>4. QED
    BY <2>3 DEF Abstract!Next
<1>4. QED
  BY <1>2, <1>3

\* All else the server does is not seen.
LEMMA ServerRefines ==
    ASSUME IInv, Server, ~HandleMsg, ~HandleGarbled, ~FrameStale, ~FrameStray
    PROVE  UNCHANGED Abstract!vars
<1>1. CASE Connect
  <2>1. UNCHANGED <<sent, handled, replies, peer, slip>> /\ peer = "open"
    BY <1>1 DEF Connect, client, done, buffer, IInv, Connection
  <2>2. QED
    BY <2>1 DEF Abstract!vars
<1>2. CASE RestFails
  <2>1. /\ UNCHANGED <<sent, handled, replies, sock, slip>>
        /\ peer # "open" /\ peer' # "open"
    BY <1>2 DEF RestFails, done, buffer
  <2>2. QED
    BY <2>1 DEF Abstract!vars
<1>3. CASE Recv /\ ~RestFails
  <2>1. UNCHANGED <<sent, handled, replies, sock, peer, slip>>
    BY <1>3 DEF Recv, PollFails, Poll, ReadFails, Read, CopyCrashes, CutHeader,
       ScanCrashes, Frame, FrameAs, RestCrashes, RestRead,
       NulCrashes, HandleStrId, HandleCut, Stop, Return, client, done, buffer
  <2>2. QED
    BY <2>1 DEF Abstract!vars
<1>4. QED
  BY <1>1, <1>2, <1>3 DEF Server

\* Before anything is sent the MessageServer has nothing either.
LEMMA InitRefines == LspInit => Abstract!Init
<1> SUFFICES ASSUME LspInit PROVE Abstract!Init
  OBVIOUS
<1>1. Sents = <<>>
  BY DEF LspInit, Sents
<1>2. QED
  BY <1>1 DEF LspInit, Abstract!Init, Sents

\* Every step is one of the MessageServer or is not seen.
LEMMA NextRefines ==
    IInv /\ [LspNext]_lspVars => [Abstract!Next]_(Abstract!vars)
<1> SUFFICES ASSUME IInv, [LspNext]_lspVars
             PROVE  [Abstract!Next]_(Abstract!vars)
  OBVIOUS
<1>1. CASE Client
  BY <1>1, ClientRefines
<1>2. CASE \/ HandleMsg \/ HandleGarbled
           \/ FrameStale \/ FrameStray
  BY <1>2, HandleRefines, GarbledRefines, SlipRefines
<1>3. CASE /\ Server /\ ~HandleMsg /\ ~HandleGarbled
           /\ ~FrameStale /\ ~FrameStray
  BY <1>3, ServerRefines
<1>4. CASE UNCHANGED lspVars
  BY <1>4 DEF lspVars, Abstract!vars
<1>5. QED
  BY <1>1, <1>2, <1>3, <1>4 DEF LspNext

\* The invariant, for every length of stream and every cut of it.
LEMMA LspAlwaysIInv == LspSpec => []IInv
BY LspInitIInv, LspNextIInv, PTL DEF LspSpec

\* lsp_recv keeps the types of its variables: what is read was sent, and
\* only what was sent is handled and answered.
THEOREM LspTypeCorrect == LspSpec => []LspTypeOK
BY LspAlwaysIInv, IInvImplies, PTL

\* Until bytes are framed by a size not their own, every read begins where a
\* message does.
THEOREM AlwaysFramed == LspSpec => []FramedAtBoundary
BY LspAlwaysIInv, IInvImplies, PTL

\* As long as the server has its place, what it takes for no header has less
\* than CrlfSize bytes: with more it begins where the next message does.
LEMMA SlipStep ==
    ASSUME IInv, [LspNext]_lspVars, slip' # slip
    PROVE  avail < CrlfSize /\ handled # <<>>
<1> USE DEF IInv
<1>1. FrameStale \/ FrameStray
  BY DEF LspNext, lspVars, Client, Send, Deliver, Close, Reset, Server, Connect,
         Recv, PollFails, Poll, ReadFails, Read, CopyCrashes, CutHeader,
         ScanCrashes, Frame, RestCrashes, RestRead, RestFails, NulCrashes,
         HandleMsg, HandleStrId, HandleGarbled, HandleCut, EndOfRecv, Return,
         Stop, buffer
<1>2. /\ lpc = "frame"
      /\ IF avail < CrlfSize THEN stale # 0 ELSE ~AtHeader
  <2>1. Stray # 0
    BY LspAssumption DEF Stray
  <2>2. QED
    BY <1>1, <2>1 DEF FrameStale, FrameStray
<1>3. ~slip
  BY <1>1 DEF FrameStale, FrameStray, Scalars
<1>4. avail < CrlfSize
  <2> SUFFICES ASSUME ~(avail < CrlfSize) PROVE FALSE
    OBVIOUS
  <2>1. got > 0
    BY <1>2, Large DEF Scalars, ReadSoFar
  <2>2. AtHeader
    BY <1>2, <1>3, <2>1, AtNext
  <2>3. QED
    BY <1>2, <2>2
<1>5. QED
  BY <1>2, <1>4 DEF NoneBefore

\* There is no other way to lose the place in the stream.
THEOREM SlipsForThisOnly == LspSpec => SlipsOnlyFor
<1>1. IInv /\ [LspNext]_lspVars =>
          [slip' # slip => avail < CrlfSize /\ handled # <<>>]_lspVars
  BY SlipStep
<1>2. QED
  BY <1>1, LspAlwaysIInv, PTL DEF LspSpec, SlipsOnlyFor

\* There is no other reason to stop.
THEOREM StopsForTheseOnly == LspSpec => []StopsOnlyFor
BY LspAlwaysIInv, IInvImplies, PTL

\* What is lost while the server runs is the JSON of every message and the
\* string of every reply, and never a buffer.
THEOREM MessagesLeak == LspSpec => []LeakPerMessage
BY LspAlwaysIInv, IInvImplies, PTL

\* Each message is handled once, in order and whole until the server slips;
\* then still none is handled twice or out of order, and a slip is never
\* before the first message.
THEOREM ServerImplements == LspSpec => ImplementsServer
BY LspAlwaysIInv, InitRefines, NextRefines, PTL
DEF LspSpec, ImplementsServer, Abstract!Spec
=============================================================================
