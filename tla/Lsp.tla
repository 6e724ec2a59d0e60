-------------------------------- MODULE Lsp ---------------------------------
(***************************************************************************)
(* The language server (lsp.c): one thread that polls a TCP socket, reads  *)
(* what has arrived, takes the length of the message from its header,      *)
(* waits for the rest, and handles it (lsp_recv); and the client and the   *)
(* network at the other end, which cut the stream of messages anywhere.    *)
(*                                                                         *)
(* The stream is counted in bytes: a message is HdrSize bytes of header,   *)
(* up to and including the empty line, and its content.  The program runs  *)
(* on POSIX sockets; a poll that times out changes nothing.  The client    *)
(* reads its replies, so that writing one never blocks.                    *)
(*                                                                         *)
(* A content is one JSON object: a part of one is no JSON, and what comes  *)
(* after a whole one is ignored by the parser of cJSON.  What bytes that   *)
(* are no header say of a length is not followed: it is any of StraySizes. *)
(***************************************************************************)
EXTENDS Integers, Sequences, FiniteSetsExt

CONSTANTS
    HdrSize,        \* bytes in a header
    ContSizes,      \* bytes in the content of a message
    RecvBufSize,    \* s_recv_buf_size
    LenBufSize,     \* bytes in str_buf of lsp_cont_len (32)
    U32,            \* one more than the largest u32
    StraySizes,     \* what is taken for a size where there is no header
    MaxMsgs         \* bound: messages the client sends

\* A scan for the empty line looks at this many bytes and one more.
CrlfSize == 3

ASSUME LspAssumption ==
    /\ HdrSize \in Nat /\ HdrSize > CrlfSize
    /\ ContSizes \subseteq Nat \ {0}
    /\ RecvBufSize \in Nat /\ RecvBufSize >= HdrSize
    /\ LenBufSize \in Nat
    /\ MaxMsgs \in Nat
    /\ U32 \in Nat \ {0}
    /\ StraySizes \subseteq 0 .. U32 - 1
    /\ \A c \in ContSizes : MaxMsgs * (HdrSize + c) < U32

VARIABLES
    sock,       \* lsp.sock: "invalid", "unconnected" or "connected"
    peer,       \* the other end: "open", "closed" or "reset"
    sent,       \* the messages sent, with their places in the stream
    arrived,    \* bytes that have arrived
    readTo,     \* bytes the server has read
    lpc,        \* where the server is: "connect", "poll", "read", "frame",
                \* "rest", "handle" or "done"
    avail,      \* bytes found available
    got,        \* bytes read into the buffer for this message
    pack,       \* pack_size
    heap,       \* heap_buf: the buffer is not s_recv_buf
    room,       \* bytes the buffer has
    stale,      \* size in the header that s_recv_buf begins with, 0 if it
                \* never had one, or Stray
    header,     \* the content begins where a header ends
    slip,       \* has anything been framed by a size not its own?
    filled,     \* bytes of s_recv_buf that were ever read into
    handled,    \* numbers of the messages handled, 0 for what is not one
    replies,    \* numbers of the messages replied to
    live,       \* blocks allocated and not released
    lout        \* "running", "returned", "panic" or "crash"

client == <<peer, sent, arrived>>
buffer == <<avail, got, pack, heap, room, stale, header, slip, filled>>
done == <<handled, replies>>
lspVars == <<sock, peer, sent, arrived, readTo, lpc, avail, got, pack, heap,
             room, stale, header, slip, filled, handled, replies, live, lout>>

Garbled == 0

\* Not the size of anything: the buffer begins with other bytes.
Stray == U32

\* request: is it one that is replied to, "initialize" or a hover?
Message == [size : { HdrSize + c : c \in ContSizes }, request : BOOLEAN]

SentEnd == IF sent = <<>> THEN 0 ELSE sent[Len(sent)].end
-----------------------------------------------------------------------------
(***************************************************************************)
(* The client and the network.                                             *)
(***************************************************************************)
\* When the server has ended, so has the connection.
Connected == sock = "connected" /\ peer = "open" /\ lout = "running"

Send ==
    /\ Connected
    /\ Len(sent) < MaxMsgs
    /\ \E m \in Message :
          sent' = Append(sent, [end |-> SentEnd + m.size, size |-> m.size,
                                request |-> m.request])
    /\ UNCHANGED <<sock, peer, arrived, readTo, lpc, buffer, done, live, lout>>

Deliver ==
    /\ Connected
    /\ arrived < SentEnd
    /\ arrived' \in arrived + 1 .. SentEnd
    /\ UNCHANGED <<sock, peer, sent, readTo, lpc, buffer, done, live, lout>>

\* The client closes its end, or dies, perhaps in the middle of a message.
Close ==
    /\ Connected
    /\ peer' = "closed"
    /\ UNCHANGED <<sock, sent, arrived, readTo, lpc, buffer, done, live, lout>>

\* A reset may take with it what has arrived and was not read.
Reset ==
    /\ Connected
    /\ peer' = "reset"
    /\ arrived' \in {arrived, readTo}
    /\ UNCHANGED <<sock, sent, readTo, lpc, buffer, done, live, lout>>

Client == Send \/ Deliver \/ Close \/ Reset
-----------------------------------------------------------------------------
(***************************************************************************)
(* lsp_connect and lsp_run.                                                *)
(***************************************************************************)
\* main_lsp goes on to lsp_run whatever the result.
Connect ==
    /\ lpc = "connect"
    /\ sock' \in {"invalid", "unconnected", "connected"}
    /\ lpc' = "poll"
    /\ UNCHANGED <<client, readTo, buffer, done, live, lout>>

Return ==
    /\ lpc' = "done"
    /\ lout' = "returned"
    /\ UNCHANGED <<sock, sent, arrived, readTo, buffer, done, live>>

Stop(how) ==
    /\ lpc' = "done"
    /\ lout' = how
    /\ UNCHANGED <<sock, client, readTo, buffer, done, live>>

\* lsp_sock_can_read fails: a socket that is not connected is hung up.  On
\* an invalid one poll finds nothing, for ever.
PollFails ==
    /\ lpc = "poll"
    /\ sock = "unconnected"
    /\ Return
    /\ UNCHANGED peer

\* Mutated form: the server waits until a buffer is full.
ReadableFull == arrived - readTo = RecvBufSize + 1

\* A connection that has ended is readable, with nothing available.
Readable == arrived > readTo \/ peer # "open"

\* lsp_sock_can_read and lsp_sock_avail.
Poll ==
    /\ lpc = "poll"
    /\ sock = "connected"
    /\ Readable
    /\ avail' = arrived - readTo
    /\ heap' = (avail' > RecvBufSize)
    /\ room' = Max({avail', RecvBufSize}) + 1
    /\ live' = IF heap' THEN live + 1 ELSE live
    /\ lpc' = "read"
    /\ UNCHANGED <<sock, client, readTo, got, pack, stale, header, slip,
                   filled, done, lout>>

\* The buffer is not released.
ReadFails ==
    /\ lpc = "read"
    /\ peer = "reset"
    /\ arrived = readTo
    /\ Return
    /\ UNCHANGED peer

\* The message whose header the reads since the last poll begin at.
Start == readTo - got

Begins(i) == sent[i].end - sent[i].size = Start

AtHeader == \E i \in 1 .. Len(sent) : Begins(i)

Number == CHOOSE i \in 1 .. Len(sent) : Begins(i)

Current == sent[Number]

\* What s_recv_buf begins with when it holds n bytes of these reads: with
\* less than CrlfSize of them the digits of the length stay.
Begun(n) ==
    IF heap \/ n < CrlfSize THEN stale
    ELSE IF AtHeader /\ n >= HdrSize THEN Current.size
    ELSE Stray

\* lsp_sock_read takes what was available and leaves what arrived since.
Read ==
    /\ lpc = "read"
    /\ arrived - readTo >= avail
    /\ ~(peer = "reset" /\ arrived = readTo)
    /\ readTo' = readTo + avail
    /\ got' = avail
    /\ stale' = Begun(avail)
    /\ filled' = IF heap THEN filled ELSE Max({filled, avail})
    /\ lpc' = "frame"
    /\ UNCHANGED <<sock, client, avail, pack, heap, room, header, slip, done,
                   live, lout>>
-----------------------------------------------------------------------------
(***************************************************************************)
(* Framing: lsp_cont_len, lsp_cont_off and what lsp_recv makes of them.    *)
(* At a header the digits are never as many as lsp_cont_len refuses.       *)
(***************************************************************************)
\* Mutated form: room for the NUL after the message is counted in.
SizeLeftWithNul == (pack + 1 - got) % U32

\* size_left, which the reads of lsp_sock_read_size count down.  More than
\* the message in the buffer makes it wrap around.
SizeLeft == (pack - got) % U32

\* lsp_cont_len copies all there is into an array on the stack.
CopyCrashes ==
    /\ lpc = "frame"
    /\ avail > LenBufSize
    /\ Stop("crash")

\* lsp_cont_off does not find the empty line in what was read, or
\* lsp_cont_len finds too many bytes before the end of a line.
CutHeader ==
    /\ lpc = "frame"
    /\ avail >= CrlfSize
    /\ AtHeader => avail < HdrSize
    /\ Stop("panic")

\* With less than CrlfSize bytes the end of the scan wraps around.  There is
\* no empty line in a buffer that never had a message, and perhaps none in
\* one that begins with other bytes.
ScanCrashes ==
    /\ lpc = "frame"
    /\ avail < CrlfSize
    /\ stale \in {0, Stray}
    /\ Stop("crash")

\* "Do we need to resize buffer again?"  The new buffer is as large as the
\* old one was: alloc is given buf_size, not pack_size.
Resize(size) ==
    IF avail # size /\ room <= size
    THEN heap' = TRUE /\ live' = IF heap THEN live ELSE live + 1
    ELSE UNCHANGED <<heap, live>>

FrameAs(size) ==
    /\ pack' = size
    /\ Resize(size)
    /\ lpc' = IF size = avail THEN "handle" ELSE "rest"
    /\ UNCHANGED <<sock, client, readTo, avail, got, room, stale, filled, done,
                   lout>>

\* With less than CrlfSize bytes, or none of a connection that was closed,
\* the length and the empty line of an earlier message are found: what is
\* read next is framed by its size.
FrameStale ==
    /\ lpc = "frame"
    /\ avail < CrlfSize
    /\ stale \notin {0, Stray}
    /\ FrameAs(stale)
    /\ header' = TRUE
    /\ slip' = (slip \/ (avail > 0 /\ ~(AtHeader /\ Current.size = stale)))

\* Bytes that are no header are taken for one.
FrameStray ==
    /\ lpc = "frame"
    /\ IF avail < CrlfSize THEN stale = Stray
                           ELSE ~AtHeader /\ avail > CrlfSize
    /\ \E size \in StraySizes : FrameAs(size)
    /\ header' \in {FALSE, AtHeader}
    /\ slip' = TRUE

Frame ==
    /\ lpc = "frame"
    /\ AtHeader
    /\ avail >= HdrSize
    /\ FrameAs(Current.size)
    /\ header' = TRUE
    /\ UNCHANGED slip
-----------------------------------------------------------------------------
(***************************************************************************)
(* lsp_sock_read_size.  When the connection is closed its reads return     *)
(* nothing, and it goes on for ever.                                       *)
(***************************************************************************)
\* Mutated form: a read is taken to return all it was asked for.
RestSizeAsked == SizeLeft

RestSize == Min({arrived - readTo, SizeLeft})

\* A write past the end of the buffer.
RestCrashes ==
    /\ lpc = "rest"
    /\ RestSize > 0
    /\ got + RestSize > room
    /\ Stop("crash")

\* Mutated form: one read is taken for the rest.
RestReadOnce ==
    /\ lpc = "rest"
    /\ RestSize > 0
    /\ readTo' = readTo + RestSize
    /\ got' = got + RestSize
    /\ stale' = Begun(got')
    /\ filled' = IF heap THEN filled ELSE Max({filled, got'})
    /\ lpc' = "handle"
    /\ UNCHANGED <<sock, client, avail, pack, heap, room, header, slip, done,
                   live, lout>>

RestRead ==
    /\ lpc = "rest"
    /\ RestSize > 0
    /\ readTo' = readTo + RestSize
    /\ got' = got + RestSize
    /\ stale' = Begun(got')
    /\ filled' = IF heap THEN filled ELSE Max({filled, got'})
    /\ lpc' = IF RestSize = SizeLeft THEN "handle" ELSE "rest"
    /\ UNCHANGED <<sock, client, avail, pack, heap, room, header, slip, done,
                   live, lout>>

\* lsp_recv does not look at the error, which the socket reports once.
RestFails ==
    /\ lpc = "rest"
    /\ peer = "reset"
    /\ arrived = readTo
    /\ peer' = "closed"
    /\ lpc' = "handle"
    /\ UNCHANGED <<sock, sent, arrived, readTo, buffer, done, live, lout>>
-----------------------------------------------------------------------------
(***************************************************************************)
(* lsp_handle_msg, jrpc_handle_init, jrpc_handle_hover, jrpc_send_json, and *)
(* the end of lsp_recv.                                                    *)
(***************************************************************************)
\* The message is in the buffer as it was sent, perhaps with more after it.
AsSent == AtHeader /\ header /\ Current.size <= pack /\ Current.size <= got

\* The NUL after the message is written past the end of the buffer.
NulCrashes ==
    /\ lpc = "handle"
    /\ pack >= room
    /\ Stop("crash")

\* What lsp_handle_msg never releases, the tree of JSON the message is parsed
\* into, and jrpc_send_json never, the string of the reply.
MsgLeak(reply) == 1 + (IF reply THEN 1 ELSE 0)

\* Mutated form: the buffer is not released.
EndOfRecvKeepsBuf(number, reply) ==
    /\ handled' = Append(handled, number)
    /\ replies' = IF reply THEN Append(replies, number) ELSE replies
    /\ live' = live + MsgLeak(reply)
    /\ heap' = FALSE /\ header' = FALSE
    /\ avail' = 0 /\ got' = 0 /\ pack' = 0 /\ room' = 0
    /\ lpc' = "poll"
    /\ UNCHANGED <<sock, client, readTo, stale, slip, filled, lout>>

EndOfRecv(number, reply) ==
    /\ handled' = Append(handled, number)
    /\ replies' = IF reply THEN Append(replies, number) ELSE replies
    /\ live' = live + MsgLeak(reply) - (IF heap THEN 1 ELSE 0)
    /\ heap' = FALSE /\ header' = FALSE
    /\ avail' = 0 /\ got' = 0 /\ pack' = 0 /\ room' = 0
    /\ lpc' = "poll"
    /\ UNCHANGED <<sock, client, readTo, stale, slip, filled, lout>>

HandleMsg ==
    /\ lpc = "handle"
    /\ AsSent
    /\ EndOfRecv(Number, Current.request)

\* "request id must be a number": it may be a string as well.
HandleStrId ==
    /\ lpc = "handle"
    /\ AsSent
    /\ Current.request
    /\ Stop("panic")

\* Other bytes of the stream may happen to be JSON, and what the buffer held
\* before may make up for what is missing of a message.
HandleGarbled ==
    /\ lpc = "handle"
    /\ ~AsSent
    /\ ~(AtHeader /\ header) \/ (got < pack /\ (heap \/ filled > got))
    /\ \E reply \in BOOLEAN : EndOfRecv(Garbled, reply)

\* "method tag must be a string", or the id of a request is not a number.
HandleCut ==
    /\ lpc = "handle"
    /\ ~AsSent
    /\ Stop("panic")

LspInit ==
    /\ sock = "invalid"
    /\ peer = "open"
    /\ sent = <<>>
    /\ arrived = 0
    /\ readTo = 0
    /\ lpc = "connect"
    /\ avail = 0 /\ got = 0 /\ pack = 0
    /\ heap = FALSE /\ room = 0
    /\ stale = 0 /\ filled = 0
    /\ header = FALSE /\ slip = FALSE
    /\ handled = <<>> /\ replies = <<>>
    /\ live = 0
    /\ lout = "running"

Recv == \/ PollFails \/ Poll \/ ReadFails \/ Read
        \/ CopyCrashes \/ CutHeader \/ ScanCrashes
        \/ FrameStale \/ FrameStray \/ Frame
        \/ RestCrashes \/ RestRead \/ RestFails
        \/ NulCrashes \/ HandleMsg \/ HandleStrId \/ HandleGarbled \/ HandleCut

Server == Connect \/ Recv

LspNext == Client \/ Server

LspSpec == LspInit /\ [][LspNext]_lspVars
-----------------------------------------------------------------------------
\* The variables of the server and of the two ends of the stream.
LspTypeOK ==
    /\ sock \in {"invalid", "unconnected", "connected"}
    /\ peer \in {"open", "closed", "reset"}
    /\ \A i \in 1 .. Len(sent) :
          /\ [size |-> sent[i].size, request |-> sent[i].request] \in Message
          /\ sent[i].end = sent[i].size + (IF i = 1 THEN 0 ELSE sent[i - 1].end)
    /\ 0 <= readTo /\ readTo <= arrived /\ arrived <= SentEnd
    /\ lpc \in {"connect", "poll", "read", "frame", "rest", "handle", "done"}
    /\ {avail, got, pack, room, stale, filled, live} \subseteq Nat
    /\ {heap, header, slip} \subseteq BOOLEAN
    /\ \A i \in 1 .. Len(handled) : handled[i] \in {Garbled} \cup 1 .. Len(sent)
    /\ \A i \in 1 .. Len(replies) : replies[i] \in {Garbled} \cup 1 .. Len(sent)
    /\ (lpc = "done") = (lout # "running")
    /\ lout \in {"running", "returned", "panic", "crash"}

\* Messages that arrived together were read together: size_left has wrapped
\* around, and the server waits for what will never come.
Coalesced == lpc = "rest" /\ pack < got

HandledEnd == IF handled = <<>> THEN 0 ELSE sent[Len(handled)].end

\* Until bytes are framed by a size that is not their own, lsp_recv returns
\* with exactly the messages it has handled taken from the socket, so that
\* the next read begins at a header; a connection that has ended leaves
\* nothing to read.
FramedAtBoundary ==
    ~slip /\ lpc = "poll" /\ (peer = "open" \/ arrived > readTo)
        => readTo = HandledEnd

\* lsp_recv loses its place for one reason only: after a message it has
\* handled, less than CrlfSize bytes are read alone, and the bound of the
\* scan in lsp_cont_off wraps around.  A header cut anywhere else stops it.
SlipsOnlyFor ==
    [][slip' # slip => avail < CrlfSize /\ handled # <<>>]_lspVars

\* Each message is handled once, in order and whole, and answered if it is a
\* request, whatever is split, joined, reallocated or cut off by a reset; and
\* when less than CrlfSize bytes are read alone after a message, lsp_recv
\* may lose messages and handle what is none, but handles none twice or out
\* of order: the server is a MessageServer.
Abstract == INSTANCE MessageServer WITH
    Message <- [request : BOOLEAN],
    sent <- [i \in 1 .. Len(sent) |-> [request |-> sent[i].request]],
    reset <- sock = "connected" /\ peer # "open",
    slipped <- slip

ImplementsServer == Abstract!Spec

\* What is sent is handled while the connection lasts, unless the server
\* has stopped, has read messages together or has lost its place in the
\* stream (lsp_recv).
EveryMessageHandled ==
    \A n \in 1 .. MaxMsgs :
        Len(sent) >= n ~> \/ Len(handled) >= n
                          \/ peer # "open"
                          \/ lout # "running"
                          \/ Coalesced
                          \/ slip

\* The server stops for these reasons and no other.  It panics when a header
\* is cut or a message was cut off by a reset, for a string as an id, or
\* once it has lost its place; a read or a write is out of bounds only where
\* no header is found, where the digits of the length are copied, after
\* messages were read together, or for a message that arrived in part and
\* is larger than its buffer.
StopsOnlyFor ==
    /\ lout = "returned" => sock = "unconnected" \/ peer = "reset"
    /\ lout = "panic" => \/ avail \in CrlfSize .. HdrSize - 1
                         \/ got < pack /\ peer = "closed"
                         \/ AsSent /\ Current.request
                         \/ slip
    /\ lout = "crash" => \/ avail > LenBufSize
                         \/ avail < CrlfSize /\ stale \in {0, Stray}
                         \/ pack < got
                         \/ avail < pack /\ RecvBufSize < pack

\* lsp_recv leaves no buffer behind, moved or not: what is allocated while
\* the server runs is its buffer, the tree of JSON of each message, which
\* lsp_handle_msg never deletes, and the string of each reply, which
\* jrpc_send_json never releases.
LeakPerMessage ==
    lout = "running" =>
        live = Len(handled) + Len(replies) + (IF heap THEN 1 ELSE 0)

\* "Read 'size' bytes from socket. Buffer is guaranteed to be large enough"
\* (lsp_sock_read_size, lsp.c:329).
BufferLargeEnough == lpc = "rest" => got + SizeLeft <= room
=============================================================================
