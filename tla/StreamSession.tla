--------------------------- MODULE StreamSession ----------------------------
(***************************************************************************)
(* The coroutines HttpServer::handle_connection and                        *)
(* RpcServer::handle_connection over one connection: requests arrive as a  *)
(* stream cut anywhere into reads, several may be under way at once, and   *)
(* their answers go back in order.  The connection is reduced to its input *)
(* Buffer, its state and the suspensions of AsyncRead and AsyncWrite       *)
(* (module EchoSession has their details); a coroutine that runs keeps the *)
(* I/O loop's thread, so nothing is read meanwhile.                        *)
(***************************************************************************)
EXTENDS HttpParser, Buffer

CONSTANTS Shapes,       \* the requests a client may send, by server kind: records
                        \* [last : BOOLEAN, body : Int, bad : BOOLEAN]
          MaxRequests   \* bound: requests sent

ASSUME StreamAssumption ==
    /\ MaxRequests \in Nat
    /\ DOMAIN Shapes \subseteq {"http", "rpc"}
    /\ \A k \in DOMAIN Shapes :
          Shapes[k] \subseteq [last : BOOLEAN, bad : BOOLEAN, body : {NoNumber, -1} \cup Nat]
    /\ \A k \in DOMAIN Shapes : \A r \in Shapes[k] : k = "rpc" => r.body \in Nat /\ ~r.bad

VARIABLES kind,           \* "http" or "rpc"
          whole_reads,    \* every read ends with a line, a body or an RPC message
          sent,           \* history: the requests sent, by id
          stream, ends,   \* history: their units, and where in it each of them ends
          wire,           \* units sent and not yet read
          fin,            \* the client has closed
          state_,         \* of the connection
          input_buffer_,
          session,        \* where the coroutine is
          parser,
          serving,        \* id of the request dispatched
          replies         \* history: ids of the requests whose answer was sent

conn_vars    == <<wire, fin, state_, input_buffer_>>
session_vars == <<session, parser, serving, replies>>
sent_vars    == <<sent, stream, ends>>
vars == <<kind, whole_reads, sent_vars, conn_vars, session_vars>>

Init ==
    /\ kind \in DOMAIN Shapes
    /\ whole_reads \in BOOLEAN
    /\ sent = << >>
    /\ stream = << >> /\ ends = << >>
    /\ wire = << >>
    /\ fin = FALSE
    /\ state_ = "kConnected"
    /\ input_buffer_ = NewBuffer
    /\ session = "AsyncRead"
    /\ parser = NewParser
    /\ serving = 0
    /\ replies = << >>

-----------------------------------------------------------------------------
(* Requests on the wire *)

Body(i, n) == [j \in 1..n |-> <<"byte", i, 0>>]

\* A request of an HTTP client: `last' asks for the connection to be closed and
\* body is the value of the Content-Length header, -1 without one.
HttpUnits(i, r) ==
    IF r.bad THEN << <<"bad", i, 0>>, CRLF >>
    ELSE << <<"start", i, 0>>, CRLF >>
         \o (IF r.body # -1 THEN << <<"length", i, r.body>>, CRLF >> ELSE << >>)
         \o (IF r.last THEN << <<"close", i, 0>>, CRLF >> ELSE << >>)
         \o <<CRLF>> \o Body(i, r.body)

\* An RPC message: its header, which has the length of the rest, and the rest;
\* `last' is one that is not a request.
RpcUnits(i, r) == << <<IF r.last THEN "other" ELSE "request", i, r.body>> >> \o Body(i, r.body)

UnitsOf(i, r) == IF kind = "http" THEN HttpUnits(i, r) ELSE RpcUnits(i, r)

\* Whether the first k units on the wire end with a line, a body or a message.
Whole(k) ==
    \/ wire[k] = CRLF
    \/ /\ wire[k][1] \in {"byte", "request", "other"}
       /\ \A j \in DOMAIN wire : j = k + 1 => wire[j][1] # "byte"

ClientSend(r) ==
    /\ Len(sent) < MaxRequests /\ ~fin
    /\ sent' = Append(sent, r)
    /\ stream' = stream \o UnitsOf(Len(sent) + 1, r)
    /\ ends' = Append(ends, Len(stream'))
    /\ wire' = wire \o UnitsOf(Len(sent) + 1, r)
    /\ UNCHANGED <<kind, whole_reads, fin, state_, input_buffer_, session_vars>>

ClientClose ==
    /\ ~fin
    /\ fin' = TRUE
    /\ UNCHANGED <<kind, whole_reads, sent_vars, wire, state_, input_buffer_, session_vars>>

-----------------------------------------------------------------------------
(* The I/O loop, when the coroutine is suspended *)

Suspended == session \in {"AsyncRead", "dispatch", "AsyncWrite", "written", "done", "failed"}

\* Mutant: a waiting coroutine is not scheduled.
handle_read_m(k) ==
    /\ Suspended /\ state_ # "kDisconnected"
    /\ k <= Len(wire) /\ k <= ReadLimit(input_buffer_) /\ (whole_reads => Whole(k))
    /\ input_buffer_.writer_index_ + k <= kMaxCapacity
    /\ input_buffer_' = read_fd(input_buffer_, SubSeq(wire, 1, k))
    /\ wire' = SubSeq(wire, k + 1, Len(wire))
    /\ UNCHANGED <<kind, whole_reads, sent_vars, fin, state_, session_vars>>

\* handle_read gets k units; it schedules a coroutine that waits in AsyncRead.  Past
\* kMaxCapacity append would write outside the buffer: such a read is not modelled.
handle_read(k) ==
    /\ Suspended /\ state_ # "kDisconnected"
    /\ k <= Len(wire) /\ k <= ReadLimit(input_buffer_) /\ (whole_reads => Whole(k))
    /\ input_buffer_.writer_index_ + k <= kMaxCapacity
    /\ input_buffer_' = read_fd(input_buffer_, SubSeq(wire, 1, k))
    /\ wire' = SubSeq(wire, k + 1, Len(wire))
    /\ session' = IF session = "AsyncRead" THEN "running" ELSE session
    /\ UNCHANGED <<kind, whole_reads, sent_vars, fin, state_, parser, serving, replies>>

\* handle_read at end of file: handle_close.
handle_close ==
    /\ Suspended /\ state_ # "kDisconnected"
    /\ fin /\ wire = << >>
    /\ state_' = "kDisconnected"
    /\ UNCHANGED <<kind, whole_reads, sent_vars, wire, fin, input_buffer_, session_vars>>

\* handle_write has sent the rest of the answer.
handle_write ==
    /\ session = "AsyncWrite" /\ state_ # "kDisconnected"
    /\ session' = "written"
    /\ UNCHANGED <<kind, whole_reads, sent_vars, conn_vars, parser, serving, replies>>

-----------------------------------------------------------------------------
(* The coroutine *)

\* `while (conn->is_connected())' and AsyncRead.
LoopTop ==
    /\ session' = IF state_ # "kConnected" THEN "done"
                  ELSE IF readable_bytes(input_buffer_) = 0 THEN "AsyncRead" ELSE "running"
    /\ UNCHANGED state_

\* Mutant: no shutdown after the loop.
Leave_m == session' = "done" /\ UNCHANGED state_

\* The loop is left: shutdown.
Leave ==
    /\ session' = "done"
    /\ state_' = IF state_ = "kConnected" THEN "kDisconnecting" ELSE state_

\* An exception ends the coroutine: Task keeps it in the promise, where nobody
\* looks, and the connection is not shut down.
Fail == session' = "failed" /\ UNCHANGED state_

\* HttpServer, from AsyncRead on: an iteration of parse, or what follows parse.
HttpRun ==
    /\ kind = "http" /\ session = "running"
    /\ \/ /\ Throws(parser, peek(input_buffer_))
          /\ input_buffer_' = retrieve(input_buffer_, 1)
          /\ Fail
          /\ UNCHANGED <<parser, serving>>
       \/ /\ ~Returns(parser, peek(input_buffer_))
          /\ ~Throws(parser, peek(input_buffer_))
          /\ parser' = parse(parser, peek(input_buffer_))
          /\ input_buffer_' = retrieve(input_buffer_, Taken(parser, peek(input_buffer_)))
          /\ UNCHANGED <<session, serving, state_>>
       \/ /\ parser.state_ = "kComplete"
          /\ session' = "dispatch" /\ serving' = parser.id
          /\ UNCHANGED <<parser, input_buffer_, state_>>
       \/ /\ parser.state_ = "kError"
          /\ Leave
          /\ UNCHANGED <<parser, input_buffer_, serving>>
       \/ /\ parser.state_ \notin {"kComplete", "kError"}
          /\ Returns(parser, peek(input_buffer_))
          /\ LoopTop
          /\ UNCHANGED <<parser, input_buffer_, serving>>
    /\ UNCHANGED <<kind, whole_reads, sent_vars, wire, fin, replies>>

\* RpcCodec::decode: whether the buffer begins with a whole message.
decode(buf) ==
    buf # << >> /\ buf[1][1] \in {"request", "other"} /\ Len(buf) > buf[1][3]

\* RpcServer, from AsyncRead or from an answer on: messages are decoded until
\* there is no whole one left; only a request is answered.
RpcRun ==
    /\ kind = "rpc" /\ session = "running"
    /\ IF decode(peek(input_buffer_))
       THEN LET head == peek(input_buffer_)[1] IN
            /\ input_buffer_' = retrieve(input_buffer_, head[3] + 1)
            /\ session' = IF head[1] = "request" THEN "dispatch" ELSE "running"
            /\ serving' = IF head[1] = "request" THEN head[2] ELSE serving
            /\ UNCHANGED state_
       ELSE LoopTop /\ UNCHANGED <<input_buffer_, serving>>
    /\ UNCHANGED <<kind, whole_reads, sent_vars, wire, fin, parser, replies>>

\* The handler, which may itself have been suspended, returns; AsyncWrite sends
\* its answer, at once or with a rest for handle_write.  send drops it if the
\* connection is no longer connected.
Answer ==
    /\ session = "dispatch"
    /\ IF state_ = "kConnected"
       THEN replies' = Append(replies, serving) /\ session' \in {"AsyncWrite", "written"}
       ELSE UNCHANGED replies /\ session' = "written"
    /\ UNCHANGED <<kind, whole_reads, sent_vars, conn_vars, parser, serving>>

\* The handler throws: dispatch's Task rethrows it to the session.
HandlerThrows ==
    /\ session = "dispatch"
    /\ Fail
    /\ UNCHANGED <<kind, whole_reads, sent_vars, wire, fin, input_buffer_, parser, serving, replies>>

\* AsyncWrite is over.
AfterWrite ==
    /\ session = "written"
    /\ \/ /\ kind = "http" /\ parser.keep_alive_
          /\ parser' = reset(parser)
          /\ LoopTop
       \/ kind = "http" /\ ~parser.keep_alive_ /\ Leave /\ UNCHANGED parser
       \/ kind = "rpc" /\ session' = "running" /\ UNCHANGED <<state_, parser>>
    /\ UNCHANGED <<kind, whole_reads, sent_vars, wire, fin, input_buffer_, serving, replies>>

-----------------------------------------------------------------------------
Run == HttpRun \/ RpcRun \/ Answer \/ HandlerThrows \/ AfterWrite

Read == \E k \in 1..Len(wire) : handle_read(k)

Next ==
    \/ \E r \in Shapes[kind] : ClientSend(r)
    \/ ClientClose
    \/ Read \/ handle_close \/ handle_write
    \/ Run

Spec == Init /\ [][Next]_vars

\* The loop thread is scheduled, handlers return or throw, what is sent arrives, and the
\* client reads the answers.
FairSpec ==
    /\ Spec
    /\ WF_vars(Run) /\ WF_vars(Read) /\ WF_vars(handle_close) /\ WF_vars(handle_write)

-----------------------------------------------------------------------------
(* Properties *)

Tags  == {"start", "length", "close", "bad", "crlf", "byte", "request", "other", "free"}
Units == Tags \X Nat \X Int

Parsers ==
    [state_ : {"kStartLine", "kHeaders", "kBody", "kComplete", "kError"},
     id : Nat, length : Int, body : Seq(Units), keep_alive_ : BOOLEAN]

\* Types, and what the coroutine's place says of the connection and the parser.
TypeOK ==
    /\ kind \in DOMAIN Shapes
    /\ whole_reads \in BOOLEAN
    /\ sent \in Seq(Shapes[kind]) /\ Len(sent) <= MaxRequests
    /\ stream \in Seq(Units) /\ ends \in Seq(Nat) /\ Len(ends) = Len(sent)
    /\ wire \in Seq(Units)
    /\ fin \in BOOLEAN
    /\ state_ \in {"kConnected", "kDisconnecting", "kDisconnected"}
    /\ IsBuffer(input_buffer_, Units)
    /\ session \in {"AsyncRead", "running", "dispatch", "AsyncWrite", "written", "done",
                   "failed"}
    /\ parser \in Parsers
    /\ kind = "rpc" => parser = NewParser
    /\ serving \in 0..Len(sent)
    /\ replies \in Seq(1..Len(sent))
    /\ session = "AsyncRead" /\ state_ = "kConnected" => readable_bytes(input_buffer_) = 0
    /\ session = "AsyncRead" => parser.state_ \notin {"kComplete", "kError"}
    /\ session \in {"dispatch", "AsyncWrite", "written"} /\ kind = "http"
          => parser.state_ = "kComplete" /\ parser.id = serving
    /\ session = "done" => state_ # "kConnected"

\* The requests that are to be answered, in order.
Closing(i) == kind = "http" /\ sent[i].last
Wrong(i)   == sent[i].bad \/ sent[i].body = NoNumber
Served(i)  == /\ ~Wrong(i)
              /\ kind = "rpc" => ~sent[i].last
              /\ \A j \in 1..(i - 1) : ~Closing(j) /\ ~Wrong(j)

\* Answers go out in the order of the requests, one each and none left out, however
\* the stream is cut and however many requests are under way; nothing is answered
\* after a request to close or one in error, and no answer comes before its request.
AnswersInOrder ==
    /\ \A j, k \in DOMAIN replies : j < k => replies[j] < replies[k]
    /\ \E n \in 0..Len(sent) : Range(replies) = {i \in 1..n : Served(i)}

\* What the client has sent after its i-th request.
EndOf(i) == IF i = 0 THEN 0 ELSE ends[i]
After(i) == SubSeq(stream, EndOf(i) + 1, Len(stream))

\* A request is dispatched with exactly its own body, and what is left in the
\* buffer and on the wire is the next request from its first unit on: no unit
\* of one request is taken for another's.
FramingKept ==
    session \in {"dispatch", "AsyncWrite", "written"} =>
        /\ kind = "http" => parser.body = Body(serving, sent[serving].body)
        /\ peek(input_buffer_) \o wire = After(serving)

\* If reads end where requests do, every request is answered unless the
\* connection goes down or an exception ends the session first; and the coroutine
\* always gives the loop's thread back.
Answered ==
    /\ \A i \in 1..MaxRequests :
          (whole_reads /\ i \in DOMAIN sent /\ Served(i))
              ~> (i \in Range(replies) \/ state_ # "kConnected" \/ session = "failed")
    /\ (whole_reads /\ session = "running") ~> (session # "running")

\* http_parser.cpp:18 and :48: with part of a request in the buffer the session
\* waits for more, so it gives the loop's thread back however the stream is cut.
PartialWaits == (session = "running") ~> (session # "running")
=============================================================================
