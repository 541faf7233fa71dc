---------------------------- MODULE EchoSession -----------------------------
(***************************************************************************)
(* One lightnet::TcpConnection, its Channel and epoll registration, and    *)
(* the coroutine of the echo example that serves it, on an I/O loop of the *)
(* server's pool; the server's main loop removes the connection, other     *)
(* threads use its thread-safe operations, and the peer sends, half-closes *)
(* and resets.                                                             *)
(*                                                                         *)
(* Bytes are units: what the peer sends is 1, 2, ... and what thread t     *)
(* sends is t.  The C++ functions run to their end on the loop thread, one *)
(* calling the other, so each is an operator from the state of the         *)
(* connection before the call to the state after it.  The loop is reduced  *)
(* to what the connection sees of it: poll, dispatch, run the tasks queued *)
(* before the swap (module EventLoop has the wake-ups that get it there).  *)
(***************************************************************************)
EXTENDS Integers, Sequences

CONSTANTS Others,       \* other threads that hold the connection; each makes one call
          MaxIn,        \* bound: units the peer sends
          SndCap,       \* units the kernel's send buffer holds
          MaxRemovals   \* bound: removals that wait in the main loop

ASSUME EchoAssumption ==
    /\ MaxIn \in Nat \ {0}
    /\ SndCap \in Nat \ {0}
    /\ MaxRemovals \in Nat \ {0}
    /\ Others \cap Nat = {}

VARIABLES conn,     \* the connection, its socket and the coroutine (see Connection)
          phase,    \* where the I/O loop is: "poll", "events" or "tasks"
          revents,  \* the events the last poll returned
          running,  \* the tasks swapped out of pending_tasks_
          calls,    \* of each other thread: "idle", an operation past its check, or "made"
          received, \* what the peer has received
          registered,   \* connections_ has it
          force_called  \* history: force_close was called

vars == <<conn, phase, revents, running, calls, received,
          registered, force_called>>

Units == 1..MaxIn \cup Others

Task == {<<"establish">>, <<"resume">>, <<"shutdown">>, <<"force_close">>} \cup ({"send"} \X Others)

Connection ==
    [ \* TcpConnection; added_to_loop_ and events_ (reading, writing) of its channel
      state_ : {"kConnecting", "kConnected", "kDisconnecting", "kDisconnected"},
      added_to_loop_ : BOOLEAN, reading : BOOLEAN, writing : BOOLEAN,
      input_buffer_ : Seq(Units), output_buffer_ : Seq(Units),
      read_coro_pending_ : BOOLEAN, write_coro_pending_ : BOOLEAN,
      \* the coroutine: where it is and the length of its AsyncWrite
      session : {"none", "AsyncRead", "AsyncWrite", "done"}, len : 0..MaxIn,
      \* pending_tasks_ of the I/O loop; removals posted to the main loop
      pending_tasks_ : Seq(Task), removals : Nat,
      \* the kernel's socket: receive queue, units the peer has sent, its FIN,
      \* a reset, the error not yet reported, send buffer, our FIN
      rcv : Seq(Units), sent : 0..MaxIn, fin : BOOLEAN, rst : BOOLEAN, err : BOOLEAN,
      snd : Seq(Units), fin_out : BOOLEAN ]

Init ==
    /\ conn = [state_ |-> "kConnecting", added_to_loop_ |-> FALSE, reading |-> FALSE, writing |-> FALSE,
               input_buffer_ |-> << >>, output_buffer_ |-> << >>,
               read_coro_pending_ |-> FALSE, write_coro_pending_ |-> FALSE,
               session |-> "none", len |-> 0,
               pending_tasks_ |-> << <<"establish">> >>, removals |-> 0,
               rcv |-> << >>, sent |-> 0, fin |-> FALSE, rst |-> FALSE, err |-> FALSE,
               snd |-> << >>, fin_out |-> FALSE]
    /\ phase = "poll"
    /\ revents = {}
    /\ running = << >>
    /\ calls = [t \in Others |-> "idle"]
    /\ received = << >>
    /\ registered = FALSE
    /\ force_called = FALSE

-----------------------------------------------------------------------------
(* The socket *)

Least(m, n) == IF m <= n THEN m ELSE n
Take(s, n)  == SubSeq(s, 1, n)
Drop(s, n)  == SubSeq(s, n + 1, Len(s))
Room(c)     == SndCap - Len(c.snd)

\* write() and readv() fail on a socket that was reset; write() after our FIN.
Broken(c) == c.rst \/ c.fin_out

\* Level-triggered epoll, of a channel that connect_established has added: HUP
\* and ERR are reported whatever events_ is, and disable_all leaves the fd in
\* the epoll set.
Ready(c) ==
    IF ~c.added_to_loop_ THEN {}
    ELSE (IF c.reading /\ (c.rcv # << >> \/ c.fin \/ c.rst) THEN {"IN"} ELSE {})
         \cup (IF c.writing /\ (Room(c) > 0 \/ Broken(c)) THEN {"OUT"} ELSE {})
         \cup (IF c.err THEN {"ERR"} ELSE {})
         \cup (IF c.rst \/ (c.fin /\ c.fin_out) THEN {"HUP"} ELSE {})

-----------------------------------------------------------------------------
(* TcpConnection *)

schedule_coro(c) == [c EXCEPT !.pending_tasks_ = Append(@, <<"resume">>)]

\* Sets the state, disables the channel; the close callback posts the removal.
handle_close(c) ==
    [c EXCEPT !.state_ = "kDisconnected", !.reading = FALSE, !.writing = FALSE,
              !.removals = @ + 1]

handle_error(c) == handle_close(c)

\* A failing system call reports the pending error and so clears it.
Failed(c) == handle_error([c EXCEPT !.err = FALSE])

\* Mutant: the units read replace what the coroutine has not consumed.
Received_m(c, k) == [c EXCEPT !.input_buffer_ = Take(c.rcv, k), !.rcv = Drop(@, k)]

\* read_fd takes k units.
Received(c, k) == [c EXCEPT !.input_buffer_ = @ \o Take(c.rcv, k), !.rcv = Drop(@, k)]

\* Mutant: the waiting coroutine is not scheduled.
handle_read_m(c, k) ==
    IF c.rcv # << >> THEN Received(c, Least(k, Len(c.rcv)))
    ELSE IF c.rst THEN Failed(c)
    ELSE IF c.fin THEN handle_close(c)
    ELSE c

\* A read gets up to k units, end of file, an error or nothing (EAGAIN).
handle_read(c, k) ==
    IF c.rcv # << >>
    THEN LET d == Received(c, Least(k, Len(c.rcv))) IN
         IF d.read_coro_pending_
         THEN schedule_coro([d EXCEPT !.read_coro_pending_ = FALSE]) ELSE d
    ELSE IF c.rst THEN Failed(c)
    ELSE IF c.fin THEN handle_close(c)
    ELSE c

\* Mutant: the FIN of a graceful shutdown is forgotten.
Written_m(c) ==
    LET d == [c EXCEPT !.writing = FALSE] IN
    IF d.write_coro_pending_
    THEN schedule_coro([d EXCEPT !.write_coro_pending_ = FALSE]) ELSE d

\* The output buffer has become empty.
Written(c) ==
    LET d == [c EXCEPT !.writing = FALSE, !.fin_out = @ \/ c.state_ = "kDisconnecting"] IN
    IF d.write_coro_pending_
    THEN schedule_coro([d EXCEPT !.write_coro_pending_ = FALSE]) ELSE d

\* Mutant: a partial write empties the output buffer.
handle_write_m(c) ==
    LET n == Least(Len(c.output_buffer_), Room(c)) IN
    IF ~c.writing \/ (~Broken(c) /\ n = 0) THEN c
    ELSE IF Broken(c) THEN Failed(c)
    ELSE Written([c EXCEPT !.snd = @ \o Take(c.output_buffer_, n), !.output_buffer_ = << >>])

\* A write takes n units, or none (EAGAIN), or fails.
handle_write(c) ==
    LET n == Least(Len(c.output_buffer_), Room(c))
        d == [c EXCEPT !.snd = @ \o Take(c.output_buffer_, n), !.output_buffer_ = Drop(@, n)]
    IN  IF ~c.writing \/ (~Broken(c) /\ n = 0) THEN c
        ELSE IF Broken(c) THEN Failed(c)
        ELSE IF d.output_buffer_ = << >> THEN Written(d) ELSE d

\* Mutant: what is left over is buffered but the write event is not enabled.
Buffered_m(c, data) == [c EXCEPT !.output_buffer_ = @ \o data]

Buffered(c, data) ==
    IF data = << >> THEN c ELSE [c EXCEPT !.output_buffer_ = @ \o data, !.writing = TRUE]

send_in_loop(c, data) ==
    LET n == Least(Len(data), Room(c)) IN
    IF c.writing \/ c.output_buffer_ # << >> THEN Buffered(c, data)
    ELSE IF Broken(c) THEN Failed(c)
    ELSE Buffered([c EXCEPT !.snd = @ \o Take(data, n)], Drop(data, n))

\* send on the loop thread.
send(c, data) == IF c.state_ = "kConnected" THEN send_in_loop(c, data) ELSE c

\* Mutant: the FIN does not wait for the output buffer.
shutdown_in_loop_m(c) == [c EXCEPT !.state_ = "kDisconnecting", !.fin_out = TRUE]

\* The task of shutdown.
shutdown_in_loop(c) == [c EXCEPT !.state_ = "kDisconnecting", !.fin_out = @ \/ ~c.writing]

-----------------------------------------------------------------------------
(* echo_session, from one suspension to the next *)

\* The coroutine ends: shutdown on the loop thread runs at once.
Finish(c) ==
    LET d == [c EXCEPT !.session = "done"] IN
    IF d.state_ = "kConnected" THEN shutdown_in_loop(d) ELSE d

\* AsyncWrite::await_suspend with all that the input buffer holds.
AwaitWrite(c) ==
    LET d == send([c EXCEPT !.session = "AsyncWrite", !.len = Len(c.input_buffer_)],
                  c.input_buffer_)
    IN  IF d.output_buffer_ = << >> THEN schedule_coro(d)
        ELSE [d EXCEPT !.write_coro_pending_ = TRUE, !.writing = TRUE]

\* The loop's condition, then AsyncRead: ready, or suspended in resume_read_coro.
LoopTop(c) ==
    IF c.state_ # "kConnected" THEN Finish(c)
    ELSE IF c.input_buffer_ # << >> THEN AwaitWrite(c)
    ELSE [c EXCEPT !.session = "AsyncRead", !.read_coro_pending_ = TRUE, !.reading = TRUE]

\* AsyncRead::await_resume reads again if the input buffer is empty.
read_some(c, k) ==
    IF c.input_buffer_ # << >> \/ c.rcv = << >> THEN c ELSE Received(c, Least(k, Len(c.rcv)))

\* Mutant: the units that arrived during the write are consumed too.
Consumed_m(c) == [c EXCEPT !.input_buffer_ = << >>, !.len = 0]

Consumed(c) == [c EXCEPT !.input_buffer_ = Drop(@, c.len), !.len = 0]

resume(c, k) ==
    CASE c.session = "AsyncRead" ->
            LET d == read_some(c, k) IN
            IF d.input_buffer_ = << >> THEN Finish(d) ELSE AwaitWrite(d)
      [] c.session = "AsyncWrite" -> LoopTop(Consumed(c))

-----------------------------------------------------------------------------
(* The I/O loop *)

\* Who has a shared_ptr to the connection: the connection table, the removals
\* under way, the frame of a coroutine that has not ended (the scheduler prunes
\* it right after the resumption in which it does), another thread until it has
\* made its call.  Without one ~TcpConnection and ~Channel have run, and what
\* the loop would do with its pointers to them is not modelled.
Destroyed ==
    /\ conn.session = "done"
    /\ ~registered /\ conn.removals = 0
    /\ \A t \in Others : calls[t] = "made"

\* Channel::handle_event
handle_event(c, re, k) ==
    LET hup == IF "HUP" \in re /\ "IN" \notin re THEN handle_close(c) ELSE c
        err == IF "ERR" \in re THEN handle_error(hup) ELSE hup
        in  == IF "IN" \in re THEN handle_read(err, k) ELSE err
    IN  IF "OUT" \in re THEN handle_write(in) ELSE in

\* poll blocks until there is something to do.
Poll ==
    /\ phase = "poll" /\ ~Destroyed
    /\ Ready(conn) # {} \/ conn.pending_tasks_ # << >>
    /\ conn.removals < MaxRemovals
    /\ revents' = Ready(conn)
    /\ phase' = "events"
    /\ UNCHANGED <<conn, running, calls, received, registered, force_called>>

\* The handlers, then the swap of do_pending_tasks.
HandleEvents(k) ==
    /\ phase = "events" /\ ~Destroyed
    /\ LET c == handle_event(conn, revents, k) IN
       /\ conn' = [c EXCEPT !.pending_tasks_ = << >>]
       /\ running' = c.pending_tasks_
       /\ phase' = IF c.pending_tasks_ = << >> THEN "poll" ELSE "tasks"
    /\ revents' = {}
    /\ UNCHANGED <<calls, received, registered, force_called>>

\* What a task does to the connection.  "establish" is the task of
\* TcpServer::new_connection: create, connect_established, and the connection
\* callback that spawns the session.
Done(task, c, k) ==
    CASE task[1] = "establish" -> LoopTop([c EXCEPT !.state_ = "kConnected",
                                                   !.added_to_loop_ = TRUE, !.reading = TRUE])
      [] task[1] = "resume" -> resume(c, k)
      [] task[1] = "send" -> send_in_loop(c, <<task[2]>>)
      [] task[1] = "shutdown" -> shutdown_in_loop(c)
      [] task[1] = "force_close" -> handle_close(c)

RunTask(k) ==
    /\ phase = "tasks" /\ ~Destroyed
    /\ conn' = Done(Head(running), conn, k)
    /\ running' = Tail(running)
    /\ phase' = IF Len(running) = 1 THEN "poll" ELSE "tasks"
    /\ registered' = (registered \/ Head(running)[1] = "establish")
    /\ UNCHANGED <<revents, calls, received, force_called>>

-----------------------------------------------------------------------------
(* The main loop, the other threads and the peer *)

\* The task of TcpServer::remove_connection.
RemoveConnection ==
    /\ conn.removals > 0
    /\ conn' = [conn EXCEPT !.removals = @ - 1, !.state_ = "kDisconnected"]
    /\ registered' = FALSE
    /\ UNCHANGED <<phase, revents, running, calls, received, force_called>>

\* send, shutdown or force_close on another thread: the check of the state,
Call(t, op) ==
    /\ calls[t] = "idle"
    /\ conn.state_ = "kConnected"
    /\ calls' = [calls EXCEPT ![t] = op]
    /\ force_called' = (force_called \/ op = "force_close")
    /\ UNCHANGED <<conn, phase, revents, running, received, registered>>

\* and the task.
Post(t) ==
    /\ calls[t] \in {"send", "shutdown", "force_close"}
    /\ calls' = [calls EXCEPT ![t] = "made"]
    /\ conn' = [conn EXCEPT !.pending_tasks_ =
                    Append(@, IF calls[t] = "send" THEN <<"send", t>> ELSE <<calls[t]>>)]
    /\ UNCHANGED <<phase, revents, running, received, registered, force_called>>

PeerUnchanged ==
    UNCHANGED <<phase, revents, running, calls, registered, force_called>>

PeerSend ==
    /\ conn.sent < MaxIn /\ ~conn.fin /\ ~conn.rst
    /\ conn' = [conn EXCEPT !.sent = @ + 1, !.rcv = Append(@, conn.sent + 1)]
    /\ UNCHANGED received /\ PeerUnchanged

PeerShutdown ==
    /\ ~conn.fin /\ ~conn.rst
    /\ conn' = [conn EXCEPT !.fin = TRUE]
    /\ UNCHANGED received /\ PeerUnchanged

PeerReset ==
    /\ ~conn.rst
    /\ conn' = [conn EXCEPT !.rst = TRUE, !.err = TRUE]
    /\ UNCHANGED received /\ PeerUnchanged

PeerReceive ==
    /\ conn.snd # << >> /\ ~conn.rst
    /\ received' = Append(received, Head(conn.snd))
    /\ conn' = [conn EXCEPT !.snd = Tail(@)]
    /\ PeerUnchanged

-----------------------------------------------------------------------------
Next ==
    \/ Poll
    \/ \E k \in 1..MaxIn : HandleEvents(k) \/ RunTask(k)
    \/ RemoveConnection
    \/ \E t \in Others : Post(t) \/ \E op \in {"send", "shutdown", "force_close"} : Call(t, op)
    \/ PeerSend \/ PeerShutdown \/ PeerReset \/ PeerReceive

Spec == Init /\ [][Next]_vars

\* The loops keep running, a call once begun is completed, and a peer that has
\* not reset the connection reads what arrives.
FairSpec ==
    /\ Spec
    /\ WF_vars(Poll)
    /\ WF_vars(\E k \in 1..MaxIn : HandleEvents(k) \/ RunTask(k))
    /\ WF_vars(RemoveConnection)
    /\ \A t \in Others : WF_vars(Post(t))
    /\ WF_vars(PeerReceive)

-----------------------------------------------------------------------------
(* Properties *)

\* Types, and the coroutine consumes no more than what the input buffer holds.
TypeOK ==
    /\ conn \in Connection
    /\ Len(conn.snd) <= SndCap
    /\ conn.session = "AsyncWrite" => conn.len \in 1..Len(conn.input_buffer_)
    /\ phase \in {"poll", "events", "tasks"}
    /\ revents \subseteq {"IN", "OUT", "ERR", "HUP"}
    /\ running \in Seq(Task)
    /\ phase = "tasks" <=> running # << >>
    /\ calls \in [Others -> {"idle", "send", "shutdown", "force_close", "made"}]
    /\ received \in Seq(Units)
    /\ registered \in BOOLEAN /\ force_called \in BOOLEAN

\* handle_close has run; the task of a late shutdown may have set the state back
\* to kDisconnecting since.
Closed ==
    \/ conn.state_ = "kDisconnected"
    \/ conn.removals > 0
    \/ conn.state_ # "kConnecting" /\ ~registered

Open == conn.state_ # "kConnecting" /\ ~Closed

\* What has been accepted for sending, oldest first, and where the echo is in it.
Stream == received \o conn.snd \o conn.output_buffer_
Echoed == {i \in DOMAIN Stream : Stream[i] \in 1..MaxIn}

\* The echo is what the peer has sent, in order, with no unit lost or repeated,
\* although direct writes, buffered writes and other threads' sends interleave
\* and units arrive while a write is under way: it grows, and has the first n units
\* and no other.  As long as the connection is connected the rest is in the input
\* buffer or still to be read.
EchoInOrder ==
    /\ \A i, j \in Echoed : i < j => Stream[i] < Stream[j]
    /\ \E n \in 0..conn.sent :
          /\ {Stream[i] : i \in Echoed} = 1..n
          /\ Open /\ conn.state_ = "kConnected" =>
                Drop(conn.input_buffer_, conn.len) \o conn.rcv = [i \in 1..conn.sent - n |-> n + i]

Scheduled == \E i \in 1..Len(running \o conn.pending_tasks_) :
                (running \o conn.pending_tasks_)[i] = <<"resume">>

\* Nothing waits unarmed on an open connection: units in the output buffer have
\* the write event enabled, a coroutine that waits to read has an empty input
\* buffer and the read event enabled, one that waits to write has units in the
\* output buffer, and a suspended coroutine is waiting or scheduled, not both.
Armed ==
    Open =>
        /\ conn.output_buffer_ # << >> <=> conn.writing
        /\ conn.read_coro_pending_ => conn.reading /\ conn.input_buffer_ = << >>
        /\ conn.write_coro_pending_ => conn.writing
        /\ conn.session = "AsyncRead" => (conn.read_coro_pending_ # Scheduled)
        /\ conn.session = "AsyncWrite" => (conn.write_coro_pending_ # Scheduled)

\* The FIN of a graceful shutdown comes after every unit accepted for sending;
\* and a connection is closed for a cause: end of file, a reset, a call of
\* force_close, or a write after our own FIN; never because a buffer is full.
FinAfterData ==
    /\ Open /\ conn.fin_out => conn.output_buffer_ = << >>
    /\ conn.state_ = "kDisconnected" => conn.fin \/ conn.rst \/ conn.fin_out \/ force_called

\* What the peer sends comes back to it, unless the connection goes down.
EchoDelivered ==
    \A i \in 1..MaxIn :
        conn.sent >= i ~> \/ i \in {received[j] : j \in DOMAIN received}
                          \/ Closed \/ conn.state_ = "kDisconnecting"

\* A graceful shutdown gets its FIN out, however full the buffers are.
ShutdownCompletes == conn.state_ = "kDisconnecting" ~> conn.fin_out \/ Closed

\* The session ends once the peer has closed its side in good order.
SessionEnds == conn.fin ~> conn.session = "done" \/ conn.rst
=============================================================================
