-------------------------- MODULE EchoSessionProofs ---------------------------
(***************************************************************************)
(* For any number of other threads, any length of the peer's stream and    *)
(* any send buffer: the types, that the peer gets its bytes back in order, *)
(* that nothing waits unarmed, and that a FIN comes after the data.        *)
(***************************************************************************)
EXTENDS EchoSession, SequenceTheorems, TLAPS

\* The connection and its socket by themselves.
Fits(c) ==
    /\ c \in Connection /\ Len(c.snd) <= SndCap
    /\ Len(c.input_buffer_) + Len(c.rcv) <= c.sent
    /\ c.err => c.rst

Resume == <<"resume">>
Has(q, task) == \E i \in DOMAIN q : q[i] = task
Once(q, task) == \A i, j \in DOMAIN q : q[i] = task /\ q[j] = task => i = j

\* A suspended coroutine waits for its event or is scheduled: by one task, which
\* is in pending_tasks_ or among the tasks q still to be run.
Coroutine(c, q) ==
    /\ Once(q, Resume) /\ Once(c.pending_tasks_, Resume)
    /\ ~(Has(q, Resume) /\ Has(c.pending_tasks_, Resume))
    /\ c.read_coro_pending_ => c.session = "AsyncRead" /\ c.input_buffer_ = << >>
    /\ c.write_coro_pending_ => c.session = "AsyncWrite"
    /\ Has(q, Resume) \/ Has(c.pending_tasks_, Resume) => c.session \in {"AsyncRead", "AsyncWrite"}
    /\ c.session = "AsyncRead" =>
          (c.read_coro_pending_ <=> ~(Has(q, Resume) \/ Has(c.pending_tasks_, Resume)))
    /\ c.session = "AsyncWrite" =>
          (c.write_coro_pending_ <=> ~(Has(q, Resume) \/ Has(c.pending_tasks_, Resume)))
    /\ IF c.session = "AsyncWrite" THEN c.len \in 1..Len(c.input_buffer_) ELSE c.len = 0

\* Open, with the connection and the table as parameters.
OpenC(c, reg) == c.state_ \in {"kConnected", "kDisconnecting"} /\ c.removals = 0 /\ reg

Arms(c, reg) ==
    /\ c.state_ = "kConnected" => c.removals = 0 /\ reg /\ ~c.fin_out
    /\ c.state_ = "kDisconnected" => c.removals > 0 \/ ~reg
    /\ OpenC(c, reg) =>
          /\ c.output_buffer_ # << >> <=> c.writing
          /\ c.read_coro_pending_ => c.reading
          /\ c.write_coro_pending_ => c.writing
          /\ c.fin_out => c.output_buffer_ = << >>

\* A connection is closed for a cause.
Cause(c, fc) == c.fin \/ c.rst \/ c.fin_out \/ fc
Caused(c, fc) == c.removals > 0 \/ c.state_ = "kDisconnected" => Cause(c, fc)

ForceCloses ==
    \/ \E t \in Others : calls[t] = "force_close"
    \/ Has(running, <<"force_close">>) \/ Has(conn.pending_tasks_, <<"force_close">>)

EventsCaused ==
    /\ "HUP" \in revents => conn.fin \/ conn.rst
    /\ "ERR" \in revents => conn.rst

\* Before it is established the connection has that one task; after, none like it.
Establish == <<"establish">>
Fresh ==
    IF conn.state_ = "kConnecting"
    THEN /\ \/ running = << >> /\ conn.pending_tasks_ = <<Establish>>
            \/ running = <<Establish>> /\ conn.pending_tasks_ = << >>
         /\ \A t \in Others : calls[t] = "idle"
         /\ conn.session = "none" /\ conn.output_buffer_ = << >> /\ conn.removals = 0
         /\ ~conn.added_to_loop_ /\ ~conn.writing /\ ~conn.fin_out
         /\ ~registered /\ revents = {}
    ELSE ~Has(running, Establish) /\ ~Has(conn.pending_tasks_, Establish)

Grows(s, n) ==
    /\ \A i, j \in DOMAIN s :
          s[i] \in 1..MaxIn /\ s[j] \in 1..MaxIn /\ i < j => s[i] < s[j]
    /\ {s[i] : i \in DOMAIN s} \cap (1..MaxIn) = 1..n

Rest(c) == Drop(c.input_buffer_, c.len) \o c.rcv

\* s is n+1, n+2, ..., m.
From(s, n, m) == Len(s) = m - n /\ \A i \in 1..Len(s) : s[i] = n + i

Echoes(s, c) ==
    \E n \in 0..c.sent :
       /\ Grows(s, n)
       /\ c.state_ \in {"kConnecting", "kConnected"} => From(Rest(c), n, c.sent)

\* What c has accepted for sending, with what the peer has received.
Sent(r, c) == r \o c.snd \o c.output_buffer_

\* All that is not the connection.
Control ==
    /\ phase \in {"poll", "events", "tasks"}
    /\ revents \subseteq {"IN", "OUT", "ERR", "HUP"}
    /\ running \in Seq(Task)
    /\ phase = "tasks" <=> running # << >>
    /\ calls \in [Others -> {"idle", "send", "shutdown", "force_close", "made"}]
    /\ received \in Seq(Units)
    /\ registered \in BOOLEAN /\ force_called \in BOOLEAN

IInv ==
    /\ Control /\ Fits(conn)
    /\ Coroutine(conn, running)
    /\ Arms(conn, registered)
    /\ Caused(conn, force_called) /\ EventsCaused /\ (ForceCloses => force_called)
    /\ Fresh
    /\ Echoes(Sent(received, conn), conn)

\* All of the connection but the coroutine that is suspended on it.
Steady(c, reg, fc) ==
    /\ c.state_ # "kConnecting"
    /\ Fits(c) /\ Arms(c, reg) /\ Caused(c, fc)

\* The coroutine, what it reads and its tasks are the same.
SameCoroutine(c, d) ==
    /\ d.session = c.session /\ d.len = c.len
    /\ d.read_coro_pending_ = c.read_coro_pending_ /\ d.write_coro_pending_ = c.write_coro_pending_
    /\ d.input_buffer_ = c.input_buffer_ /\ d.pending_tasks_ = c.pending_tasks_
    /\ d.rcv = c.rcv /\ d.sent = c.sent

-----------------------------------------------------------------------------
(* Sequences *)

LEMMA TakeDrop ==
  ASSUME NEW S, NEW s \in Seq(S), NEW n \in 0..Len(s)
  PROVE  /\ Take(s, n) \in Seq(S) /\ Len(Take(s, n)) = n
         /\ \A i \in 1..n : Take(s, n)[i] = s[i]
         /\ Drop(s, n) \in Seq(S) /\ Len(Drop(s, n)) = Len(s) - n
         /\ \A i \in 1..(Len(s) - n) : Drop(s, n)[i] = s[n + i]
         /\ Take(s, n) \o Drop(s, n) = s
<1>1. Len(s) \in Nat /\ n \in Nat /\ n <= Len(s)
  BY LenProperties
<1>2. /\ Take(s, n) \in Seq(S) /\ Len(Take(s, n)) = n
      /\ \A i \in 1..n : Take(s, n)[i] = s[i]
  <2>1. \A i \in 1..n : s[i] \in S
    BY <1>1, ElementOfSeq
  <2>2. /\ SubSeq(s, 1, n) \in Seq(S)
        /\ Len(SubSeq(s, 1, n)) = IF 1 <= n THEN n - 1 + 1 ELSE 0
        /\ \A i \in 1..(n - 1 + 1) : SubSeq(s, 1, n)[i] = s[1 + i - 1]
    BY <1>1, <2>1, SubSeqProperties
  <2> QED
    BY <1>1, <2>2 DEF Take
<1>3. /\ Drop(s, n) \in Seq(S) /\ Len(Drop(s, n)) = Len(s) - n
      /\ \A i \in 1..(Len(s) - n) : Drop(s, n)[i] = s[n + i]
  <2>1. \A i \in (n + 1)..Len(s) : s[i] \in S
    BY <1>1, ElementOfSeq
  <2>2. /\ SubSeq(s, n + 1, Len(s)) \in Seq(S)
        /\ Len(SubSeq(s, n + 1, Len(s))) = IF n + 1 <= Len(s) THEN Len(s) - (n + 1) + 1 ELSE 0
        /\ \A i \in 1..(Len(s) - (n + 1) + 1) : SubSeq(s, n + 1, Len(s))[i] = s[n + 1 + i - 1]
    BY <1>1, <2>1, SubSeqProperties
  <2> QED
    BY <1>1, <2>2 DEF Drop
<1>4. Take(s, n) \o Drop(s, n) = s
  <2> DEFINE t == Take(s, n)
             u == Drop(s, n)
  <2>1. /\ t \in Seq(S) /\ u \in Seq(S) /\ Len(t) = n /\ Len(u) = Len(s) - n
        /\ \A i \in 1..n : t[i] = s[i]
        /\ \A i \in 1..(Len(s) - n) : u[i] = s[n + i]
    BY <1>2, <1>3
  <2> HIDE DEF t, u
  <2>2. PICK v : v = t \o u
    OBVIOUS
  <2>3. /\ v \in Seq(S) /\ Len(v) = Len(t) + Len(u)
        /\ \A i \in 1..(Len(t) + Len(u)) : v[i] = IF i <= Len(t) THEN t[i] ELSE u[i - Len(t)]
    BY <2>1, <2>2, ConcatProperties
  <2>4. Len(v) = Len(s) /\ \A i \in 1..Len(v) : v[i] = s[i]
    BY <1>1, <2>1, <2>3
  <2>5. v = s
    BY <2>3, <2>4, SeqEqual
  <2> QED
    BY <2>2, <2>5 DEF t, u
<1> QED
  BY <1>2, <1>3, <1>4

-----------------------------------------------------------------------------
(* The end of a connection *)

LEMMA CloseKeeps ==
  ASSUME NEW reg \in BOOLEAN, NEW fc \in BOOLEAN,
         NEW c, Steady(c, reg, fc), Cause(c, fc)
  PROVE  LET d == handle_close(c) IN
         /\ Steady(d, reg, fc) /\ SameCoroutine(c, d)
         /\ d.state_ = "kDisconnected"
         /\ d.snd = c.snd /\ d.output_buffer_ = c.output_buffer_
         /\ d.fin = c.fin /\ d.rst = c.rst /\ d.err = c.err
<1> DEFINE d == handle_close(c)
<1>1. c \in Connection
  BY DEF Steady, Fits
<1>2. d \in Connection
  <2>1. c.removals + 1 \in Nat
    BY <1>1 DEF Connection
  <2> QED
    BY <1>1, <2>1 DEF handle_close, Connection
<1>3. /\ d.state_ = "kDisconnected" /\ SameCoroutine(c, d)
      /\ d.snd = c.snd /\ d.output_buffer_ = c.output_buffer_ /\ d.fin_out = c.fin_out
      /\ d.fin = c.fin /\ d.rst = c.rst /\ d.err = c.err
  BY <1>1 DEF handle_close, Connection, SameCoroutine
<1>4. d.removals > 0
  BY <1>1 DEF handle_close, Connection
<1> HIDE DEF d
<1>5. Steady(d, reg, fc)
  BY <1>1, <1>2, <1>3, <1>4 DEF Steady, SameCoroutine, Fits, Arms, OpenC, Caused, Cause
<1> QED
  BY <1>3, <1>5 DEF d

LEMMA FailedKeeps ==
  ASSUME NEW reg \in BOOLEAN, NEW fc \in BOOLEAN,
         NEW c, Steady(c, reg, fc), Broken(c)
  PROVE  LET d == Failed(c) IN
         /\ Steady(d, reg, fc) /\ SameCoroutine(c, d)
         /\ d.state_ = "kDisconnected"
         /\ d.snd = c.snd /\ d.output_buffer_ = c.output_buffer_
         /\ d.fin = c.fin /\ d.rst = c.rst
<1> DEFINE e == [c EXCEPT !.err = FALSE]
<1>1. c \in Connection
  BY DEF Steady, Fits
<1>2. e \in Connection
  BY <1>1 DEF Connection
<1>3. /\ SameCoroutine(c, e) /\ e.snd = c.snd /\ e.output_buffer_ = c.output_buffer_
      /\ e.fin_out = c.fin_out /\ e.fin = c.fin /\ e.rst = c.rst /\ e.err = FALSE
      /\ e.state_ = c.state_ /\ e.removals = c.removals /\ e.writing = c.writing
      /\ e.reading = c.reading
  BY <1>1 DEF Connection, SameCoroutine
<1>4. Failed(c) = handle_close(e)
  BY DEF Failed, handle_error
<1> HIDE DEF e
<1>5. Steady(e, reg, fc) /\ Cause(e, fc)
  BY <1>1, <1>2, <1>3 DEF Steady, SameCoroutine, Fits, Arms, OpenC, Caused, Cause, Broken
<1> QED
  BY <1>3, <1>4, <1>5, CloseKeeps DEF SameCoroutine

-----------------------------------------------------------------------------
(* Writing *)

LEMMA Typed ==
  ASSUME NEW c \in Connection
  PROVE  /\ c.state_ \in {"kConnecting", "kConnected", "kDisconnecting", "kDisconnected"}
         /\ c.input_buffer_ \in Seq(Units) /\ c.output_buffer_ \in Seq(Units)
         /\ c.rcv \in Seq(Units) /\ c.snd \in Seq(Units) /\ c.pending_tasks_ \in Seq(Task)
         /\ c.session \in {"none", "AsyncRead", "AsyncWrite", "done"}
         /\ c.len \in Nat /\ c.sent \in Nat /\ c.sent <= MaxIn /\ c.len <= MaxIn
         /\ c.removals \in Nat
         /\ c.writing \in BOOLEAN /\ c.reading \in BOOLEAN /\ c.fin_out \in BOOLEAN
         /\ c.read_coro_pending_ \in BOOLEAN /\ c.write_coro_pending_ \in BOOLEAN
         /\ Len(c.snd) \in Nat /\ Len(c.output_buffer_) \in Nat /\ Len(c.rcv) \in Nat
         /\ Len(c.input_buffer_) \in Nat
         /\ SndCap \in Nat /\ MaxIn \in Nat
<1>1. SndCap \in Nat /\ MaxIn \in Nat
  BY EchoAssumption DEF EchoAssumption
<1>2. /\ c.state_ \in {"kConnecting", "kConnected", "kDisconnecting", "kDisconnected"}
      /\ c.input_buffer_ \in Seq(Units) /\ c.output_buffer_ \in Seq(Units)
      /\ c.rcv \in Seq(Units) /\ c.snd \in Seq(Units) /\ c.pending_tasks_ \in Seq(Task)
      /\ c.session \in {"none", "AsyncRead", "AsyncWrite", "done"}
      /\ c.len \in 0..MaxIn /\ c.sent \in 0..MaxIn /\ c.removals \in Nat
      /\ c.writing \in BOOLEAN /\ c.reading \in BOOLEAN /\ c.fin_out \in BOOLEAN
      /\ c.read_coro_pending_ \in BOOLEAN /\ c.write_coro_pending_ \in BOOLEAN
  BY DEF Connection
<1> QED
  BY <1>1, <1>2, LenProperties

\* What a write may take from a sequence: no more than it has or there is room for.
LEMMA LeastBounds ==
  ASSUME NEW m \in Nat, NEW n \in Nat
  PROVE  Least(m, n) \in Nat /\ Least(m, n) <= m /\ Least(m, n) <= n
BY DEF Least

LEMMA Regroup ==
  ASSUME NEW s \in Seq(Units), NEW t \in Seq(Units), NEW u \in Seq(Units)
  PROVE  (s \o t) \o u = s \o (t \o u)
BY ConcatAssociative

\* Units move from one buffer to the next, or from the data to the first of them.
LEMMA MovedOn ==
  ASSUME NEW r \in Seq(Units), NEW s \in Seq(Units), NEW t \in Seq(Units), NEW n \in 0..Len(t)
  PROVE  r \o (s \o Take(t, n)) \o Drop(t, n) = r \o s \o t
<1>1. PICK u, v, w : u = Take(t, n) /\ v = Drop(t, n) /\ w = r \o s
  OBVIOUS
<1>2. u \in Seq(Units) /\ v \in Seq(Units) /\ u \o v = t
  BY <1>1, TakeDrop
<1>3. w \in Seq(Units)
  BY <1>1, ConcatProperties
<1>4. w \o u = r \o (s \o u)
  BY <1>1, <1>2, Regroup, SMTT(30)
<1>5. (w \o u) \o v = w \o (u \o v)
  BY <1>2, <1>3, Regroup, ZenonT(60)
<1>6. (r \o (s \o u)) \o v = w \o t
  BY <1>2, <1>4, <1>5, Zenon
<1> QED
  BY <1>1, <1>6, Zenon

LEMMA SendKeeps ==
  ASSUME NEW reg \in BOOLEAN, NEW fc \in BOOLEAN,
         NEW c, Steady(c, reg, fc), NEW data \in Seq(Units)
  PROVE  LET d == send_in_loop(c, data) IN
         /\ Steady(d, reg, fc) /\ SameCoroutine(c, d)
         /\ d.fin = c.fin /\ d.rst = c.rst
         /\ \/ d.state_ = c.state_ /\ \A r \in Seq(Units) : Sent(r, d) = Sent(r, c) \o data
            \/ d.state_ = "kDisconnected" /\ \A r \in Seq(Units) : Sent(r, d) = Sent(r, c)
<1>1. c \in Connection /\ Fits(c)
  BY DEF Steady, Fits
<1>2. CASE c.writing \/ c.output_buffer_ # << >>
  <2> DEFINE d == [c EXCEPT !.output_buffer_ = @ \o data, !.writing = TRUE]
  <2>1. CASE data = << >>
    <3>1. send_in_loop(c, data) = c
      BY <1>2, <2>1 DEF send_in_loop, Buffered
    <3>2. \A r \in Seq(Units) : Sent(r, c) = Sent(r, c) \o data
      <4> SUFFICES ASSUME NEW r \in Seq(Units) PROVE Sent(r, c) = Sent(r, c) \o data
        OBVIOUS
      <4>1. Sent(r, c) \in Seq(Units)
        BY <1>1, Typed, ConcatProperties DEF Sent
      <4> QED
        BY <2>1, <4>1, ConcatEmptySeq
    <3> QED
      BY <3>1, <3>2 DEF SameCoroutine
  <2>2. CASE data # << >>
    <3>1. send_in_loop(c, data) = d
      BY <1>2, <2>2 DEF send_in_loop, Buffered
    <3>2. PICK o : o = c.output_buffer_ \o data
      OBVIOUS
    <3>3. o \in Seq(Units) /\ o # << >>
      BY <1>1, <2>2, <3>2, Typed, ConcatProperties, ConcatEqualIffEmpty
    <3>4. d \in Connection
      BY <1>1, <3>2, <3>3 DEF Connection
    <3>5. /\ SameCoroutine(c, d) /\ d.snd = c.snd /\ d.output_buffer_ = o /\ d.writing = TRUE
          /\ d.fin_out = c.fin_out /\ d.fin = c.fin /\ d.rst = c.rst /\ d.err = c.err
          /\ d.state_ = c.state_ /\ d.removals = c.removals /\ d.reading = c.reading
      BY <1>1, <3>2 DEF Connection, SameCoroutine
    <3> HIDE DEF d
    <3>6. Steady(d, reg, fc)
      BY <1>1, <1>2, <3>3, <3>4, <3>5
         DEF Steady, SameCoroutine, Fits, Arms, OpenC, Caused, Cause
    <3>7. \A r \in Seq(Units) : Sent(r, d) = Sent(r, c) \o data
      <4> SUFFICES ASSUME NEW r \in Seq(Units) PROVE Sent(r, d) = Sent(r, c) \o data
        OBVIOUS
      <4>1. r \o c.snd \in Seq(Units) /\ c.output_buffer_ \in Seq(Units)
        BY <1>1, Typed, ConcatProperties
      <4>2. PICK w : w = r \o c.snd
        OBVIOUS
      <4>3. (w \o c.output_buffer_) \o data = w \o (c.output_buffer_ \o data)
        BY <4>1, <4>2, Regroup
      <4> QED
        BY <3>2, <3>5, <4>2, <4>3, Zenon DEF Sent
    <3> QED
      BY <3>1, <3>5, <3>6, <3>7
  <2> QED
    BY <2>1, <2>2
<1>3. CASE ~(c.writing \/ c.output_buffer_ # << >>) /\ Broken(c)
  <2>1. send_in_loop(c, data) = Failed(c)
    BY <1>3 DEF send_in_loop
  <2> DEFINE d == Failed(c)
  <2>2. /\ Steady(d, reg, fc) /\ SameCoroutine(c, d) /\ d.state_ = "kDisconnected"
        /\ d.snd = c.snd /\ d.output_buffer_ = c.output_buffer_
        /\ d.fin = c.fin /\ d.rst = c.rst
    BY <1>3, FailedKeeps
  <2> HIDE DEF d
  <2>3. \A r \in Seq(Units) : Sent(r, d) = Sent(r, c)
    BY <2>2, Zenon DEF Sent
  <2> QED
    BY <2>1, <2>2, <2>3 DEF d
<1>4. CASE ~(c.writing \/ c.output_buffer_ # << >>) /\ ~Broken(c)
  <2>1. PICK n : n = Least(Len(data), Room(c))
    OBVIOUS
  <2>2. n \in 0..Len(data) /\ n <= SndCap - Len(c.snd)
    <3>1. Len(data) \in Nat /\ SndCap - Len(c.snd) \in Nat
      BY <1>1, Typed, LenProperties DEF Fits
    <3>2. PICK k, m : k = Len(data) /\ m = SndCap - Len(c.snd)
      OBVIOUS
    <3>3. n = Least(k, m) /\ k \in Nat /\ m \in Nat
      BY <2>1, <3>1, <3>2 DEF Room
    <3>4. n \in Nat /\ n <= k /\ n <= m
      BY <3>3, LeastBounds
    <3> QED
      BY <3>2, <3>3, <3>4
  <2>3. PICK u, v : u = Take(data, n) /\ v = Drop(data, n)
    OBVIOUS
  <2>4. u \in Seq(Units) /\ v \in Seq(Units) /\ Len(u) = n
    BY <2>2, <2>3, TakeDrop
  <2> DEFINE d == [c EXCEPT !.snd = @ \o u, !.output_buffer_ = v,
                            !.writing = IF v = << >> THEN @ ELSE TRUE]
  <2>5. send_in_loop(c, data) = d
    <3> DEFINE e == [c EXCEPT !.snd = @ \o u]
    <3>1. send_in_loop(c, data) = Buffered(e, v)
      BY <1>4, <2>1, <2>3 DEF send_in_loop
    <3>2. /\ e.output_buffer_ = << >> /\ DOMAIN e = DOMAIN c
      BY <1>1, <1>4 DEF Connection
    <3>3. << >> \o v = v
      BY <2>4, ConcatEmptySeq
    <3>4. CASE v = << >>
      BY <1>1, <1>4, <3>1, <3>4, ZenonT(60) DEF Buffered, Connection
    <3>5. CASE v # << >>
      BY <1>1, <3>1, <3>2, <3>3, <3>5, ZenonT(60) DEF Buffered, Connection
    <3> QED
      BY <3>4, <3>5
  <2>6. PICK s : s = c.snd \o u
    OBVIOUS
  <2>7. s \in Seq(Units) /\ Len(s) <= SndCap
    <3>1. s \in Seq(Units) /\ Len(s) = Len(c.snd) + Len(u)
      BY <1>1, <2>4, <2>6, Typed, ConcatProperties
    <3> QED
      BY <1>1, <2>2, <2>4, <3>1, Typed
  <2>8. d \in Connection
    <3>1. (IF v = << >> THEN c.writing ELSE TRUE) \in BOOLEAN
      BY <1>1, Typed
    <3> QED
      BY <1>1, <2>4, <2>6, <2>7, <3>1 DEF Connection
  <2>9. /\ SameCoroutine(c, d) /\ d.snd = s /\ d.output_buffer_ = v
        /\ d.fin_out = c.fin_out /\ d.fin = c.fin /\ d.rst = c.rst /\ d.err = c.err
        /\ d.state_ = c.state_ /\ d.removals = c.removals /\ d.reading = c.reading
    BY <1>1, <2>6 DEF Connection, SameCoroutine
  <2>10. d.writing <=> v # << >>
    BY <1>1, <1>4 DEF Connection
  <2> HIDE DEF d
  <2>11. Steady(d, reg, fc)
    BY <1>1, <1>4, <2>7, <2>8, <2>9, <2>10
       DEF Steady, SameCoroutine, Fits, Arms, OpenC, Caused, Cause, Broken
  <2>12. \A r \in Seq(Units) : Sent(r, d) = Sent(r, c) \o data
    <3> SUFFICES ASSUME NEW r \in Seq(Units) PROVE Sent(r, d) = Sent(r, c) \o data
      OBVIOUS
    <3>1. r \o s \o v = r \o c.snd \o data
      <4>1. c.snd \in Seq(Units)
        BY <1>1, Typed
      <4> QED
        BY <2>2, <2>3, <2>6, <4>1, MovedOn, ZenonT(60)
    <3>2. Sent(r, c) = r \o c.snd
      <4>1. r \o c.snd \in Seq(Units) /\ c.output_buffer_ = << >>
        BY <1>1, <1>4, Typed, ConcatProperties
      <4> QED
        BY <4>1, ConcatEmptySeq DEF Sent
    <3> QED
      BY <2>9, <3>1, <3>2, Zenon DEF Sent
  <2> QED
    BY <2>5, <2>9, <2>11, <2>12
<1> QED
  BY <1>2, <1>3, <1>4

-----------------------------------------------------------------------------
(* Tasks, and the coroutine that is scheduled *)

Queued(p, task) == Append(p, task)

LEMMA QueuedTask ==
  ASSUME NEW p \in Seq(Task), NEW task \in Task
  PROVE  /\ Queued(p, task) \in Seq(Task)
         /\ \A x : Has(Queued(p, task), x) <=> Has(p, x) \/ x = task
         /\ \A x : Once(p, x) /\ ~(x = task /\ Has(p, x)) => Once(Queued(p, task), x)
<1>1. PICK p2, n : p2 = Queued(p, task) /\ n = Len(p)
  OBVIOUS
<1>2. /\ p2 \in Seq(Task) /\ n \in Nat /\ Len(p2) = n + 1
      /\ \A i \in 1..n : p2[i] = p[i]
      /\ p2[n + 1] = task
      /\ DOMAIN p = 1..n
  BY <1>1, AppendProperties, LenProperties DEF Queued
<1>3. DOMAIN p2 = 1..(n + 1)
  BY <1>2, LenProperties
<1>4. ASSUME NEW x PROVE Has(p2, x) <=> Has(p, x) \/ x = task
  <2>1. \A i \in DOMAIN p2 : i \in DOMAIN p \/ i = n + 1
    BY <1>2, <1>3
  <2>2. n + 1 \in DOMAIN p2 /\ \A i \in DOMAIN p : i \in DOMAIN p2
    BY <1>2, <1>3
  <2> QED
    BY <1>2, <2>1, <2>2 DEF Has
<1>5. ASSUME NEW x, Once(p, x), ~(x = task /\ Has(p, x)) PROVE Once(p2, x)
  <2> SUFFICES ASSUME NEW i \in DOMAIN p2, NEW j \in DOMAIN p2, p2[i] = x, p2[j] = x
               PROVE  i = j
    BY DEF Once
  <2>1. /\ i \in DOMAIN p \/ i = n + 1
        /\ j \in DOMAIN p \/ j = n + 1
    BY <1>2, <1>3
  <2> QED
    BY <1>2, <1>5, <2>1 DEF Once, Has
<1> QED
  BY <1>1, <1>2, <1>4, <1>5

\* schedule_coro changes the tasks and nothing else.
LEMMA ScheduleKeeps ==
  ASSUME NEW reg \in BOOLEAN, NEW fc \in BOOLEAN, NEW c, Steady(c, reg, fc)
  PROVE  LET d == schedule_coro(c) IN
         /\ Steady(d, reg, fc)
         /\ d.pending_tasks_ = Queued(c.pending_tasks_, Resume)
         /\ d.session = c.session /\ d.len = c.len /\ d.input_buffer_ = c.input_buffer_
         /\ d.read_coro_pending_ = c.read_coro_pending_
         /\ d.write_coro_pending_ = c.write_coro_pending_
         /\ d.rcv = c.rcv /\ d.sent = c.sent /\ d.state_ = c.state_
         /\ d.snd = c.snd /\ d.output_buffer_ = c.output_buffer_
         /\ d.fin = c.fin /\ d.rst = c.rst
<1>1. c \in Connection /\ c.pending_tasks_ \in Seq(Task) /\ Resume \in Task
  BY Typed DEF Steady, Fits, Resume, Task
<1>2. PICK p : p = Queued(c.pending_tasks_, Resume)
  OBVIOUS
<1>3. p \in Seq(Task)
  BY <1>1, <1>2, QueuedTask
<1> DEFINE d == [c EXCEPT !.pending_tasks_ = p]
<1>4. schedule_coro(c) = d
  BY <1>2 DEF schedule_coro, Queued, Resume
<1>5. d \in Connection
  BY <1>1, <1>3 DEF Connection
<1>6. /\ d.pending_tasks_ = p
      /\ d.session = c.session /\ d.len = c.len /\ d.input_buffer_ = c.input_buffer_
      /\ d.read_coro_pending_ = c.read_coro_pending_
      /\ d.write_coro_pending_ = c.write_coro_pending_
      /\ d.rcv = c.rcv /\ d.sent = c.sent /\ d.state_ = c.state_
      /\ d.snd = c.snd /\ d.output_buffer_ = c.output_buffer_
      /\ d.fin = c.fin /\ d.rst = c.rst
      /\ d.err = c.err /\ d.fin_out = c.fin_out /\ d.removals = c.removals
      /\ d.writing = c.writing /\ d.reading = c.reading
  BY <1>1 DEF Connection
<1> HIDE DEF d
<1>7. Steady(d, reg, fc)
  BY <1>5, <1>6 DEF Steady, Fits, Arms, OpenC, Caused, Cause
<1> QED
  BY <1>2, <1>4, <1>6, <1>7

-----------------------------------------------------------------------------
(* Reading *)

LEMMA DropConcat ==
  ASSUME NEW s \in Seq(Units), NEW t \in Seq(Units), NEW n \in 0..Len(s)
  PROVE  Drop(s \o t, n) = Drop(s, n) \o t
<1>1. PICK st, u, v, w : st = s \o t /\ u = Drop(s, n) /\ v = u \o t /\ w = Drop(st, n)
  OBVIOUS
<1>2. /\ u \in Seq(Units) /\ Len(u) = Len(s) - n
      /\ \A i \in 1..(Len(s) - n) : u[i] = s[n + i]
  BY <1>1, TakeDrop
<1>3. /\ st \in Seq(Units) /\ Len(st) = Len(s) + Len(t)
      /\ \A i \in 1..(Len(s) + Len(t)) : st[i] = IF i <= Len(s) THEN s[i] ELSE t[i - Len(s)]
  BY <1>1, ConcatProperties
<1>4. Len(s) \in Nat /\ Len(t) \in Nat /\ n \in 0..Len(st) /\ n \in Nat /\ n <= Len(s)
  BY <1>3, LenProperties
<1>5. /\ w \in Seq(Units) /\ Len(w) = Len(st) - n
      /\ \A i \in 1..(Len(st) - n) : w[i] = st[n + i]
  BY <1>1, <1>3, <1>4, TakeDrop
<1>6. /\ v \in Seq(Units) /\ Len(v) = Len(u) + Len(t)
      /\ \A i \in 1..(Len(u) + Len(t)) : v[i] = IF i <= Len(u) THEN u[i] ELSE t[i - Len(u)]
  BY <1>1, <1>2, ConcatProperties
<1>7. Len(v) = Len(w)
  BY <1>2, <1>3, <1>4, <1>5, <1>6
<1>8. \A i \in 1..Len(v) : v[i] = w[i]
  <2> SUFFICES ASSUME NEW i \in 1..Len(v) PROVE v[i] = w[i]
    OBVIOUS
  <2>1. w[i] = st[n + i] /\ n + i \in 1..(Len(s) + Len(t))
    <3>1. PICK a, b : a = Len(s) /\ b = Len(t)
      OBVIOUS
    <3>2. a \in Nat /\ b \in Nat /\ n \in Nat /\ n <= a /\ i \in 1..(a - n + b)
      BY <1>2, <1>4, <1>6, <3>1
    <3>3. i \in 1..(a + b - n) /\ n + i \in 1..(a + b)
      BY <3>2
    <3> QED
      BY <1>3, <1>5, <3>1, <3>3
  <2>2. CASE i <= Len(u)
    BY <1>2, <1>3, <1>4, <1>6, <2>1, <2>2
  <2>3. CASE ~(i <= Len(u))
    <3>1. v[i] = t[i - Len(u)]
      BY <1>6, <2>3
    <3>2. ~(n + i <= Len(s)) /\ n + i - Len(s) = i - Len(u)
      BY <1>2, <1>4, <2>3
    <3>3. st[n + i] = t[n + i - Len(s)]
      BY <1>3, <2>1, <3>2
    <3> QED
      BY <2>1, <3>1, <3>2, <3>3
  <2> QED
    BY <2>2, <2>3
<1>9. v = w
  BY <1>5, <1>6, <1>7, <1>8, SeqEqual
<1> QED
  BY <1>1, <1>9

LEMMA ReceivedKeeps ==
  ASSUME NEW reg \in BOOLEAN, NEW fc \in BOOLEAN, NEW c, Steady(c, reg, fc),
         NEW n \in 0..Len(c.rcv), c.len <= Len(c.input_buffer_)
  PROVE  LET d == Received(c, n) IN
         /\ Steady(d, reg, fc)
         /\ Len(d.input_buffer_) = Len(c.input_buffer_) + n
         /\ Rest(d) = Rest(c)
         /\ d.pending_tasks_ = c.pending_tasks_
         /\ d.session = c.session /\ d.len = c.len
         /\ d.read_coro_pending_ = c.read_coro_pending_
         /\ d.write_coro_pending_ = c.write_coro_pending_
         /\ d.sent = c.sent /\ d.state_ = c.state_
         /\ d.snd = c.snd /\ d.output_buffer_ = c.output_buffer_
         /\ d.fin = c.fin /\ d.rst = c.rst
<1>1. /\ c \in Connection /\ c.input_buffer_ \in Seq(Units) /\ c.rcv \in Seq(Units)
      /\ c.len \in 0..Len(c.input_buffer_)
      /\ Len(c.input_buffer_) \in Nat /\ Len(c.rcv) \in Nat /\ c.sent \in Nat
      /\ Len(c.input_buffer_) + Len(c.rcv) <= c.sent
  <2>1. c \in Connection /\ Len(c.input_buffer_) + Len(c.rcv) <= c.sent
    BY DEF Steady, Fits
  <2>2. /\ c.input_buffer_ \in Seq(Units) /\ c.rcv \in Seq(Units) /\ c.len \in Nat
        /\ Len(c.input_buffer_) \in Nat /\ Len(c.rcv) \in Nat /\ c.sent \in Nat
    BY <2>1, Typed
  <2>3. c.len \in 0..Len(c.input_buffer_)
    BY <2>2
  <2> QED
    BY <2>1, <2>2, <2>3
<1>2. PICK u, v, i : u = Take(c.rcv, n) /\ v = Drop(c.rcv, n) /\ i = c.input_buffer_ \o u
  OBVIOUS
<1>3. /\ u \in Seq(Units) /\ v \in Seq(Units) /\ u \o v = c.rcv
      /\ Len(u) = n /\ Len(v) = Len(c.rcv) - n
  BY <1>1, <1>2, TakeDrop, ZenonT(60)
<1>4. i \in Seq(Units) /\ Len(i) = Len(c.input_buffer_) + n
  BY <1>1, <1>2, <1>3, ConcatProperties, ZenonT(60)
<1> DEFINE d == [c EXCEPT !.input_buffer_ = i, !.rcv = v]
<1>5. Received(c, n) = d
  BY <1>2 DEF Received
<1>6. d \in Connection
  BY <1>1, <1>3, <1>4 DEF Connection
<1>7. /\ d.input_buffer_ = i /\ d.rcv = v
      /\ d.pending_tasks_ = c.pending_tasks_
      /\ d.session = c.session /\ d.len = c.len
      /\ d.read_coro_pending_ = c.read_coro_pending_
      /\ d.write_coro_pending_ = c.write_coro_pending_
      /\ d.sent = c.sent /\ d.state_ = c.state_
      /\ d.snd = c.snd /\ d.output_buffer_ = c.output_buffer_
      /\ d.fin = c.fin /\ d.rst = c.rst
      /\ d.err = c.err /\ d.fin_out = c.fin_out /\ d.removals = c.removals
      /\ d.writing = c.writing /\ d.reading = c.reading
  BY <1>1 DEF Connection
<1> HIDE DEF d
<1>8. Len(i) + Len(v) <= c.sent
  <2>1. PICK a, b : a = Len(c.input_buffer_) /\ b = Len(c.rcv)
    OBVIOUS
  <2>2. a \in Nat /\ b \in Nat /\ n \in 0..b /\ a + b <= c.sent
    BY <1>1, <2>1
  <2>3. Len(i) = a + n /\ Len(v) = b - n
    BY <1>3, <1>4, <2>1
  <2> QED
    BY <1>1, <2>2, <2>3
<1>9. Steady(d, reg, fc)
  BY <1>6, <1>7, <1>8 DEF Steady, Fits, Arms, OpenC, Caused, Cause
<1>10. Rest(d) = Rest(c)
  <2>1. PICK e : e = Drop(c.input_buffer_, c.len)
    OBVIOUS
  <2>2. e \in Seq(Units) /\ Drop(i, c.len) = e \o u
    BY <1>1, <1>2, <1>3, <2>1, DropConcat, TakeDrop
  <2>3. (e \o u) \o v = e \o (u \o v)
    BY <1>3, <2>2, Regroup
  <2> QED
    BY <1>3, <1>7, <2>1, <2>2, <2>3, Zenon DEF Rest
<1> QED
  BY <1>4, <1>5, <1>7, <1>9, <1>10

-----------------------------------------------------------------------------
(* The handlers of the channel *)

\* d has the stream of c, whole as long as d is connected.
SameEcho(c, d) ==
    /\ \A r \in Seq(Units) : Sent(r, d) = Sent(r, c)
    /\ d.sent = c.sent
    /\ d.state_ = "kConnected" => c.state_ = "kConnected" /\ Rest(d) = Rest(c)

\* What a handler does to a connection: the invariants hold, the stream stays, and
\* the only task it may add is the coroutine's.
Handled(c, d, q, reg, fc) ==
    /\ Steady(d, reg, fc) /\ Coroutine(d, q) /\ SameEcho(c, d)
    /\ d.fin = c.fin /\ d.rst = c.rst
    /\ \A x : Has(d.pending_tasks_, x) => x = Resume \/ Has(c.pending_tasks_, x)

LEMMA HandledNothing ==
  ASSUME NEW c, NEW q, NEW reg, NEW fc, Steady(c, reg, fc), Coroutine(c, q)
  PROVE  Handled(c, c, q, reg, fc)
BY DEF Handled, SameEcho

LEMMA HandledTwice ==
  ASSUME NEW c, NEW d, NEW e, NEW q, NEW reg, NEW fc,
         Handled(c, d, q, reg, fc), Handled(d, e, q, reg, fc)
  PROVE  Handled(c, e, q, reg, fc)
<1>1. SameEcho(c, e)
  BY DEF Handled, SameEcho
<1> QED
  BY <1>1 DEF Handled

LEMMA HandledClose ==
  ASSUME NEW c, NEW d, NEW q, NEW reg, NEW fc,
         Coroutine(c, q), Steady(d, reg, fc), SameCoroutine(c, d),
         d.state_ = "kDisconnected", d.snd = c.snd, d.output_buffer_ = c.output_buffer_,
         d.fin = c.fin, d.rst = c.rst
  PROVE  Handled(c, d, q, reg, fc)
<1>1. SameEcho(c, d)
  BY Zenon DEF SameEcho, SameCoroutine, Sent
<1>2. Coroutine(d, q)
  BY DEF Coroutine, SameCoroutine
<1> QED
  BY <1>1, <1>2 DEF Handled, SameCoroutine

\* The coroutine that waits is scheduled, and no longer waits.
LEMMA Woken ==
  ASSUME NEW c \in Connection, NEW d, NEW q, Coroutine(c, q),
         c.read_coro_pending_ \/ c.write_coro_pending_,
         ~d.read_coro_pending_, ~d.write_coro_pending_,
         d.session = c.session, d.len = c.len,
         d.pending_tasks_ = Queued(c.pending_tasks_, Resume),
         c.session = "AsyncWrite" => d.input_buffer_ = c.input_buffer_
  PROVE  /\ Coroutine(d, q)
         /\ \A x : Has(d.pending_tasks_, x) => x = Resume \/ Has(c.pending_tasks_, x)
<1>1. ~Has(q, Resume) /\ ~Has(c.pending_tasks_, Resume)
  BY DEF Coroutine
<1>2. c.pending_tasks_ \in Seq(Task) /\ Resume \in Task
  BY Typed DEF Resume, Task
<1>3. /\ \A x : Has(d.pending_tasks_, x) <=> Has(c.pending_tasks_, x) \/ x = Resume
      /\ Once(d.pending_tasks_, Resume)
  BY <1>1, <1>2, QueuedTask DEF Coroutine
<1>4. c.session \in {"AsyncRead", "AsyncWrite"}
  BY DEF Coroutine
<1> QED
  BY <1>1, <1>3, <1>4 DEF Coroutine

LEMMA HandleReadKeeps ==
  ASSUME NEW reg \in BOOLEAN, NEW fc \in BOOLEAN, NEW c, NEW q, NEW k \in Nat \ {0},
         Steady(c, reg, fc), Coroutine(c, q)
  PROVE  Handled(c, handle_read(c, k), q, reg, fc)
<1>1. c \in Connection /\ c.rcv \in Seq(Units)
  BY Typed DEF Steady, Fits
<1>2. CASE c.rcv # << >>
  <2>1. PICK n : n = Least(k, Len(c.rcv))
    OBVIOUS
  <2>2. n \in 0..Len(c.rcv) /\ n > 0
    <3>1. PICK m : m = Len(c.rcv)
      OBVIOUS
    <3>2. m \in Nat \ {0}
      BY <1>1, <1>2, <3>1, EmptySeq
    <3> QED
      BY <2>1, <3>1, <3>2 DEF Least
  <2> DEFINE d == Received(c, n)
  <2>3. c.len <= Len(c.input_buffer_)
    <3>1. c.len \in Nat /\ Len(c.input_buffer_) \in Nat
      BY <1>1, Typed
    <3> QED
      BY <3>1 DEF Coroutine
  <2>4. /\ Steady(d, reg, fc)
        /\ Len(d.input_buffer_) = Len(c.input_buffer_) + n
        /\ Rest(d) = Rest(c)
        /\ d.pending_tasks_ = c.pending_tasks_
        /\ d.session = c.session /\ d.len = c.len
        /\ d.read_coro_pending_ = c.read_coro_pending_
        /\ d.write_coro_pending_ = c.write_coro_pending_
        /\ d.sent = c.sent /\ d.state_ = c.state_
        /\ d.snd = c.snd /\ d.output_buffer_ = c.output_buffer_
        /\ d.fin = c.fin /\ d.rst = c.rst
    BY <2>2, <2>3, ReceivedKeeps
  <2>5. handle_read(c, k) = IF d.read_coro_pending_
                            THEN schedule_coro([d EXCEPT !.read_coro_pending_ = FALSE]) ELSE d
    BY <1>2, <2>1 DEF handle_read
  <2> HIDE DEF d
  <2>6. SameEcho(c, d)
    BY <2>4, Zenon DEF SameEcho, Sent
  <2>7. d \in Connection
    BY <2>4 DEF Steady, Fits
  <2>8. CASE c.read_coro_pending_
    <3> DEFINE e == [d EXCEPT !.read_coro_pending_ = FALSE]
               f == schedule_coro(e)
    <3>1. handle_read(c, k) = f
      BY <2>4, <2>5, <2>8
    <3>2. e \in Connection
      BY <2>7 DEF Connection
    <3>3. /\ ~e.read_coro_pending_
          /\ e.pending_tasks_ = d.pending_tasks_
          /\ e.session = d.session /\ e.len = d.len /\ e.input_buffer_ = d.input_buffer_
          /\ e.write_coro_pending_ = d.write_coro_pending_
          /\ e.rcv = d.rcv /\ e.sent = d.sent /\ e.state_ = d.state_
          /\ e.snd = d.snd /\ e.output_buffer_ = d.output_buffer_
          /\ e.fin = d.fin /\ e.rst = d.rst
          /\ e.err = d.err /\ e.fin_out = d.fin_out /\ e.removals = d.removals
          /\ e.writing = d.writing /\ e.reading = d.reading
      BY <2>7 DEF Connection
    <3> HIDE DEF e
    <3>4. Steady(e, reg, fc)
      BY <2>4, <3>2, <3>3 DEF Steady, Fits, Arms, OpenC, Caused, Cause
    <3>5. /\ Steady(f, reg, fc)
          /\ f.pending_tasks_ = Queued(e.pending_tasks_, Resume)
          /\ f.session = e.session /\ f.len = e.len /\ f.input_buffer_ = e.input_buffer_
          /\ f.read_coro_pending_ = e.read_coro_pending_
          /\ f.write_coro_pending_ = e.write_coro_pending_
          /\ f.rcv = e.rcv /\ f.sent = e.sent /\ f.state_ = e.state_
          /\ f.snd = e.snd /\ f.output_buffer_ = e.output_buffer_
          /\ f.fin = e.fin /\ f.rst = e.rst
      BY <3>4, ScheduleKeeps
    <3> HIDE DEF f
    <3>6. c.session = "AsyncRead" /\ ~c.write_coro_pending_
      BY <2>8 DEF Coroutine
    <3>7. /\ Coroutine(f, q)
          /\ \A x : Has(f.pending_tasks_, x) => x = Resume \/ Has(c.pending_tasks_, x)
      <4>1. /\ ~f.read_coro_pending_ /\ ~f.write_coro_pending_
            /\ f.session = c.session /\ f.len = c.len
            /\ f.pending_tasks_ = Queued(c.pending_tasks_, Resume)
        BY <2>4, <3>3, <3>5, <3>6
      <4> QED
        BY <1>1, <2>8, <3>6, <4>1, Woken
    <3>8. SameEcho(d, f)
      BY <3>3, <3>5, Zenon DEF SameEcho, Sent, Rest
    <3>9. SameEcho(c, f)
      BY <2>6, <3>8 DEF SameEcho
    <3> QED
      BY <2>4, <3>1, <3>3, <3>5, <3>7, <3>9 DEF Handled
  <2>9. CASE ~c.read_coro_pending_
    <3>1. handle_read(c, k) = d
      BY <2>4, <2>5, <2>9
    <3>2. Coroutine(d, q)
      <4>1. Len(c.input_buffer_) \in Nat /\ n \in Nat /\ c.len \in Nat
        BY <1>1, <2>2, Typed
      <4>2. c.len \in 1..Len(c.input_buffer_) => c.len \in 1..Len(d.input_buffer_)
        BY <2>4, <4>1
      <4> QED
        BY <2>4, <2>9, <4>2 DEF Coroutine
    <3> QED
      BY <2>4, <2>6, <3>1, <3>2 DEF Handled
  <2> QED
    BY <2>8, <2>9
<1>3. CASE c.rcv = << >> /\ c.rst
  <2> DEFINE d == Failed(c)
  <2>1. handle_read(c, k) = d
    BY <1>3 DEF handle_read
  <2>2. /\ Steady(d, reg, fc) /\ SameCoroutine(c, d) /\ d.state_ = "kDisconnected"
        /\ d.snd = c.snd /\ d.output_buffer_ = c.output_buffer_ /\ d.fin = c.fin /\ d.rst = c.rst
    BY <1>3, FailedKeeps DEF Broken
  <2> HIDE DEF d
  <2> QED
    BY <2>1, <2>2, HandledClose
<1>4. CASE c.rcv = << >> /\ ~c.rst /\ c.fin
  <2> DEFINE d == handle_close(c)
  <2>1. handle_read(c, k) = d
    BY <1>4 DEF handle_read
  <2>2. /\ Steady(d, reg, fc) /\ SameCoroutine(c, d) /\ d.state_ = "kDisconnected"
        /\ d.snd = c.snd /\ d.output_buffer_ = c.output_buffer_ /\ d.fin = c.fin /\ d.rst = c.rst
    BY <1>4, CloseKeeps DEF Cause
  <2> HIDE DEF d
  <2> QED
    BY <2>1, <2>2, HandledClose
<1>5. CASE c.rcv = << >> /\ ~c.rst /\ ~c.fin
  <2>1. handle_read(c, k) = c
    BY <1>5 DEF handle_read
  <2> QED
    BY <2>1, HandledNothing
<1> QED
  BY <1>2, <1>3, <1>4, <1>5

LEMMA HandleWriteKeeps ==
  ASSUME NEW reg \in BOOLEAN, NEW fc \in BOOLEAN, NEW c, NEW q,
         Steady(c, reg, fc), Coroutine(c, q)
  PROVE  Handled(c, handle_write(c), q, reg, fc)
<1>1. c \in Connection /\ Len(c.snd) <= SndCap
  BY DEF Steady, Fits
<1>2. /\ c.output_buffer_ \in Seq(Units) /\ c.snd \in Seq(Units)
      /\ Len(c.output_buffer_) \in Nat /\ Len(c.snd) \in Nat /\ SndCap \in Nat
  BY <1>1, Typed
<1>3. PICK n : n = Least(Len(c.output_buffer_), Room(c))
  OBVIOUS
<1>4. n \in 0..Len(c.output_buffer_) /\ n <= SndCap - Len(c.snd)
  <2>1. PICK k, m : k = Len(c.output_buffer_) /\ m = SndCap - Len(c.snd)
    OBVIOUS
  <2>2. k \in Nat /\ m \in Nat /\ n = Least(k, m)
    BY <1>1, <1>2, <1>3, <2>1 DEF Room
  <2>3. n \in Nat /\ n <= k /\ n <= m
    BY <2>2, LeastBounds
  <2> QED
    BY <2>1, <2>2, <2>3
<1>5. PICK u, v, s : u = Take(c.output_buffer_, n) /\ v = Drop(c.output_buffer_, n) /\ s = c.snd \o u
  OBVIOUS
<1>6. u \in Seq(Units) /\ Len(u) = n /\ v \in Seq(Units)
  BY <1>2, <1>4, <1>5, TakeDrop
<1>7. s \in Seq(Units) /\ Len(s) <= SndCap
  <2>1. s \in Seq(Units) /\ Len(s) = Len(c.snd) + Len(u)
    BY <1>2, <1>5, <1>6, ConcatProperties
  <2> QED
    BY <1>2, <1>4, <1>6, <2>1
<1> DEFINE d == [c EXCEPT !.snd = s, !.output_buffer_ = v]
<1>8. handle_write(c) =
         IF ~c.writing \/ (~Broken(c) /\ n = 0) THEN c
         ELSE IF Broken(c) THEN Failed(c)
         ELSE IF d.output_buffer_ = << >> THEN Written(d) ELSE d
  BY <1>3, <1>5 DEF handle_write
<1>9. d \in Connection
  BY <1>1, <1>6, <1>7 DEF Connection
<1>10. /\ d.snd = s /\ d.output_buffer_ = v
       /\ SameCoroutine(c, d) /\ d.state_ = c.state_
       /\ d.fin = c.fin /\ d.rst = c.rst
       /\ d.err = c.err /\ d.fin_out = c.fin_out /\ d.removals = c.removals
       /\ d.writing = c.writing /\ d.reading = c.reading
  BY <1>1 DEF Connection, SameCoroutine
<1> HIDE DEF d
<1>11. \A r \in Seq(Units) : r \o s \o v = Sent(r, c)
  <2> SUFFICES ASSUME NEW r \in Seq(Units) PROVE r \o s \o v = Sent(r, c)
    OBVIOUS
  <2> QED
    BY <1>2, <1>4, <1>5, MovedOn, ZenonT(60) DEF Sent
<1>12. CASE ~c.writing \/ (~Broken(c) /\ n = 0)
  BY <1>8, <1>12, HandledNothing
<1>13. CASE c.writing /\ Broken(c)
  <2> DEFINE e == Failed(c)
  <2>1. handle_write(c) = e
    BY <1>8, <1>13
  <2>2. /\ Steady(e, reg, fc) /\ SameCoroutine(c, e) /\ e.state_ = "kDisconnected"
        /\ e.snd = c.snd /\ e.output_buffer_ = c.output_buffer_ /\ e.fin = c.fin /\ e.rst = c.rst
    BY <1>13, FailedKeeps
  <2> HIDE DEF e
  <2> QED
    BY <2>1, <2>2, HandledClose
<1>14. CASE c.writing /\ ~Broken(c) /\ n # 0 /\ v # << >>
  <2>1. handle_write(c) = d
    BY <1>8, <1>10, <1>14
  <2>2. Steady(d, reg, fc)
    BY <1>7, <1>9, <1>10, <1>14
       DEF Steady, SameCoroutine, Fits, Arms, OpenC, Caused, Cause, Broken
  <2>3. SameEcho(c, d)
    BY <1>10, <1>11, Zenon DEF SameEcho, SameCoroutine, Sent, Rest
  <2>4. Coroutine(d, q)
    BY <1>10 DEF Coroutine, SameCoroutine
  <2> QED
    BY <1>10, <2>1, <2>2, <2>3, <2>4 DEF Handled, SameCoroutine
<1>15. CASE c.writing /\ ~Broken(c) /\ n # 0 /\ v = << >>
  <2> DEFINE g == [d EXCEPT !.writing = FALSE,
                            !.fin_out = @ \/ d.state_ = "kDisconnecting"]
  <2>1. handle_write(c) = IF g.write_coro_pending_
                          THEN schedule_coro([g EXCEPT !.write_coro_pending_ = FALSE]) ELSE g
    <3>1. handle_write(c) = Written(d)
      BY <1>8, <1>10, <1>15
    <3> QED
      BY <3>1 DEF Written
  <2>2. g \in Connection
    BY <1>9 DEF Connection
  <2>3. /\ g.writing = FALSE /\ g.snd = s /\ g.output_buffer_ = << >>
        /\ SameCoroutine(c, g) /\ g.state_ = c.state_
        /\ g.fin = c.fin /\ g.rst = c.rst
        /\ g.err = c.err /\ g.removals = c.removals
        /\ g.reading = c.reading
    BY <1>9, <1>10, <1>15 DEF Connection, SameCoroutine
  <2>4. g.fin_out <=> c.fin_out \/ c.state_ = "kDisconnecting"
    BY <1>9, <1>10 DEF Connection
  <2> HIDE DEF g
  <2>5. SameEcho(c, g)
    <3>1. \A r \in Seq(Units) : Sent(r, g) = Sent(r, c)
      BY <1>11, <1>15, <2>3, Zenon DEF Sent
    <3> QED
      BY <2>3, <3>1, Zenon DEF SameEcho, SameCoroutine, Rest
  <2>6. CASE c.write_coro_pending_
    <3> DEFINE e == [g EXCEPT !.write_coro_pending_ = FALSE]
               f == schedule_coro(e)
    <3>1. handle_write(c) = f
      BY <2>1, <2>3, <2>6 DEF SameCoroutine
    <3>2. e \in Connection
      BY <2>2 DEF Connection
    <3>3. /\ ~e.write_coro_pending_
          /\ e.pending_tasks_ = g.pending_tasks_
          /\ e.session = g.session /\ e.len = g.len /\ e.input_buffer_ = g.input_buffer_
          /\ e.read_coro_pending_ = g.read_coro_pending_
          /\ e.rcv = g.rcv /\ e.sent = g.sent /\ e.state_ = g.state_
          /\ e.snd = g.snd /\ e.output_buffer_ = g.output_buffer_
          /\ e.fin = g.fin /\ e.rst = g.rst
          /\ e.err = g.err /\ e.fin_out = g.fin_out /\ e.removals = g.removals
          /\ e.writing = g.writing /\ e.reading = g.reading
      BY <2>2 DEF Connection
    <3> HIDE DEF e
    <3>4. Steady(e, reg, fc)
      BY <1>7, <2>3, <2>4, <3>2, <3>3, ZenonT(60)
         DEF Steady, SameCoroutine, Fits, Arms, OpenC, Caused, Cause
    <3>5. /\ Steady(f, reg, fc)
          /\ f.pending_tasks_ = Queued(e.pending_tasks_, Resume)
          /\ f.session = e.session /\ f.len = e.len /\ f.input_buffer_ = e.input_buffer_
          /\ f.read_coro_pending_ = e.read_coro_pending_
          /\ f.write_coro_pending_ = e.write_coro_pending_
          /\ f.rcv = e.rcv /\ f.sent = e.sent /\ f.state_ = e.state_
          /\ f.snd = e.snd /\ f.output_buffer_ = e.output_buffer_
          /\ f.fin = e.fin /\ f.rst = e.rst
      BY <3>4, ScheduleKeeps
    <3> HIDE DEF f
    <3>6. c.session = "AsyncWrite" /\ ~c.read_coro_pending_
      BY <2>6 DEF Coroutine
    <3>7. /\ Coroutine(f, q)
          /\ \A x : Has(f.pending_tasks_, x) => x = Resume \/ Has(c.pending_tasks_, x)
      <4>1. /\ ~f.read_coro_pending_ /\ ~f.write_coro_pending_
            /\ f.session = c.session /\ f.len = c.len /\ f.input_buffer_ = c.input_buffer_
            /\ f.pending_tasks_ = Queued(c.pending_tasks_, Resume)
        BY <2>3, <3>3, <3>5, <3>6 DEF SameCoroutine
      <4> QED
        BY <1>1, <2>6, <4>1, Woken
    <3>8. SameEcho(g, f)
      BY <3>3, <3>5, Zenon DEF SameEcho, Sent, Rest
    <3>9. SameEcho(c, f)
      BY <2>5, <3>8 DEF SameEcho
    <3> QED
      BY <2>3, <3>1, <3>3, <3>5, <3>7, <3>9 DEF Handled
  <2>7. CASE ~c.write_coro_pending_
    <3>1. handle_write(c) = g
      BY <2>1, <2>3, <2>7 DEF SameCoroutine
    <3>2. Steady(g, reg, fc)
      BY <1>7, <2>2, <2>3, <2>4, <2>7
         DEF Steady, SameCoroutine, Fits, Arms, OpenC, Caused, Cause
    <3>3. Coroutine(g, q)
      BY <2>3 DEF Coroutine, SameCoroutine
    <3> QED
      BY <2>3, <2>5, <3>1, <3>2, <3>3 DEF Handled, SameCoroutine
  <2> QED
    BY <2>6, <2>7
<1> QED
  BY <1>12, <1>13, <1>14, <1>15

\* All the handlers that one poll's events call.
LEMMA HandleEventKeeps ==
  ASSUME NEW reg \in BOOLEAN, NEW fc \in BOOLEAN, NEW c, NEW q, NEW k \in Nat \ {0}, NEW re,
         Steady(c, reg, fc), Coroutine(c, q),
         "HUP" \in re => c.fin \/ c.rst, "ERR" \in re => c.rst
  PROVE  Handled(c, handle_event(c, re, k), q, reg, fc)
<1> DEFINE hup == IF "HUP" \in re /\ "IN" \notin re THEN handle_close(c) ELSE c
           err == IF "ERR" \in re THEN handle_error(hup) ELSE hup
           in  == IF "IN" \in re THEN handle_read(err, k) ELSE err
           out == IF "OUT" \in re THEN handle_write(in) ELSE in
<1>1. Handled(c, hup, q, reg, fc)
  <2>1. CASE "HUP" \in re /\ "IN" \notin re
    <3> DEFINE d == handle_close(c)
    <3>1. /\ Steady(d, reg, fc) /\ SameCoroutine(c, d) /\ d.state_ = "kDisconnected"
          /\ d.snd = c.snd /\ d.output_buffer_ = c.output_buffer_ /\ d.fin = c.fin /\ d.rst = c.rst
      BY <2>1, CloseKeeps DEF Cause
    <3>2. hup = d
      BY <2>1
    <3> HIDE DEF d, hup
    <3> QED
      BY <3>1, <3>2, HandledClose
  <2>2. CASE ~("HUP" \in re /\ "IN" \notin re)
    BY <2>2, HandledNothing
  <2> QED
    BY <2>1, <2>2
<1>2. handle_event(c, re, k) = out
  BY DEF handle_event
<1> HIDE DEF hup
<1>3. Handled(c, err, q, reg, fc)
  <2>1. Steady(hup, reg, fc) /\ Coroutine(hup, q) /\ hup.rst = c.rst
    BY <1>1 DEF Handled
  <2>2. CASE "ERR" \in re
    <3> DEFINE d == handle_close(hup)
    <3>1. /\ Steady(d, reg, fc) /\ SameCoroutine(hup, d) /\ d.state_ = "kDisconnected"
          /\ d.snd = hup.snd /\ d.output_buffer_ = hup.output_buffer_
          /\ d.fin = hup.fin /\ d.rst = hup.rst
      BY <2>1, <2>2, CloseKeeps DEF Cause
    <3>2. err = d
      BY <2>2 DEF handle_error
    <3> HIDE DEF d, err
    <3>3. Handled(hup, err, q, reg, fc)
      BY <2>1, <3>1, <3>2, HandledClose
    <3> QED
      BY <1>1, <3>3, HandledTwice
  <2>3. CASE "ERR" \notin re
    BY <1>1, <2>3
  <2> QED
    BY <2>2, <2>3
<1> HIDE DEF err
<1>4. Handled(c, in, q, reg, fc)
  <2>1. CASE "IN" \in re
    <3>1. Steady(err, reg, fc) /\ Coroutine(err, q)
      BY <1>3 DEF Handled
    <3>2. Handled(err, handle_read(err, k), q, reg, fc)
      BY <3>1, HandleReadKeeps
    <3>3. in = handle_read(err, k)
      BY <2>1
    <3> HIDE DEF in
    <3> QED
      BY <1>3, <3>2, <3>3, HandledTwice
  <2>2. CASE "IN" \notin re
    BY <1>3, <2>2
  <2> QED
    BY <2>1, <2>2
<1> HIDE DEF in
<1>5. Handled(c, out, q, reg, fc)
  <2>1. CASE "OUT" \in re
    <3>1. Handled(in, out, q, reg, fc)
      BY <1>4, <2>1, HandleWriteKeeps DEF Handled
    <3> HIDE DEF out
    <3> QED
      BY <1>4, <3>1, HandledTwice
  <2>2. CASE "OUT" \notin re
    BY <1>4, <2>2
  <2> QED
    BY <2>1, <2>2
<1> QED
  BY <1>2, <1>5

-----------------------------------------------------------------------------
(* The coroutine *)

\* The coroutine runs: it neither waits nor is scheduled.
Awake(c, q) ==
    /\ ~Has(q, Resume) /\ ~Has(c.pending_tasks_, Resume)
    /\ ~c.read_coro_pending_ /\ ~c.write_coro_pending_

\* From c to d the stream stays, or takes what is next of the rest.
Echoing(c, d) ==
    \/ SameEcho(c, d)
    \/ /\ c.state_ = "kConnected" /\ d.sent = c.sent
       /\ \E u, v \in Seq(Units) :
             /\ Rest(c) = u \o v /\ Rest(d) = v
             /\ \A r \in Seq(Units) : Sent(r, d) = Sent(r, c) \o u

\* What a task of the coroutine does to a connection.
Ran(c, d, q, reg, fc) ==
    /\ Steady(d, reg, fc) /\ Coroutine(d, q) /\ Echoing(c, d)
    /\ d.fin = c.fin /\ d.rst = c.rst
    /\ \A x : Has(d.pending_tasks_, x) => x = Resume \/ Has(c.pending_tasks_, x)

LEMMA EchoingAfter ==
  ASSUME NEW c, NEW d, NEW e, SameEcho(c, d), Echoing(d, e),
         c.state_ = "kConnected" => d.state_ = "kConnected"
  PROVE  Echoing(c, e)
<1>1. CASE SameEcho(d, e)
  <2>1. SameEcho(c, e)
    BY <1>1 DEF SameEcho
  <2> QED
    BY <2>1 DEF Echoing
<1>2. CASE ~SameEcho(d, e)
  <2>1. /\ d.state_ = "kConnected" /\ e.sent = d.sent
    BY <1>2 DEF Echoing
  <2>2. PICK u \in Seq(Units), v \in Seq(Units) :
             /\ Rest(d) = u \o v /\ Rest(e) = v
             /\ \A r \in Seq(Units) : Sent(r, e) = Sent(r, d) \o u
    BY <1>2 DEF Echoing
  <2>3. /\ c.state_ = "kConnected" /\ Rest(d) = Rest(c) /\ d.sent = c.sent
        /\ \A r \in Seq(Units) : Sent(r, d) = Sent(r, c)
    BY <2>1 DEF SameEcho
  <2>4. Rest(c) = u \o v /\ \A r \in Seq(Units) : Sent(r, e) = Sent(r, c) \o u
    BY <2>2, <2>3, Zenon
  <2> QED
    BY <2>1, <2>2, <2>3, <2>4, Zenon DEF Echoing
<1> QED
  BY <1>1, <1>2

LEMMA ShutdownKeeps ==
  ASSUME NEW reg \in BOOLEAN, NEW fc \in BOOLEAN, NEW c, Steady(c, reg, fc)
  PROVE  LET d == shutdown_in_loop(c) IN
         /\ Steady(d, reg, fc) /\ SameCoroutine(c, d) /\ SameEcho(c, d)
         /\ d.fin = c.fin /\ d.rst = c.rst
<1> DEFINE d == shutdown_in_loop(c)
<1>1. c \in Connection
  BY DEF Steady, Fits
<1>2. d \in Connection
  BY <1>1 DEF shutdown_in_loop, Connection
<1>3. /\ SameCoroutine(c, d) /\ d.state_ = "kDisconnecting"
      /\ d.snd = c.snd /\ d.output_buffer_ = c.output_buffer_
      /\ d.fin = c.fin /\ d.rst = c.rst /\ d.err = c.err /\ d.removals = c.removals
      /\ d.writing = c.writing /\ d.reading = c.reading
  BY <1>1 DEF shutdown_in_loop, Connection, SameCoroutine
<1>4. d.fin_out <=> c.fin_out \/ ~c.writing
  BY <1>1 DEF shutdown_in_loop, Connection
<1>5. c.state_ \in {"kConnected", "kDisconnecting", "kDisconnected"}
  BY <1>1, Typed DEF Steady
<1> HIDE DEF d
<1>6. Steady(d, reg, fc)
  <2>1. Fits(d) /\ Caused(d, fc)
    BY <1>2, <1>3, <1>4 DEF Steady, SameCoroutine, Fits, Caused, Cause
  <2>2. OpenC(d, reg) => OpenC(c, reg)
    <3>1. c.state_ = "kDisconnected" => c.removals > 0 \/ ~reg
      BY DEF Steady, Arms
    <3>2. c.removals \in Nat
      BY <1>1, Typed
    <3> QED
      BY <1>3, <1>5, <3>1, <3>2 DEF OpenC
  <2>3. Arms(d, reg)
    BY <1>3, <1>4, <2>2 DEF Steady, SameCoroutine, Arms
  <2> QED
    BY <1>3, <2>1, <2>3 DEF Steady
<1>7. SameEcho(c, d)
  BY <1>3, Zenon DEF SameEcho, SameCoroutine, Sent
<1> QED
  BY <1>3, <1>6, <1>7 DEF d

LEMMA FinishKeeps ==
  ASSUME NEW reg \in BOOLEAN, NEW fc \in BOOLEAN, NEW c, NEW q,
         Steady(c, reg, fc), Awake(c, q), c.len = 0
  PROVE  Ran(c, Finish(c), q, reg, fc)
<1> DEFINE d == [c EXCEPT !.session = "done"]
           e == Finish(c)
<1>1. c \in Connection
  BY DEF Steady, Fits
<1>2. d \in Connection
  BY <1>1 DEF Connection
<1>3. /\ d.session = "done" /\ d.len = 0
      /\ d.read_coro_pending_ = c.read_coro_pending_ /\ d.write_coro_pending_ = c.write_coro_pending_
      /\ d.input_buffer_ = c.input_buffer_ /\ d.pending_tasks_ = c.pending_tasks_
      /\ d.rcv = c.rcv /\ d.sent = c.sent /\ d.state_ = c.state_ /\ d.fin_out = c.fin_out
      /\ d.snd = c.snd /\ d.output_buffer_ = c.output_buffer_
      /\ d.fin = c.fin /\ d.rst = c.rst /\ d.err = c.err /\ d.removals = c.removals
      /\ d.writing = c.writing /\ d.reading = c.reading
  BY <1>1 DEF Connection
<1>4. e = IF d.state_ = "kConnected" THEN shutdown_in_loop(d) ELSE d
  BY DEF Finish
<1> HIDE DEF d
<1>5. Steady(d, reg, fc)
  BY <1>2, <1>3 DEF Steady, Fits, Arms, OpenC, Caused, Cause
<1>6. SameEcho(c, d)
  BY <1>3, Zenon DEF SameEcho, Sent, Rest
<1>7. Coroutine(d, q)
  BY <1>3 DEF Coroutine, Awake, Once, Has
<1>8. CASE d.state_ = "kConnected"
  <2>1. e = shutdown_in_loop(d)
    BY <1>4, <1>8
  <2> HIDE DEF e
  <2>2. /\ Steady(e, reg, fc) /\ SameCoroutine(d, e) /\ SameEcho(d, e)
        /\ e.fin = d.fin /\ e.rst = d.rst
    BY <1>5, <2>1, ShutdownKeeps
  <2>3. Coroutine(e, q)
    BY <1>7, <2>2 DEF SameCoroutine, Coroutine
  <2>4. SameEcho(c, e)
    BY <1>6, <2>2 DEF SameEcho
  <2>5. Ran(c, e, q, reg, fc)
    BY <1>3, <2>2, <2>3, <2>4 DEF Ran, Echoing, SameCoroutine
  <2> QED
    BY <2>5 DEF e
<1>9. CASE d.state_ # "kConnected"
  <2>1. e = d
    BY <1>4, <1>9
  <2> QED
    BY <1>3, <1>5, <1>6, <1>7, <2>1 DEF Ran, Echoing
<1> QED
  BY <1>8, <1>9

LEMMA DropNone ==
  ASSUME NEW s \in Seq(Units)
  PROVE  Drop(s, 0) = s
<1>1. Len(s) \in Nat /\ 0 + 1 = 1
  BY LenProperties
<1> QED
  BY <1>1, SubSeqFull DEF Drop

LEMMA DropAll ==
  ASSUME NEW s \in Seq(Units)
  PROVE  Drop(s, Len(s)) = << >>
<1>1. Len(s) \in Nat
  BY LenProperties
<1>2. Len(s) + 1 \in Int /\ Len(s) < Len(s) + 1
  BY <1>1
<1> QED
  BY <1>1, <1>2, SubSeqEmpty DEF Drop

LEMMA AwaitWriteKeeps ==
  ASSUME NEW reg \in BOOLEAN, NEW fc \in BOOLEAN, NEW c, NEW q,
         Steady(c, reg, fc), Awake(c, q), c.len = 0, c.input_buffer_ # << >>
  PROVE  Ran(c, AwaitWrite(c), q, reg, fc)
<1>1. c \in Connection
  BY DEF Steady, Fits
<1>2. /\ c.input_buffer_ \in Seq(Units) /\ c.rcv \in Seq(Units) /\ c.pending_tasks_ \in Seq(Task)
      /\ Len(c.input_buffer_) \in Nat \ {0} /\ Len(c.input_buffer_) <= MaxIn /\ MaxIn \in Nat
  <2>1. /\ c.input_buffer_ \in Seq(Units) /\ c.rcv \in Seq(Units) /\ c.pending_tasks_ \in Seq(Task)
        /\ Len(c.rcv) \in Nat /\ c.sent \in Nat /\ c.sent <= MaxIn /\ MaxIn \in Nat
    BY <1>1, Typed
  <2>2. Len(c.input_buffer_) \in Nat \ {0}
    BY <2>1, EmptySeq
  <2>3. PICK m, n, k : m = Len(c.input_buffer_) /\ n = Len(c.rcv) /\ k = c.sent
    OBVIOUS
  <2>4. m + n <= k
    BY <2>3 DEF Steady, Fits
  <2>5. m \in Nat \ {0} /\ n \in Nat /\ k \in Nat /\ k <= MaxIn /\ MaxIn \in Nat
    BY <2>1, <2>2, <2>3
  <2>6. m <= MaxIn
    BY <2>4, <2>5
  <2> QED
    BY <2>1, <2>3, <2>5, <2>6
<1> DEFINE b == [c EXCEPT !.session = "AsyncWrite", !.len = Len(c.input_buffer_)]
           d == send(b, c.input_buffer_)
           w == [d EXCEPT !.write_coro_pending_ = TRUE, !.writing = TRUE]
<1>3. b \in Connection
  <2>1. Len(c.input_buffer_) \in 0..MaxIn
    BY <1>2
  <2> QED
    BY <1>1, <2>1 DEF Connection
<1>4. /\ b.session = "AsyncWrite" /\ b.len = Len(c.input_buffer_)
      /\ b.read_coro_pending_ = c.read_coro_pending_ /\ b.write_coro_pending_ = c.write_coro_pending_
      /\ b.input_buffer_ = c.input_buffer_ /\ b.pending_tasks_ = c.pending_tasks_
      /\ b.rcv = c.rcv /\ b.sent = c.sent /\ b.state_ = c.state_ /\ b.fin_out = c.fin_out
      /\ b.snd = c.snd /\ b.output_buffer_ = c.output_buffer_
      /\ b.fin = c.fin /\ b.rst = c.rst /\ b.err = c.err /\ b.removals = c.removals
      /\ b.writing = c.writing /\ b.reading = c.reading
  BY <1>1 DEF Connection
<1>5. AwaitWrite(c) = IF d.output_buffer_ = << >> THEN schedule_coro(d) ELSE w
  BY DEF AwaitWrite
<1> HIDE DEF b
<1>6. Steady(b, reg, fc)
  BY <1>3, <1>4 DEF Steady, Fits, Arms, OpenC, Caused, Cause
<1>7. /\ Steady(d, reg, fc) /\ SameCoroutine(b, d) /\ d.fin = c.fin /\ d.rst = c.rst
      /\ \/ d.state_ # "kConnected" /\ \A r \in Seq(Units) : Sent(r, d) = Sent(r, c)
         \/ /\ c.state_ = "kConnected"
            /\ \A r \in Seq(Units) : Sent(r, d) = Sent(r, c) \o c.input_buffer_
  <2>1. \A r \in Seq(Units) : Sent(r, b) = Sent(r, c)
    BY <1>4, Zenon DEF Sent
  <2>2. CASE c.state_ = "kConnected"
    <3>1. d = send_in_loop(b, c.input_buffer_)
      BY <1>4, <2>2 DEF send
    <3> HIDE DEF d
    <3>2. /\ Steady(d, reg, fc) /\ SameCoroutine(b, d) /\ d.fin = b.fin /\ d.rst = b.rst
          /\ \/ \A r \in Seq(Units) : Sent(r, d) = Sent(r, b) \o c.input_buffer_
             \/ d.state_ = "kDisconnected" /\ \A r \in Seq(Units) : Sent(r, d) = Sent(r, b)
      <4>1. PICK data \in Seq(Units) : data = c.input_buffer_
        BY <1>2
      <4>2. d = send_in_loop(b, data)
        BY <3>1, <4>1
      <4> DEFINE e == send_in_loop(b, data)
      <4>3. /\ Steady(e, reg, fc) /\ SameCoroutine(b, e) /\ e.fin = b.fin /\ e.rst = b.rst
            /\ \/ e.state_ = b.state_ /\ \A r \in Seq(Units) : Sent(r, e) = Sent(r, b) \o data
               \/ e.state_ = "kDisconnected" /\ \A r \in Seq(Units) : Sent(r, e) = Sent(r, b)
        BY <1>6, SendKeeps
      <4> HIDE DEF e
      <4>4. d = e
        BY <4>2 DEF e
      <4> QED
        BY <4>1, <4>3, <4>4
    <3>3. CASE \A r \in Seq(Units) : Sent(r, d) = Sent(r, b) \o c.input_buffer_
      <4>1. \A r \in Seq(Units) : Sent(r, d) = Sent(r, c) \o c.input_buffer_
        BY <2>1, <3>3, Zenon
      <4> QED
        BY <1>4, <2>2, <3>2, <4>1
    <3>4. CASE d.state_ = "kDisconnected" /\ \A r \in Seq(Units) : Sent(r, d) = Sent(r, b)
      <4>1. \A r \in Seq(Units) : Sent(r, d) = Sent(r, c)
        BY <2>1, <3>4, Zenon
      <4> QED
        BY <1>4, <3>2, <3>4, <4>1
    <3> QED
      BY <3>2, <3>3, <3>4
  <2>3. CASE c.state_ # "kConnected"
    <3>1. d = b
      BY <1>4, <2>3 DEF send
    <3> QED
      BY <1>4, <1>6, <2>1, <2>3, <3>1 DEF SameCoroutine
  <2> QED
    BY <2>2, <2>3
<1> HIDE DEF d
<1>8. /\ d \in Connection
      /\ d.session = "AsyncWrite" /\ d.len = Len(c.input_buffer_)
      /\ ~d.read_coro_pending_ /\ ~d.write_coro_pending_
      /\ d.input_buffer_ = c.input_buffer_ /\ d.pending_tasks_ = c.pending_tasks_
      /\ d.rcv = c.rcv /\ d.sent = c.sent
  BY <1>4, <1>7 DEF SameCoroutine, Awake, Steady, Fits
<1>9. d.len \in 1..Len(d.input_buffer_)
  BY <1>2, <1>8
<1>10. Echoing(c, d)
  <2>1. CASE d.state_ # "kConnected" /\ \A r \in Seq(Units) : Sent(r, d) = Sent(r, c)
    BY <1>8, <2>1 DEF Echoing, SameEcho
  <2>2. CASE /\ c.state_ = "kConnected"
             /\ \A r \in Seq(Units) : Sent(r, d) = Sent(r, c) \o c.input_buffer_
    <3>1. Rest(c) = c.input_buffer_ \o c.rcv
      <4>1. Drop(c.input_buffer_, 0) = c.input_buffer_
        BY <1>2, DropNone
      <4> QED
        BY <4>1, Zenon DEF Rest
    <3>2. Rest(d) = c.rcv
      <4>1. Drop(c.input_buffer_, Len(c.input_buffer_)) = << >>
        BY <1>2, DropAll
      <4>2. Rest(d) = << >> \o c.rcv
        BY <1>8, <4>1, Zenon DEF Rest
      <4> QED
        BY <1>2, <4>2, ConcatEmptySeq
    <3> QED
      BY <1>2, <1>8, <2>2, <3>1, <3>2, Zenon DEF Echoing
  <2> QED
    BY <1>7, <2>1, <2>2
<1>11. CASE d.output_buffer_ = << >>
  <2> DEFINE e == schedule_coro(d)
  <2>1. AwaitWrite(c) = e
    BY <1>5, <1>11
  <2>2. /\ Steady(e, reg, fc)
        /\ e.pending_tasks_ = Queued(d.pending_tasks_, Resume)
        /\ e.session = d.session /\ e.len = d.len /\ e.input_buffer_ = d.input_buffer_
        /\ e.read_coro_pending_ = d.read_coro_pending_
        /\ e.write_coro_pending_ = d.write_coro_pending_
        /\ e.rcv = d.rcv /\ e.sent = d.sent /\ e.state_ = d.state_
        /\ e.snd = d.snd /\ e.output_buffer_ = d.output_buffer_
        /\ e.fin = d.fin /\ e.rst = d.rst
    BY <1>7, ScheduleKeeps
  <2> HIDE DEF e
  <2>3. /\ \A x : Has(e.pending_tasks_, x) <=> Has(c.pending_tasks_, x) \/ x = Resume
        /\ Once(e.pending_tasks_, Resume)
    <3>1. Resume \in Task
      BY DEF Resume, Task
    <3>2. Once(c.pending_tasks_, Resume)
      BY DEF Awake, Has, Once
    <3> QED
      BY <1>2, <1>8, <2>2, <3>1, <3>2, QueuedTask DEF Awake
  <2>4. Coroutine(e, q)
    <3>1. Once(q, Resume) /\ ~Has(q, Resume)
      BY DEF Awake, Has, Once
    <3> QED
      BY <1>8, <1>9, <2>2, <2>3, <3>1 DEF Coroutine
  <2>5. Echoing(c, e)
    <3>1. /\ \A r \in Seq(Units) : Sent(r, e) = Sent(r, d)
          /\ Rest(e) = Rest(d) /\ e.sent = d.sent /\ e.state_ = d.state_
      BY <2>2, Zenon DEF Sent, Rest
    <3> QED
      BY <1>10, <3>1, Zenon DEF Echoing, SameEcho
  <2>6. Ran(c, e, q, reg, fc)
    BY <1>7, <2>2, <2>3, <2>4, <2>5 DEF Ran
  <2> QED
    BY <2>1, <2>6
<1>12. CASE d.output_buffer_ # << >>
  <2>1. AwaitWrite(c) = w
    BY <1>5, <1>12
  <2>2. w \in Connection
    BY <1>8 DEF Connection
  <2>3. /\ w.write_coro_pending_ /\ w.writing = TRUE
        /\ w.session = "AsyncWrite" /\ w.len = d.len
        /\ ~w.read_coro_pending_
        /\ w.input_buffer_ = d.input_buffer_ /\ w.pending_tasks_ = d.pending_tasks_
        /\ w.rcv = d.rcv /\ w.sent = d.sent /\ w.state_ = d.state_ /\ w.fin_out = d.fin_out
        /\ w.snd = d.snd /\ w.output_buffer_ = d.output_buffer_
        /\ w.fin = d.fin /\ w.rst = d.rst /\ w.err = d.err /\ w.removals = d.removals
        /\ w.reading = d.reading
    BY <1>8 DEF Connection
  <2> HIDE DEF w
  <2>4. Steady(w, reg, fc)
    BY <1>7, <1>12, <2>2, <2>3 DEF Steady, Fits, Arms, OpenC, Caused, Cause
  <2>5. Coroutine(w, q)
    <3>1. Once(q, Resume) /\ Once(c.pending_tasks_, Resume) /\ ~Has(q, Resume)
          /\ ~Has(c.pending_tasks_, Resume)
      BY DEF Awake, Has, Once
    <3> QED
      BY <1>8, <1>9, <2>3, <3>1 DEF Coroutine
  <2>6. Echoing(c, w)
    <3>1. /\ \A r \in Seq(Units) : Sent(r, w) = Sent(r, d)
          /\ Rest(w) = Rest(d) /\ w.sent = d.sent /\ w.state_ = d.state_
      BY <2>3, Zenon DEF Sent, Rest
    <3> QED
      BY <1>10, <3>1, Zenon DEF Echoing, SameEcho
  <2>7. Ran(c, w, q, reg, fc)
    BY <1>7, <1>8, <2>3, <2>4, <2>5, <2>6 DEF Ran
  <2> QED
    BY <2>1, <2>7
<1> QED
  BY <1>11, <1>12

LEMMA LoopTopKeeps ==
  ASSUME NEW reg \in BOOLEAN, NEW fc \in BOOLEAN, NEW c, NEW q,
         Steady(c, reg, fc), Awake(c, q), c.len = 0
  PROVE  Ran(c, LoopTop(c), q, reg, fc)
<1>1. CASE c.state_ # "kConnected"
  <2>1. LoopTop(c) = Finish(c)
    BY <1>1 DEF LoopTop
  <2> QED
    BY <2>1, FinishKeeps
<1>2. CASE c.state_ = "kConnected" /\ c.input_buffer_ # << >>
  <2>1. LoopTop(c) = AwaitWrite(c)
    BY <1>2 DEF LoopTop
  <2> QED
    BY <1>2, <2>1, AwaitWriteKeeps
<1>3. CASE c.state_ = "kConnected" /\ c.input_buffer_ = << >>
  <2> DEFINE d == [c EXCEPT !.session = "AsyncRead", !.read_coro_pending_ = TRUE, !.reading = TRUE]
  <2>1. LoopTop(c) = d
    BY <1>3 DEF LoopTop
  <2>2. c \in Connection
    BY DEF Steady, Fits
  <2>3. d \in Connection
    BY <2>2 DEF Connection
  <2>4. /\ d.session = "AsyncRead" /\ d.len = 0
        /\ d.read_coro_pending_ /\ d.reading = TRUE
        /\ d.write_coro_pending_ = c.write_coro_pending_
        /\ d.input_buffer_ = c.input_buffer_ /\ d.pending_tasks_ = c.pending_tasks_
        /\ d.rcv = c.rcv /\ d.sent = c.sent /\ d.state_ = c.state_ /\ d.fin_out = c.fin_out
        /\ d.snd = c.snd /\ d.output_buffer_ = c.output_buffer_
        /\ d.fin = c.fin /\ d.rst = c.rst /\ d.err = c.err /\ d.removals = c.removals
        /\ d.writing = c.writing
    BY <2>2 DEF Connection
  <2> HIDE DEF d
  <2>5. Steady(d, reg, fc)
    BY <2>3, <2>4 DEF Steady, Fits, Arms, OpenC, Caused, Cause
  <2>6. Coroutine(d, q)
    <3>1. /\ Once(q, Resume) /\ Once(c.pending_tasks_, Resume) /\ ~Has(q, Resume)
          /\ ~Has(c.pending_tasks_, Resume) /\ ~c.write_coro_pending_
      BY DEF Awake, Has, Once
    <3> QED
      BY <1>3, <2>4, <3>1 DEF Coroutine
  <2>7. SameEcho(c, d)
    BY <2>4, Zenon DEF SameEcho, Sent, Rest
  <2>8. Ran(c, d, q, reg, fc)
    BY <2>4, <2>5, <2>6, <2>7 DEF Ran, Echoing
  <2> QED
    BY <2>1, <2>8
<1> QED
  BY <1>1, <1>2, <1>3

LEMMA RanAfter ==
  ASSUME NEW c, NEW d, NEW e, NEW q, NEW reg, NEW fc,
         SameEcho(c, d), d.state_ = c.state_, d.fin = c.fin, d.rst = c.rst,
         d.pending_tasks_ = c.pending_tasks_, Ran(d, e, q, reg, fc)
  PROVE  Ran(c, e, q, reg, fc)
<1>1. Echoing(c, e)
  BY EchoingAfter DEF Ran
<1> QED
  BY <1>1 DEF Ran

LEMMA ResumeKeeps ==
  ASSUME NEW reg \in BOOLEAN, NEW fc \in BOOLEAN, NEW c, NEW q, NEW k \in Nat \ {0},
         Steady(c, reg, fc), Awake(c, q),
         \/ c.session = "AsyncRead" /\ c.len = 0
         \/ c.session = "AsyncWrite" /\ c.len \in 1..Len(c.input_buffer_)
  PROVE  Ran(c, resume(c, k), q, reg, fc)
<1>1. c \in Connection
  BY DEF Steady, Fits
<1>2. /\ c.input_buffer_ \in Seq(Units) /\ c.rcv \in Seq(Units)
      /\ Len(c.input_buffer_) \in Nat /\ Len(c.rcv) \in Nat /\ c.sent \in Nat
  BY <1>1, Typed
<1>3. CASE c.session = "AsyncRead"
  <2> DEFINE d == read_some(c, k)
  <2>1. resume(c, k) = IF d.input_buffer_ = << >> THEN Finish(d) ELSE AwaitWrite(d)
    BY <1>3 DEF resume
  <2>2. /\ Steady(d, reg, fc) /\ SameEcho(c, d) /\ Awake(d, q) /\ d.len = 0
        /\ d.state_ = c.state_ /\ d.fin = c.fin /\ d.rst = c.rst
        /\ d.pending_tasks_ = c.pending_tasks_
    <3>1. CASE c.input_buffer_ # << >> \/ c.rcv = << >>
      <4>1. d = c
        BY <3>1 DEF read_some
      <4> QED
        BY <1>3, <4>1 DEF SameEcho
    <3>2. CASE ~(c.input_buffer_ # << >> \/ c.rcv = << >>)
      <4>1. PICK n : n = Least(k, Len(c.rcv))
        OBVIOUS
      <4>2. n \in 0..Len(c.rcv)
        <5>1. PICK m : m = Len(c.rcv)
          OBVIOUS
        <5> QED
          BY <1>2, <4>1, <5>1 DEF Least
      <4> DEFINE e == Received(c, n)
      <4>3. d = e
        BY <3>2, <4>1 DEF read_some
      <4>4. c.len <= Len(c.input_buffer_) /\ c.len = 0
        BY <1>2, <1>3
      <4>5. /\ Steady(e, reg, fc)
            /\ Rest(e) = Rest(c)
            /\ e.pending_tasks_ = c.pending_tasks_
            /\ e.session = c.session /\ e.len = c.len
            /\ e.read_coro_pending_ = c.read_coro_pending_
            /\ e.write_coro_pending_ = c.write_coro_pending_
            /\ e.sent = c.sent /\ e.state_ = c.state_
            /\ e.snd = c.snd /\ e.output_buffer_ = c.output_buffer_
            /\ e.fin = c.fin /\ e.rst = c.rst
        BY <4>2, <4>4, ReceivedKeeps
      <4> HIDE DEF e
      <4>6. SameEcho(c, e)
        BY <4>5, Zenon DEF SameEcho, Sent
      <4> QED
        BY <4>3, <4>4, <4>5, <4>6 DEF Awake
    <3> QED
      BY <3>1, <3>2
  <2> HIDE DEF d
  <2>3. Ran(d, resume(c, k), q, reg, fc)
    BY <2>1, <2>2, FinishKeeps, AwaitWriteKeeps
  <2> QED
    BY <2>2, <2>3, RanAfter
<1>4. CASE c.session = "AsyncWrite"
  <2>1. PICK i : i = Drop(c.input_buffer_, c.len)
    OBVIOUS
  <2>2. c.len \in 1..Len(c.input_buffer_) /\ c.len \in 0..Len(c.input_buffer_)
    BY <1>2, <1>4
  <2>3. i \in Seq(Units) /\ Len(i) = Len(c.input_buffer_) - c.len
    BY <1>2, <2>1, <2>2, TakeDrop, ZenonT(60)
  <2> DEFINE d == [c EXCEPT !.input_buffer_ = i, !.len = 0]
  <2>4. resume(c, k) = LoopTop(d)
    BY <1>4, <2>1 DEF resume, Consumed
  <2>5. d \in Connection
    <3>1. 0 \in 0..MaxIn
      BY <1>1, Typed
    <3> QED
      BY <1>1, <2>3, <3>1 DEF Connection
  <2>6. /\ d.input_buffer_ = i /\ d.len = 0 /\ d.session = c.session
        /\ d.read_coro_pending_ = c.read_coro_pending_
        /\ d.write_coro_pending_ = c.write_coro_pending_
        /\ d.pending_tasks_ = c.pending_tasks_
        /\ d.rcv = c.rcv /\ d.sent = c.sent /\ d.state_ = c.state_ /\ d.fin_out = c.fin_out
        /\ d.snd = c.snd /\ d.output_buffer_ = c.output_buffer_
        /\ d.fin = c.fin /\ d.rst = c.rst /\ d.err = c.err /\ d.removals = c.removals
        /\ d.writing = c.writing /\ d.reading = c.reading
    BY <1>1 DEF Connection
  <2> HIDE DEF d
  <2>7. Len(i) + Len(c.rcv) <= c.sent
    <3>1. PICK m, n, o : m = Len(c.input_buffer_) /\ n = Len(c.rcv) /\ o = c.sent
      OBVIOUS
    <3>2. m + n <= o
      BY <3>1 DEF Steady, Fits
    <3>3. m \in Nat /\ n \in Nat /\ o \in Nat /\ c.len \in 1..m /\ Len(i) = m - c.len
      BY <1>2, <2>2, <2>3, <3>1
    <3>4. m - c.len + n <= o
      BY <3>2, <3>3
    <3> QED
      BY <3>1, <3>3, <3>4
  <2>8. Steady(d, reg, fc)
    BY <2>5, <2>6, <2>7 DEF Steady, Fits, Arms, OpenC, Caused, Cause
  <2>9. SameEcho(c, d)
    <3>1. Drop(i, 0) = i
      BY <2>3, DropNone
    <3> QED
      BY <2>1, <2>6, <3>1, Zenon DEF SameEcho, Sent, Rest
  <2>10. Awake(d, q)
    BY <2>6 DEF Awake
  <2>11. Ran(d, LoopTop(d), q, reg, fc)
    BY <2>6, <2>8, <2>10, LoopTopKeeps
  <2> QED
    BY <2>4, <2>6, <2>9, <2>11, RanAfter
<1> QED
  BY <1>3, <1>4

-----------------------------------------------------------------------------
(* The tasks that are run *)

LEMMA TakenTask ==
  ASSUME NEW q \in Seq(Task), q # << >>
  PROVE  /\ Tail(q) \in Seq(Task) /\ Head(q) \in Task
         /\ Len(Tail(q)) = Len(q) - 1 /\ Len(q) \in Nat \ {0}
         /\ \A x : Has(q, x) <=> x = Head(q) \/ Has(Tail(q), x)
         /\ \A x : Once(q, x) => Once(Tail(q), x) /\ ~(x = Head(q) /\ Has(Tail(q), x))
<1>1. PICK p, h, n : p = Tail(q) /\ h = Head(q) /\ n = Len(q)
  OBVIOUS
<1>2. /\ n \in Nat \ {0} /\ DOMAIN q = 1..n /\ h = q[1] /\ h \in Task
      /\ p \in Seq(Task) /\ Len(p) = n - 1 /\ \A i \in 1..(n - 1) : p[i] = q[i + 1]
  <2>1. n \in Nat \ {0} /\ DOMAIN q = 1..n
    BY <1>1, EmptySeq, LenProperties
  <2>2. /\ Head(q) \in Task /\ Tail(q) \in Seq(Task) /\ Len(Tail(q)) = Len(q) - 1
        /\ \A i \in 1..Len(Tail(q)) : Tail(q)[i] = q[i + 1]
    BY HeadTailProperties
  <2>3. Head(q) = q[1]
    BY <1>1, <2>1
  <2> QED
    BY <1>1, <2>1, <2>2, <2>3
<1>3. DOMAIN p = 1..(n - 1)
  BY <1>2, LenProperties
<1>4. ASSUME NEW x PROVE Has(q, x) <=> x = h \/ Has(p, x)
  <2>1. ASSUME Has(q, x) PROVE x = h \/ Has(p, x)
    <3>1. PICK i \in 1..n : q[i] = x
      BY <1>2, <2>1 DEF Has
    <3>2. CASE i = 1
      BY <1>2, <3>1, <3>2
    <3>3. CASE i # 1
      <4>1. i - 1 \in 1..(n - 1) /\ i - 1 + 1 = i
        BY <1>2, <3>1, <3>3
      <4>2. p[i - 1] = x
        BY <1>2, <3>1, <4>1
      <4> QED
        BY <1>3, <4>1, <4>2 DEF Has
    <3> QED
      BY <3>2, <3>3
  <2>2. ASSUME x = h PROVE Has(q, x)
    BY <1>2, <2>2 DEF Has
  <2>3. ASSUME Has(p, x) PROVE Has(q, x)
    <3>1. PICK i \in 1..(n - 1) : p[i] = x
      BY <1>3, <2>3 DEF Has
    <3>2. i + 1 \in 1..n /\ q[i + 1] = x
      BY <1>2, <3>1
    <3> QED
      BY <1>2, <3>2 DEF Has
  <2> QED
    BY <2>1, <2>2, <2>3
<1>5. ASSUME NEW x, Once(q, x) PROVE Once(p, x) /\ ~(x = h /\ Has(p, x))
  <2>1. \A i \in 1..(n - 1) : i + 1 \in DOMAIN q /\ q[i + 1] = p[i]
    BY <1>2
  <2>2. Once(p, x)
    <3> SUFFICES ASSUME NEW i \in 1..(n - 1), NEW j \in 1..(n - 1), p[i] = x, p[j] = x
                 PROVE  i = j
      BY <1>3 DEF Once
    <3>1. i + 1 = j + 1
      BY <1>5, <2>1 DEF Once
    <3> QED
      BY <3>1
  <2>3. ASSUME x = h, Has(p, x) PROVE FALSE
    <3>1. PICK i \in 1..(n - 1) : p[i] = x
      BY <1>3, <2>3 DEF Has
    <3>2. i + 1 = 1
      BY <1>2, <1>5, <2>1, <2>3, <3>1 DEF Once
    <3> QED
      BY <3>2
  <2> QED
    BY <2>2, <2>3
<1> QED
  BY <1>1, <1>2, <1>4, <1>5

-----------------------------------------------------------------------------
(* The stream *)

LEMMA GrowsOther ==
  ASSUME NEW s \in Seq(Units), NEW t \in Others, NEW n, Grows(s, n)
  PROVE  Grows(s \o <<t>>, n)
<1>1. PICK o, u, m : o = <<t>> /\ u = s \o o /\ m = Len(s)
  OBVIOUS
<1>2. o \in Seq(Units) /\ Len(o) = 1 /\ o[1] = t /\ t \notin 1..MaxIn
  <2>1. t \in Units
    BY DEF Units
  <2>2. t \notin Nat
    BY EchoAssumption DEF EchoAssumption
  <2>3. \A i \in 1..MaxIn : i \in Nat
    BY EchoAssumption DEF EchoAssumption
  <2> QED
    BY <1>1, <2>1, <2>2, <2>3
<1>3. /\ u \in Seq(Units) /\ Len(u) = m + 1 /\ m \in Nat
      /\ DOMAIN s = 1..m /\ DOMAIN u = 1..(m + 1)
      /\ \A i \in 1..(m + 1) : u[i] = IF i <= m THEN s[i] ELSE o[i - m]
  <2>1. m \in Nat /\ DOMAIN s = 1..m
    BY <1>1, LenProperties
  <2>2. /\ u \in Seq(Units) /\ Len(u) = Len(s) + Len(o)
        /\ \A i \in 1..(Len(s) + Len(o)) : u[i] = IF i <= Len(s) THEN s[i] ELSE o[i - Len(s)]
    BY <1>1, <1>2, ConcatProperties
  <2> QED
    BY <1>1, <1>2, <2>1, <2>2, LenProperties
<1>4. /\ \A i \in 1..m : i \in 1..(m + 1) /\ u[i] = s[i]
      /\ u[m + 1] = t
  <2>1. m + 1 \in 1..(m + 1) /\ ~(m + 1 <= m) /\ m + 1 - m = 1
    BY <1>3
  <2> QED
    BY <1>2, <1>3, <2>1
<1>5. \A i \in DOMAIN u : u[i] \in 1..MaxIn => i \in DOMAIN s /\ u[i] = s[i]
  BY <1>2, <1>3, <1>4
<1>6. \A i \in DOMAIN s : i \in DOMAIN u /\ u[i] = s[i]
  BY <1>3, <1>4
<1>7. {u[i] : i \in DOMAIN u} \cap (1..MaxIn) = {s[i] : i \in DOMAIN s} \cap (1..MaxIn)
  BY <1>5, <1>6
<1>8. \A i, j \in DOMAIN u : u[i] \in 1..MaxIn /\ u[j] \in 1..MaxIn /\ i < j => u[i] < u[j]
  BY <1>5 DEF Grows
<1>9. Grows(u, n)
  BY <1>7, <1>8 DEF Grows
<1> QED
  BY <1>1, <1>9

LEMMA GrowsEcho ==
  ASSUME NEW s \in Seq(Units), NEW u \in Seq(Units), NEW n \in Nat, Grows(s, n),
         \A i \in 1..Len(u) : u[i] = n + i, n + Len(u) <= MaxIn
  PROVE  Grows(s \o u, n + Len(u))
<1>1. PICK w, m, k : w = s \o u /\ m = Len(s) /\ k = Len(u)
  OBVIOUS
<1>2. /\ w \in Seq(Units) /\ m \in Nat /\ k \in Nat
      /\ DOMAIN s = 1..m /\ DOMAIN w = 1..(m + k)
      /\ \A i \in 1..(m + k) : w[i] = IF i <= m THEN s[i] ELSE u[i - m]
  <2>1. m \in Nat /\ k \in Nat /\ DOMAIN s = 1..m
    BY <1>1, LenProperties
  <2>2. /\ w \in Seq(Units) /\ Len(w) = Len(s) + Len(u)
        /\ \A i \in 1..(Len(s) + Len(u)) : w[i] = IF i <= Len(s) THEN s[i] ELSE u[i - Len(s)]
    BY <1>1, ConcatProperties
  <2> QED
    BY <1>1, <2>1, <2>2, LenProperties
<1>3. MaxIn \in Nat /\ n + k <= MaxIn /\ \A i \in 1..k : u[i] = n + i
  BY <1>1, EchoAssumption DEF EchoAssumption
<1>4. \A i \in DOMAIN s : i \in DOMAIN w /\ w[i] = s[i]
  BY <1>2
<1>5. \A i \in DOMAIN w : \/ i \in DOMAIN s /\ w[i] = s[i]
                          \/ i - m \in 1..k /\ w[i] = n + (i - m)
  <2> SUFFICES ASSUME NEW i \in DOMAIN w
               PROVE  \/ i \in DOMAIN s /\ w[i] = s[i]
                      \/ i - m \in 1..k /\ w[i] = n + (i - m)
    OBVIOUS
  <2>1. i \in 1..(m + k)
    BY <1>2
  <2>2. CASE i \in 1..m
    BY <1>2, <1>4, <2>2
  <2>3. CASE i \notin 1..m
    <3>1. i - m \in 1..k /\ ~(i <= m)
      BY <1>2, <2>1, <2>3
    <3>2. w[i] = u[i - m]
      BY <1>2, <2>1, <3>1
    <3> QED
      BY <1>3, <3>1, <3>2
  <2> QED
    BY <2>2, <2>3
<1>6. \A i \in DOMAIN s : s[i] \in 1..MaxIn => s[i] \in 1..n
  BY DEF Grows
<1>7. \A i, j \in DOMAIN w : w[i] \in 1..MaxIn /\ w[j] \in 1..MaxIn /\ i < j => w[i] < w[j]
  <2> SUFFICES ASSUME NEW i \in DOMAIN w, NEW j \in DOMAIN w,
                      w[i] \in 1..MaxIn, w[j] \in 1..MaxIn, i < j
               PROVE  w[i] < w[j]
    OBVIOUS
  <2>1. i \in Nat /\ j \in Nat /\ i \in 1..(m + k) /\ j \in 1..(m + k)
    BY <1>2
  <2>2. CASE j \in DOMAIN s
    <3>1. i \in DOMAIN s
      BY <1>2, <2>1, <2>2
    <3> QED
      BY <1>4, <2>2, <3>1 DEF Grows
  <2>3. CASE j \notin DOMAIN s /\ i \in DOMAIN s
    <3>1. w[i] \in 1..n
      BY <1>4, <1>6, <2>3
    <3>2. j - m \in 1..k /\ w[j] = n + (j - m)
      BY <1>5, <2>3
    <3> QED
      BY <1>2, <2>1, <3>1, <3>2
  <2>4. CASE j \notin DOMAIN s /\ i \notin DOMAIN s
    <3>1. /\ j - m \in 1..k /\ w[j] = n + (j - m)
          /\ i - m \in 1..k /\ w[i] = n + (i - m)
      BY <1>5, <2>4
    <3>2. n + (i - m) < n + (j - m)
      BY <1>2, <2>1
    <3> QED
      BY <3>1, <3>2
  <2> QED
    BY <2>2, <2>3, <2>4
<1>8. {w[i] : i \in DOMAIN w} \cap (1..MaxIn) = 1..(n + k)
  <2>1. ASSUME NEW i \in DOMAIN w, w[i] \in 1..MaxIn PROVE w[i] \in 1..(n + k)
    <3>1. CASE i \in DOMAIN s /\ w[i] = s[i]
      <4>1. w[i] \in 1..n
        BY <1>6, <2>1, <3>1
      <4> QED
        BY <1>2, <4>1
    <3>2. CASE i - m \in 1..k /\ w[i] = n + (i - m)
      BY <1>2, <3>2
    <3> QED
      BY <1>5, <3>1, <3>2
  <2>2. ASSUME NEW x \in 1..(n + k) PROVE x \in 1..MaxIn /\ \E i \in DOMAIN w : w[i] = x
    <3>1. x \in 1..MaxIn
      BY <1>2, <1>3
    <3>2. CASE x <= n
      <4>1. x \in 1..n
        BY <1>2, <3>2
      <4>2. PICK i \in DOMAIN s : s[i] = x
        BY <4>1 DEF Grows
      <4> QED
        BY <1>4, <3>1, <4>2
    <3>3. CASE ~(x <= n)
      <4>1. x - n \in 1..k /\ m + (x - n) \in 1..(m + k) /\ ~(m + (x - n) <= m)
            /\ m + (x - n) - m = x - n
        BY <1>2, <3>3
      <4>2. w[m + (x - n)] = u[x - n]
        BY <1>2, <4>1
      <4>3. w[m + (x - n)] = x
        BY <1>3, <4>1, <4>2
      <4> QED
        BY <1>2, <3>1, <4>1, <4>3
    <3> QED
      BY <3>2, <3>3
  <2> QED
    BY <2>1, <2>2
<1>9. Grows(w, n + k)
  BY <1>7, <1>8 DEF Grows
<1> QED
  BY <1>1, <1>9

LEMMA SentIsSeq ==
  ASSUME NEW r \in Seq(Units), NEW c \in Connection
  PROVE  Sent(r, c) \in Seq(Units)
<1>1. PICK s, o, w : s = c.snd /\ o = c.output_buffer_ /\ w = r \o s
  OBVIOUS
<1>2. s \in Seq(Units) /\ o \in Seq(Units)
  BY <1>1, Typed
<1>3. w \in Seq(Units)
  BY <1>1, <1>2, ConcatProperties
<1>4. w \o o \in Seq(Units)
  BY <1>2, <1>3, ConcatProperties
<1> QED
  BY <1>1, <1>4, Zenon DEF Sent

LEMMA EchoesSame ==
  ASSUME NEW s, NEW c, NEW d, Echoes(s, c), d.sent = c.sent,
         d.state_ \in {"kConnecting", "kConnected"} =>
            c.state_ \in {"kConnecting", "kConnected"} /\ Rest(d) = Rest(c)
  PROVE  Echoes(s, d)
<1>1. PICK n \in 0..c.sent :
         /\ Grows(s, n)
         /\ c.state_ \in {"kConnecting", "kConnected"} => From(Rest(c), n, c.sent)
  BY DEF Echoes
<1>2. d.state_ \in {"kConnecting", "kConnected"} => From(Rest(d), n, d.sent)
  BY <1>1
<1> QED
  BY <1>1, <1>2 DEF Echoes

\* A stream that has the next of the rest added is still in order.
LEMMA EchoesAfter ==
  ASSUME NEW r \in Seq(Units), NEW c \in Connection, NEW d,
         Echoing(c, d), d.state_ # "kConnecting", Echoes(Sent(r, c), c)
  PROVE  Echoes(Sent(r, d), d)
<1>1. CASE SameEcho(c, d)
  <2>1. Sent(r, d) = Sent(r, c) /\ d.sent = c.sent
    BY <1>1 DEF SameEcho
  <2>2. d.state_ \in {"kConnecting", "kConnected"} =>
           c.state_ \in {"kConnecting", "kConnected"} /\ Rest(d) = Rest(c)
    BY <1>1 DEF SameEcho
  <2>3. Echoes(Sent(r, c), d)
    BY <2>1, <2>2, EchoesSame
  <2> QED
    BY <2>1, <2>3
<1>2. CASE ~SameEcho(c, d)
  <2>1. c.state_ = "kConnected" /\ d.sent = c.sent
    BY <1>2 DEF Echoing
  <2>2. PICK u \in Seq(Units), v \in Seq(Units) :
             /\ Rest(c) = u \o v /\ Rest(d) = v
             /\ \A rr \in Seq(Units) : Sent(rr, d) = Sent(rr, c) \o u
    BY <1>2 DEF Echoing
  <2>3. PICK n \in 0..c.sent : Grows(Sent(r, c), n) /\ From(Rest(c), n, c.sent)
    BY <2>1 DEF Echoes
  <2>4. PICK s, w, a, b, m : /\ s = Sent(r, c) /\ w = u \o v /\ a = Len(u) /\ b = Len(v)
                             /\ m = c.sent
    OBVIOUS
  <2>5. /\ a \in Nat /\ b \in Nat /\ m \in Nat /\ n \in 0..m /\ n \in Nat /\ m <= MaxIn
        /\ MaxIn \in Nat
    <3>1. /\ a \in Nat /\ b \in Nat
      BY <2>4, LenProperties
    <3>2. m \in Nat /\ m <= MaxIn /\ MaxIn \in Nat
      BY <2>4, Typed
    <3> QED
      BY <2>4, <3>1, <3>2
  <2>6. /\ w \in Seq(Units) /\ Len(w) = a + b
        /\ \A i \in 1..(a + b) : w[i] = IF i <= a THEN u[i] ELSE v[i - a]
    BY <2>4, ConcatProperties
  <2>7. a + b = m - n /\ \A i \in 1..(a + b) : w[i] = n + i
    <3>1. From(w, n, m)
      BY <2>2, <2>3, <2>4, Zenon
    <3> QED
      BY <2>6, <3>1 DEF From
  <2>8. \A i \in 1..Len(u) : u[i] = n + i
    <3> SUFFICES ASSUME NEW i \in 1..a PROVE u[i] = n + i
      BY <2>4
    <3>1. i \in 1..(a + b) /\ i <= a
      BY <2>5
    <3> QED
      BY <2>6, <2>7, <3>1
  <2>9. n + Len(u) <= MaxIn /\ n + a \in 0..m
    BY <2>4, <2>5, <2>7
  <2>10. s \in Seq(Units)
    BY <2>4, SentIsSeq
  <2>11. Grows(s \o u, n + Len(u))
    BY <2>3, <2>4, <2>5, <2>8, <2>9, <2>10, GrowsEcho
  <2>12. From(v, n + a, m)
    <3>1. b = m - (n + a)
      BY <2>5, <2>7
    <3>2. \A i \in 1..b : v[i] = (n + a) + i
      <4> SUFFICES ASSUME NEW i \in 1..b PROVE v[i] = (n + a) + i
        OBVIOUS
      <4>1. a + i \in 1..(a + b) /\ ~(a + i <= a) /\ a + i - a = i
        BY <2>5
      <4>2. w[a + i] = v[i] /\ w[a + i] = n + (a + i)
        <5>1. PICK j : j = a + i
          OBVIOUS
        <5>2. j \in 1..(a + b) /\ ~(j <= a) /\ j - a = i
          BY <2>5, <4>1, <5>1
        <5>3. w[j] = v[i] /\ w[j] = n + j
          BY <2>6, <2>7, <5>2
        <5> QED
          BY <5>1, <5>3
      <4> QED
        BY <2>5, <4>2
    <3> QED
      BY <2>4, <3>1, <3>2 DEF From
  <2>13. Grows(Sent(r, d), n + a)
    <3>1. Sent(r, d) = s \o u
      BY <2>2, <2>4, Zenon
    <3> QED
      BY <2>4, <2>11, <3>1, Zenon
  <2>14. From(Rest(d), n + a, d.sent)
    BY <2>1, <2>2, <2>4, <2>12, Zenon
  <2> QED
    BY <2>1, <2>4, <2>9, <2>13, <2>14 DEF Echoes
<1> QED
  BY <1>1, <1>2

\* So is one that has something else added, by another thread.
LEMMA EchoesOther ==
  ASSUME NEW r \in Seq(Units), NEW c \in Connection, NEW d, NEW t \in Others,
         Sent(r, d) = Sent(r, c) \o <<t>>, SameCoroutine(c, d), d.state_ = c.state_,
         Echoes(Sent(r, c), c)
  PROVE  Echoes(Sent(r, d), d)
<1>1. PICK n \in 0..c.sent :
         /\ Grows(Sent(r, c), n)
         /\ c.state_ \in {"kConnecting", "kConnected"} => From(Rest(c), n, c.sent)
  BY DEF Echoes
<1>2. PICK s : s = Sent(r, c)
  OBVIOUS
<1>3. s \in Seq(Units)
  BY <1>2, SentIsSeq
<1>4. Grows(s \o <<t>>, n)
  BY <1>1, <1>2, <1>3, GrowsOther
<1>5. Grows(Sent(r, d), n)
  BY <1>2, <1>4, Zenon
<1>6. Rest(d) = Rest(c) /\ d.sent = c.sent
  BY Zenon DEF SameCoroutine, Rest
<1> QED
  BY <1>1, <1>5, <1>6 DEF Echoes

\* And the rest, when the peer sends its next unit.
LEMMA EchoesMore ==
  ASSUME NEW s, NEW c \in Connection, NEW d, Echoes(s, c),
         d.rcv = Append(c.rcv, c.sent + 1), d.sent = c.sent + 1, c.sent < MaxIn,
         d.input_buffer_ = c.input_buffer_, d.len = c.len, d.state_ = c.state_,
         c.len \in 0..Len(c.input_buffer_)
  PROVE  Echoes(s, d)
<1>1. PICK n \in 0..c.sent :
         /\ Grows(s, n)
         /\ c.state_ \in {"kConnecting", "kConnected"} => From(Rest(c), n, c.sent)
  BY DEF Echoes
<1>2. PICK e, q, q2, m : /\ e = Drop(c.input_buffer_, c.len) /\ q = c.rcv
                         /\ q2 = d.rcv /\ m = c.sent
  OBVIOUS
<1>3. m \in Nat /\ n \in Nat /\ n <= m /\ m + 1 \in Units
  <2>1. m \in Nat /\ MaxIn \in Nat
    BY <1>2, Typed
  <2>2. m < MaxIn /\ n \in 0..m
    BY <1>2
  <2>3. m + 1 \in 1..MaxIn /\ n \in Nat /\ n <= m
    BY <2>1, <2>2
  <2> QED
    BY <2>1, <2>3 DEF Units
<1>4. e \in Seq(Units) /\ q \in Seq(Units) /\ Len(e) \in Nat /\ Len(q) \in Nat
  <2>1. c.input_buffer_ \in Seq(Units) /\ q \in Seq(Units)
    BY <1>2, Typed
  <2>2. e \in Seq(Units)
    BY <1>2, <2>1, TakeDrop
  <2> QED
    BY <2>1, <2>2, LenProperties
<1>5. /\ q2 \in Seq(Units) /\ Len(q2) = Len(q) + 1
      /\ \A i \in 1..Len(q) : q2[i] = q[i]
      /\ q2[Len(q) + 1] = m + 1
  BY <1>2, <1>3, <1>4, AppendProperties
<1>6. PICK a, b, w, w2 : a = Len(e) /\ b = Len(q) /\ w = e \o q /\ w2 = e \o q2
  OBVIOUS
<1>7. /\ Len(w) = a + b
      /\ \A i \in 1..(a + b) : w[i] = IF i <= a THEN e[i] ELSE q[i - a]
  BY <1>4, <1>6, ConcatProperties
<1>8. /\ Len(w2) = a + (b + 1)
      /\ \A i \in 1..(a + (b + 1)) : w2[i] = IF i <= a THEN e[i] ELSE q2[i - a]
  <2>1. /\ Len(w2) = a + Len(q2)
        /\ \A i \in 1..(a + Len(q2)) : w2[i] = IF i <= a THEN e[i] ELSE q2[i - a]
    BY <1>4, <1>5, <1>6, ConcatProperties
  <2>2. Len(q2) = b + 1
    BY <1>5, <1>6
  <2> QED
    BY <2>1, <2>2
<1>9. ASSUME From(w, n, m) PROVE From(w2, n, m + 1)
  <2>1. a + b = m - n /\ a \in Nat /\ b \in Nat /\ \A i \in 1..(a + b) : w[i] = n + i
    BY <1>4, <1>6, <1>7, <1>9 DEF From
  <2>2. Len(w2) = m + 1 - n
    BY <1>3, <1>8, <2>1
  <2>3. \A i \in 1..(a + (b + 1)) : w2[i] = n + i
    <3> SUFFICES ASSUME NEW i \in 1..(a + (b + 1)) PROVE w2[i] = n + i
      OBVIOUS
    <3>1. CASE i <= a
      <4>1. i \in 1..(a + b)
        BY <2>1, <3>1
      <4> QED
        BY <1>7, <1>8, <2>1, <3>1, <4>1
    <3>2. CASE ~(i <= a) /\ i <= a + b
      <4>1. i \in 1..(a + b) /\ i - a \in 1..b
        BY <2>1, <3>2
      <4>2. w2[i] = q2[i - a] /\ w[i] = q[i - a] /\ q2[i - a] = q[i - a]
        BY <1>5, <1>6, <1>7, <1>8, <3>2, <4>1
      <4> QED
        BY <2>1, <4>1, <4>2
    <3>3. CASE ~(i <= a + b)
      <4>1. i = a + b + 1 /\ i - a = b + 1 /\ ~(i <= a) /\ n + i = m + 1
        BY <1>3, <2>1, <3>3
      <4>2. w2[i] = q2[i - a] /\ q2[b + 1] = m + 1
        BY <1>5, <1>6, <1>8, <4>1
      <4> QED
        BY <4>1, <4>2
    <3> QED
      BY <3>1, <3>2, <3>3
  <2>4. \A i \in 1..Len(w2) : w2[i] = n + i
    BY <1>8, <2>3
  <2> QED
    BY <1>3, <1>8, <2>1, <2>2, <2>4 DEF From
<1>10. Rest(c) = w /\ Rest(d) = w2
  BY <1>2, <1>6, Zenon DEF Rest
<1>11. d.state_ \in {"kConnecting", "kConnected"} => From(Rest(d), n, d.sent)
  <2>1. d.sent = m + 1 /\ c.sent = m
    BY <1>2
  <2> QED
    BY <1>1, <1>9, <1>10, <2>1
<1>12. n \in 0..d.sent
  <2>1. d.sent = m + 1
    BY <1>2
  <2> QED
    BY <1>3, <2>1
<1> QED
  BY <1>1, <1>11, <1>12 DEF Echoes

-----------------------------------------------------------------------------
(* The steps *)

LEMMA InitIInv == Init => IInv
<1> SUFFICES ASSUME Init PROVE IInv
  OBVIOUS
<1>1. MaxIn \in Nat /\ SndCap \in Nat /\ 0 \in 0..MaxIn
  BY EchoAssumption DEF EchoAssumption
<1>2. PICK p : p = <<Establish>>
  OBVIOUS
<1>3. p \in Seq(Task) /\ Len(p) = 1 /\ p[1] = Establish /\ DOMAIN p = 1..1
  <2>1. Establish \in Task
    BY DEF Establish, Task
  <2> QED
    BY <1>2, <2>1
<1>4. /\ conn \in Connection
      /\ conn.state_ = "kConnecting" /\ ~conn.added_to_loop_ /\ ~conn.reading /\ ~conn.writing
      /\ conn.input_buffer_ = << >> /\ conn.output_buffer_ = << >>
      /\ ~conn.read_coro_pending_ /\ ~conn.write_coro_pending_
      /\ conn.session = "none" /\ conn.len = 0
      /\ conn.pending_tasks_ = p /\ conn.removals = 0
      /\ conn.rcv = << >> /\ conn.sent = 0 /\ ~conn.fin /\ ~conn.rst /\ ~conn.err
      /\ conn.snd = << >> /\ ~conn.fin_out
  <2>1. << >> \in Seq(Units)
    OBVIOUS
  <2> QED
    BY <1>1, <1>2, <1>3, <2>1 DEF Init, Connection, Establish
<1>5. /\ phase = "poll" /\ revents = {} /\ running = << >>
      /\ calls = [t \in Others |-> "idle"] /\ received = << >>
      /\ registered = FALSE /\ force_called = FALSE
  BY DEF Init
<1>6. /\ ~Has(running, Resume) /\ ~Has(p, Resume)
      /\ ~Has(running, <<"force_close">>) /\ ~Has(p, <<"force_close">>)
      /\ Once(running, Resume) /\ Once(p, Resume)
  <2>1. DOMAIN running = {}
    BY <1>5
  <2>2. Establish # Resume /\ Establish # <<"force_close">>
    BY DEF Establish, Resume
  <2> QED
    BY <1>3, <2>1, <2>2 DEF Has, Once
<1>7. Control
  <2>1. running \in Seq(Task) /\ received \in Seq(Units)
    BY <1>5
  <2>2. phase = "tasks" <=> running # << >>
    BY <1>5
  <2> QED
    BY <1>5, <2>1, <2>2 DEF Control
<1>8. Fits(conn)
  BY <1>1, <1>4 DEF Fits
<1>9. Coroutine(conn, running)
  BY <1>4, <1>6 DEF Coroutine
<1>10. /\ Arms(conn, registered) /\ Caused(conn, force_called) /\ EventsCaused
       /\ ~ForceCloses
  BY <1>4, <1>5, <1>6 DEF Arms, OpenC, Caused, EventsCaused, ForceCloses
<1>11. Fresh
  BY <1>2, <1>4, <1>5 DEF Fresh
<1>12. Echoes(Sent(received, conn), conn)
  <2>1. Sent(received, conn) = << >> /\ Rest(conn) = << >>
    <3>1. << >> \in Seq(Units) /\ << >> \o << >> = << >>
      BY ConcatEmptySeq
    <3>2. Drop(<< >>, 0) = << >>
      BY <3>1, DropNone
    <3> QED
      BY <1>4, <1>5, <3>1, <3>2, Zenon DEF Sent, Rest
  <2>2. Grows(<< >>, 0)
    BY DEF Grows
  <2>3. From(<< >>, 0, 0)
    BY DEF From
  <2>4. 0 \in 0..conn.sent
    BY <1>4
  <2> QED
    BY <1>4, <2>1, <2>2, <2>3, <2>4 DEF Echoes
<1> QED
  BY <1>7, <1>8, <1>9, <1>10, <1>11, <1>12 DEF IInv

LEMMA PollKeeps ==
  ASSUME IInv, Poll PROVE IInv'
<1>1. /\ UNCHANGED <<conn, running, calls, received, registered, force_called>>
      /\ revents' = Ready(conn) /\ phase' = "events" /\ phase = "poll"
  BY DEF Poll
<1>2. /\ Ready(conn) \subseteq {"IN", "OUT", "ERR", "HUP"}
      /\ "HUP" \in Ready(conn) => conn.fin \/ conn.rst
      /\ "ERR" \in Ready(conn) => conn.err
      /\ ~conn.added_to_loop_ => Ready(conn) = {}
  BY DEF Ready
<1>3. Control'
  BY <1>1, <1>2 DEF IInv, Control
<1>4. EventsCaused'
  BY <1>1, <1>2 DEF IInv, EventsCaused, Fits
<1>5. Fresh'
  BY <1>1, <1>2 DEF IInv, Fresh
<1>6. /\ Fits(conn)' /\ Coroutine(conn, running)' /\ Arms(conn, registered)'
      /\ Caused(conn, force_called)' /\ Echoes(Sent(received, conn), conn)'
      /\ (ForceCloses => force_called)'
  BY <1>1, Zenon DEF IInv, ForceCloses
<1> QED
  BY <1>3, <1>4, <1>5, <1>6 DEF IInv

LEMMA HandleEventsKeeps ==
  ASSUME IInv, NEW k \in 1..MaxIn, HandleEvents(k) PROVE IInv'
<1>1. /\ Control /\ Fits(conn) /\ Coroutine(conn, running) /\ Arms(conn, registered)
      /\ Caused(conn, force_called) /\ EventsCaused /\ (ForceCloses => force_called)
      /\ Fresh /\ Echoes(Sent(received, conn), conn)
  BY DEF IInv
<1>2. phase = "events" /\ running = << >> /\ k \in Nat \ {0} /\ received \in Seq(Units)
      /\ registered \in BOOLEAN /\ force_called \in BOOLEAN
  BY <1>1, EchoAssumption DEF HandleEvents, Control, EchoAssumption
<1> DEFINE c == handle_event(conn, revents, k)
<1>3. /\ conn' = [c EXCEPT !.pending_tasks_ = << >>]
      /\ running' = c.pending_tasks_
      /\ phase' = IF c.pending_tasks_ = << >> THEN "poll" ELSE "tasks"
      /\ revents' = {}
      /\ UNCHANGED <<calls, received, registered, force_called>>
  BY DEF HandleEvents
<1>4. /\ Fits(c) /\ Coroutine(c, << >>) /\ Arms(c, registered) /\ Caused(c, force_called)
      /\ Echoes(Sent(received, c), c)
      /\ \/ conn.state_ = "kConnecting" /\ c = conn
         \/ conn.state_ # "kConnecting" /\ c.state_ # "kConnecting"
      /\ \A x : Has(c.pending_tasks_, x) => x = Resume \/ Has(conn.pending_tasks_, x)
  <2>1. CASE conn.state_ = "kConnecting"
    <3>1. revents = {}
      BY <1>1, <2>1 DEF Fresh
    <3>2. c = conn
      BY <3>1 DEF handle_event
    <3> HIDE DEF c
    <3> QED
      BY <1>1, <1>2, <2>1, <3>2
  <2>2. CASE conn.state_ # "kConnecting"
    <3>1. Steady(conn, registered, force_called)
      BY <1>1, <2>2 DEF Steady
    <3>2. Handled(conn, c, << >>, registered, force_called)
      BY <1>1, <1>2, <3>1, HandleEventKeeps DEF EventsCaused
    <3> HIDE DEF c
    <3>3. Echoes(Sent(received, c), c)
      <4>1. Echoing(conn, c) /\ c.state_ # "kConnecting" /\ conn \in Connection
        BY <1>1, <3>2 DEF Handled, Echoing, Steady, Fits
      <4> QED
        BY <1>1, <1>2, <4>1, EchoesAfter
    <3> QED
      BY <2>2, <3>2, <3>3 DEF Handled, Steady
  <2> QED
    BY <2>1, <2>2
<1> HIDE DEF c
<1>5. c \in Connection /\ c.pending_tasks_ \in Seq(Task) /\ << >> \in Seq(Task)
  BY <1>4, Typed DEF Fits
<1>6. /\ conn' \in Connection /\ conn'.pending_tasks_ = << >>
      /\ conn'.session = c.session /\ conn'.len = c.len
      /\ conn'.read_coro_pending_ = c.read_coro_pending_
      /\ conn'.write_coro_pending_ = c.write_coro_pending_
      /\ conn'.input_buffer_ = c.input_buffer_ /\ conn'.rcv = c.rcv /\ conn'.sent = c.sent
      /\ conn'.state_ = c.state_ /\ conn'.fin_out = c.fin_out /\ conn'.snd = c.snd
      /\ conn'.output_buffer_ = c.output_buffer_ /\ conn'.fin = c.fin /\ conn'.rst = c.rst
      /\ conn'.err = c.err /\ conn'.removals = c.removals /\ conn'.writing = c.writing
      /\ conn'.reading = c.reading /\ conn'.added_to_loop_ = c.added_to_loop_
  BY <1>3, <1>5 DEF Connection, SameCoroutine
<1>7. Control'
  BY <1>1, <1>3, <1>5 DEF Control
<1>8. Fits(conn') /\ Arms(conn', registered') /\ Caused(conn', force_called')
  BY <1>3, <1>4, <1>6 DEF Fits, Arms, OpenC, Caused, Cause
<1>9. Coroutine(conn', running')
  <2>1. ~Has(<< >>, Resume) /\ Once(<< >>, Resume)
    BY DEF Has, Once
  <2> QED
    BY <1>3, <1>4, <1>6, <2>1 DEF Coroutine
<1>10. EventsCaused'
  BY <1>3 DEF EventsCaused
<1>11. (ForceCloses => force_called)'
  <2>1. ~Has(<< >>, <<"force_close">>) /\ <<"force_close">> # Resume
    BY DEF Has, Resume
  <2>2. Has(c.pending_tasks_, <<"force_close">>) => force_called
    BY <1>1, <1>4, <2>1 DEF ForceCloses
  <2> QED
    BY <1>1, <1>3, <1>6, <2>1, <2>2 DEF ForceCloses
<1>12. Fresh'
  <2>1. CASE conn.state_ = "kConnecting"
    <3>1. c = conn /\ conn.pending_tasks_ = <<Establish>>
      BY <1>1, <1>2, <1>4, <2>1 DEF Fresh
    <3> QED
      BY <1>1, <1>3, <1>6, <2>1, <3>1 DEF Fresh
  <2>2. CASE conn.state_ # "kConnecting"
    <3>1. ~Has(<< >>, Establish) /\ Establish # Resume
      BY DEF Has, Resume, Establish
    <3>2. ~Has(c.pending_tasks_, Establish)
      BY <1>1, <1>4, <2>2, <3>1 DEF Fresh
    <3> QED
      BY <1>3, <1>4, <1>6, <2>2, <3>1, <3>2 DEF Fresh
  <2> QED
    BY <2>1, <2>2
<1>13. Echoes(Sent(received', conn'), conn')
  <2>1. Sent(received', conn') = Sent(received, c) /\ Rest(conn') = Rest(c)
    BY <1>3, <1>6, Zenon DEF Sent, Rest
  <2> QED
    BY <1>4, <1>6, <2>1, EchoesSame
<1> QED
  BY <1>7, <1>8, <1>9, <1>10, <1>11, <1>12, <1>13 DEF IInv

\* The step of a task: d is the connection after it.
LEMMA TaskStep ==
  ASSUME IInv, running # << >>, phase = "tasks", NEW d,
         conn' = d, running' = Tail(running),
         phase' = IF Len(running) = 1 THEN "poll" ELSE "tasks",
         UNCHANGED <<revents, calls, received, force_called>>,
         registered' \in BOOLEAN,
         Steady(d, registered', force_called), Coroutine(d, Tail(running)),
         Echoes(Sent(received, d), d), d.fin = conn.fin, d.rst = conn.rst,
         \A x : Has(d.pending_tasks_, x) => x = Resume \/ Has(conn.pending_tasks_, x),
         ~Has(Tail(running), Establish), ~Has(conn.pending_tasks_, Establish)
  PROVE  IInv'
<1>1. /\ Control /\ EventsCaused /\ (ForceCloses => force_called)
      /\ running \in Seq(Task)
  BY DEF IInv, Control
<1>2. PICK q : q = Tail(running)
  OBVIOUS
<1>3. /\ q \in Seq(Task) /\ Len(q) = Len(running) - 1 /\ Len(running) \in Nat \ {0}
      /\ \A x : Has(q, x) => Has(running, x)
  BY <1>1, <1>2, TakenTask
<1>4. (q = << >>) <=> (Len(running) = 1)
  BY <1>3, EmptySeq
<1>5. Control'
  <2>1. phase' \in {"poll", "tasks"} /\ (phase' = "tasks" <=> q # << >>)
    BY <1>4
  <2>2. running' = q
    BY <1>2
  <2> QED
    BY <1>1, <1>3, <2>1, <2>2 DEF Control
<1>6. Fits(conn') /\ Arms(conn', registered') /\ Caused(conn', force_called')
  BY DEF Steady
<1>7. EventsCaused'
  BY <1>1 DEF EventsCaused
<1>8. (ForceCloses => force_called)'
  <2>1. <<"force_close">> # Resume
    BY DEF Resume
  <2>2. /\ Has(d.pending_tasks_, <<"force_close">>) => Has(conn.pending_tasks_, <<"force_close">>)
        /\ Has(q, <<"force_close">>) => Has(running, <<"force_close">>)
    BY <1>3, <2>1
  <2> QED
    BY <1>1, <1>2, <2>2 DEF ForceCloses
<1>9. Fresh'
  <2>1. Establish # Resume
    BY DEF Resume, Establish
  <2>2. ~Has(d.pending_tasks_, Establish)
    BY <2>1
  <2> QED
    BY <2>2 DEF Fresh, Steady
<1> QED
  BY <1>5, <1>6, <1>7, <1>8, <1>9 DEF IInv

LEMMA RunTaskKeeps ==
  ASSUME IInv, NEW k \in 1..MaxIn, RunTask(k) PROVE IInv'
<1>1. /\ Control /\ Fits(conn) /\ Coroutine(conn, running) /\ Arms(conn, registered)
      /\ Caused(conn, force_called) /\ EventsCaused /\ (ForceCloses => force_called)
      /\ Fresh /\ Echoes(Sent(received, conn), conn)
  BY DEF IInv
<1>2. /\ phase = "tasks" /\ running # << >> /\ running \in Seq(Task) /\ k \in Nat \ {0}
      /\ received \in Seq(Units) /\ registered \in BOOLEAN /\ force_called \in BOOLEAN
      /\ conn \in Connection
  BY <1>1, EchoAssumption DEF RunTask, Control, Fits, EchoAssumption
<1>3. PICK task, q : task = Head(running) /\ q = Tail(running)
  OBVIOUS
<1> DEFINE d == Done(task, conn, k)
<1>4. /\ conn' = d /\ running' = Tail(running)
      /\ phase' = IF Len(running) = 1 THEN "poll" ELSE "tasks"
      /\ registered' = (registered \/ task[1] = "establish")
      /\ UNCHANGED <<revents, calls, received, force_called>>
  BY <1>3 DEF RunTask
<1>5. /\ task \in Task /\ q \in Seq(Task)
      /\ \A x : Has(running, x) <=> x = task \/ Has(q, x)
      /\ \A x : Once(running, x) => Once(q, x) /\ ~(x = task /\ Has(q, x))
  BY <1>2, <1>3, TakenTask
<1>6. ASSUME conn.state_ # "kConnecting"
      PROVE  /\ Steady(conn, registered, force_called)
             /\ ~Has(conn.pending_tasks_, Establish) /\ ~Has(q, Establish) /\ task # Establish
  BY <1>1, <1>5, <1>6 DEF Steady, Fresh
<1>7. ASSUME task # Establish PROVE conn.state_ # "kConnecting"
  <2> SUFFICES ASSUME conn.state_ = "kConnecting" PROVE FALSE
    OBVIOUS
  <2>1. running = <<Establish>>
    BY <1>1, <1>2 DEF Fresh
  <2>2. Head(running) = Establish
    BY <2>1
  <2> QED
    BY <1>3, <1>7, <2>2
<1>8. ASSUME task # Resume PROVE Coroutine(conn, q)
  BY <1>1, <1>5, <1>8 DEF Coroutine
<1>9. CASE task = Establish
  <2>1. conn.state_ = "kConnecting"
    BY <1>1, <1>5, <1>9 DEF Fresh
  <2>2. /\ running = <<Establish>> /\ conn.pending_tasks_ = << >>
        /\ conn.session = "none" /\ conn.output_buffer_ = << >> /\ conn.removals = 0
        /\ ~conn.writing /\ ~conn.fin_out
    BY <1>1, <1>2, <2>1 DEF Fresh
  <2>3. q = << >>
    BY <1>3, <2>2
  <2> DEFINE c == [conn EXCEPT !.state_ = "kConnected", !.added_to_loop_ = TRUE, !.reading = TRUE]
  <2>4. d = LoopTop(c) /\ registered' = TRUE
    BY <1>4, <1>9 DEF Done, Establish
  <2>5. c \in Connection
    BY <1>2 DEF Connection
  <2>6. /\ c.state_ = "kConnected" /\ c.reading = TRUE
        /\ c.session = "none" /\ c.len = conn.len
        /\ c.read_coro_pending_ = conn.read_coro_pending_
        /\ c.write_coro_pending_ = conn.write_coro_pending_
        /\ c.input_buffer_ = conn.input_buffer_ /\ c.pending_tasks_ = << >>
        /\ c.rcv = conn.rcv /\ c.sent = conn.sent /\ c.fin_out = conn.fin_out
        /\ c.snd = conn.snd /\ c.output_buffer_ = << >>
        /\ c.fin = conn.fin /\ c.rst = conn.rst /\ c.err = conn.err /\ c.removals = 0
        /\ c.writing = conn.writing
    BY <1>2, <2>2 DEF Connection
  <2> HIDE DEF c, d
  <2>7. /\ conn.len = 0 /\ ~conn.read_coro_pending_ /\ ~conn.write_coro_pending_
    BY <1>1, <2>2 DEF Coroutine
  <2>8. Steady(c, TRUE, force_called)
    BY <1>1, <2>2, <2>5, <2>6, <2>7 DEF Steady, Fits, Arms, OpenC, Caused, Cause
  <2>9. Awake(c, << >>) /\ ~Has(<< >>, Establish)
    BY <2>6, <2>7 DEF Awake, Has
  <2>10. Ran(c, d, << >>, TRUE, force_called)
    BY <1>2, <2>4, <2>6, <2>7, <2>8, <2>9, LoopTopKeeps
  <2>11. Echoes(Sent(received, d), d)
    <3>1. Sent(received, c) = Sent(received, conn) /\ Rest(c) = Rest(conn)
      BY <2>2, <2>6, Zenon DEF Sent, Rest
    <3>2. Echoes(Sent(received, c), c)
      BY <1>1, <2>1, <2>6, <3>1, EchoesSame
    <3>3. Echoing(c, d) /\ d.state_ # "kConnecting"
      BY <2>10 DEF Ran, Steady
    <3> QED
      BY <1>2, <2>5, <3>2, <3>3, EchoesAfter
  <2>12. /\ Steady(d, registered', force_called) /\ Coroutine(d, Tail(running))
         /\ d.fin = conn.fin /\ d.rst = conn.rst
         /\ \A x : Has(d.pending_tasks_, x) => x = Resume \/ Has(conn.pending_tasks_, x)
         /\ ~Has(Tail(running), Establish) /\ ~Has(conn.pending_tasks_, Establish)
    BY <1>3, <2>2, <2>3, <2>4, <2>6, <2>9, <2>10 DEF Ran
  <2>13. registered' \in BOOLEAN
    BY <2>4
  <2> QED
    BY <1>2, <1>4, <2>11, <2>12, <2>13, TaskStep
<1>10. ASSUME task # Establish,
              Steady(d, registered, force_called), Coroutine(d, q),
              Echoes(Sent(received, d), d), d.fin = conn.fin, d.rst = conn.rst,
              \A x : Has(d.pending_tasks_, x) => x = Resume \/ Has(conn.pending_tasks_, x)
       PROVE  IInv'
  <2>1. registered' = registered
    <3>1. task[1] # "establish"
      BY <1>5, <1>10 DEF Task, Establish
    <3> QED
      BY <1>2, <1>4, <3>1
  <2>2. ~Has(q, Establish) /\ ~Has(conn.pending_tasks_, Establish)
    BY <1>6, <1>7, <1>10
  <2> HIDE DEF d
  <2>3. /\ Steady(d, registered', force_called) /\ Coroutine(d, Tail(running))
        /\ ~Has(Tail(running), Establish) /\ registered' \in BOOLEAN
    BY <1>2, <1>3, <1>10, <2>1, <2>2
  <2> QED
    BY <1>2, <1>4, <1>10, <2>2, <2>3, TaskStep
<1>11. CASE task = Resume
  <2>1. task # Establish
    BY <1>11 DEF Resume, Establish
  <2>2. Steady(conn, registered, force_called)
    BY <1>6, <1>7, <2>1
  <2>3. d = resume(conn, k)
    BY <1>11 DEF Done, Resume
  <2> HIDE DEF d
  <2>4. Has(running, Resume) /\ ~Has(q, Resume)
    BY <1>1, <1>5, <1>11 DEF Coroutine
  <2>5. Awake(conn, q)
    BY <1>1, <2>4 DEF Coroutine, Awake
  <2>6. \/ conn.session = "AsyncRead" /\ conn.len = 0
        \/ conn.session = "AsyncWrite" /\ conn.len \in 1..Len(conn.input_buffer_)
    BY <1>1, <2>4 DEF Coroutine
  <2>7. Ran(conn, d, q, registered, force_called)
    BY <1>2, <2>2, <2>3, <2>5, <2>6, ResumeKeeps
  <2>8. Echoes(Sent(received, d), d)
    <3>1. Echoing(conn, d) /\ d.state_ # "kConnecting"
      BY <2>7 DEF Ran, Steady
    <3> QED
      BY <1>1, <1>2, <3>1, EchoesAfter
  <2>9. /\ Steady(d, registered, force_called) /\ Coroutine(d, q)
        /\ d.fin = conn.fin /\ d.rst = conn.rst
        /\ \A x : Has(d.pending_tasks_, x) => x = Resume \/ Has(conn.pending_tasks_, x)
    BY <2>7 DEF Ran
  <2> QED
    BY <1>10, <2>1, <2>8, <2>9 DEF d
<1>12. CASE task \in {"send"} \X Others
  <2>1. task # Establish /\ task # Resume
    BY <1>12 DEF Resume, Establish
  <2>2. Steady(conn, registered, force_called) /\ Coroutine(conn, q)
    BY <1>6, <1>7, <1>8, <2>1
  <2>3. PICK t \in Others : task = <<"send", t>>
    BY <1>12
  <2>4. PICK data : data = <<t>>
    OBVIOUS
  <2>5. data \in Seq(Units)
    <3>1. t \in Units
      BY DEF Units
    <3> QED
      BY <2>4, <3>1
  <2> DEFINE e == send_in_loop(conn, data)
  <2>6. d = e
    BY <2>3, <2>4 DEF Done
  <2>7. /\ Steady(e, registered, force_called) /\ SameCoroutine(conn, e)
        /\ e.fin = conn.fin /\ e.rst = conn.rst
        /\ \/ e.state_ = conn.state_ /\ \A r \in Seq(Units) : Sent(r, e) = Sent(r, conn) \o data
           \/ e.state_ = "kDisconnected" /\ \A r \in Seq(Units) : Sent(r, e) = Sent(r, conn)
    BY <1>2, <2>2, <2>5, SendKeeps
  <2> HIDE DEF d, e
  <2>8. Coroutine(e, q) /\ e.pending_tasks_ = conn.pending_tasks_
    BY <2>2, <2>7 DEF SameCoroutine, Coroutine
  <2>9. Echoes(Sent(received, e), e)
    <3>1. CASE e.state_ = conn.state_ /\ Sent(received, e) = Sent(received, conn) \o data
      BY <1>1, <1>2, <2>4, <2>7, <3>1, EchoesOther
    <3>2. CASE e.state_ = "kDisconnected" /\ Sent(received, e) = Sent(received, conn)
      <4>1. e.sent = conn.sent
        BY <2>7 DEF SameCoroutine
      <4> QED
        BY <1>1, <3>2, <4>1, EchoesSame
    <3> QED
      BY <1>2, <2>7, <3>1, <3>2
  <2>10. /\ Steady(d, registered, force_called) /\ Coroutine(d, q)
         /\ Echoes(Sent(received, d), d) /\ d.fin = conn.fin /\ d.rst = conn.rst
         /\ \A x : Has(d.pending_tasks_, x) => x = Resume \/ Has(conn.pending_tasks_, x)
    BY <2>6, <2>7, <2>8, <2>9
  <2> QED
    BY <1>10, <2>1, <2>10 DEF d
<1>13. CASE task = <<"shutdown">>
  <2>1. task # Establish /\ task # Resume
    BY <1>13 DEF Resume, Establish
  <2>2. Steady(conn, registered, force_called) /\ Coroutine(conn, q)
    BY <1>6, <1>7, <1>8, <2>1
  <2> DEFINE e == shutdown_in_loop(conn)
  <2>3. d = e
    BY <1>13 DEF Done
  <2>4. /\ Steady(e, registered, force_called) /\ SameCoroutine(conn, e) /\ SameEcho(conn, e)
        /\ e.fin = conn.fin /\ e.rst = conn.rst
    BY <1>2, <2>2, ShutdownKeeps
  <2> HIDE DEF d, e
  <2>5. Coroutine(e, q) /\ e.pending_tasks_ = conn.pending_tasks_
    BY <2>2, <2>4 DEF SameCoroutine, Coroutine
  <2>6. Echoes(Sent(received, e), e)
    BY <1>1, <1>2, <2>4, EchoesAfter DEF Echoing, Steady
  <2>7. /\ Steady(d, registered, force_called) /\ Coroutine(d, q)
        /\ Echoes(Sent(received, d), d) /\ d.fin = conn.fin /\ d.rst = conn.rst
        /\ \A x : Has(d.pending_tasks_, x) => x = Resume \/ Has(conn.pending_tasks_, x)
    BY <2>3, <2>4, <2>5, <2>6
  <2> QED
    BY <1>10, <2>1, <2>7 DEF d
<1>14. CASE task = <<"force_close">>
  <2>1. task # Establish /\ task # Resume
    BY <1>14 DEF Resume, Establish
  <2>2. Steady(conn, registered, force_called) /\ Coroutine(conn, q)
    BY <1>6, <1>7, <1>8, <2>1
  <2> DEFINE e == handle_close(conn)
  <2>3. d = e
    BY <1>14 DEF Done
  <2>4. Cause(conn, force_called)
    BY <1>1, <1>5, <1>14 DEF Cause, ForceCloses
  <2>5. /\ Steady(e, registered, force_called) /\ SameCoroutine(conn, e)
        /\ e.state_ = "kDisconnected"
        /\ e.snd = conn.snd /\ e.output_buffer_ = conn.output_buffer_
        /\ e.fin = conn.fin /\ e.rst = conn.rst
    BY <1>2, <2>2, <2>4, CloseKeeps
  <2> HIDE DEF d, e
  <2>6. Handled(conn, e, q, registered, force_called)
    BY <2>2, <2>5, HandledClose
  <2>7. Echoes(Sent(received, e), e)
    BY <1>1, <1>2, <2>6, EchoesAfter DEF Handled, Echoing, Steady
  <2>8. /\ Steady(d, registered, force_called) /\ Coroutine(d, q)
        /\ Echoes(Sent(received, d), d) /\ d.fin = conn.fin /\ d.rst = conn.rst
        /\ \A x : Has(d.pending_tasks_, x) => x = Resume \/ Has(conn.pending_tasks_, x)
    BY <2>3, <2>6, <2>7 DEF Handled
  <2> QED
    BY <1>10, <2>1, <2>8 DEF d
<1> QED
  BY <1>5, <1>9, <1>11, <1>12, <1>13, <1>14 DEF Task, Resume, Establish

LEMMA RemoveConnectionKeeps ==
  ASSUME IInv, RemoveConnection PROVE IInv'
<1>1. /\ Control /\ Fits(conn) /\ Coroutine(conn, running) /\ Arms(conn, registered)
      /\ Caused(conn, force_called) /\ EventsCaused /\ (ForceCloses => force_called)
      /\ Fresh /\ Echoes(Sent(received, conn), conn)
  BY DEF IInv
<1>2. /\ conn.removals > 0 /\ conn \in Connection /\ conn.removals \in Nat
      /\ conn.removals - 1 \in Nat
  BY <1>1, Typed DEF RemoveConnection, Fits
<1>3. conn.state_ # "kConnecting"
  BY <1>1, <1>2 DEF Fresh
<1>4. /\ registered' = FALSE
      /\ UNCHANGED <<phase, revents, running, calls, received, force_called>>
      /\ conn' = [conn EXCEPT !.removals = @ - 1, !.state_ = "kDisconnected"]
  BY DEF RemoveConnection
<1>5. /\ conn' \in Connection /\ SameCoroutine(conn, conn')
      /\ conn'.state_ = "kDisconnected" /\ conn'.fin_out = conn.fin_out /\ conn'.snd = conn.snd
      /\ conn'.output_buffer_ = conn.output_buffer_ /\ conn'.fin = conn.fin
      /\ conn'.rst = conn.rst /\ conn'.err = conn.err
  BY <1>2, <1>4 DEF Connection, SameCoroutine
<1>6. Steady(conn', registered', force_called')
  BY <1>1, <1>2, <1>4, <1>5
     DEF Steady, SameCoroutine, Fits, Arms, OpenC, Caused, Cause
<1>7. Handled(conn, conn', running, registered', force_called')
  BY <1>1, <1>5, <1>6, HandledClose
<1>8. Control' /\ EventsCaused'
  BY <1>1, <1>4, <1>5 DEF Control, EventsCaused
<1>9. (ForceCloses => force_called)' /\ Fresh'
  BY <1>1, <1>3, <1>4, <1>5 DEF ForceCloses, Fresh, SameCoroutine
<1>10. Echoes(Sent(received', conn'), conn')
  <2>1. Echoing(conn, conn') /\ received \in Seq(Units)
    BY <1>1, <1>7 DEF Handled, Echoing, Control
  <2> QED
    BY <1>1, <1>2, <1>4, <1>5, <2>1, EchoesAfter
<1> QED
  BY <1>4, <1>6, <1>7, <1>8, <1>9, <1>10 DEF IInv, Handled, Steady

LEMMA CallKeeps ==
  ASSUME IInv, NEW t \in Others, NEW op \in {"send", "shutdown", "force_close"}, Call(t, op)
  PROVE  IInv'
<1>1. /\ Control /\ Fits(conn) /\ Coroutine(conn, running) /\ Arms(conn, registered)
      /\ Caused(conn, force_called) /\ EventsCaused /\ (ForceCloses => force_called)
      /\ Fresh /\ Echoes(Sent(received, conn), conn)
  BY DEF IInv
<1>2. /\ conn.state_ = "kConnected" /\ calls' = [calls EXCEPT ![t] = op]
      /\ force_called' = (force_called \/ op = "force_close")
      /\ UNCHANGED <<conn, phase, revents, running, received, registered>>
  BY DEF Call
<1>3. Control'
  <2>1. force_called' \in BOOLEAN
    BY <1>1, <1>2 DEF Control
  <2>2. calls' \in [Others -> {"idle", "send", "shutdown", "force_close", "made"}]
    BY <1>1, <1>2 DEF Control
  <2> QED
    BY <1>1, <1>2, <2>1, <2>2 DEF Control
<1>4. force_called => force_called'
  BY <1>2
<1>5. Caused(conn', force_called') /\ EventsCaused'
  BY <1>1, <1>2, <1>4 DEF Caused, Cause, EventsCaused
<1>6. (ForceCloses => force_called)'
  <2> SUFFICES ASSUME ForceCloses' PROVE force_called'
    OBVIOUS
  <2>1. CASE \E s \in Others : calls'[s] = "force_close"
    <3>1. PICK s \in Others : calls'[s] = "force_close"
      BY <2>1
    <3>2. CASE s = t
      BY <1>1, <1>2, <3>1, <3>2 DEF Control
    <3>3. CASE s # t
      BY <1>1, <1>2, <1>4, <3>1, <3>3 DEF Control, ForceCloses
    <3> QED
      BY <3>2, <3>3
  <2>2. CASE ~\E s \in Others : calls'[s] = "force_close"
    BY <1>1, <1>2, <1>4, <2>2 DEF ForceCloses
  <2> QED
    BY <2>1, <2>2
<1>7. Fresh'
  BY <1>1, <1>2 DEF Fresh
<1> QED
  BY <1>1, <1>2, <1>3, <1>5, <1>6, <1>7 DEF IInv

LEMMA PostKeeps ==
  ASSUME IInv, NEW t \in Others, Post(t) PROVE IInv'
<1>1. /\ Control /\ Fits(conn) /\ Coroutine(conn, running) /\ Arms(conn, registered)
      /\ Caused(conn, force_called) /\ EventsCaused /\ (ForceCloses => force_called)
      /\ Fresh /\ Echoes(Sent(received, conn), conn)
  BY DEF IInv
<1>2. PICK task : task = IF calls[t] = "send" THEN <<"send", t>> ELSE <<calls[t]>>
  OBVIOUS
<1>3. /\ calls[t] \in {"send", "shutdown", "force_close"}
      /\ calls' = [calls EXCEPT ![t] = "made"]
      /\ UNCHANGED <<phase, revents, running, received, registered, force_called>>
  BY DEF Post
<1>4. /\ task \in Task /\ task # Resume /\ task # Establish
      /\ task = <<"force_close">> => calls[t] = "force_close"
  BY <1>2, <1>3 DEF Task, Resume, Establish
<1>5. conn \in Connection /\ conn.pending_tasks_ \in Seq(Task)
  BY <1>1, Typed DEF Fits
<1>6. PICK p : p = Queued(conn.pending_tasks_, task)
  OBVIOUS
<1>7. /\ p \in Seq(Task)
      /\ \A x : Has(p, x) <=> Has(conn.pending_tasks_, x) \/ x = task
      /\ \A x : Once(conn.pending_tasks_, x) /\ ~(x = task /\ Has(conn.pending_tasks_, x)) => Once(p, x)
  BY <1>4, <1>5, <1>6, QueuedTask
<1>8. conn' = [conn EXCEPT !.pending_tasks_ = p]
  BY <1>2, <1>6 DEF Post, Queued
<1>9. /\ conn' \in Connection /\ conn'.pending_tasks_ = p
      /\ conn'.session = conn.session /\ conn'.len = conn.len
      /\ conn'.read_coro_pending_ = conn.read_coro_pending_
      /\ conn'.write_coro_pending_ = conn.write_coro_pending_
      /\ conn'.input_buffer_ = conn.input_buffer_ /\ conn'.rcv = conn.rcv
      /\ conn'.sent = conn.sent /\ conn'.state_ = conn.state_
      /\ conn'.fin_out = conn.fin_out /\ conn'.snd = conn.snd
      /\ conn'.output_buffer_ = conn.output_buffer_ /\ conn'.fin = conn.fin
      /\ conn'.rst = conn.rst /\ conn'.err = conn.err /\ conn'.removals = conn.removals
      /\ conn'.writing = conn.writing /\ conn'.reading = conn.reading
      /\ conn'.added_to_loop_ = conn.added_to_loop_
  BY <1>5, <1>7, <1>8 DEF Connection
<1>10. conn.state_ # "kConnecting"
  BY <1>1, <1>3 DEF Fresh
<1>11. Control'
  <2>1. calls' \in [Others -> {"idle", "send", "shutdown", "force_close", "made"}]
    BY <1>1, <1>3 DEF Control
  <2> QED
    BY <1>1, <1>3, <2>1 DEF Control
<1>12. Fits(conn') /\ Arms(conn', registered') /\ Caused(conn', force_called') /\ EventsCaused'
  BY <1>1, <1>3, <1>9 DEF Fits, Arms, OpenC, Caused, Cause, EventsCaused
<1>13. Coroutine(conn', running')
  <2>1. (Has(p, Resume) <=> Has(conn.pending_tasks_, Resume)) /\ Once(p, Resume)
    BY <1>1, <1>4, <1>7 DEF Coroutine
  <2> QED
    BY <1>1, <1>3, <1>9, <2>1 DEF Coroutine
<1>14. (ForceCloses => force_called)'
  <2>1. \A s \in Others : calls'[s] = "force_close" => calls[s] = "force_close"
    BY <1>1, <1>3 DEF Control
  <2>2. Has(p, <<"force_close">>) =>
           calls[t] = "force_close" \/ Has(conn.pending_tasks_, <<"force_close">>)
    BY <1>4, <1>7
  <2> QED
    BY <1>1, <1>3, <1>9, <2>1, <2>2 DEF ForceCloses
<1>15. Fresh'
  <2>1. ~Has(p, Establish)
    BY <1>1, <1>4, <1>7, <1>10 DEF Fresh
  <2> QED
    BY <1>1, <1>3, <1>9, <1>10, <2>1 DEF Fresh
<1>16. Echoes(Sent(received', conn'), conn')
  <2>1. Sent(received', conn') = Sent(received, conn) /\ Rest(conn') = Rest(conn)
    BY <1>3, <1>9, Zenon DEF Sent, Rest
  <2> QED
    BY <1>1, <1>9, <2>1, EchoesSame
<1> QED
  BY <1>11, <1>12, <1>13, <1>14, <1>15, <1>16 DEF IInv

\* A step of the peer, on the socket alone.
LEMMA PeerKeeps ==
  ASSUME IInv, PeerUnchanged, conn' \in Connection, received' \in Seq(Units),
         conn'.session = conn.session, conn'.len = conn.len,
         conn'.read_coro_pending_ = conn.read_coro_pending_,
         conn'.write_coro_pending_ = conn.write_coro_pending_,
         conn'.input_buffer_ = conn.input_buffer_, conn'.state_ = conn.state_,
         conn'.pending_tasks_ = conn.pending_tasks_,
         conn'.fin_out = conn.fin_out, conn'.output_buffer_ = conn.output_buffer_,
         conn'.removals = conn.removals, conn'.writing = conn.writing,
         conn'.reading = conn.reading, conn'.added_to_loop_ = conn.added_to_loop_,
         conn.fin => conn'.fin, conn.rst => conn'.rst, conn'.err => conn'.rst,
         Len(conn'.snd) <= SndCap, Len(conn'.input_buffer_) + Len(conn'.rcv) <= conn'.sent,
         Echoes(Sent(received', conn'), conn')
  PROVE  IInv'
<1>1. /\ Control /\ Fits(conn) /\ Coroutine(conn, running) /\ Arms(conn, registered)
      /\ Caused(conn, force_called) /\ EventsCaused /\ (ForceCloses => force_called)
      /\ Fresh /\ Echoes(Sent(received, conn), conn)
  BY DEF IInv
<1>2. UNCHANGED <<phase, revents, running, calls, registered, force_called>>
  BY DEF PeerUnchanged
<1>3. Control' /\ Fits(conn')
  BY <1>1, <1>2 DEF Control, Fits
<1>4. Coroutine(conn', running') /\ Arms(conn', registered')
  BY <1>1, <1>2 DEF Coroutine, Arms, OpenC
<1>5. Caused(conn', force_called') /\ EventsCaused'
  BY <1>1, <1>2 DEF Caused, Cause, EventsCaused
<1>6. (ForceCloses => force_called)' /\ Fresh'
  BY <1>1, <1>2 DEF ForceCloses, Fresh
<1> QED
  BY <1>3, <1>4, <1>5, <1>6 DEF IInv

LEMMA PeerSendKeeps ==
  ASSUME IInv, PeerSend PROVE IInv'
<1>1. /\ conn.sent < MaxIn /\ received' = received /\ PeerUnchanged
  BY DEF PeerSend
<1>2. /\ conn \in Connection /\ Fits(conn) /\ Coroutine(conn, running)
      /\ Echoes(Sent(received, conn), conn) /\ received \in Seq(Units)
  BY DEF IInv, Fits, Control
<1>3. /\ conn.sent \in Nat /\ MaxIn \in Nat /\ conn.rcv \in Seq(Units) /\ Len(conn.rcv) \in Nat
      /\ Len(conn.input_buffer_) \in Nat
  BY <1>2, Typed
<1>4. PICK n, v : n = conn.sent + 1 /\ v = Append(conn.rcv, n)
  OBVIOUS
<1>5. n \in 0..MaxIn /\ n \in Units
  <2>1. n \in 1..MaxIn
    BY <1>1, <1>3, <1>4
  <2> QED
    BY <2>1, <1>3 DEF Units
<1>6. v \in Seq(Units) /\ Len(v) = Len(conn.rcv) + 1
  BY <1>3, <1>4, <1>5, AppendProperties
<1>7. conn' = [conn EXCEPT !.sent = n, !.rcv = v]
  BY <1>4 DEF PeerSend
<1>8. /\ conn' \in Connection /\ conn'.pending_tasks_ = conn.pending_tasks_
      /\ conn'.session = conn.session /\ conn'.len = conn.len
      /\ conn'.read_coro_pending_ = conn.read_coro_pending_
      /\ conn'.write_coro_pending_ = conn.write_coro_pending_
      /\ conn'.input_buffer_ = conn.input_buffer_ /\ conn'.rcv = v
      /\ conn'.sent = n /\ conn'.state_ = conn.state_
      /\ conn'.fin_out = conn.fin_out /\ conn'.snd = conn.snd
      /\ conn'.output_buffer_ = conn.output_buffer_ /\ conn'.fin = conn.fin
      /\ conn'.rst = conn.rst /\ conn'.err = conn.err /\ conn'.removals = conn.removals
      /\ conn'.writing = conn.writing /\ conn'.reading = conn.reading
      /\ conn'.added_to_loop_ = conn.added_to_loop_
  BY <1>2, <1>5, <1>6, <1>7 DEF Connection
<1>9. conn.len \in 0..Len(conn.input_buffer_)
  BY <1>2, <1>3 DEF Coroutine
<1>10. Echoes(Sent(received', conn'), conn')
  <2>1. Sent(received', conn') = Sent(received, conn)
    BY <1>1, <1>8, Zenon DEF Sent
  <2>2. Echoes(Sent(received, conn), conn')
    BY <1>1, <1>2, <1>4, <1>8, <1>9, EchoesMore
  <2> QED
    BY <2>1, <2>2
<1>11. Len(conn'.input_buffer_) + Len(conn'.rcv) <= conn'.sent
  <2>1. PICK a, b, m : a = Len(conn.input_buffer_) /\ b = Len(conn.rcv) /\ m = conn.sent
    OBVIOUS
  <2>2. a + b <= m /\ a \in Nat /\ b \in Nat /\ m \in Nat
    BY <1>2, <1>3, <2>1 DEF Fits
  <2>3. Len(conn'.input_buffer_) = a /\ Len(conn'.rcv) = b + 1 /\ conn'.sent = m + 1
    BY <1>4, <1>6, <1>8, <2>1
  <2> QED
    BY <2>2, <2>3
<1>12. Len(conn'.snd) <= SndCap /\ (conn'.err => conn'.rst) /\ received' \in Seq(Units)
  BY <1>1, <1>2, <1>8 DEF Fits
<1> QED
  BY <1>1, <1>8, <1>10, <1>11, <1>12, PeerKeeps

\* PeerShutdown and PeerReset: flags of the socket.
LEMMA PeerEndKeeps ==
  ASSUME IInv, PeerShutdown \/ PeerReset PROVE IInv'
<1>1. received' = received /\ PeerUnchanged
  BY DEF PeerShutdown, PeerReset
<1>2. /\ conn \in Connection /\ Fits(conn)
      /\ Echoes(Sent(received, conn), conn) /\ received \in Seq(Units)
  BY DEF IInv, Fits, Control
<1>3. /\ conn' \in Connection /\ conn'.pending_tasks_ = conn.pending_tasks_
      /\ conn'.session = conn.session /\ conn'.len = conn.len
      /\ conn'.read_coro_pending_ = conn.read_coro_pending_
      /\ conn'.write_coro_pending_ = conn.write_coro_pending_
      /\ conn'.input_buffer_ = conn.input_buffer_ /\ conn'.rcv = conn.rcv
      /\ conn'.sent = conn.sent /\ conn'.state_ = conn.state_
      /\ conn'.fin_out = conn.fin_out /\ conn'.snd = conn.snd
      /\ conn'.output_buffer_ = conn.output_buffer_ /\ conn'.removals = conn.removals
      /\ conn'.writing = conn.writing /\ conn'.reading = conn.reading
      /\ conn'.added_to_loop_ = conn.added_to_loop_
      /\ conn.fin => conn'.fin
      /\ conn.rst => conn'.rst
      /\ conn'.err => conn'.rst
  <2>1. CASE PeerShutdown
    <3>1. conn' = [conn EXCEPT !.fin = TRUE]
      BY <2>1 DEF PeerShutdown
    <3> QED
      BY <1>2, <3>1 DEF Connection, Fits
  <2>2. CASE PeerReset
    <3>1. conn' = [conn EXCEPT !.rst = TRUE, !.err = TRUE]
      BY <2>2 DEF PeerReset
    <3> QED
      BY <1>2, <3>1 DEF Connection, Fits
  <2> QED
    BY <2>1, <2>2
<1>4. Echoes(Sent(received', conn'), conn')
  <2>1. Sent(received', conn') = Sent(received, conn) /\ Rest(conn') = Rest(conn)
    BY <1>1, <1>3, Zenon DEF Sent, Rest
  <2> QED
    BY <1>2, <1>3, <2>1, EchoesSame
<1>5. /\ Len(conn'.snd) <= SndCap /\ Len(conn'.input_buffer_) + Len(conn'.rcv) <= conn'.sent
      /\ received' \in Seq(Units)
  BY <1>1, <1>2, <1>3 DEF Fits
<1> QED
  BY <1>1, <1>3, <1>4, <1>5, PeerKeeps

LEMMA PeerReceiveKeeps ==
  ASSUME IInv, PeerReceive PROVE IInv'
<1>1. /\ conn.snd # << >> /\ PeerUnchanged
  BY DEF PeerReceive
<1>2. /\ conn \in Connection /\ Fits(conn)
      /\ Echoes(Sent(received, conn), conn) /\ received \in Seq(Units)
  BY DEF IInv, Fits, Control
<1>3. PICK s, h, v, r, o : /\ s = conn.snd /\ h = Head(s) /\ v = Tail(s)
                           /\ r = Append(received, h) /\ o = conn.output_buffer_
  OBVIOUS
<1>4. s \in Seq(Units) /\ o \in Seq(Units) /\ s # << >> /\ SndCap \in Nat
  BY <1>1, <1>2, <1>3, Typed
<1>5. h \in Units /\ v \in Seq(Units) /\ Len(v) = Len(s) - 1 /\ Len(s) \in Nat
  BY <1>3, <1>4, HeadTailProperties, LenProperties
<1>6. r \in Seq(Units) /\ r = received \o <<h>>
  BY <1>2, <1>3, <1>5, AppendProperties, AppendIsConcat
<1>7. <<h>> \o v = s
  <2>1. PICK x, y : x = <<h>> /\ y = x \o v
    OBVIOUS
  <2>2. x \in Seq(Units) /\ Len(x) = 1 /\ x[1] = h
    BY <1>5, <2>1
  <2>3. /\ y \in Seq(Units) /\ Len(y) = Len(x) + Len(v)
        /\ \A i \in 1..(Len(x) + Len(v)) : y[i] = IF i <= Len(x) THEN x[i] ELSE v[i - Len(x)]
    BY <1>5, <2>1, <2>2, ConcatProperties
  <2>4. h = s[1] /\ \A i \in 1..Len(v) : v[i] = s[i + 1]
    BY <1>3, <1>4, HeadTailProperties
  <2>5. Len(y) = Len(s)
    BY <1>5, <2>2, <2>3
  <2>6. \A i \in 1..Len(y) : y[i] = s[i]
    <3> SUFFICES ASSUME NEW i \in 1..Len(y) PROVE y[i] = s[i]
      OBVIOUS
    <3>1. CASE i = 1
      BY <1>5, <2>2, <2>3, <2>4, <2>5, <3>1
    <3>2. CASE i # 1
      <4>1. i - 1 \in 1..Len(v) /\ ~(i <= 1) /\ i - 1 + 1 = i
        BY <1>5, <2>5, <3>2
      <4>2. y[i] = v[i - 1]
        BY <2>2, <2>3, <4>1
      <4> QED
        BY <2>4, <4>1, <4>2
    <3> QED
      BY <3>1, <3>2
  <2>7. y = s
    BY <1>4, <2>3, <2>5, <2>6, SeqEqual
  <2> QED
    BY <2>1, <2>7
<1>8. received' = r /\ conn' = [conn EXCEPT !.snd = v]
  BY <1>3 DEF PeerReceive
<1>9. /\ conn' \in Connection /\ conn'.pending_tasks_ = conn.pending_tasks_
      /\ conn'.session = conn.session /\ conn'.len = conn.len
      /\ conn'.read_coro_pending_ = conn.read_coro_pending_
      /\ conn'.write_coro_pending_ = conn.write_coro_pending_
      /\ conn'.input_buffer_ = conn.input_buffer_ /\ conn'.rcv = conn.rcv
      /\ conn'.sent = conn.sent /\ conn'.state_ = conn.state_
      /\ conn'.fin_out = conn.fin_out /\ conn'.snd = v
      /\ conn'.output_buffer_ = conn.output_buffer_ /\ conn'.removals = conn.removals
      /\ conn'.fin = conn.fin /\ conn'.rst = conn.rst /\ conn'.err = conn.err
      /\ conn'.writing = conn.writing /\ conn'.reading = conn.reading
      /\ conn'.added_to_loop_ = conn.added_to_loop_
  BY <1>2, <1>5, <1>8 DEF Connection
<1>10. Sent(received', conn') = Sent(received, conn)
  <2>1. PICK x : x = <<h>>
    OBVIOUS
  <2>2. x \in Seq(Units)
    BY <1>5, <2>1
  <2>3. (received \o x) \o v = received \o (x \o v)
    BY <1>2, <1>5, <2>2, Regroup
  <2>4. r \o v = received \o s
    BY <1>6, <1>7, <2>1, <2>3, Zenon
  <2> QED
    BY <1>3, <1>8, <1>9, <2>4, Zenon DEF Sent
<1>11. Echoes(Sent(received', conn'), conn')
  <2>1. Rest(conn') = Rest(conn)
    BY <1>9, Zenon DEF Rest
  <2> QED
    BY <1>2, <1>9, <1>10, <2>1, EchoesSame
<1>12. /\ Len(conn'.snd) <= SndCap /\ Len(conn'.input_buffer_) + Len(conn'.rcv) <= conn'.sent
       /\ received' \in Seq(Units) /\ (conn'.err => conn'.rst)
  <2>1. Len(s) <= SndCap
    BY <1>2, <1>3 DEF Fits
  <2>2. Len(v) <= SndCap
    BY <1>4, <1>5, <2>1
  <2> QED
    BY <1>2, <1>6, <1>8, <1>9, <2>2 DEF Fits
<1> QED
  BY <1>1, <1>9, <1>11, <1>12, PeerKeeps

LEMMA NextIInv == IInv /\ [Next]_vars => IInv'
<1> SUFFICES ASSUME IInv, [Next]_vars PROVE IInv'
  OBVIOUS
<1>1. CASE UNCHANGED vars
  <2>1. /\ UNCHANGED <<conn, running>> /\ UNCHANGED registered /\ UNCHANGED force_called
        /\ UNCHANGED received /\ UNCHANGED calls /\ UNCHANGED phase /\ UNCHANGED revents
    BY <1>1 DEF vars
  <2>2. Control' /\ EventsCaused'
    BY <2>1 DEF IInv, Control, EventsCaused
  <2>3. Fresh'
    BY <2>1 DEF IInv, Fresh
  <2>4. (ForceCloses => force_called)'
    BY <2>1 DEF IInv, ForceCloses
  <2>5. (Fits(conn) /\ Coroutine(conn, running) /\ Arms(conn, registered) /\ Caused(conn, force_called))'
    BY <2>1, Zenon DEF IInv
  <2>6. Echoes(Sent(received, conn), conn)'
    BY <2>1, Zenon DEF IInv
  <2> QED
    BY <2>2, <2>3, <2>4, <2>5, <2>6 DEF IInv
<1>2. CASE Poll
  BY <1>2, PollKeeps
<1>3. ASSUME NEW k \in 1..MaxIn, HandleEvents(k) PROVE IInv'
  BY <1>3, HandleEventsKeeps
<1>4. ASSUME NEW k \in 1..MaxIn, RunTask(k) PROVE IInv'
  BY <1>4, RunTaskKeeps
<1>5. CASE RemoveConnection
  BY <1>5, RemoveConnectionKeeps
<1>6. ASSUME NEW t \in Others, Post(t) PROVE IInv'
  BY <1>6, PostKeeps
<1>7. ASSUME NEW t \in Others, NEW op \in {"send", "shutdown", "force_close"}, Call(t, op)
      PROVE  IInv'
  BY <1>7, CallKeeps
<1>8. CASE PeerSend
  BY <1>8, PeerSendKeeps
<1>9. CASE PeerShutdown \/ PeerReset
  BY <1>9, PeerEndKeeps
<1>10. CASE PeerReceive
  BY <1>10, PeerReceiveKeeps
<1> QED
  BY <1>1, <1>2, <1>3, <1>4, <1>5, <1>6, <1>7, <1>8, <1>9, <1>10 DEF Next

\* The inductive invariant: how the coroutine, its task, the flags of the channel,
\* the cause of a close and the place of every unit go together in every state.
THEOREM InductiveInvariant == Spec => []IInv
BY InitIInv, NextIInv, PTL DEF Spec

-----------------------------------------------------------------------------
(* What follows from it *)

LEMMA OpenIsOpenC == ASSUME IInv, Open PROVE OpenC(conn, registered)
<1>1. conn.state_ \in {"kConnecting", "kConnected", "kDisconnecting", "kDisconnected"}
      /\ conn.removals \in Nat /\ registered \in BOOLEAN
  BY DEF IInv, Fits, Connection, Control
<1> QED
  BY <1>1 DEF Open, Closed, OpenC

LEMMA ScheduledIsHas ==
  ASSUME IInv
  PROVE  Scheduled <=> Has(running, Resume) \/ Has(conn.pending_tasks_, Resume)
<1>1. PICK p : p = conn.pending_tasks_
  OBVIOUS
<1>2. running \in Seq(Task) /\ p \in Seq(Task)
  BY <1>1 DEF IInv, Control, Fits, Connection
<1>3. PICK q, m, k : q = running \o p /\ m = Len(running) /\ k = Len(p)
  OBVIOUS
<1>4. /\ m \in Nat /\ k \in Nat
      /\ DOMAIN running = 1..m /\ DOMAIN p = 1..k /\ Len(q) = m + k
      /\ \A i \in 1..(m + k) : q[i] = IF i <= m THEN running[i] ELSE p[i - m]
  BY <1>2, <1>3, LenProperties, ConcatProperties
<1>5. Scheduled <=> \E i \in 1..(m + k) : q[i] = Resume
  BY <1>1, <1>3, <1>4, Zenon DEF Scheduled, Resume
<1>6. ASSUME NEW i \in 1..(m + k), q[i] = Resume
      PROVE  Has(running, Resume) \/ Has(p, Resume)
  <2>1. CASE i <= m
    <3>1. i \in 1..m /\ q[i] = running[i]
      BY <1>4, <2>1
    <3> QED
      BY <1>4, <1>6, <3>1 DEF Has
  <2>2. CASE ~(i <= m)
    <3>1. i - m \in 1..k /\ q[i] = p[i - m]
      BY <1>4, <2>2
    <3> QED
      BY <1>4, <1>6, <3>1 DEF Has
  <2> QED
    BY <2>1, <2>2
<1>7. ASSUME NEW i \in 1..m, running[i] = Resume PROVE \E j \in 1..(m + k) : q[j] = Resume
  <2>1. i \in 1..(m + k) /\ i <= m
    BY <1>4
  <2> QED
    BY <1>4, <1>7, <2>1
<1>8. ASSUME NEW i \in 1..k, p[i] = Resume PROVE \E j \in 1..(m + k) : q[j] = Resume
  <2>1. m + i \in 1..(m + k) /\ ~(m + i <= m) /\ (m + i) - m = i
    BY <1>4
  <2> QED
    BY <1>4, <1>8, <2>1
<1> QED
  BY <1>1, <1>4, <1>5, <1>6, <1>7, <1>8 DEF Has

\* Every variable has its type in every state, the send buffer holds no more than
\* the kernel allows, and a coroutine that waits for its AsyncWrite consumes no
\* more than the input buffer holds: retrieve is never asked for units it has not.
THEOREM TypeCorrect == Spec => []TypeOK
<1>1. IInv => TypeOK
  <2> SUFFICES ASSUME IInv PROVE TypeOK
    OBVIOUS
  <2>1. conn.session = "AsyncWrite" => conn.len \in 1..Len(conn.input_buffer_)
    BY DEF IInv, Coroutine
  <2> QED
    BY <2>1 DEF IInv, Control, Fits, TypeOK
<1> QED
  BY <1>1, InductiveInvariant, PTL

\* The echo is what the peer has sent, in order, with no unit lost or repeated, for
\* every interleaving of direct and buffered writes, sends of other threads and
\* units that arrive during a write; and while the connection is connected, what
\* has not been echoed is in the input buffer or still to be read.
THEOREM EchoKeepsOrder == Spec => []EchoInOrder
<1>1. IInv => EchoInOrder
  <2> SUFFICES ASSUME IInv PROVE EchoInOrder
    OBVIOUS
  <2>1. PICK s : s = Stream
    OBVIOUS
  <2>2. s = Sent(received, conn)
    BY <2>1, Zenon DEF Stream, Sent
  <2>3. PICK n \in 0..conn.sent :
           /\ Grows(s, n)
           /\ conn.state_ \in {"kConnecting", "kConnected"} => From(Rest(conn), n, conn.sent)
    BY <2>2 DEF IInv, Echoes
  <2>4. Echoed = {i \in DOMAIN s : s[i] \in 1..MaxIn}
    BY <2>1, Zenon DEF Echoed
  <2>5. \A i, j \in Echoed : i < j => s[i] < s[j]
    BY <2>3, <2>4 DEF Grows
  <2>6. {s[i] : i \in Echoed} = 1..n
    BY <2>3, <2>4 DEF Grows
  <2>7. ASSUME conn.state_ = "kConnected"
        PROVE  Drop(conn.input_buffer_, conn.len) \o conn.rcv = [i \in 1..conn.sent - n |-> n + i]
    <3>1. PICK r : r = Rest(conn)
      OBVIOUS
    <3>2. r \in Seq(Units)
      <4>1. PICK b, l, v : b = conn.input_buffer_ /\ l = conn.len /\ v = conn.rcv
        OBVIOUS
      <4>2. b \in Seq(Units) /\ v \in Seq(Units) /\ l \in Nat /\ l <= Len(b)
        <5>1. Len(b) \in Nat /\ b \in Seq(Units) /\ v \in Seq(Units)
          BY <4>1 DEF IInv, Fits, Connection
        <5>2. IF conn.session = "AsyncWrite" THEN l \in 1..Len(b) ELSE l = 0
          BY <4>1 DEF IInv, Coroutine
        <5> QED
          BY <5>1, <5>2
      <4>3. Drop(b, l) \in Seq(Units)
        BY <4>2, TakeDrop
      <4>4. r = Drop(b, l) \o v
        BY <3>1, <4>1, Zenon DEF Rest
      <4> QED
        BY <4>2, <4>3, <4>4, ConcatProperties
    <3>3. Len(r) = conn.sent - n /\ \A i \in 1..Len(r) : r[i] = n + i
      BY <2>3, <2>7, <3>1 DEF From
    <3>4. r \in [1..Len(r) -> Units]
      BY <3>2, LenProperties
    <3>5. r = [i \in 1..Len(r) |-> n + i]
      BY <3>3, <3>4
    <3>6. r = [i \in 1..conn.sent - n |-> n + i]
      BY <3>3, <3>5
    <3> QED
      BY <3>1, <3>6, Zenon DEF Rest
  <2> QED
    BY <2>1, <2>5, <2>6, <2>7 DEF EchoInOrder
<1> QED
  BY <1>1, InductiveInvariant, PTL

\* Nothing waits unarmed on an open connection, and a suspended coroutine waits for
\* its event or is scheduled by exactly one task, never both and never neither.
THEOREM NothingWaitsUnarmed == Spec => []Armed
<1>1. IInv => Armed
  <2> SUFFICES ASSUME IInv, Open PROVE
         /\ conn.output_buffer_ # << >> <=> conn.writing
         /\ conn.read_coro_pending_ => conn.reading /\ conn.input_buffer_ = << >>
         /\ conn.write_coro_pending_ => conn.writing
         /\ conn.session = "AsyncRead" => (conn.read_coro_pending_ # Scheduled)
         /\ conn.session = "AsyncWrite" => (conn.write_coro_pending_ # Scheduled)
    BY Zenon DEF Armed
  <2>1. /\ conn.output_buffer_ # << >> <=> conn.writing
        /\ conn.read_coro_pending_ => conn.reading
        /\ conn.write_coro_pending_ => conn.writing
    BY OpenIsOpenC DEF IInv, Arms
  <2>2. /\ conn.read_coro_pending_ => conn.input_buffer_ = << >>
        /\ conn.session = "AsyncRead" => (conn.read_coro_pending_ <=> ~Scheduled)
        /\ conn.session = "AsyncWrite" => (conn.write_coro_pending_ <=> ~Scheduled)
    BY ScheduledIsHas DEF IInv, Coroutine
  <2>3. /\ conn.read_coro_pending_ \in BOOLEAN /\ conn.write_coro_pending_ \in BOOLEAN
        /\ Scheduled \in BOOLEAN
    BY DEF IInv, Fits, Connection, Scheduled
  <2> QED
    BY <2>1, <2>2, <2>3
<1> QED
  BY <1>1, InductiveInvariant, PTL

\* The FIN of a graceful shutdown comes after every unit accepted for sending, and
\* a connection is closed only for a cause.
THEOREM FinComesLast == Spec => []FinAfterData
<1>1. IInv => FinAfterData
  BY OpenIsOpenC DEF IInv, Arms, Caused, Cause, FinAfterData
<1> QED
  BY <1>1, InductiveInvariant, PTL
====
