---------------------------- MODULE TaskExecutor ----------------------------
(***************************************************************************)
(* What EventLoop promises to the code that posts work to it: a serial     *)
(* executor.  Posted tasks wait in one FIFO queue, each is started at most *)
(* once and in the order of posting; a task handed to run_in_loop on the   *)
(* loop's own thread starts at once, ahead of the queue; once the executor *)
(* is closed nothing starts any more and the queued tasks stay behind.     *)
(***************************************************************************)
EXTENDS Sequences, Functions

CONSTANT Tasks      \* the tasks that may be posted, each at most once

VARIABLES queue,    \* tasks posted and not started, oldest first
          done,     \* tasks started, in the order in which they were
          closed    \* the executor has stopped

vars == <<queue, done, closed>>

Fresh(k) == k \notin Range(queue) \cup Range(done)

Init == queue = << >> /\ done = << >> /\ closed = FALSE

Submit(k) ==
    /\ Fresh(k)
    /\ queue' = Append(queue, k)
    /\ UNCHANGED <<done, closed>>

RunNext ==
    /\ ~closed
    /\ queue # << >>
    /\ done' = Append(done, Head(queue))
    /\ queue' = Tail(queue)
    /\ UNCHANGED closed

RunInline(k) ==
    /\ ~closed
    /\ Fresh(k)
    /\ done' = Append(done, k)
    /\ UNCHANGED <<queue, closed>>

Close ==
    /\ ~closed
    /\ closed' = TRUE
    /\ UNCHANGED <<queue, done>>

Next ==
    \/ \E k \in Tasks : Submit(k) \/ RunInline(k)
    \/ RunNext
    \/ Close

Spec == Init /\ [][Next]_vars
=============================================================================
