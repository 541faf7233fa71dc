----------------------------- MODULE EventLoop ------------------------------
(***************************************************************************)
(* lightnet::EventLoop: one thread runs loop() (poll, dispatch, timers,    *)
(* pending tasks) while other threads call queue_in_loop, run_in_loop and  *)
(* quit on it.  pc is the place of the loop thread in loop(); every step   *)
(* between two accesses to shared state is an action of its own.           *)
(*                                                                         *)
(* Left out: loop() is entered once (no program of the repository enters   *)
(* it again); a loop-thread queue_in_loop is one step, because between the *)
(* push and the eventfd write the loop thread reads nothing that others    *)
(* write.  The eventfd counter is abstracted to "is it non-zero".          *)
(***************************************************************************)
EXTENDS Naturals, Sequences, Functions

CONSTANTS Threads,             \* threads other than the loop thread
          Tasks,               \* tasks, each posted at most once
          Channels,            \* registered fds other than the eventfd
          Wakeup               \* the eventfd's channel, wakeup_channel_

ASSUME EventLoopAssumption == Wakeup \notin Channels

VARIABLES pc,                      \* where the loop thread is
          quit_,                   \* exit requested
          calling_pending_tasks_,  \* do_pending_tasks is running a batch
          wakeup_fd_,              \* the eventfd counter is non-zero
          pending_tasks_,          \* posted, not yet swapped out
          tasks,                   \* rest of the batch being run
          in_callback,             \* user code is running on the loop thread
          active,                  \* polled events not dispatched yet
          ready,                   \* fds the kernel holds readable
          ran,                     \* history: tasks started, in order
          tpc,                     \* other threads: idle, or about to write the eventfd
          quit_by                  \* history: who called quit() (at most one call)

loop_vars   == <<pc, in_callback, active>>
queue_vars  == <<pending_tasks_, tasks, calling_pending_tasks_, ran>>
wake_vars   == <<wakeup_fd_, ready, tpc>>
quit_vars   == <<quit_, quit_by>>
vars        == <<loop_vars, queue_vars, wake_vars, quit_vars>>

looping_ == pc \notin {"start", "exited"}

\* is_in_loop_thread() holds only on the thread that entered loop(); Threads
\* are the others, and before loop() thread_id_ is that of no thread.

Fresh(k) == k \notin Range(tasks) \cup Range(pending_tasks_) \cup Range(ran)

\* The constructor.
Init ==
    /\ pc = "start"
    /\ quit_ = FALSE
    /\ calling_pending_tasks_ = FALSE
    /\ wakeup_fd_ = FALSE
    /\ pending_tasks_ = << >>
    /\ tasks = << >>
    /\ in_callback = FALSE
    /\ active = {}
    /\ ready = {}
    /\ ran = << >>
    /\ tpc = [t \in Threads |-> "idle"]
    /\ quit_by = "none"

-----------------------------------------------------------------------------
(* The loop thread *)

\* loop() up to the while: binds the thread, registers the eventfd and
\* clears quit_, whatever it was.
EnterLoop ==
    /\ pc = "start"
    /\ pc' = "check"
    /\ quit_' = FALSE
    /\ UNCHANGED <<in_callback, active, queue_vars, wake_vars, quit_by>>

CheckQuit ==
    /\ pc = "check"
    /\ pc' = IF quit_ THEN "exited" ELSE "poll"
    /\ UNCHANGED <<in_callback, active, queue_vars, wake_vars, quit_vars>>

\* What epoll_wait may report: level-triggered, so everything still readable.
ReadySet == ready \cup (IF wakeup_fd_ THEN {Wakeup} ELSE {})

\* EpollPoller::poll returning events: some of the ready ones, because the
\* event array (16 entries, doubled when it is full) may be too short for all.
PollReady ==
    /\ pc = "poll"
    /\ active' \in SUBSET ReadySet \ {{}}
    /\ pc' = "dispatch"
    /\ UNCHANGED <<in_callback, queue_vars, wake_vars, quit_vars>>

\* EpollPoller::poll returning nothing: next_timeout_ms() (1000 at most) is over.
PollTimeout ==
    /\ pc = "poll"
    /\ ReadySet = {}
    /\ pc' = "dispatch"
    /\ UNCHANGED <<in_callback, active, queue_vars, wake_vars, quit_vars>>

\* handle_event of the eventfd's channel: handle_read_wakeup reads the counter.
handle_read_wakeup ==
    /\ pc = "dispatch" /\ ~in_callback
    /\ Wakeup \in active
    /\ active' = active \ {Wakeup}
    /\ wakeup_fd_' = FALSE
    /\ UNCHANGED <<pc, in_callback, queue_vars, ready, tpc, quit_vars>>

\* handle_event of another channel: its callback drains the fd and runs user code.
BeginCallback(c) ==
    /\ pc = "dispatch" /\ ~in_callback
    /\ c \in active
    /\ active' = active \ {c}
    /\ ready' = ready \ {c}
    /\ in_callback' = TRUE
    /\ UNCHANGED <<pc, queue_vars, wakeup_fd_, tpc, quit_vars>>

\* A channel callback, timer callback or task returns.
EndCallback ==
    /\ in_callback
    /\ in_callback' = FALSE
    /\ UNCHANGED <<pc, active, queue_vars, wake_vars, quit_vars>>

\* All events are dispatched; tick() runs the expired timers' callbacks, if any
\* (module TimerWheel has the details).
Tick ==
    /\ pc = "dispatch" /\ ~in_callback
    /\ active = {}
    /\ pc' = "tick"
    /\ in_callback' \in BOOLEAN
    /\ UNCHANGED <<active, queue_vars, wake_vars, quit_vars>>

\* do_pending_tasks takes the whole queue under the lock.
SwapPending ==
    /\ pc = "tick" /\ ~in_callback
    /\ pc' = "pending"
    /\ calling_pending_tasks_' = TRUE
    /\ tasks' = pending_tasks_
    /\ pending_tasks_' = << >>
    /\ UNCHANGED <<in_callback, active, ran, wake_vars, quit_vars>>

\* Mutant: the batch is run from its newest task.
RunTask_m ==
    /\ pc = "pending" /\ ~in_callback
    /\ tasks # << >>
    /\ ran' = Append(ran, tasks[Len(tasks)])
    /\ tasks' = SubSeq(tasks, 1, Len(tasks) - 1)
    /\ in_callback' = TRUE
    /\ UNCHANGED <<pc, active, pending_tasks_,
                   calling_pending_tasks_, wake_vars, quit_vars>>

\* The next task of the batch starts, outside the lock.
RunTask ==
    /\ pc = "pending" /\ ~in_callback
    /\ tasks # << >>
    /\ ran' = Append(ran, Head(tasks))
    /\ tasks' = Tail(tasks)
    /\ in_callback' = TRUE
    /\ UNCHANGED <<pc, active, pending_tasks_,
                   calling_pending_tasks_, wake_vars, quit_vars>>

\* Mutant: calling_pending_tasks_ stays set.
FinishPending_m ==
    /\ pc = "pending" /\ ~in_callback
    /\ tasks = << >>
    /\ pc' = "check"
    /\ UNCHANGED <<in_callback, active, queue_vars, wake_vars, quit_vars>>

FinishPending ==
    /\ pc = "pending" /\ ~in_callback
    /\ tasks = << >>
    /\ calling_pending_tasks_' = FALSE
    /\ pc' = "check"
    /\ UNCHANGED <<in_callback, active, pending_tasks_, tasks, ran,
                   wake_vars, quit_vars>>

-----------------------------------------------------------------------------
(* Posting tasks and quitting *)

\* Mutant: a task that posts a task does not wake the loop.
needs_wakeup_m(in_loop) == ~in_loop

\* The condition under which queue_in_loop writes the eventfd.
needs_wakeup(in_loop) == ~in_loop \/ calling_pending_tasks_

\* queue_in_loop on another thread (run_in_loop and schedule_coro come to the
\* same there): the push under the lock; wakeup() is the thread's next step.
queue_in_loop(t, k) ==
    /\ tpc[t] = "idle"
    /\ Fresh(k)
    /\ pending_tasks_' = Append(pending_tasks_, k)
    /\ tpc' = [tpc EXCEPT ![t] = IF needs_wakeup(FALSE) THEN "waking" ELSE "idle"]
    /\ UNCHANGED <<loop_vars, tasks, calling_pending_tasks_, ran, wakeup_fd_,
                   ready, quit_vars>>

wakeup(t) ==
    /\ tpc[t] = "waking"
    /\ tpc' = [tpc EXCEPT ![t] = "idle"]
    /\ wakeup_fd_' = TRUE
    /\ UNCHANGED <<loop_vars, queue_vars, ready, quit_vars>>

\* queue_in_loop (or schedule_coro) from user code on the loop thread.
queue_from_loop(k) ==
    /\ in_callback
    /\ Fresh(k)
    /\ pending_tasks_' = Append(pending_tasks_, k)
    /\ wakeup_fd_' = (wakeup_fd_ \/ needs_wakeup(TRUE))
    /\ UNCHANGED <<loop_vars, tasks, calling_pending_tasks_, ran, ready, tpc, quit_vars>>

\* run_in_loop from user code on the loop thread: called at once.
run_in_loop(k) ==
    /\ in_callback
    /\ Fresh(k)
    /\ ran' = Append(ran, k)
    /\ UNCHANGED <<loop_vars, pending_tasks_, tasks, calling_pending_tasks_,
                   wake_vars, quit_vars>>

\* Mutant: quit() never wakes the loop.
quit_m(t) ==
    /\ tpc[t] = "idle" /\ quit_by = "none"
    /\ quit_' = TRUE
    /\ quit_by' = "other"
    /\ UNCHANGED <<loop_vars, queue_vars, wake_vars>>

\* quit() on another thread, or on any thread before loop() has bound one.
quit(t) ==
    /\ tpc[t] = "idle" /\ quit_by = "none"
    /\ quit_' = TRUE
    /\ quit_by' = "other"
    /\ tpc' = [tpc EXCEPT ![t] = "waking"]
    /\ UNCHANGED <<loop_vars, queue_vars, wakeup_fd_, ready>>

\* quit() on the loop thread: from a callback, or from a signal handler that
\* interrupts the loop anywhere.  If epoll_wait was blocked it returns EINTR;
\* a signal just before the call leaves the wait undisturbed.
quit_from_loop ==
    /\ looping_ /\ quit_by = "none"
    /\ quit_' = TRUE
    /\ quit_by' = "loop"
    /\ \/ UNCHANGED pc
       \/ pc = "poll" /\ ReadySet = {} /\ pc' = "dispatch"
    /\ UNCHANGED <<in_callback, active, queue_vars, wake_vars>>

\* The kernel: data arrives on a registered fd.
FdReady(c) ==
    /\ c \notin ready
    /\ ready' = ready \cup {c}
    /\ UNCHANGED <<loop_vars, queue_vars, wakeup_fd_, tpc, quit_vars>>

-----------------------------------------------------------------------------
\* The steps the loop thread takes by itself, other than a poll timeout.
Advance ==
    \/ EnterLoop \/ CheckQuit \/ PollReady \/ handle_read_wakeup
    \/ \E c \in Channels : BeginCallback(c)
    \/ EndCallback \/ Tick \/ SwapPending \/ RunTask \/ FinishPending

Next ==
    \/ Advance
    \/ PollTimeout
    \/ \E k \in Tasks : queue_from_loop(k) \/ run_in_loop(k)
    \/ \E t \in Threads, k \in Tasks : queue_in_loop(t, k)
    \/ \E t \in Threads : wakeup(t) \/ quit(t)
    \/ quit_from_loop
    \/ \E c \in Channels : FdReady(c)

Spec == Init /\ [][Next]_vars

\* Threads are scheduled and callbacks return; polls may still wait for ever.
PromptSpec == Spec /\ WF_vars(Advance) /\ \A t \in Threads : WF_vars(wakeup(t))

\* Moreover the poll timeout, which next_timeout_ms() caps at 1000 ms, expires.
FairSpec == PromptSpec /\ WF_vars(PollTimeout)

-----------------------------------------------------------------------------
(* Properties *)

\* Types, and the phase discipline of loop(): calling_pending_tasks_ is set
\* exactly while a batch is run, a batch exists only then, undispatched events
\* only during dispatch, and user code runs only in the three phases that call it.
TypeOK ==
    /\ pc \in {"start", "check", "poll", "dispatch", "tick", "pending", "exited"}
    /\ quit_ \in BOOLEAN
    /\ calling_pending_tasks_ = (pc = "pending")
    /\ wakeup_fd_ \in BOOLEAN
    /\ pending_tasks_ \in Seq(Tasks)
    /\ tasks \in Seq(Tasks)
    /\ tasks # << >> => pc = "pending"
    /\ in_callback \in BOOLEAN
    /\ in_callback => pc \in {"dispatch", "tick", "pending"}
    /\ active \subseteq Channels \cup {Wakeup}
    /\ active # {} => pc = "dispatch"
    /\ ready \subseteq Channels
    /\ ran \in Seq(Tasks)
    /\ tpc \in [Threads -> {"idle", "waking"}]
    /\ quit_by \in {"none", "other", "loop"}

\* queue_in_loop's wake-up condition is enough: whenever a task is pending and
\* this iteration will not take it any more, the eventfd is readable or a
\* poster is about to write it, so that the coming poll cannot block on it.
NoLostWakeup ==
    pc \in {"start", "check", "poll", "pending"} /\ pending_tasks_ # << >>
        => wakeup_fd_ \/ \E t \in Threads : tpc[t] = "waking"

\* The loop is the serial executor of module TaskExecutor.
Executor == INSTANCE TaskExecutor WITH
    queue <- tasks \o pending_tasks_, done <- ran, closed <- (pc = "exited")

ExecutorSpec == Executor!Spec

Queued(k) == k \in Range(tasks) \cup Range(pending_tasks_)

\* A posted task starts, or the loop has exited, even if no poll ever times
\* out: a task is never left to the 1000 ms timeout.
PromptExecution ==
    \A k \in Tasks : Queued(k) ~> (k \in Range(ran) \/ pc = "exited")

\* quit() while the loop runs ends it: on another thread, without a poll timeout;
\* on the loop's own, at the latest when the poll in progress times out, since a
\* signal that hits the loop thread just before epoll_wait is noticed only then,
\* and next_timeout_ms() never waits for ever.
QuitExits ==
    /\ (looping_ /\ quit_ /\ quit_by = "other") ~> (pc = "exited")
    /\ WF_vars(PollTimeout) => ((looping_ /\ quit_) ~> (pc = "exited"))
=============================================================================
