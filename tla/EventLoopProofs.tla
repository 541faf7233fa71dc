--------------------------- MODULE EventLoopProofs --------------------------
(***************************************************************************)
(* For any numbers of threads, tasks and channels: the phase discipline of *)
(* loop(), the absence of lost wake-ups, and that the loop implements the  *)
(* serial executor; and that the coroutines of one loop keep their frames  *)
(* (module Scheduler).                                                     *)
(***************************************************************************)
EXTENDS EventLoop, SequenceTheorems, TLAPS

LEMMA InitTypeOK == Init => TypeOK
<1> SUFFICES ASSUME Init PROVE TypeOK
  OBVIOUS
<1>1. tpc \in [Threads -> {"idle", "waking"}]
  BY DEF Init
<1>2. in_callback = FALSE
  BY DEF Init
<1>3. calling_pending_tasks_ = (pc = "pending")
  BY DEF Init
<1>4. /\ pending_tasks_ \in Seq(Tasks) /\ tasks \in Seq(Tasks) /\ ran \in Seq(Tasks)
      /\ tasks = << >>
  BY DEF Init
<1>5. active \subseteq Channels \cup {Wakeup} /\ ready \subseteq Channels /\ active = {}
  BY DEF Init
<1> QED
  BY <1>1, <1>2, <1>3, <1>4, <1>5 DEF Init, TypeOK

LEMMA NextTypeOK == TypeOK /\ [Next]_vars => TypeOK'
<1> SUFFICES ASSUME TypeOK, [Next]_vars PROVE TypeOK'
  OBVIOUS
<1> USE DEF TypeOK, loop_vars, queue_vars, wake_vars, quit_vars
<1>1. CASE EnterLoop
  BY <1>1 DEF EnterLoop
<1>2. CASE CheckQuit
  BY <1>2 DEF CheckQuit
<1>3. CASE PollReady
  <2>1. active' \subseteq Channels \cup {Wakeup}
    BY <1>3 DEF PollReady, ReadySet
  <2> QED
    BY <1>3, <2>1 DEF PollReady
<1>4. CASE handle_read_wakeup
  BY <1>4 DEF handle_read_wakeup
<1>5. ASSUME NEW c \in Channels, BeginCallback(c) PROVE TypeOK'
  BY <1>5 DEF BeginCallback
<1>6. CASE EndCallback
  BY <1>6 DEF EndCallback
<1>7. CASE Tick
  BY <1>7 DEF Tick
<1>8. CASE SwapPending
  BY <1>8 DEF SwapPending
<1>9. CASE RunTask
  BY <1>9 DEF RunTask
<1>10. CASE FinishPending
  BY <1>10 DEF FinishPending
<1>11. CASE PollTimeout
  BY <1>11 DEF PollTimeout
<1>12. ASSUME NEW k \in Tasks, queue_from_loop(k) PROVE TypeOK'
  BY <1>12 DEF queue_from_loop, needs_wakeup
<1>13. ASSUME NEW k \in Tasks, run_in_loop(k) PROVE TypeOK'
  BY <1>13 DEF run_in_loop
<1>14. ASSUME NEW t \in Threads, NEW k \in Tasks, queue_in_loop(t, k) PROVE TypeOK'
  BY <1>14 DEF queue_in_loop
<1>15. ASSUME NEW t \in Threads, wakeup(t) PROVE TypeOK'
  BY <1>15 DEF wakeup
<1>16. ASSUME NEW t \in Threads, quit(t) PROVE TypeOK'
  BY <1>16 DEF quit
<1>17. CASE quit_from_loop
  BY <1>17 DEF quit_from_loop, looping_
<1>18. ASSUME NEW c \in Channels, FdReady(c) PROVE TypeOK'
  BY <1>18 DEF FdReady
<1>19. CASE UNCHANGED vars
  BY <1>19 DEF vars
<1> QED
  BY <1>1, <1>2, <1>3, <1>4, <1>5, <1>6, <1>7, <1>8, <1>9, <1>10, <1>11, <1>12,
     <1>13, <1>14, <1>15, <1>16, <1>17, <1>18, <1>19 DEF Next, Advance

\* The phase discipline of loop() (TypeOK): in particular calling_pending_tasks_,
\* which decides whether the loop thread wakes itself, is set exactly while a
\* batch is being run.
THEOREM TypeCorrect == Spec => []TypeOK
<1>1. Init => TypeOK
  BY InitTypeOK
<1>2. TypeOK /\ [Next]_vars => TypeOK'
  BY NextTypeOK
<1> QED
  BY <1>1, <1>2, PTL DEF Spec

-----------------------------------------------------------------------------
LEMMA NextNoLostWakeup == TypeOK /\ NoLostWakeup /\ [Next]_vars => NoLostWakeup'
<1> SUFFICES ASSUME TypeOK, NoLostWakeup, [Next]_vars PROVE NoLostWakeup'
  OBVIOUS
<1> USE DEF TypeOK, NoLostWakeup, loop_vars, queue_vars, wake_vars, quit_vars
<1>1. CASE EnterLoop
  BY <1>1 DEF EnterLoop
<1>2. CASE CheckQuit
  BY <1>2 DEF CheckQuit
<1>3. CASE PollReady
  BY <1>3 DEF PollReady
<1>4. CASE handle_read_wakeup
  BY <1>4 DEF handle_read_wakeup
<1>5. ASSUME NEW c \in Channels, BeginCallback(c) PROVE NoLostWakeup'
  BY <1>5 DEF BeginCallback
<1>6. CASE EndCallback
  BY <1>6 DEF EndCallback
<1>7. CASE Tick
  BY <1>7 DEF Tick
<1>8. CASE SwapPending
  BY <1>8 DEF SwapPending
<1>9. CASE RunTask
  BY <1>9 DEF RunTask
<1>10. CASE FinishPending
  BY <1>10 DEF FinishPending
<1>11. CASE PollTimeout
  BY <1>11 DEF PollTimeout
<1>12. ASSUME NEW k \in Tasks, queue_from_loop(k) PROVE NoLostWakeup'
  BY <1>12 DEF queue_from_loop, needs_wakeup
<1>13. ASSUME NEW k \in Tasks, run_in_loop(k) PROVE NoLostWakeup'
  BY <1>13 DEF run_in_loop
<1>14. ASSUME NEW t \in Threads, NEW k \in Tasks, queue_in_loop(t, k) PROVE NoLostWakeup'
  <2>1. tpc'[t] = "waking"
    BY <1>14 DEF queue_in_loop, needs_wakeup
  <2> QED
    BY <2>1
<1>15. ASSUME NEW t \in Threads, wakeup(t) PROVE NoLostWakeup'
  BY <1>15 DEF wakeup
<1>16. ASSUME NEW t \in Threads, quit(t) PROVE NoLostWakeup'
  <2>1. tpc'[t] = "waking"
    BY <1>16 DEF quit
  <2> QED
    BY <2>1
<1>17. CASE quit_from_loop
  BY <1>17 DEF quit_from_loop
<1>18. ASSUME NEW c \in Channels, FdReady(c) PROVE NoLostWakeup'
  BY <1>18 DEF FdReady
<1>19. CASE UNCHANGED vars
  BY <1>19 DEF vars
<1> QED
  BY <1>1, <1>2, <1>3, <1>4, <1>5, <1>6, <1>7, <1>8, <1>9, <1>10, <1>11, <1>12,
     <1>13, <1>14, <1>15, <1>16, <1>17, <1>18, <1>19 DEF Next, Advance

\* No poll blocks on a pending task whose poster has finished queue_in_loop.
THEOREM WakeupsSuffice == Spec => []NoLostWakeup
<1>1. Init => NoLostWakeup
  BY DEF Init, NoLostWakeup
<1>2. TypeOK /\ NoLostWakeup /\ [Next]_vars => NoLostWakeup'
  BY NextNoLostWakeup
<1> QED
  BY <1>1, <1>2, TypeCorrect, PTL DEF Spec
-----------------------------------------------------------------------------
(* Facts about sequences that the refinement rests on. *)

LEMMA ConcatAppend ==
  ASSUME NEW S, NEW a \in Seq(S), NEW b \in Seq(S), NEW e \in S
  PROVE  a \o Append(b, e) = Append(a \o b, e)
  OBVIOUS

LEMMA ConcatHeadTail ==
  ASSUME NEW S, NEW a \in Seq(S), NEW b \in Seq(S), a # << >>
  PROVE  a \o b # << >> /\ Head(a \o b) = Head(a) /\ Tail(a \o b) = Tail(a) \o b
  OBVIOUS

LEMMA FreshImplements ==
  ASSUME TypeOK, NEW k, Fresh(k) PROVE Executor!Fresh(k)
<1>1. tasks \in Seq(Tasks) /\ pending_tasks_ \in Seq(Tasks)
  BY DEF TypeOK
<1>2. Range(tasks \o pending_tasks_) = Range(tasks) \cup Range(pending_tasks_)
  BY <1>1, RangeConcatenation
<1> QED
  BY <1>2 DEF Fresh, Executor!Fresh, Range, Executor!Range

\* Every step of the loop and of the threads that use it is a step of the
\* serial executor or leaves it unchanged.
LEMMA NextImplements == TypeOK /\ [Next]_vars => [Executor!Next]_(Executor!vars)
<1> SUFFICES ASSUME TypeOK, [Next]_vars PROVE [Executor!Next]_(Executor!vars)
  OBVIOUS
<1> USE DEF loop_vars, queue_vars, wake_vars, quit_vars
<1>1. CASE EnterLoop
  BY <1>1 DEF EnterLoop, Executor!vars
<1>2. CASE CheckQuit
  BY <1>2 DEF CheckQuit, Executor!vars, Executor!Next, Executor!Close
<1>3. CASE PollReady
  BY <1>3 DEF PollReady, Executor!vars
<1>4. CASE handle_read_wakeup
  BY <1>4 DEF handle_read_wakeup, Executor!vars
<1>5. ASSUME NEW c \in Channels, BeginCallback(c) PROVE UNCHANGED Executor!vars
  BY <1>5 DEF BeginCallback, Executor!vars
<1>6. CASE EndCallback
  BY <1>6 DEF EndCallback, Executor!vars
<1>7. CASE Tick
  BY <1>7 DEF Tick, Executor!vars
<1>8. CASE SwapPending
  <2>1. tasks = << >> /\ pending_tasks_ \in Seq(Tasks)
    BY <1>8 DEF SwapPending, TypeOK
  <2>2. tasks' \o pending_tasks_' = tasks \o pending_tasks_
    BY <1>8, <2>1, ConcatEmptySeq DEF SwapPending
  <2> QED
    BY <1>8, <2>2 DEF SwapPending, Executor!vars
<1>9. CASE RunTask
  <2>1. /\ tasks \o pending_tasks_ # << >>
        /\ ran' = Append(ran, Head(tasks \o pending_tasks_))
        /\ tasks' \o pending_tasks_' = Tail(tasks \o pending_tasks_)
    BY <1>9, ConcatHeadTail DEF RunTask, TypeOK
  <2> QED
    BY <1>9, <2>1 DEF RunTask, Executor!Next, Executor!RunNext
<1>10. CASE FinishPending
  BY <1>10 DEF FinishPending, Executor!vars
<1>11. CASE PollTimeout
  BY <1>11 DEF PollTimeout, Executor!vars
<1>12. ASSUME NEW k \in Tasks, queue_from_loop(k) PROVE Executor!Next
  <2>1. Executor!Fresh(k)
    BY <1>12, FreshImplements DEF queue_from_loop
  <2>2. tasks' \o pending_tasks_' = Append(tasks \o pending_tasks_, k)
    BY <1>12, ConcatAppend DEF queue_from_loop, TypeOK
  <2> QED
    BY <1>12, <2>1, <2>2 DEF queue_from_loop, Executor!Next, Executor!Submit
<1>13. ASSUME NEW k \in Tasks, run_in_loop(k) PROVE Executor!Next
  <2>1. Executor!Fresh(k) /\ pc # "exited"
    BY <1>13, FreshImplements DEF run_in_loop, TypeOK
  <2> QED
    BY <1>13, <2>1 DEF run_in_loop, Executor!Next, Executor!RunInline
<1>14. ASSUME NEW t \in Threads, NEW k \in Tasks, queue_in_loop(t, k) PROVE Executor!Next
  <2>1. Executor!Fresh(k)
    BY <1>14, FreshImplements DEF queue_in_loop
  <2>2. tasks' \o pending_tasks_' = Append(tasks \o pending_tasks_, k)
    BY <1>14, ConcatAppend DEF queue_in_loop, TypeOK
  <2> QED
    BY <1>14, <2>1, <2>2 DEF queue_in_loop, Executor!Next, Executor!Submit
<1>15. ASSUME NEW t \in Threads, wakeup(t) PROVE UNCHANGED Executor!vars
  BY <1>15 DEF wakeup, Executor!vars
<1>16. ASSUME NEW t \in Threads, quit(t) PROVE UNCHANGED Executor!vars
  BY <1>16 DEF quit, Executor!vars
<1>17. CASE quit_from_loop
  BY <1>17 DEF quit_from_loop, looping_, Executor!vars
<1>18. ASSUME NEW c \in Channels, FdReady(c) PROVE UNCHANGED Executor!vars
  BY <1>18 DEF FdReady, Executor!vars
<1>19. CASE UNCHANGED vars
  BY <1>19 DEF vars, Executor!vars
<1> QED
  BY <1>1, <1>2, <1>3, <1>4, <1>5, <1>6, <1>7, <1>8, <1>9, <1>10, <1>11, <1>12,
     <1>13, <1>14, <1>15, <1>16, <1>17, <1>18, <1>19 DEF Next, Advance

\* EventLoop implements the serial FIFO executor of TaskExecutor.
THEOREM LoopImplementsExecutor == Spec => ExecutorSpec
<1>1. Init => Executor!Init
  BY DEF Init, Executor!Init
<1>2. TypeOK /\ [Next]_vars => [Executor!Next]_(Executor!vars)
  BY NextImplements
<1> QED
  BY <1>1, <1>2, TypeCorrect, PTL DEF Spec, ExecutorSpec, Executor!Spec

-----------------------------------------------------------------------------
(* The frames of the coroutines that the loops run: module Scheduler.      *)

CONSTANTS Loops, Coros

VARIABLES alive_tasks, home, coro, destroyed, thread

Frames == INSTANCE Scheduler WITH Tasks <- Coros

\* At most one loop runs coroutines: no I/O threads, or one.
OneLoop == \A l, m \in Loops : l = m

Places == {"poll", "start", "resumed", "final_suspend", "prune", "erase"}
States == {"none", "created", "running", "suspended", "queued", "final", "returned"}

FrameThread ==
    [at : Places, task : Coros \cup {Frames!NoTask}, owns : BOOLEAN, kept : SUBSET Coros]

FramesTyped ==
    /\ alive_tasks \subseteq Coros /\ destroyed \subseteq Coros
    /\ coro \in [Coros -> States]
    /\ thread \in [Loops -> FrameThread]

\* The thread is in the coroutine that it has started or resumed.
Runs ==
    \A l \in Loops :
       /\ thread[l].at \in {"start", "resumed", "final_suspend"} => thread[l].task \in Coros
       /\ thread[l].at = "start" => coro[thread[l].task] = "created"
       /\ thread[l].at = "resumed" => coro[thread[l].task] = "running"
       /\ thread[l].at = "final_suspend" => coro[thread[l].task] = "final"

\* A coroutine that has not returned is in the vector, and the prune under way keeps it:
\* what is done() without having returned is in final_suspend, and no prune is then.
Alive ==
    \A t \in Coros : coro[t] \notin {"none", "returned"} =>
       /\ t \in alive_tasks
       /\ \A l \in Loops :
             /\ thread[l].at = "erase" => t \in thread[l].kept
             /\ coro[t] = "final" => thread[l].at = "final_suspend" /\ thread[l].task = t

FramesInv == FramesTyped /\ Runs /\ Alive /\ Frames!FrameKept

\* What is destroyed when alive_tasks loses nobody who has not returned.
LEMMA OrphansReturned ==
    ASSUME Frames!FrameKept, destroyed \subseteq Coros, Frames!Destroys, coro' \in [Coros -> States],
           \A t \in Coros : coro[t] = "returned" => coro'[t] = "returned",
           \A t \in Coros : coro'[t] \notin {"none", "returned"} => t \in alive_tasks'
    PROVE  Frames!FrameKept' /\ destroyed' \subseteq Coros
<1>1. Frames!Orphans \subseteq Coros /\ \A t \in Frames!Orphans : coro'[t] = "returned"
  BY DEF Frames!Orphans
<1>2. \A t \in destroyed : coro'[t] = "returned"
  BY DEF Frames!FrameKept
<1> QED
  BY <1>1, <1>2 DEF Frames!FrameKept, Frames!Destroys


\* start: the coroutine that spawn has created runs.
LEMMA StartKeeps ==
    ASSUME OneLoop, FramesInv, NEW l \in Loops, Frames!start(l)
    PROVE  FramesInv'
<1> USE DEF FramesInv
<1>1. \A m \in Loops : m = l
  BY DEF OneLoop
<1>2. FramesTyped'
  BY DEF FramesTyped, FrameThread, Places, States, Frames!start
<1>3. Runs' /\ Alive'
  BY <1>1, <1>2 DEF FramesTyped, FrameThread, Runs, Alive, Frames!start
<1>4. Frames!FrameKept'
  BY DEF FramesTyped, Runs, Frames!FrameKept, Frames!start
<1> QED
  BY <1>2, <1>3, <1>4

\* resume: the handle that schedule_coro has queued.
LEMMA ResumeKeeps ==
    ASSUME OneLoop, FramesInv, NEW l \in Loops, NEW t \in Coros, Frames!resume(l, t)
    PROVE  FramesInv'
<1> USE DEF FramesInv
<1>1. \A m \in Loops : m = l
  BY DEF OneLoop
<1>2. FramesTyped'
  BY DEF FramesTyped, FrameThread, Places, States, Frames!resume, Frames!Polls
<1>3. Runs' /\ Alive'
  BY <1>1, <1>2 DEF FramesTyped, FrameThread, Runs, Alive, Frames!resume, Frames!Polls
<1>4. Frames!FrameKept'
  BY DEF FramesTyped, Runs, Frames!FrameKept, Frames!resume, Frames!Polls
<1> QED
  BY <1>2, <1>3, <1>4

\* The coroutine suspends, or comes to final_suspend.
LEMMA SuspendsKeeps ==
    ASSUME OneLoop, FramesInv, NEW l \in Loops, Frames!Suspends(l)
    PROVE  FramesInv'
<1> USE DEF FramesInv
<1>1. \A m \in Loops : m = l
  BY DEF OneLoop
<1>2. FramesTyped'
  BY DEF FramesTyped, FrameThread, Places, States, Frames!Suspends
<1>3. Runs' /\ Alive'
  <2>1. /\ thread[l].at = "resumed" /\ thread[l].task \in Coros /\ alive_tasks' = alive_tasks
        /\ coro[thread[l].task] = "running"
    BY DEF Runs, Frames!Suspends
  <2>2. \/ /\ coro' = [coro EXCEPT ![thread[l].task] = "suspended"]
           /\ thread'[l].at = "prune"
        \/ /\ coro' = [coro EXCEPT ![thread[l].task] = "final"]
           /\ thread'[l].at = "final_suspend" /\ thread'[l].task = thread[l].task
    <3>1. DOMAIN thread = Loops /\ DOMAIN thread[l] = {"at", "task", "owns", "kept"}
      BY DEF FramesTyped, FrameThread
    <3> QED
      BY <3>1 DEF Frames!Suspends
  <2>3. Runs'
    BY <1>1, <2>1, <2>2 DEF FramesTyped, Runs
  <2>4. Alive'
    BY <1>1, <2>1, <2>2 DEF FramesTyped, Alive
  <2> QED
    BY <2>3, <2>4
<1>4. Frames!FrameKept'
  BY DEF FramesTyped, Runs, Frames!FrameKept, Frames!Suspends
<1> QED
  BY <1>2, <1>3, <1>4

\* final_suspend: the coroutine has returned before a prune comes.
LEMMA FinalSuspendKeeps ==
    ASSUME OneLoop, FramesInv, NEW l \in Loops, Frames!final_suspend(l)
    PROVE  FramesInv'
<1> USE DEF FramesInv
<1>1. \A m \in Loops : m = l
  BY DEF OneLoop
<1>2. FramesTyped'
  BY DEF FramesTyped, FrameThread, Places, States, Frames!final_suspend
<1>3. Runs' /\ Alive'
  BY <1>1, <1>2 DEF FramesTyped, FrameThread, Runs, Alive, Frames!final_suspend
<1>4. Frames!FrameKept'
  BY DEF FramesTyped, Runs, Frames!FrameKept, Frames!final_suspend
<1> QED
  BY <1>2, <1>3, <1>4

\* remove_if drops only what has returned.
LEMMA RemoveIfKeeps ==
    ASSUME OneLoop, FramesInv, NEW l \in Loops, Frames!RemoveIf(l)
    PROVE  FramesInv'
<1> USE DEF FramesInv
<1>1. \A m \in Loops : m = l
  BY DEF OneLoop
<1>2. PICK kept : /\ kept = {t \in alive_tasks : ~Frames!done(t)}
                  /\ thread' = [thread EXCEPT ![l].at = "erase", ![l].kept = kept]
  BY DEF Frames!RemoveIf
<1>3. /\ alive_tasks' = alive_tasks /\ destroyed' = destroyed /\ coro' = coro
      /\ thread[l].at = "prune"
  BY DEF Frames!RemoveIf
<1>4. kept \in SUBSET Coros /\ \A t \in alive_tasks : coro[t] \notin {"final", "returned"} => t \in kept
  BY <1>2 DEF FramesTyped, Frames!done
<1>5. FramesTyped'
  <2>1. DOMAIN thread = Loops /\ thread[l] \in FrameThread
    BY DEF FramesTyped
  <2>2. PICK r : r = [thread[l] EXCEPT !.at = "erase", !.kept = kept]
    OBVIOUS
  <2>3. r \in FrameThread
    BY <2>1, <2>2, <1>4 DEF FrameThread, Places
  <2>4. thread' = [thread EXCEPT ![l] = r]
    BY <1>2, <2>1, <2>2
  <2>5. thread' \in [Loops -> FrameThread]
    BY <2>3, <2>4 DEF FramesTyped
  <2> QED
    BY <1>3, <2>5 DEF FramesTyped
<1>6. /\ thread'[l].at = "erase" /\ thread'[l].kept = kept
  BY <1>2 DEF FramesTyped
<1>7. Runs'
  BY <1>1, <1>3, <1>6 DEF Runs
<1>8. Alive'
  BY <1>1, <1>3, <1>4, <1>6 DEF Alive
<1>9. Frames!FrameKept'
  BY <1>3 DEF Frames!FrameKept
<1> QED
  BY <1>5, <1>7, <1>8, <1>9

\* schedule_coro: the event that a suspended coroutine waits for.
LEMMA ScheduleCoroKeeps ==
    ASSUME FramesInv, NEW t \in Coros, Frames!schedule_coro(t)
    PROVE  FramesInv'
<1> USE DEF FramesInv
<1>2. FramesTyped'
  BY DEF FramesTyped, FrameThread, Places, States, Frames!schedule_coro
<1>3. Runs' /\ Alive'
  BY <1>2 DEF FramesTyped, FrameThread, Runs, Alive, Frames!schedule_coro
<1>4. Frames!FrameKept'
  BY DEF FramesTyped, Frames!FrameKept, Frames!schedule_coro
<1> QED
  BY <1>2, <1>3, <1>4

\* spawn: the new coroutine is in the vector before it runs.
LEMMA SpawnKeeps ==
    ASSUME OneLoop, FramesInv, NEW l \in Loops, NEW t \in Coros, Frames!spawn(l, t)
    PROVE  FramesInv'
<1> USE DEF FramesInv
<1>1. \A m \in Loops : m = l
  BY DEF OneLoop
<1>2. /\ coro' \in [Coros -> States]
      /\ thread' \in [Loops -> FrameThread]
  BY DEF FramesTyped, FrameThread, Places, States, Frames!spawn, Frames!Polls
<1>3. Runs' /\ Alive'
  BY <1>1, <1>2 DEF FramesTyped, FrameThread, Runs, Alive, Frames!spawn, Frames!Polls
<1>4. Frames!FrameKept' /\ destroyed' \subseteq Coros
  <2>1. \A u \in Coros : coro[u] = "returned" => coro'[u] = "returned"
    BY DEF FramesTyped, Frames!spawn
  <2>2. \A u \in Coros : coro'[u] \notin {"none", "returned"} => u \in alive_tasks'
    BY <1>3 DEF Alive
  <2>3. Frames!Destroys
    BY DEF Frames!spawn
  <2> QED
    BY <1>2, <2>1, <2>2, <2>3, OrphansReturned DEF FramesTyped
<1>5. alive_tasks' \subseteq Coros
  BY DEF FramesTyped, Frames!spawn
<1> QED
  BY <1>2, <1>3, <1>4, <1>5 DEF FramesTyped

\* erase: nobody comes between it and remove_if, so it takes only what remove_if has dropped.
LEMMA EraseKeeps ==
    ASSUME OneLoop, FramesInv, NEW l \in Loops, Frames!Erase(l)
    PROVE  FramesInv'
<1> USE DEF FramesInv
<1>1. \A m \in Loops : m = l
  BY DEF OneLoop
<1>2. /\ coro' \in [Coros -> States]
      /\ thread' \in [Loops -> FrameThread]
  BY DEF FramesTyped, FrameThread, Places, Frames!Erase, Frames!Polls
<1>3. Runs' /\ Alive'
  BY <1>1, <1>2 DEF FramesTyped, FrameThread, Runs, Alive, Frames!Erase, Frames!Polls
<1>4. Frames!FrameKept' /\ destroyed' \subseteq Coros
  <2>1. \A u \in Coros : coro[u] = "returned" => coro'[u] = "returned"
    BY DEF Frames!Erase
  <2>2. \A u \in Coros : coro'[u] \notin {"none", "returned"} => u \in alive_tasks'
    BY <1>3 DEF Alive
  <2>3. Frames!Destroys
    BY DEF Frames!Erase
  <2> QED
    BY <1>2, <2>1, <2>2, <2>3, OrphansReturned DEF FramesTyped
<1>5. alive_tasks' \subseteq Coros
  BY DEF FramesTyped, Frames!Erase
<1> QED
  BY <1>2, <1>3, <1>4, <1>5 DEF FramesTyped

\* With at most one loop that runs coroutines the Scheduler keeps every frame until its coroutine
\* has returned, for any coroutines and any order of their events (scheduler.h:17).  With two
\* loops it does not: one pushes to alive_tasks while the other prunes.
THEOREM OneLoopKeepsFrames == ASSUME OneLoop PROVE Frames!Spec => []Frames!FrameKept
<1>1. Frames!Init => FramesInv
  BY DEF Frames!Init, FramesInv, FramesTyped, FrameThread, Places, States, Runs, Alive, Frames!Polls,
         Frames!FrameKept
<1>2. FramesInv /\ [Frames!Next]_(Frames!vars) => FramesInv'
  <2> SUFFICES ASSUME FramesInv, [Frames!Next]_(Frames!vars) PROVE FramesInv'
    OBVIOUS
  <2>1. CASE Frames!Next
    BY <2>1, StartKeeps, ResumeKeeps, SuspendsKeeps, FinalSuspendKeeps, RemoveIfKeeps,
       ScheduleCoroKeeps, SpawnKeeps, EraseKeeps DEF Frames!Next
  <2>2. CASE UNCHANGED Frames!vars
    BY <2>2 DEF Frames!vars, FramesInv, FramesTyped, Runs, Alive, Frames!FrameKept
  <2> QED
    BY <2>1, <2>2
<1>3. FramesInv => Frames!FrameKept
  BY DEF FramesInv
<1> QED
  BY <1>1, <1>2, <1>3, PTL DEF Frames!Spec

=============================================================================
