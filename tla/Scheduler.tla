----------------------------- MODULE Scheduler ------------------------------
(***************************************************************************)
(* lightnet::Scheduler: who owns the frames of the coroutines that the I/O *)
(* loops run.  A frame is owned by the lambda that spawn runs in the loop, *)
(* and by alive_tasks, one vector for all the threads, without a lock.     *)
(*                                                                         *)
(* Unsynchronised access to the vector is undefined behaviour.  The one    *)
(* outcome modelled is that of a push_back between remove_if and erase:    *)
(* the arguments of erase are evaluated in any order, and if tasks.end()   *)
(* comes after remove_if has returned, all that is behind the elements     *)
(* that stay is erased, the new one too.                                   *)
(***************************************************************************)
EXTENDS FiniteSets

CONSTANTS Loops,        \* the I/O threads
          Tasks         \* coroutines to spawn

VARIABLES alive_tasks,
          home,         \* the loop of each spawned coroutine
          coro,         \* where each coroutine is
          destroyed,    \* coroutines whose frame is destroyed
          thread        \* of each loop: where it is, with which coroutine, whether the
                        \* lambda of spawn owns it, and what its prune has kept

vars == <<alive_tasks, home, coro, destroyed, thread>>

NoTask == "none"
Polls  == [at |-> "poll", task |-> NoTask, owns |-> FALSE, kept |-> {}]

Init ==
    /\ alive_tasks = {} /\ destroyed = {}
    /\ home \in [Tasks -> Loops]
    /\ coro = [t \in Tasks |-> "none"]
    /\ thread = [l \in Loops |-> Polls]

\* Task::done.
done(t) == coro[t] \in {"final", "returned"}

\* The shared_ptr counts reach 0.
Orphans == {t \in Tasks : /\ coro'[t] # "none" /\ t \notin alive_tasks'
                          /\ \A l \in Loops : ~(thread'[l].owns /\ thread'[l].task = t)}

Destroys == destroyed' = destroyed \cup Orphans

\* spawn on the loop's own thread, as the connection callbacks call it, up to the
\* start of the coroutine.
spawn(l, t) ==
    /\ thread[l].at = "poll" /\ coro[t] = "none" /\ home[t] = l
    /\ alive_tasks' = alive_tasks \cup {t}
    /\ coro' = [coro EXCEPT ![t] = "created"]
    /\ thread' = [thread EXCEPT ![l] = [Polls EXCEPT !.at = "start", !.task = t, !.owns = TRUE]]
    /\ Destroys
    /\ UNCHANGED home

start(l) ==
    /\ thread[l].at = "start"
    /\ coro' = [coro EXCEPT ![thread[l].task] = "running"]
    /\ thread' = [thread EXCEPT ![l].at = "resumed"]
    /\ UNCHANGED <<alive_tasks, home, destroyed>>

\* The event that a suspended coroutine waits for: schedule_coro queues its handle.
schedule_coro(t) ==
    /\ coro[t] = "suspended"
    /\ coro' = [coro EXCEPT ![t] = "queued"]
    /\ UNCHANGED <<alive_tasks, home, destroyed, thread>>

\* The task that schedule_coro has queued.
resume(l, t) ==
    /\ thread[l].at = "poll" /\ home[t] = l /\ coro[t] = "queued"
    /\ coro' = [coro EXCEPT ![t] = "running"]
    /\ thread' = [thread EXCEPT ![l] = [Polls EXCEPT !.at = "resumed", !.task = t]]
    /\ UNCHANGED <<alive_tasks, home, destroyed>>

\* The coroutine suspends, or comes to final_suspend: it is done() from then on,
\* and its awaiter has still to read continuation_ in the frame.
Suspends(l) ==
    /\ thread[l].at = "resumed"
    /\ \/ /\ coro' = [coro EXCEPT ![thread[l].task] = "suspended"]
          /\ thread' = [thread EXCEPT ![l].at = "prune"]
       \/ /\ coro' = [coro EXCEPT ![thread[l].task] = "final"]
          /\ thread' = [thread EXCEPT ![l].at = "final_suspend"]
    /\ UNCHANGED <<alive_tasks, home, destroyed>>

final_suspend(l) ==
    /\ thread[l].at = "final_suspend"
    /\ coro' = [coro EXCEPT ![thread[l].task] = "returned"]
    /\ thread' = [thread EXCEPT ![l].at = "prune"]
    /\ UNCHANGED <<alive_tasks, home, destroyed>>

\* prune_completed_tasks: remove_if, then erase; and the lambda of spawn ends.
RemoveIf(l) ==
    /\ thread[l].at = "prune"
    /\ thread' = [thread EXCEPT ![l].at = "erase", ![l].kept = {t \in alive_tasks : ~done(t)}]
    /\ UNCHANGED <<alive_tasks, home, coro, destroyed>>

Erase(l) ==
    /\ thread[l].at = "erase"
    /\ alive_tasks' = alive_tasks \cap thread[l].kept
    /\ thread' = [thread EXCEPT ![l] = Polls]
    /\ UNCHANGED <<home, coro>>
    /\ Destroys

Next ==
    \/ \E l \in Loops : \/ \E t \in Tasks : spawn(l, t) \/ resume(l, t)
                        \/ start(l) \/ Suspends(l) \/ final_suspend(l)
                        \/ RemoveIf(l) \/ Erase(l)
    \/ \E t \in Tasks : schedule_coro(t)

Spec == Init /\ [][Next]_vars

\* scheduler.h:17: the Scheduler keeps a frame from being destroyed too early,
\* that is, before its coroutine has returned for good.
FrameKept == \A t \in destroyed : coro[t] = "returned"
=============================================================================
