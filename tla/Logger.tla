------------------------------- MODULE Logger -------------------------------
(***************************************************************************)
(* lightnet::Logger: threads that log, the queue they share, and the       *)
(* thread that writes it to the output, from its start to the end of       *)
(* ~Logger.                                                                *)
(*                                                                         *)
(* queue_ is guarded by mutex_; running_ is an atomic that the destructor  *)
(* clears without the mutex.  The writer waits on cv_ for 100 ms at most,  *)
(* and cv_ may also wake it for no reason.  A line is who has logged it,   *)
(* and its level: its text is formatted before it is queued.               *)
(*                                                                         *)
(* The logger is a static object: when it is destroyed, the threads that   *)
(* log have ended, and none is in log() or flush().                        *)
(***************************************************************************)
EXTENDS Integers, Sequences, FiniteSets

CONSTANTS Threads,      \* that log
          Levels,       \* of lines, as numbers
          MaxLines      \* bound: lines queued

ASSUME LoggerAssumption == Levels \subseteq Nat /\ Levels # {} /\ MaxLines \in Nat

VARIABLES level_, queue_, running_,
          caller,       \* of each thread: where it is in log() or flush(), and its line
          writer,       \* where the writer thread is in background_write
          expired,      \* the 100 ms of its wait_for have passed
          batch,        \* its local
          owner,        \* where the destructor is
          logged,       \* history: the lines in the order in which they were queued
          output,       \* history: what has been written
          found_busy    \* history: the destructor found the writer out of its wait

vars == <<level_, queue_, running_, caller, writer, expired, batch, owner, logged, output,
          found_busy>>

NoLine == [from |-> "none", level |-> 0]
Line   == [from : Threads, level : Levels]
Idle   == [at |-> "idle", line |-> NoLine]

\* Mutant: log() pushes without the mutex.
MutexFree_m == TRUE

\* The writer holds the mutex from the evaluation of the predicate to the moment
\* it blocks; a wait that ends holds it for one step.
MutexFree == writer # "blocking"

Init ==
    /\ level_ \in Levels
    /\ queue_ = << >> /\ batch = << >> /\ logged = << >> /\ output = << >>
    /\ running_ = TRUE
    /\ caller = [p \in Threads |-> Idle]
    /\ writer = "loop" /\ expired = FALSE
    /\ owner = "none" /\ found_busy = FALSE

-----------------------------------------------------------------------------
(* The threads that log *)

writer_vars == <<writer, expired, batch, output>>
owner_vars  == <<running_, owner, found_busy>>

set_level(l) ==
    /\ owner = "none"
    /\ level_' = l
    /\ UNCHANGED <<queue_, caller, logged, writer_vars, owner_vars>>

Formatted == {p \in Threads : caller[p].at = "formatted"}

\* log() up to the lock: lines below level_ are dropped.
LogBegins(p, l) ==
    /\ owner = "none" /\ caller[p] = Idle
    /\ Len(logged) + Cardinality(Formatted) < MaxLines
    /\ l >= level_
    /\ caller' = [caller EXCEPT ![p] = [at |-> "formatted", line |-> [from |-> p, level |-> l]]]
    /\ UNCHANGED <<level_, queue_, logged, writer_vars, owner_vars>>

Push(p) ==
    /\ caller[p].at = "formatted" /\ MutexFree
    /\ queue_' = Append(queue_, caller[p].line)
    /\ logged' = Append(logged, caller[p].line)
    /\ caller' = [caller EXCEPT ![p] = [at |-> "notifying", line |-> NoLine]]
    /\ UNCHANGED <<level_, writer_vars, owner_vars>>

flush(p) ==
    /\ owner = "none" /\ caller[p] = Idle
    /\ caller' = [caller EXCEPT ![p].at = "notifying"]
    /\ UNCHANGED <<level_, queue_, logged, writer_vars, owner_vars>>

\* notify_one and notify_all: there is one thread to wake, if it has blocked.
Notified == writer' = IF writer = "waiting" THEN "waking" ELSE writer

Notify(p) ==
    /\ caller[p].at = "notifying"
    /\ caller' = [caller EXCEPT ![p] = Idle]
    /\ Notified
    /\ UNCHANGED <<level_, queue_, logged, expired, batch, output, owner_vars>>

-----------------------------------------------------------------------------
(* background_write *)

ReadRunning ==
    /\ writer = "loop"
    /\ writer' = IF running_ THEN "locking" ELSE "ended"
    /\ expired' = FALSE
    /\ UNCHANGED <<level_, queue_, caller, logged, batch, output, owner_vars>>

\* Mutant: the queue is copied instead.
Swapped_m == batch' = queue_ /\ UNCHANGED queue_

Swapped == batch' = queue_ /\ queue_' = batch

\* With the mutex, the predicate of wait_for is evaluated: before it blocks for
\* the first time, and whenever it has been woken.  When it is true or the time is
\* over, the queue is taken.
EndsWait ==
    /\ queue_ # << >> \/ ~running_ \/ expired
    /\ writer' = "writing"
    /\ Swapped

Evaluate ==
    /\ writer \in {"locking", "waking"}
    /\ \/ EndsWait
       \/ /\ queue_ = << >> /\ running_ /\ ~expired
          /\ writer' = "blocking"
          /\ UNCHANGED <<queue_, batch>>
    /\ UNCHANGED <<level_, caller, logged, expired, output, owner_vars>>

Block ==
    /\ writer = "blocking"
    /\ writer' = "waiting"
    /\ UNCHANGED <<level_, queue_, caller, logged, expired, batch, output, owner_vars>>

\* 100 ms pass from the beginning of the wait.
TimePasses ==
    /\ writer \in {"locking", "blocking", "waiting", "waking"}
    /\ expired' = TRUE
    /\ UNCHANGED <<level_, queue_, caller, logged, writer, batch, output, owner_vars>>

\* Mutant: wait instead of wait_for.
Timeout_m == FALSE

Timeout == expired

Wakes ==
    /\ writer = "waiting" /\ Timeout
    /\ writer' = "waking"
    /\ UNCHANGED <<level_, queue_, caller, logged, expired, batch, output, owner_vars>>

Spurious ==
    /\ writer = "waiting"
    /\ writer' = "waking"
    /\ UNCHANGED <<level_, queue_, caller, logged, expired, batch, output, owner_vars>>

Write ==
    /\ writer = "writing"
    /\ IF batch = << >> THEN writer' = "loop" /\ UNCHANGED <<batch, output>>
       ELSE /\ output' = Append(output, Head(batch))
            /\ batch' = Tail(batch)
            /\ UNCHANGED writer
    /\ UNCHANGED <<level_, queue_, caller, logged, expired, owner_vars>>

-----------------------------------------------------------------------------
(* ~Logger *)

StopRunning ==
    /\ owner = "none" /\ \A p \in Threads : caller[p] = Idle
    /\ running_' = FALSE
    /\ owner' = "stopped"
    /\ found_busy' = (writer \in {"loop", "writing"})
    /\ UNCHANGED <<level_, queue_, caller, logged, writer_vars>>

NotifyAll ==
    /\ owner = "stopped"
    /\ owner' = "joining"
    /\ Notified
    /\ UNCHANGED <<level_, queue_, caller, logged, expired, batch, output, running_, found_busy>>

Join ==
    /\ owner = "joining" /\ writer = "ended"
    /\ owner' = "destroyed"
    /\ UNCHANGED <<level_, queue_, caller, logged, writer_vars, running_, found_busy>>

-----------------------------------------------------------------------------

Writer == ReadRunning \/ Evaluate \/ Block \/ Wakes \/ Write

Next ==
    \/ \E l \in Levels : set_level(l)
    \/ \E p \in Threads : \/ \E l \in Levels : LogBegins(p, l)
                          \/ Push(p) \/ flush(p) \/ Notify(p)
    \/ Writer \/ TimePasses \/ Spurious
    \/ StopRunning \/ NotifyAll \/ Join

Spec == Init /\ [][Next]_vars

\* The writer's and the destructor's threads run, and time passes.  Nobody has to
\* log, to call flush or to end the program; and notifications are not relied on.
FairSpec ==
    /\ Spec
    /\ WF_vars(Writer) /\ WF_vars(TimePasses)
    /\ WF_vars(NotifyAll) /\ WF_vars(Join)

-----------------------------------------------------------------------------
(* Properties *)

\* Types; and while the writer is about to block, nothing comes into the queue
\* that it has just found empty, since it holds the mutex.
TypeOK ==
    /\ level_ \in Levels /\ running_ \in BOOLEAN
    /\ queue_ \in Seq(Line) /\ batch \in Seq(Line)
    /\ \A p \in Threads : /\ caller[p].at \in {"idle", "formatted", "notifying"}
                          /\ caller[p].line \in Line \cup {NoLine}
    /\ writer \in {"loop", "locking", "blocking", "waiting", "waking", "writing", "ended"}
    /\ expired \in BOOLEAN
    /\ owner \in {"none", "stopped", "joining", "destroyed"}
    /\ writer = "blocking" => queue_ = << >>
    /\ batch # << >> => writer = "writing"

\* No line is lost, doubled or overtaken between log() and the output; and when
\* the destructor returns, what it leaves unwritten was in the queue while the
\* writer was busy: a writer that waits still writes everything.
LinesKept ==
    /\ logged = output \o batch \o queue_
    /\ owner = "destroyed" => batch = << >> /\ (queue_ = << >> \/ found_busy)

\* Every line that is queued is written, unless the program ends; and the
\* destructor returns, though it may clear running_ and notify between the
\* writer's look at the predicate and its blocking.
LinesWritten ==
    /\ \A n \in 1..MaxLines : Len(logged) >= n ~> (Len(output) >= n \/ ~running_)
    /\ owner = "stopped" ~> owner = "destroyed"
=============================================================================
