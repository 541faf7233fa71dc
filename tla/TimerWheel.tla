----------------------------- MODULE TimerWheel -----------------------------
(***************************************************************************)
(* lightnet::TimerWheel inside the iterations of EventLoop::loop(): the    *)
(* poll sleeps next_timeout_ms(), tick() pops expired nodes from the heap  *)
(* and calls them, and user code on the loop thread (channel callbacks,    *)
(* timer callbacks, pending tasks, and the code that runs before loop())   *)
(* adds and cancels timers.  The heap is a set of nodes of which any one   *)
(* of least expire_ms may be on top; the clock advances at any moment      *)
(* except between next_timeout_ms() and the start of the poll.             *)
(***************************************************************************)
EXTENDS Integers

CONSTANTS TimerArgs,    \* the <<delay_ms, repeat>> that add_timer is called with
          MaxNow,       \* bound: the clock stops here
          MaxTimers,    \* bound: calls of add_timer
          MaxPollMs     \* next_timeout_ms's cap, 1000 in the code

ASSUME TimerWheelAssumption ==
    /\ TimerArgs \subseteq Nat \X BOOLEAN
    /\ MaxNow \in Nat
    /\ MaxTimers \in Nat
    /\ MaxPollMs \in Nat \ {0}

VARIABLES now,            \* the steady clock, in ms
          timers_,        \* nodes in the heap, cancelled ones included
          active_,        \* ids that were added, not cancelled and not spent
          next_id_,
          last_tick_ms_,  \* the argument of the current or last tick()
          firing,         \* the node tick() has popped and is calling, if any
          pc,             \* phase of the loop iteration
          poll_from,      \* when the poll in progress started,
          poll_until,     \* and when it times out
          cancelled,      \* history: ids given to cancel()
          last_fire       \* history: tick stamp at which an id last fired, or -1

heap_vars  == <<timers_, active_, next_id_>>
poll_vars  == <<poll_from, poll_until>>
ghost_vars == <<cancelled, last_fire>>
vars == <<now, heap_vars, last_tick_ms_, firing, pc, poll_vars, ghost_vars>>

Ids  == 1..MaxTimers
Node == [id : Ids, expire_ms : Nat, interval_ms : Nat, repeat : BOOLEAN]

\* The nodes that may be on top of the heap.
Top == {n \in timers_ : \A m \in timers_ : n.expire_ms <= m.expire_ms}

\* The constructor; code that runs before loop() adds timers in the same way as
\* pending tasks do.
Init ==
    /\ now = 0
    /\ timers_ = {}
    /\ active_ = {}
    /\ next_id_ = 1
    /\ last_tick_ms_ = 0
    /\ firing = {}
    /\ pc = "pending"
    /\ poll_from = 0 /\ poll_until = 0
    /\ cancelled = {}
    /\ last_fire = [i \in Ids |-> -1]

-----------------------------------------------------------------------------
(* Called by user code on the loop thread *)

InUserCode == pc \in {"dispatch", "callback", "pending"}

\* Mutant: the id counter is not advanced.
add_timer_m(delay_ms, repeat) ==
    /\ InUserCode
    /\ next_id_ <= MaxTimers
    /\ timers_' = timers_ \cup {[id          |-> next_id_,
                                 expire_ms   |-> now + delay_ms,
                                 interval_ms |-> IF repeat THEN delay_ms ELSE 0,
                                 repeat      |-> repeat]}
    /\ active_' = active_ \cup {next_id_}
    /\ UNCHANGED <<now, next_id_, last_tick_ms_, firing, pc, poll_vars, ghost_vars>>

add_timer(delay_ms, repeat) ==
    /\ InUserCode
    /\ next_id_ <= MaxTimers
    /\ timers_' = timers_ \cup {[id          |-> next_id_,
                                 expire_ms   |-> now + delay_ms,
                                 interval_ms |-> IF repeat THEN delay_ms ELSE 0,
                                 repeat      |-> repeat]}
    /\ active_' = active_ \cup {next_id_}
    /\ next_id_' = next_id_ + 1
    /\ UNCHANGED <<now, last_tick_ms_, firing, pc, poll_vars, ghost_vars>>

\* Only the id is dropped: the node stays in the heap until it is on top.
cancel(id) ==
    /\ InUserCode
    /\ id < next_id_
    /\ active_' = active_ \ {id}
    /\ cancelled' = cancelled \cup {id}
    /\ UNCHANGED <<now, timers_, next_id_, last_tick_ms_, firing, pc, poll_vars, last_fire>>

-----------------------------------------------------------------------------
(* The loop iteration *)

\* Mutant: the timeout is that of the last node to expire.
next_timeout_ms_m ==
    IF timers_ = {} THEN MaxPollMs
    ELSE LET last == CHOOSE n \in timers_ : \A m \in timers_ : m.expire_ms <= n.expire_ms
         IN  IF last.expire_ms <= now THEN 0
             ELSE IF last.expire_ms - now < MaxPollMs THEN last.expire_ms - now
             ELSE MaxPollMs

next_timeout_ms ==
    IF timers_ = {} THEN MaxPollMs
    ELSE LET top == CHOOSE n \in timers_ : n \in Top
         IN  IF top.expire_ms <= now THEN 0
             ELSE IF top.expire_ms - now < MaxPollMs THEN top.expire_ms - now
             ELSE MaxPollMs

BeginPoll ==
    /\ pc = "pending"
    /\ pc' = "poll"
    /\ poll_from' = now
    /\ poll_until' = now + next_timeout_ms
    /\ UNCHANGED <<now, heap_vars, last_tick_ms_, firing, ghost_vars>>

\* poll() returns: an I/O event at any time, or the timeout.
PollEvent ==
    /\ pc = "poll"
    /\ pc' = "dispatch"
    /\ UNCHANGED <<now, heap_vars, last_tick_ms_, firing, poll_vars, ghost_vars>>

PollExpires == now >= poll_until /\ PollEvent

\* loop() calls tick(now_ms()) once the events are dispatched.
BeginTick ==
    /\ pc = "dispatch"
    /\ pc' = "tick"
    /\ last_tick_ms_' = now
    /\ UNCHANGED <<now, heap_vars, firing, poll_vars, ghost_vars>>

\* Mutant: tick() looks at the clock again for every node.
Expired_m(n) == n \in Top /\ n.expire_ms <= now

\* The while condition of tick(), for a node on top.
Expired(n) == n \in Top /\ n.expire_ms <= last_tick_ms_

PopCancelled(n) ==
    /\ pc = "tick"
    /\ Expired(n)
    /\ n.id \notin active_
    /\ timers_' = timers_ \ {n}
    /\ UNCHANGED <<now, active_, next_id_, last_tick_ms_, firing, pc, poll_vars, ghost_vars>>

\* Mutant: cancellation is not looked at.
Fire_m(n) ==
    /\ pc = "tick"
    /\ Expired(n)
    /\ timers_' = timers_ \ {n}
    /\ firing' = {n}
    /\ pc' = "callback"
    /\ last_fire' = [last_fire EXCEPT ![n.id] = last_tick_ms_]
    /\ UNCHANGED <<now, active_, next_id_, last_tick_ms_, poll_vars, cancelled>>

\* The node is popped and its callback starts.
Fire(n) ==
    /\ pc = "tick"
    /\ Expired(n)
    /\ n.id \in active_
    /\ timers_' = timers_ \ {n}
    /\ firing' = {n}
    /\ pc' = "callback"
    /\ last_fire' = [last_fire EXCEPT ![n.id] = last_tick_ms_]
    /\ UNCHANGED <<now, active_, next_id_, last_tick_ms_, poll_vars, cancelled>>

\* Mutant: the node's new expiry counts from its old one.
rearmed_m(n) == [n EXCEPT !.expire_ms = n.expire_ms + n.interval_ms]

\* A repeating timer restarts from the time tick() was given.
rearmed(n) == [n EXCEPT !.expire_ms = last_tick_ms_ + n.interval_ms]

\* Mutant: a spent one-shot timer keeps its id.
AfterCallback_m ==
    /\ pc = "callback"
    /\ \E n \in firing :
          timers_' = IF n.repeat /\ n.id \in active_
                     THEN timers_ \cup {rearmed(n)} ELSE timers_
    /\ firing' = {}
    /\ pc' = "tick"
    /\ UNCHANGED <<now, active_, next_id_, last_tick_ms_, poll_vars, ghost_vars>>

\* The callback has returned.
AfterCallback ==
    /\ pc = "callback"
    /\ \E n \in firing :
          IF n.repeat /\ n.id \in active_
          THEN timers_' = timers_ \cup {rearmed(n)} /\ UNCHANGED active_
          ELSE active_' = active_ \ {n.id} /\ UNCHANGED timers_
    /\ firing' = {}
    /\ pc' = "tick"
    /\ UNCHANGED <<now, next_id_, last_tick_ms_, poll_vars, ghost_vars>>

EndTick ==
    /\ pc = "tick"
    /\ \A n \in timers_ : ~Expired(n)
    /\ pc' = "pending"
    /\ UNCHANGED <<now, heap_vars, last_tick_ms_, firing, poll_vars, ghost_vars>>

AdvanceTime ==
    /\ now < MaxNow
    /\ now' = now + 1
    /\ UNCHANGED <<heap_vars, last_tick_ms_, firing, pc, poll_vars, ghost_vars>>

-----------------------------------------------------------------------------
TickStep ==
    \/ \E n \in timers_ : PopCancelled(n) \/ Fire(n)
    \/ AfterCallback
    \/ EndTick

Next ==
    \/ \E a \in TimerArgs : add_timer(a[1], a[2])
    \/ \E id \in Ids : cancel(id)
    \/ BeginPoll \/ PollEvent \/ BeginTick \/ TickStep
    \/ AdvanceTime

Spec == Init /\ [][Next]_vars

\* The loop thread is scheduled, user code returns and polls time out.
FairSpec ==
    /\ Spec
    /\ WF_vars(BeginPoll) /\ WF_vars(PollExpires) /\ WF_vars(BeginTick)
    /\ WF_vars(TickStep)

-----------------------------------------------------------------------------
(* Properties *)

\* Types; ids are handed out in order, and one node is firing exactly while
\* tick() runs a callback.
TypeOK ==
    /\ now \in Nat
    /\ timers_ \subseteq Node
    /\ active_ \subseteq Ids
    /\ next_id_ \in Nat \ {0}
    /\ \A n \in timers_ \cup firing : n.id < next_id_
    /\ \A id \in active_ \cup cancelled : id < next_id_
    /\ last_tick_ms_ \in Nat
    /\ firing \subseteq Node
    /\ firing # {} <=> pc = "callback"
    /\ \A m, n \in firing : m = n
    /\ pc \in {"poll", "dispatch", "tick", "callback", "pending"}
    /\ poll_from \in Nat /\ poll_until \in Nat
    /\ cancelled \subseteq Ids
    /\ last_fire \in [Ids -> Nat \cup {-1}]

\* Heap and id table agree: an id has at most one node, counting the one whose
\* callback is running, and every active id has one, so that each live timer
\* will fire once per expiry, neither lost nor doubled, whatever its callback
\* cancels or adds.
OneNodePerTimer ==
    /\ \A m, n \in timers_ \cup firing : m.id = n.id => m = n
    /\ \A id \in active_ : \E n \in timers_ \cup firing : n.id = id
    /\ timers_ \cap firing = {}

\* The poll never sleeps past the expiry of a live timer: nothing is added to
\* the heap while the loop thread is in poll().
PollNotLate ==
    pc = "poll" =>
        \A n \in timers_ : poll_until <= n.expire_ms \/ poll_until <= poll_from

\* No callback starts for an id that cancel() was called with, although its
\* node is still in the heap.
CancelledNeverFires ==
    [][pc' = "callback" /\ pc # "callback" => \A n \in firing' : n.id \notin cancelled]_vars

\* A one-shot timer fires at most once; firings of a repeating one are at
\* least its interval apart on the clock given to tick().
FiringsSpaced ==
    [][pc' = "callback" /\ pc # "callback" =>
          \A n \in firing' :
             \/ last_fire[n.id] = -1
             \/ n.repeat /\ last_tick_ms_ >= last_fire[n.id] + n.interval_ms]_vars

Overdue(id) == id \in active_ /\ \E n \in timers_ : n.id = id /\ n.expire_ms <= now

\* A live timer whose time has come is popped: the poll's timeout, the heap's
\* order and the cancelled nodes in it never make it wait for ever.  And the
\* timers do not starve the rest of the iteration (event_loop.h: poll, events,
\* timers, pending tasks): tick() ends, whatever its callbacks add or cancel.
OverdueServed ==
    /\ \A id \in Ids : Overdue(id) ~> ~Overdue(id)
    /\ (pc = "tick") ~> (pc = "pending")
=============================================================================
