-------------------------- MODULE TimerWheelProofs --------------------------
(***************************************************************************)
(* For any delays, clock and number of timers: the heap and the id table   *)
(* agree, a poll never sleeps past an expiry, a cancelled timer never      *)
(* fires and firings keep their interval.  The inductive invariant IInv    *)
(* adds to the checked invariants what the history variables mean.         *)
(***************************************************************************)
EXTENDS TimerWheel, WellFoundedInduction, TLAPS

\* A cancelled id is not active any more, and never becomes so again.
CancelledInactive == active_ \cap cancelled = {}

\* What the heap says of a timer's last firing: a node that has fired repeats,
\* and expires an interval later; the firing node was stamped by this tick.
HeapRemembersFiring ==
    /\ \A n \in timers_ :
          \/ last_fire[n.id] = -1
          \/ n.repeat /\ n.expire_ms >= last_fire[n.id] + n.interval_ms
    /\ \A n \in firing : last_fire[n.id] = last_tick_ms_
    /\ \A id \in Ids : id >= next_id_ => last_fire[id] = -1

IInv ==
    /\ TypeOK
    /\ OneNodePerTimer
    /\ PollNotLate
    /\ CancelledInactive
    /\ HeapRemembersFiring

USE TimerWheelAssumption

LEMMA InitIInv == Init => IInv
  BY DEF Init, IInv, TypeOK, OneNodePerTimer, PollNotLate, CancelledInactive,
         HeapRemembersFiring, Ids, TimerWheelAssumption

\* A heap that is not empty has a top.
LEMMA TopExists ==
  ASSUME TypeOK, timers_ # {} PROVE \E n \in timers_ : n \in Top
<1> DEFINE T == {n.expire_ms : n \in timers_}
           R == OpToRel(<, Nat)
<1>1. T \subseteq Nat /\ T # {}
  BY DEF TypeOK, Node
<1>2. \E x \in T : \A y \in T : <<y, x>> \notin R
  <2> HIDE DEF T, R
  <2>1. IsWellFoundedOn(R, Nat)
    BY NatLessThanWellFounded DEF R
  <2> QED
    BY <1>1, <2>1, WFMin
<1>3. PICK x \in T : \A y \in T : <<y, x>> \notin R
  BY <1>2
<1>4. \A y \in T : x <= y
  <2> SUFFICES ASSUME NEW y \in T PROVE x <= y
    OBVIOUS
  <2>1. ~(y < x)
    BY <1>1, <1>3 DEF OpToRel
  <2>2. x \in Nat /\ y \in Nat
    BY <1>1
  <2> HIDE DEF T
  <2> QED
    BY <2>1, <2>2
<1>5. PICK n \in timers_ : n.expire_ms = x
  OBVIOUS
<1> QED
  BY <1>4, <1>5 DEF Top

\* next_timeout_ms is a delay that ends no later than the first expiry.
LEMMA TimeoutBounds ==
  ASSUME TypeOK
  PROVE  /\ next_timeout_ms \in Nat
         /\ \A n \in timers_ : next_timeout_ms = 0 \/ now + next_timeout_ms <= n.expire_ms
<1>1. CASE timers_ = {}
  BY <1>1 DEF next_timeout_ms, TimerWheelAssumption
<1>2. CASE timers_ # {}
  <2> DEFINE top == CHOOSE n \in timers_ : n \in Top
  <2>1. top \in timers_ /\ top \in Top
    BY <1>2, TopExists
  <2>2. /\ top.expire_ms \in Nat /\ now \in Nat /\ MaxPollMs \in Nat
        /\ \A n \in timers_ : n.expire_ms \in Nat /\ top.expire_ms <= n.expire_ms
    BY <2>1 DEF TypeOK, Node, Top, TimerWheelAssumption
  <2>3. next_timeout_ms = IF top.expire_ms <= now THEN 0
                          ELSE IF top.expire_ms - now < MaxPollMs THEN top.expire_ms - now
                          ELSE MaxPollMs
    BY <1>2 DEF next_timeout_ms
  <2> HIDE DEF top
  <2> QED
    BY <2>2, <2>3
<1> QED
  BY <1>1, <1>2

LEMMA NextTypeOK == TypeOK /\ [Next]_vars => TypeOK'
<1> SUFFICES ASSUME TypeOK, [Next]_vars PROVE TypeOK'
  OBVIOUS
<1> USE DEF TypeOK, heap_vars, poll_vars, ghost_vars, Ids, Node
<1>1. ASSUME NEW a \in TimerArgs, add_timer(a[1], a[2]) PROVE TypeOK'
  <2> DEFINE node == [id          |-> next_id_,
                      expire_ms   |-> now + a[1],
                      interval_ms |-> IF a[2] THEN a[1] ELSE 0,
                      repeat      |-> a[2]]
  <2>1. a[1] \in Nat /\ a[2] \in BOOLEAN
    BY DEF TimerWheelAssumption
  <2>2. next_id_ \in 1..MaxTimers
    BY <1>1 DEF add_timer, TimerWheelAssumption
  <2>3. node \in Node /\ node.id = next_id_
    BY <2>1, <2>2
  <2>4. timers_' = timers_ \cup {node}
    BY <1>1 DEF add_timer
  <2>5. \A n \in timers_ \cup firing : n.id \in Nat
    OBVIOUS
  <2> HIDE DEF node, Node
  <2> QED
    BY <1>1, <2>2, <2>3, <2>4, <2>5 DEF add_timer
<1>2. ASSUME NEW id \in Ids, cancel(id) PROVE TypeOK'
  BY <1>2 DEF cancel
<1>3. CASE BeginPoll
  BY <1>3, TimeoutBounds DEF BeginPoll
<1>4. CASE PollEvent
  BY <1>4 DEF PollEvent
<1>5. CASE BeginTick
  BY <1>5 DEF BeginTick
<1>6. ASSUME NEW n \in timers_, PopCancelled(n) PROVE TypeOK'
  BY <1>6 DEF PopCancelled
<1>7. ASSUME NEW n \in timers_, Fire(n) PROVE TypeOK'
  BY <1>7 DEF Fire
<1>8. CASE AfterCallback
  <2>1. PICK n \in firing :
           IF n.repeat /\ n.id \in active_
           THEN timers_' = timers_ \cup {rearmed(n)} /\ UNCHANGED active_
           ELSE active_' = active_ \ {n.id} /\ UNCHANGED timers_
    BY <1>8 DEF AfterCallback
  <2>2. rearmed(n) \in Node /\ rearmed(n).id = n.id
    BY SMTT(30) DEF rearmed
  <2>3. timers_' \subseteq timers_ \cup {rearmed(n)} /\ active_' \subseteq active_
    BY <2>1
  <2> HIDE DEF Node
  <2> QED
    BY <1>8, <2>2, <2>3 DEF AfterCallback
<1>9. CASE EndTick
  BY <1>9 DEF EndTick
<1>10. CASE AdvanceTime
  BY <1>10 DEF AdvanceTime
<1>11. CASE UNCHANGED vars
  BY <1>11 DEF vars
<1> QED
  BY <1>1, <1>2, <1>3, <1>4, <1>5, <1>6, <1>7, <1>8, <1>9, <1>10, <1>11
     DEF Next, TickStep
-----------------------------------------------------------------------------
\* Each step keeps the heap and the id table in agreement.
LEMMA NextOneNode == IInv /\ [Next]_vars => OneNodePerTimer'
<1> SUFFICES ASSUME IInv, [Next]_vars PROVE OneNodePerTimer'
  OBVIOUS
<1> TypeOK /\ OneNodePerTimer
  BY DEF IInv
<1> USE DEF OneNodePerTimer, heap_vars
<1>1. ASSUME NEW a \in TimerArgs, add_timer(a[1], a[2]) PROVE OneNodePerTimer'
  <2> DEFINE node == [id          |-> next_id_,
                      expire_ms   |-> now + a[1],
                      interval_ms |-> IF a[2] THEN a[1] ELSE 0,
                      repeat      |-> a[2]]
  <2>1. node.id = next_id_
    OBVIOUS
  <2>2. timers_' = timers_ \cup {node} /\ active_' = active_ \cup {next_id_} /\ firing' = firing
    BY <1>1 DEF add_timer
  <2>3. \A n \in timers_ \cup firing : n.id # next_id_
    BY DEF TypeOK, Node, Ids
  <2> HIDE DEF node
  <2> QED
    BY <2>1, <2>2, <2>3
<1>2. ASSUME NEW id \in Ids, cancel(id) PROVE OneNodePerTimer'
  BY <1>2 DEF cancel
<1>3. CASE BeginPoll
  BY <1>3 DEF BeginPoll
<1>4. CASE PollEvent
  BY <1>4 DEF PollEvent
<1>5. CASE BeginTick
  BY <1>5 DEF BeginTick
<1>6. ASSUME NEW n \in timers_, PopCancelled(n) PROVE OneNodePerTimer'
  BY <1>6 DEF PopCancelled
<1>7. ASSUME NEW n \in timers_, Fire(n) PROVE OneNodePerTimer'
  <2>1. firing = {}
    BY <1>7 DEF Fire, TypeOK
  <2> QED
    BY <1>7, <2>1 DEF Fire
<1>8. CASE AfterCallback
  <2>1. PICK n \in firing :
           IF n.repeat /\ n.id \in active_
           THEN timers_' = timers_ \cup {rearmed(n)} /\ UNCHANGED active_
           ELSE active_' = active_ \ {n.id} /\ UNCHANGED timers_
    BY <1>8 DEF AfterCallback
  <2>2. rearmed(n).id = n.id
    BY DEF rearmed, TypeOK, Node
  <2>3. firing = {n} /\ firing' = {}
    BY <1>8, <2>1 DEF AfterCallback, TypeOK
  <2> QED
    BY <2>1, <2>2, <2>3
<1>9. CASE EndTick
  BY <1>9 DEF EndTick
<1>10. CASE AdvanceTime
  BY <1>10 DEF AdvanceTime
<1>11. CASE UNCHANGED vars
  BY <1>11 DEF vars
<1> QED
  BY <1>1, <1>2, <1>3, <1>4, <1>5, <1>6, <1>7, <1>8, <1>9, <1>10, <1>11
     DEF Next, TickStep
\* Only BeginPoll makes the poll's deadline, and nothing is added while it runs.
LEMMA NextPollNotLate == IInv /\ [Next]_vars => PollNotLate'
<1> SUFFICES ASSUME IInv, [Next]_vars, pc' = "poll" PROVE PollNotLate'
  BY DEF PollNotLate
<1> TypeOK /\ PollNotLate
  BY DEF IInv
<1>1. CASE BeginPoll
  <2>1. \A n \in timers_ : n.expire_ms \in Nat
    BY DEF TypeOK, Node
  <2> QED
    BY <1>1, <2>1, TimeoutBounds DEF BeginPoll, PollNotLate, heap_vars, TypeOK
<1>2. CASE ~BeginPoll
  <2>1. pc = "poll" /\ UNCHANGED <<timers_, poll_from, poll_until>>
    BY <1>2 DEF Next, TickStep, vars, heap_vars, poll_vars, InUserCode, add_timer, cancel,
         PollEvent, BeginTick, PopCancelled, Fire, AfterCallback, EndTick, AdvanceTime
  <2> QED
    BY <2>1 DEF PollNotLate
<1> QED
  BY <1>1, <1>2

\* Ids are never reused, so a cancelled one stays out of active_.
LEMMA NextCancelled == IInv /\ [Next]_vars => CancelledInactive'
<1> SUFFICES ASSUME IInv, [Next]_vars PROVE CancelledInactive'
  OBVIOUS
<1> TypeOK /\ CancelledInactive
  BY DEF IInv
<1> USE DEF CancelledInactive, heap_vars, ghost_vars
<1>1. ASSUME NEW a \in TimerArgs, add_timer(a[1], a[2]) PROVE CancelledInactive'
  <2>1. next_id_ \notin cancelled
    BY DEF TypeOK, Ids
  <2> QED
    BY <1>1, <2>1 DEF add_timer
<1>2. ASSUME NEW id \in Ids, cancel(id) PROVE CancelledInactive'
  BY <1>2 DEF cancel
<1>3. CASE AfterCallback
  BY <1>3 DEF AfterCallback
<1>4. CASE UNCHANGED <<active_, cancelled>>
  BY <1>4
<1> QED
  BY <1>1, <1>2, <1>3, <1>4 DEF Next, TickStep, vars, BeginPoll, PollEvent, BeginTick,
     PopCancelled, Fire, EndTick, AdvanceTime

\* last_fire and the heap stay consistent.
LEMMA NextRemembers == IInv /\ [Next]_vars => HeapRemembersFiring'
<1> SUFFICES ASSUME IInv, [Next]_vars PROVE HeapRemembersFiring'
  OBVIOUS
<1> TypeOK /\ OneNodePerTimer /\ HeapRemembersFiring
  BY DEF IInv
<1> USE DEF HeapRemembersFiring, heap_vars, ghost_vars
<1>1. ASSUME NEW a \in TimerArgs, add_timer(a[1], a[2]) PROVE HeapRemembersFiring'
  <2> DEFINE node == [id          |-> next_id_,
                      expire_ms   |-> now + a[1],
                      interval_ms |-> IF a[2] THEN a[1] ELSE 0,
                      repeat      |-> a[2]]
  <2>1. last_fire[node.id] = -1
    BY <1>1 DEF add_timer, TypeOK, Ids, TimerWheelAssumption
  <2>2. /\ timers_' = timers_ \cup {node} /\ next_id_' = next_id_ + 1
        /\ UNCHANGED <<firing, last_fire, last_tick_ms_>>
    BY <1>1 DEF add_timer
  <2>3. next_id_ \in Nat /\ Ids \subseteq Nat
    BY DEF TypeOK, Ids
  <2> HIDE DEF node
  <2>4. ASSUME NEW id \in Ids, id >= next_id_' PROVE last_fire'[id] = -1
    <3>1. next_id_' = next_id_ + 1 /\ last_fire' = last_fire
      BY <2>2
    <3>2. id >= next_id_
      BY <3>1, <2>3, <2>4
    <3> QED
      BY <3>1, <3>2
  <2>5. ASSUME NEW m \in timers_'
        PROVE  \/ last_fire'[m.id] = -1
               \/ m.repeat /\ m.expire_ms >= last_fire'[m.id] + m.interval_ms
    BY <2>1, <2>2
  <2>6. \A n \in firing' : last_fire'[n.id] = last_tick_ms_'
    BY <2>2
  <2> QED
    BY <2>4, <2>5, <2>6
<1>2. ASSUME NEW n \in timers_, PopCancelled(n) PROVE HeapRemembersFiring'
  BY <1>2 DEF PopCancelled
<1>3. ASSUME NEW n \in timers_, Fire(n) PROVE HeapRemembersFiring'
  <2>1. firing = {} /\ n.id \in Ids /\ n.id < next_id_ /\ last_fire \in [Ids -> Nat \cup {-1}]
        /\ next_id_ \in Nat
    BY <1>3 DEF Fire, TypeOK, Node
  <2>2. \A m \in timers_' : m \in timers_ /\ m.id # n.id
    BY <1>3 DEF Fire, OneNodePerTimer
  <2>3. /\ last_fire' = [last_fire EXCEPT ![n.id] = last_tick_ms_]
        /\ firing' = {n} /\ UNCHANGED <<next_id_, last_tick_ms_>>
    BY <1>3 DEF Fire
  <2>4. \A m \in timers_ : m.id \in Ids
    BY DEF TypeOK, Node
  <2>5. \A m \in timers_' : last_fire'[m.id] = last_fire[m.id]
    BY <2>1, <2>2, <2>3, <2>4
  <2>6. \A id \in Ids : id >= next_id_ => last_fire'[id] = last_fire[id]
    BY <2>1, <2>3 DEF Ids
  <2>7. last_fire'[n.id] = last_tick_ms_'
    BY <2>1, <2>3
  <2> QED
    BY <2>2, <2>3, <2>5, <2>6, <2>7
<1>4. CASE AfterCallback
  <2>1. PICK n \in firing :
           timers_' \subseteq timers_ \cup (IF n.repeat THEN {rearmed(n)} ELSE {})
    BY <1>4 DEF AfterCallback
  <2>2. n \in Node /\ last_fire[n.id] = last_tick_ms_ /\ last_tick_ms_ \in Nat
    BY DEF TypeOK
  <2>3. /\ rearmed(n).id = n.id /\ rearmed(n).repeat = n.repeat
        /\ rearmed(n).expire_ms = last_fire[n.id] + n.interval_ms
        /\ rearmed(n).interval_ms = n.interval_ms
        /\ last_fire[n.id] + n.interval_ms \in Nat
    BY <2>2 DEF rearmed, Node
  <2>4. n.repeat => rearmed(n).repeat /\ rearmed(n).expire_ms >=
                       last_fire[rearmed(n).id] + rearmed(n).interval_ms
    BY <2>3
  <2>5. firing' = {} /\ UNCHANGED <<next_id_, last_fire, last_tick_ms_>>
    BY <1>4 DEF AfterCallback
  <2> QED
    BY <2>1, <2>4, <2>5
<1>5. CASE BeginTick
  <2>1. firing = {}
    BY <1>5 DEF BeginTick, TypeOK
  <2> QED
    BY <1>5, <2>1 DEF BeginTick
<1>6. CASE UNCHANGED <<timers_, next_id_, firing, last_tick_ms_, last_fire>>
  BY <1>6
<1> QED
  BY <1>1, <1>2, <1>3, <1>4, <1>5, <1>6 DEF Next, TickStep, vars, BeginPoll, PollEvent,
     cancel, EndTick, AdvanceTime

-----------------------------------------------------------------------------
\* The strengthening that all the results of this module come from.
THEOREM InductiveInvariant == Spec => []IInv
<1>1. Init => IInv
  BY InitIInv
<1>2. IInv /\ [Next]_vars => IInv'
  BY NextTypeOK, NextOneNode, NextPollNotLate, NextCancelled, NextRemembers DEF IInv
<1> QED
  BY <1>1, <1>2, PTL DEF Spec

\* Types, the order of ids, and one firing node exactly during a callback.
THEOREM TypeCorrect == Spec => []TypeOK
<1>1. IInv => TypeOK
  BY DEF IInv
<1> QED
  BY <1>1, InductiveInvariant, PTL

\* Heap and id table agree, whatever callbacks add and cancel.
THEOREM HeapMatchesIds == Spec => []OneNodePerTimer
<1>1. IInv => OneNodePerTimer
  BY DEF IInv
<1> QED
  BY <1>1, InductiveInvariant, PTL

\* No poll sleeps past the expiry of a timer.
THEOREM PollsAreNotLate == Spec => []PollNotLate
<1>1. IInv => PollNotLate
  BY DEF IInv
<1> QED
  BY <1>1, InductiveInvariant, PTL

\* cancel() is final, although the node stays in the heap.
THEOREM CancelIsFinal == Spec => CancelledNeverFires
<1> DEFINE A == pc' = "callback" /\ pc # "callback" => \A n \in firing' : n.id \notin cancelled
<1>1. IInv /\ [Next]_vars => [A]_vars
  <2> SUFFICES ASSUME IInv, [Next]_vars, pc' = "callback", pc # "callback"
               PROVE  \A n \in firing' : n.id \notin cancelled
    OBVIOUS
  <2>1. PICK n \in timers_ : Fire(n)
    BY DEF Next, TickStep, vars, add_timer, cancel, BeginPoll, PollEvent, BeginTick,
           PopCancelled, AfterCallback, EndTick, AdvanceTime
  <2> QED
    BY <2>1 DEF Fire, IInv, CancelledInactive
<1> QED
  BY <1>1, InductiveInvariant, PTL DEF Spec, CancelledNeverFires

\* One-shot timers fire once, repeating ones keep their interval.
THEOREM FiringsAreSpaced == Spec => FiringsSpaced
<1> DEFINE A == pc' = "callback" /\ pc # "callback" =>
                   \A n \in firing' :
                      \/ last_fire[n.id] = -1
                      \/ n.repeat /\ last_tick_ms_ >= last_fire[n.id] + n.interval_ms
<1>1. IInv /\ [Next]_vars => [A]_vars
  <2> SUFFICES ASSUME IInv, [Next]_vars, pc' = "callback", pc # "callback"
               PROVE  A
    OBVIOUS
  <2>1. PICK n \in timers_ : Fire(n)
    BY DEF Next, TickStep, vars, add_timer, cancel, BeginPoll, PollEvent, BeginTick,
           PopCancelled, AfterCallback, EndTick, AdvanceTime
  <2>2. firing' = {n} /\ n.expire_ms <= last_tick_ms_
    BY <2>1 DEF Fire, Expired
  <2>3. n \in Node /\ last_tick_ms_ \in Nat /\ last_fire[n.id] \in Nat \cup {-1}
    BY DEF IInv, TypeOK, Node
  <2>4. \/ last_fire[n.id] = -1
        \/ n.repeat /\ n.expire_ms >= last_fire[n.id] + n.interval_ms
    BY DEF IInv, HeapRemembersFiring
  <2>5. n.expire_ms \in Nat /\ n.interval_ms \in Nat
    BY <2>3 DEF Node
  <2> QED
    BY <2>2, <2>3, <2>4, <2>5
<1> QED
  BY <1>1, InductiveInvariant, PTL DEF Spec, FiringsSpaced
=============================================================================
