---------------------------- MODULE LoggerProofs ----------------------------
(***************************************************************************)
(* For any threads, levels and number of lines: the types of Logger, and   *)
(* that it keeps its lines.                                                *)
(***************************************************************************)
EXTENDS Logger, SequenceTheorems, TLAPS

Callers == [at : {"idle", "formatted", "notifying"}, line : Line \cup {NoLine}]

\* TypeOK, with what it does not say: callers are a function of the threads, and a
\* thread that is about to push has a line.
Typed ==
    /\ TypeOK
    /\ caller \in [Threads -> Callers]
    /\ \A p \in Threads : caller[p].at = "formatted" => caller[p].line \in Line
    /\ logged \in Seq(Line) /\ output \in Seq(Line)
    /\ found_busy \in BOOLEAN

Order == logged = (output \o batch) \o queue_

\* After the destructor has cleared running_ nobody logs.  If it found the writer in
\* its wait, the writer leaves the wait with all there is.
Shutdown ==
    /\ running_ <=> owner = "none"
    /\ owner # "none" => \A p \in Threads : caller[p] = Idle
    /\ ~running_ /\ ~found_busy /\ writer \in {"loop", "writing", "ended"} => queue_ = << >>
    /\ writer = "ended" => ~running_
    /\ owner = "destroyed" => writer = "ended"

IInv == Typed /\ Order /\ Shutdown

-----------------------------------------------------------------------------

LEMMA InitIInv == Init => IInv
<1> SUFFICES ASSUME Init PROVE IInv
  OBVIOUS
<1>1. << >> \in Seq(Line)
  OBVIOUS
<1>2. Idle \in Callers /\ Idle.at = "idle"
  BY DEF Idle, Callers
<1>3. \A p \in Threads : caller[p] = Idle
  BY DEF Init
<1>4. Typed
  <2>1. TypeOK
    BY <1>1, <1>2, <1>3 DEF Init, TypeOK, Callers
  <2>2. caller \in [Threads -> Callers]
    BY <1>2 DEF Init
  <2> QED
    BY <1>1, <1>2, <1>3, <2>1, <2>2 DEF Init, Typed
<1>5. Order
  BY <1>1, ConcatEmptySeq DEF Init, Order
<1>6. Shutdown
  BY DEF Init, Shutdown
<1> QED
  BY <1>4, <1>5, <1>6 DEF IInv

\* A thread's entry replaced by one of the right type.
LEMMA CallerStep ==
    ASSUME NEW p \in Threads, NEW c \in Callers, Typed,
           c.at = "formatted" => c.line \in Line,
           caller' = [caller EXCEPT ![p] = c]
    PROVE  /\ caller' \in [Threads -> Callers]
           /\ \A q \in Threads : caller'[q].at \in {"idle", "formatted", "notifying"}
                                 /\ caller'[q].line \in Line \cup {NoLine}
           /\ \A q \in Threads : caller'[q].at = "formatted" => caller'[q].line \in Line
<1>1. caller' \in [Threads -> Callers]
  BY DEF Typed
<1>2. \A q \in Threads : caller'[q] = IF q = p THEN c ELSE caller[q]
  BY DEF Typed
<1> QED
  BY <1>1, <1>2 DEF Typed, Callers

LEMMA TypedStep == Typed /\ [Next]_vars => Typed'
<1> SUFFICES ASSUME Typed, [Next]_vars PROVE Typed'
  OBVIOUS
<1> USE DEF Typed, TypeOK
<1>1. ASSUME NEW l \in Levels, set_level(l) PROVE Typed'
  BY <1>1 DEF set_level, writer_vars, owner_vars
<1>2. ASSUME NEW p \in Threads, NEW l \in Levels, LogBegins(p, l) PROVE Typed'
  <2> DEFINE c == [at |-> "formatted", line |-> [from |-> p, level |-> l]]
  <2>1. c \in Callers /\ c.line \in Line
    BY DEF Callers, Line
  <2>2. caller' = [caller EXCEPT ![p] = c]
    BY <1>2 DEF LogBegins
  <2> HIDE DEF c
  <2> QED
    BY <1>2, <2>1, <2>2, CallerStep DEF LogBegins, writer_vars, owner_vars
<1>3. ASSUME NEW p \in Threads, Push(p) PROVE Typed'
  <2> DEFINE c == [at |-> "notifying", line |-> NoLine]
  <2>1. c \in Callers /\ c.at # "formatted"
    BY DEF Callers
  <2>2. caller' = [caller EXCEPT ![p] = c]
    BY <1>3 DEF Push
  <2> HIDE DEF c
  <2>3. queue_' \in Seq(Line) /\ logged' \in Seq(Line)
    BY <1>3, AppendProperties DEF Push
  <2> QED
    BY <1>3, <2>1, <2>2, <2>3, CallerStep DEF Push, MutexFree, writer_vars, owner_vars
<1>4. ASSUME NEW p \in Threads, flush(p) PROVE Typed'
  <2> DEFINE c == [Idle EXCEPT !.at = "notifying"]
  <2>1. c \in Callers /\ c.at # "formatted"
    BY DEF Callers, Idle
  <2>2. caller' = [caller EXCEPT ![p] = c]
    BY <1>4 DEF flush
  <2> HIDE DEF c
  <2> QED
    BY <1>4, <2>1, <2>2, CallerStep DEF flush, writer_vars, owner_vars
<1>5. ASSUME NEW p \in Threads, Notify(p) PROVE Typed'
  <2>1. Idle \in Callers /\ Idle.at # "formatted"
    BY DEF Callers, Idle
  <2>2. caller' = [caller EXCEPT ![p] = Idle]
    BY <1>5 DEF Notify
  <2> QED
    BY <1>5, <2>1, <2>2, CallerStep DEF Notify, Notified, owner_vars
<1>6. ASSUME ReadRunning PROVE Typed'
  BY <1>6 DEF ReadRunning, owner_vars
<1>7. ASSUME Evaluate PROVE Typed'
  BY <1>7 DEF Evaluate, EndsWait, Swapped, owner_vars
<1>8. ASSUME Block PROVE Typed'
  BY <1>8 DEF Block, owner_vars
<1>9. ASSUME Wakes \/ Spurious \/ TimePasses PROVE Typed'
  BY <1>9 DEF Wakes, Spurious, TimePasses, owner_vars
<1>10. ASSUME Write PROVE Typed'
  <2>1. CASE batch = << >>
    BY <1>10, <2>1 DEF Write, owner_vars
  <2>2. CASE batch # << >>
    <3>1. Head(batch) \in Line /\ Tail(batch) \in Seq(Line)
      BY <2>2, HeadTailProperties
    <3>2. Append(output, Head(batch)) \in Seq(Line)
      BY <3>1, AppendProperties
    <3>3. output' = Append(output, Head(batch)) /\ batch' = Tail(batch)
      BY <1>10, <2>2 DEF Write
    <3> QED
      BY <1>10, <2>2, <3>1, <3>2, <3>3 DEF Write, owner_vars
  <2> QED
    BY <2>1, <2>2
<1>11. ASSUME StopRunning PROVE Typed'
  <2>1. found_busy' \in BOOLEAN
    BY <1>11 DEF StopRunning
  <2>2. running_' \in BOOLEAN
    BY <1>11 DEF StopRunning
  <2>3. owner' = "stopped" /\ UNCHANGED <<level_, queue_, caller, logged, writer, expired, batch, output>>
    BY <1>11 DEF StopRunning, writer_vars
  <2> QED
    BY <2>1, <2>2, <2>3
<1>12. ASSUME NotifyAll PROVE Typed'
  BY <1>12 DEF NotifyAll, Notified
<1>13. ASSUME Join PROVE Typed'
  BY <1>13 DEF Join, writer_vars
<1>14. ASSUME UNCHANGED vars PROVE Typed'
  BY <1>14 DEF vars
<1> QED
  BY <1>1, <1>2, <1>3, <1>4, <1>5, <1>6, <1>7, <1>8, <1>9, <1>10, <1>11, <1>12, <1>13, <1>14
  DEF Next, Writer

\* The steps that move lines: a push at the end, the swap of an empty batch with the
\* queue, and a line written.
LEMMA OrderStep == Typed /\ Order /\ [Next]_vars => Order'
<1> SUFFICES ASSUME Typed, Order, [Next]_vars PROVE Order'
  OBVIOUS
<1>0. /\ queue_ \in Seq(Line) /\ batch \in Seq(Line) /\ output \in Seq(Line)
      /\ output \o batch \in Seq(Line)
      /\ batch # << >> => writer = "writing"
  BY ConcatProperties DEF Typed, TypeOK
<1>1. ASSUME UNCHANGED <<logged, output, batch, queue_>> PROVE Order'
  BY <1>1 DEF Order
<1>2. ASSUME NEW p \in Threads, Push(p) PROVE Order'
  <2> DEFINE line == caller[p].line
  <2>1. line \in Line
    BY <1>2 DEF Push, Typed
  <2>2. /\ queue_' = Append(queue_, line) /\ logged' = Append(logged, line)
        /\ output' = output /\ batch' = batch
    BY <1>2 DEF Push, writer_vars
  <2> HIDE DEF line
  <2>3. Append(queue_, line) = queue_ \o <<line>>
    BY <1>0, <2>1, AppendIsConcat
  <2>4. (output \o batch) \o queue_ \in Seq(Line)
    BY <1>0, ConcatProperties
  <2>5. Append((output \o batch) \o queue_, line) = ((output \o batch) \o queue_) \o <<line>>
    BY <2>1, <2>4, AppendIsConcat
  <2>6. <<line>> \in Seq(Line)
    BY <2>1
  <2>7. ((output \o batch) \o queue_) \o <<line>> = (output \o batch) \o (queue_ \o <<line>>)
    BY <1>0, <2>6, ConcatAssociative
  <2> QED
    BY <2>2, <2>3, <2>5, <2>7 DEF Order
<1>3. ASSUME Evaluate PROVE Order'
  <2>1. CASE EndsWait
    <3>1. batch = << >>
      BY <1>0, <1>3 DEF Evaluate
    <3>2. batch' = queue_ /\ queue_' = << >> /\ output' = output /\ logged' = logged
      BY <1>3, <2>1, <3>1 DEF Evaluate, EndsWait, Swapped
    <3>3. output \o batch = output
      BY <1>0, <3>1, ConcatEmptySeq
    <3>4. output \o queue_ \in Seq(Line)
      BY <1>0, ConcatProperties
    <3>5. (output \o queue_) \o << >> = output \o queue_
      BY <3>4, ConcatEmptySeq
    <3> QED
      BY <3>2, <3>3, <3>5 DEF Order
  <2>2. CASE ~EndsWait
    BY <1>1, <1>3, <2>2 DEF Evaluate
  <2> QED
    BY <2>1, <2>2
<1>4. ASSUME Write PROVE Order'
  <2>1. CASE batch = << >>
    BY <1>1, <1>4, <2>1 DEF Write
  <2>2. CASE batch # << >>
    <3> DEFINE line == Head(batch)
    <3>1. /\ output' = Append(output, line) /\ batch' = Tail(batch)
          /\ queue_' = queue_ /\ logged' = logged
      BY <1>4, <2>2 DEF Write
    <3>2. line \in Line /\ Tail(batch) \in Seq(Line)
      BY <1>0, <2>2, HeadTailProperties
    <3>3. batch = <<line>> \o Tail(batch)
      BY <1>0, <2>2, HeadTailProperties
    <3> HIDE DEF line
    <3>4. <<line>> \in Seq(Line)
      BY <3>2
    <3>5. Append(output, line) = output \o <<line>>
      BY <1>0, <3>2, AppendIsConcat
    <3>6. (output \o <<line>>) \o Tail(batch) = output \o (<<line>> \o Tail(batch))
      BY <1>0, <3>2, <3>4, ConcatAssociative
    <3> QED
      BY <3>1, <3>3, <3>5, <3>6 DEF Order
  <2> QED
    BY <2>1, <2>2
<1>5. ASSUME \/ \E l \in Levels : set_level(l)
             \/ \E p \in Threads : \/ \E l \in Levels : LogBegins(p, l)
                                   \/ flush(p) \/ Notify(p)
             \/ ReadRunning \/ Block \/ Wakes \/ TimePasses \/ Spurious
             \/ StopRunning \/ NotifyAll \/ Join
             \/ UNCHANGED vars
      PROVE Order'
  BY <1>1, <1>5 DEF set_level, LogBegins, flush, Notify, ReadRunning, Block, Wakes, TimePasses,
     Spurious, StopRunning, NotifyAll, Join, vars, writer_vars
<1> QED
  BY <1>2, <1>3, <1>4, <1>5 DEF Next, Writer

LEMMA ShutdownStep == Typed /\ Shutdown /\ [Next]_vars => Shutdown'
<1> SUFFICES ASSUME Typed, Shutdown, [Next]_vars PROVE Shutdown'
  OBVIOUS
<1> USE DEF Shutdown
<1>0. Idle.at = "idle" /\ running_ \in BOOLEAN /\ found_busy \in BOOLEAN
  BY DEF Idle, Typed, TypeOK
<1>1. ASSUME NEW l \in Levels, set_level(l) PROVE Shutdown'
  BY <1>1 DEF set_level, writer_vars, owner_vars
<1>2. ASSUME NEW p \in Threads, NEW l \in Levels, LogBegins(p, l) PROVE Shutdown'
  BY <1>2 DEF LogBegins, writer_vars, owner_vars
<1>3. ASSUME NEW p \in Threads, Push(p) PROVE Shutdown'
  <2>1. owner = "none"
    BY <1>0, <1>3 DEF Push
  <2> QED
    BY <1>3, <2>1 DEF Push, writer_vars, owner_vars
<1>4. ASSUME NEW p \in Threads, flush(p) PROVE Shutdown'
  BY <1>4 DEF flush, writer_vars, owner_vars
<1>5. ASSUME NEW p \in Threads, Notify(p) PROVE Shutdown'
  <2>1. owner = "none"
    BY <1>0, <1>5 DEF Notify
  <2> QED
    BY <1>5, <2>1 DEF Notify, Notified, owner_vars
<1>6. ASSUME ReadRunning PROVE Shutdown'
  BY <1>0, <1>6 DEF ReadRunning, owner_vars
<1>7. ASSUME Evaluate PROVE Shutdown'
  <2>1. CASE EndsWait
    <3>1. batch = << >>
      BY <1>7 DEF Evaluate, Typed, TypeOK
    <3> QED
      BY <1>7, <2>1, <3>1 DEF Evaluate, EndsWait, Swapped, owner_vars
  <2>2. CASE ~EndsWait
    BY <1>7, <2>2 DEF Evaluate, owner_vars
  <2> QED
    BY <2>1, <2>2
<1>8. ASSUME Block \/ Wakes \/ Spurious \/ TimePasses PROVE Shutdown'
  BY <1>8 DEF Block, Wakes, Spurious, TimePasses, owner_vars
<1>9. ASSUME Write PROVE Shutdown'
  BY <1>9 DEF Write, owner_vars
<1>10. ASSUME StopRunning PROVE Shutdown'
  BY <1>0, <1>10 DEF StopRunning, writer_vars
<1>11. ASSUME NotifyAll \/ Join PROVE Shutdown'
  BY <1>11 DEF NotifyAll, Notified, Join, writer_vars
<1>12. ASSUME UNCHANGED vars PROVE Shutdown'
  BY <1>12 DEF vars
<1> QED
  BY <1>1, <1>2, <1>3, <1>4, <1>5, <1>6, <1>7, <1>8, <1>9, <1>10, <1>11, <1>12
  DEF Next, Writer

LEMMA Inductive == Spec => []IInv
<1>1. IInv /\ [Next]_vars => IInv'
  BY TypedStep, OrderStep, ShutdownStep DEF IInv
<1> QED
  BY InitIInv, <1>1, PTL DEF Spec

-----------------------------------------------------------------------------

\* log, background_write and ~Logger keep their types, and the writer does not
\* block over a queue that has a line.
THEOREM TypeCorrect == Spec => []TypeOK
<1>1. IInv => TypeOK
  BY DEF IInv, Typed
<1> QED
  BY Inductive, <1>1, PTL

\* Whatever is queued is written, about to be written or still queued, once and in
\* order; and the destructor leaves only lines that came while the writer was busy.
THEOREM LinesAreKept == Spec => []LinesKept
<1>1. ASSUME IInv PROVE LinesKept
  <2>1. logged = output \o batch \o queue_
    BY <1>1 DEF IInv, Order
  <2>2. ASSUME owner = "destroyed" PROVE batch = << >> /\ (queue_ = << >> \/ found_busy)
    BY <1>1, <2>2 DEF IInv, Shutdown, Typed, TypeOK
  <2> QED
    BY <2>1, <2>2 DEF LinesKept
<1> QED
  BY Inductive, <1>1, PTL
=============================================================================
