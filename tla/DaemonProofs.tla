----------------------------- MODULE DaemonProofs -----------------------------
(***************************************************************************)
(* Proofs about Daemon, for any set of loops and any intervals: the types, *)
(* that runs keep their distance, that an overrun is one, and that         *)
(* shutting down looks like no failure.                                    *)
(***************************************************************************)
EXTENDS Daemon, TLAPS

\* One unit of time keeps the type of a loop's record.
LEMMA LaterType ==
  ASSUME NEW l \in Loops, NEW r \in Goroutine(l)
  PROVE  Later(l, r) \in Goroutine(l)
<1>1. Interval[l] \in Nat \ {0}
  BY IntervalAssumption
<1>2. /\ Capped(r.age + 1, Interval[l] + 1) \in 0 .. Interval[l] + 1
      /\ Capped(r.older + 1, Interval[l]) \in 0 .. Interval[l]
      /\ Countdown(l, r.due) \in 1 .. Interval[l]
  BY <1>1 DEF Goroutine, Capped, Countdown
<1>3. QED
  BY <1>2 DEF Goroutine, Later, Ticks

\* What a step does to one loop: time passes for it, it stands still, or it acts.
LEMMA OneLoop ==
  ASSUME [Next]_vars, TypeOK, NEW k \in Loops
  PROVE  \/ loop'[k] = Later(k, loop[k]) /\ Ticking(k)
         \/ loop'[k] = loop[k]
         \/ Begin(k)
         \/ \E err \in {"nil", "failed", "cancelled"} : FnReturns(k, err)
         \/ Record(k) \/ SelectTick(k) \/ SelectDone(k)
<1>1. CASE Elapse
  BY <1>1 DEF Elapse
<1>2. CASE Cancel \/ UNCHANGED vars
  BY <1>2 DEF Cancel, vars
<1>3. ASSUME NEW l \in Loops,
             \/ Begin(l)
             \/ \E err \in {"nil", "failed", "cancelled"} : FnReturns(l, err)
             \/ Record(l) \/ SelectTick(l) \/ SelectDone(l)
      PROVE  l = k \/ loop'[k] = loop[k]
  BY <1>3 DEF TypeOK, Begin, FnReturns, Record, SelectTick, SelectDone
<1>4. QED
  BY <1>1, <1>2, <1>3 DEF Next

-------------------------------------------------------------------------------
LEMMA NextType == TypeOK /\ [Next]_vars => TypeOK'
<1> SUFFICES ASSUME TypeOK, [Next]_vars PROVE TypeOK'
  OBVIOUS
<1>1. ctx' \in {"live", "cancelled"}
  BY DEF TypeOK, Next, vars, Elapse, Cancel, Begin, FnReturns, Record, SelectTick, SelectDone
<1>2. DOMAIN loop' = Loops /\ loop' = [l \in Loops |-> loop'[l]]
  BY DEF TypeOK, Next, vars, Elapse, Cancel, Begin, FnReturns, Record, SelectTick, SelectDone
<1>3. ASSUME NEW k \in Loops PROVE loop'[k] \in Goroutine(k)
  <2>1. loop[k] \in Goroutine(k) /\ Interval[k] \in Nat \ {0}
    BY IntervalAssumption DEF TypeOK
  <2>2. CASE Begin(k)
    BY <2>1, <2>2 DEF Begin, Goroutine, TypeOK
  <2>3. CASE \E err \in {"nil", "failed", "cancelled"} : FnReturns(k, err)
    <3>1. PICK err \in {"nil", "failed", "cancelled"} : FnReturns(k, err)
      BY <2>3
    <3>2. loop'[k] = [loop[k] EXCEPT !.pc = "recording", !.err = err, !.overran = Overran(k)]
      BY <3>1 DEF FnReturns, TypeOK
    <3>3. Overran(k) \in BOOLEAN
      BY DEF Overran
    <3> HIDE DEF Overran
    <3>4. QED
      BY <2>1, <3>2, <3>3 DEF Goroutine
  <2>4. CASE Record(k)
    <3>1. Failing(k) \in BOOLEAN
      BY <2>1 DEF Failing, Goroutine
    <3>2. QED
      BY <2>1, <2>4, <3>1 DEF Record, Goroutine, TypeOK
  <2>5. CASE SelectTick(k)
    <3>1. Capped(loop[k].age, Interval[k]) \in 0 .. Interval[k] /\ loop[k].ready - 1 \in {0, 1}
      BY <2>1, <2>5 DEF Capped, Goroutine, SelectTick
    <3>2. loop'[k] = [loop[k] EXCEPT !.pc = "working",
                                     !.ready = @ - 1,
                                     !.age = 0,
                                     !.older = Capped(loop[k].age, Interval[k]),
                                     !.passed = FALSE,
                                     !.overran = FALSE]
      BY <2>5 DEF SelectTick, TypeOK
    <3> DEFINE older == Capped(loop[k].age, Interval[k])
               ready == loop[k].ready - 1
    <3>3. older \in 0 .. Interval[k] /\ ready \in {0, 1} /\ 0 \in 0 .. Interval[k] + 1
      BY <2>1, <3>1
    <3>4. loop'[k] = [loop[k] EXCEPT !.pc = "working", !.ready = ready, !.age = 0,
                                     !.older = older, !.passed = FALSE, !.overran = FALSE]
      BY <3>2
    <3> HIDE DEF older, ready
    <3>5. QED
      BY <2>1, <3>3, <3>4 DEF Goroutine
  <2>6. CASE SelectDone(k)
    BY <2>1, <2>6 DEF SelectDone, Goroutine, TypeOK
  <2>7. QED
    BY <2>1, <2>2, <2>3, <2>4, <2>5, <2>6, OneLoop, LaterType
<1>4. loop' \in [Loops -> UNION {Goroutine(l) : l \in Loops}]
  BY <1>2, <1>3
<1>5. QED
  BY <1>1, <1>3, <1>4 DEF TypeOK

\* The daemon's scheduling state keeps its type.
THEOREM TypeCorrect == Spec => []TypeOK
<1>1. Init => TypeOK
  BY IntervalAssumption DEF Init, TypeOK, Goroutine
<1>2. QED
  BY <1>1, NextType, PTL DEF Spec

-------------------------------------------------------------------------------
LEMMA NextSpaced == TypeOK /\ Spaced /\ [Next]_vars => Spaced'
<1> SUFFICES ASSUME TypeOK, Spaced, [Next]_vars, NEW k \in Loops
             PROVE  IF loop'[k].ready = 0
                    THEN loop'[k].older + loop'[k].due >= Interval[k]
                    ELSE /\ loop'[k].older >= Interval[k]
                         /\ loop'[k].age + loop'[k].due >= Interval[k]
  BY DEF Spaced
<1> DEFINE r == loop[k]
<1>1. r \in Goroutine(k) /\ Interval[k] \in Nat \ {0}
  BY IntervalAssumption DEF TypeOK
<1>2. IF r.ready = 0 THEN r.older + r.due >= Interval[k]
      ELSE r.older >= Interval[k] /\ r.age + r.due >= Interval[k]
  BY DEF Spaced
<1>3. CASE loop'[k] = Later(k, r)
  BY <1>1, <1>2, <1>3 DEF Later, Goroutine, Capped, Countdown, Ticks
<1>4. CASE SelectTick(k)
  <2>1. /\ loop'[k].ready = 0 /\ loop'[k].due = r.due
        /\ loop'[k].older = Capped(r.age, Interval[k])
        /\ r.ready = 1
    BY <1>1, <1>4 DEF SelectTick, TypeOK, Goroutine
  <2>2. QED
    BY <1>1, <1>2, <2>1 DEF Goroutine, Capped
<1>5. CASE \/ Begin(k) \/ Record(k) \/ SelectDone(k)
           \/ \E err \in {"nil", "failed", "cancelled"} : FnReturns(k, err)
  <2>1. /\ loop'[k].ready = r.ready /\ loop'[k].due = r.due
        /\ loop'[k].older = r.older /\ loop'[k].age = r.age
    BY <1>1, <1>5 DEF Begin, Record, SelectDone, FnReturns, TypeOK, Goroutine
  <2>2. QED
    BY <1>2, <2>1
<1>6. QED
  BY <1>2, <1>3, <1>4, <1>5, OneLoop

LEMMA InitSpaced == Init => Spaced
<1> SUFFICES ASSUME Init, NEW l \in Loops
             PROVE  loop[l].ready = 0 /\ loop[l].older + loop[l].due >= Interval[l]
  BY DEF Spaced
<1>1. loop[l].ready = 0 /\ loop[l].older = Interval[l] /\ loop[l].due = Interval[l]
  BY DEF Init
<1> QED
  BY <1>1, IntervalAssumption

\* Of three runs of a loop, the last begins an interval or more after the first.
THEOREM RunsAreSpaced == Spec => NoBurst
<1> DEFINE Apart == \A l \in Loops : loop[l].pc = "selecting" /\ loop'[l].pc = "working"
                      => loop[l].older >= Interval[l]
<1>2. TypeOK /\ Spaced /\ [Next]_vars => [Apart]_vars
  <2> SUFFICES ASSUME TypeOK, Spaced, [Next]_vars, NEW k \in Loops,
                      loop[k].pc = "selecting", loop'[k].pc = "working"
               PROVE  loop[k].older >= Interval[k]
    OBVIOUS
  <2>1. loop[k] \in Goroutine(k)
    BY DEF TypeOK
  <2>2. SelectTick(k)
    BY <2>1, OneLoop
       DEF Later, Begin, FnReturns, Record, SelectDone, TypeOK, Goroutine
  <2>3. loop[k].ready # 0
    BY <2>1, <2>2 DEF SelectTick, Goroutine
  <2>4. QED
    BY <2>3 DEF Spaced
<1>3. QED
  BY <1>2, InitSpaced, NextSpaced, TypeCorrect, PTL DEF Spec, NoBurst

-------------------------------------------------------------------------------
LEMMA NextDue == TypeOK /\ NotDueYet /\ OverrunWasDue /\ [Next]_vars
                   => NotDueYet' /\ OverrunWasDue'
<1> SUFFICES ASSUME TypeOK, NotDueYet, OverrunWasDue, [Next]_vars, NEW k \in Loops
             PROVE  /\ loop'[k].pc \in {"starting", "working"} /\ ~loop'[k].passed
                         => loop'[k].age + loop'[k].due <= Interval[k]
                    /\ loop'[k].overran => loop'[k].passed
  BY DEF NotDueYet, OverrunWasDue
<1> DEFINE r == loop[k]
<1>1. r \in Goroutine(k) /\ Interval[k] \in Nat \ {0}
  BY IntervalAssumption DEF TypeOK
<1>2. /\ r.pc \in {"starting", "working"} /\ ~r.passed => r.age + r.due <= Interval[k]
      /\ r.overran => r.passed
  BY DEF NotDueYet, OverrunWasDue
<1>3. CASE loop'[k] = Later(k, r) /\ Ticking(k)
  <2>1. /\ loop'[k].pc = r.pc /\ loop'[k].overran = r.overran
        /\ loop'[k].passed = (r.passed \/ (r.due = 1 /\ r.pc = "working"))
        /\ loop'[k].age = Capped(r.age + 1, Interval[k] + 1)
        /\ loop'[k].due = Countdown(k, r.due)
    BY <1>1, <1>3 DEF Later, Goroutine
  <2>2. loop'[k].overran => loop'[k].passed
    BY <1>2, <2>1
  <2>3. ASSUME loop'[k].pc \in {"starting", "working"}, ~loop'[k].passed
        PROVE  loop'[k].age + loop'[k].due <= Interval[k]
    <3>1. r.pc = "working" /\ ~r.passed /\ r.due # 1
      BY <1>3, <2>1, <2>3 DEF Ticking
    <3>2. r.age + r.due <= Interval[k] /\ r.age \in Nat /\ r.due \in Nat
      BY <1>1, <1>2, <3>1 DEF Goroutine
    <3>3. loop'[k].age = r.age + 1 /\ loop'[k].due = r.due - 1
      BY <1>1, <2>1, <3>1, <3>2 DEF Capped, Countdown
    <3>4. QED
      BY <1>1, <3>2, <3>3
  <2>4. QED
    BY <2>2, <2>3
<1>4. CASE SelectTick(k)
  <2>1. /\ loop'[k].age = 0 /\ loop'[k].due = r.due
        /\ loop'[k].overran = FALSE
    BY <1>1, <1>4 DEF SelectTick, TypeOK, Goroutine
  <2>2. QED
    BY <1>1, <2>1 DEF Goroutine
<1>5. CASE Begin(k)
  BY <1>1, <1>2, <1>5 DEF Begin, TypeOK, Goroutine
<1>6. CASE \E err \in {"nil", "failed", "cancelled"} : FnReturns(k, err)
  <2>1. /\ r.pc = "working" /\ loop'[k].pc = "recording"
        /\ loop'[k].passed = r.passed
        /\ loop'[k].overran = (r.age > Interval[k])
    BY <1>1, <1>6 DEF FnReturns, Overran, TypeOK, Goroutine
  <2>2. QED
    BY <1>1, <1>2, <2>1 DEF Goroutine
<1>7. CASE Record(k) \/ SelectDone(k)
  BY <1>1, <1>2, <1>7 DEF Record, SelectDone, TypeOK, Goroutine
<1>8. QED
  BY <1>2, <1>3, <1>4, <1>5, <1>6, <1>7, OneLoop

LEMMA InitDue == Init => NotDueYet /\ OverrunWasDue
<1> SUFFICES ASSUME Init, NEW l \in Loops
             PROVE  ~loop[l].overran /\ loop[l].age + loop[l].due <= Interval[l]
  BY DEF NotDueYet, OverrunWasDue
<1>1. ~loop[l].overran /\ loop[l].age = 0 /\ loop[l].due = Interval[l]
  BY DEF Init
<1> QED
  BY <1>1, IntervalAssumption

\* What overrun_total counts was still at work when the next run came due.
THEOREM OverrunsAreReal == Spec => []OverrunWasDue
  BY InitDue, NextDue, TypeCorrect, PTL DEF Spec

\* Where the ticker stands relative to the last two runs.
THEOREM TickersInPhase == Spec => []TickerPhase
<1>1. TickerPhase <=> Spaced /\ NotDueYet
  BY DEF TickerPhase
<1> QED
  BY <1>1, InitSpaced, NextSpaced, InitDue, NextDue, TypeCorrect, PTL DEF Spec

-------------------------------------------------------------------------------
\* No run returns the context's error before there is one.
NoEarlyCancel == \A l \in Loops : loop[l].err = "cancelled" => ctx = "cancelled"

LEMMA NextCancel == TypeOK /\ NoEarlyCancel /\ [Next]_vars => NoEarlyCancel'
<1> SUFFICES ASSUME TypeOK, NoEarlyCancel, [Next]_vars, NEW k \in Loops,
                    loop'[k].err = "cancelled"
             PROVE  ctx' = "cancelled"
  BY DEF NoEarlyCancel
<1>1. ctx = "cancelled" => ctx' = "cancelled"
  BY DEF Next, vars, Elapse, Cancel, Begin, FnReturns, Record, SelectTick, SelectDone
<1>2. loop[k].err = "cancelled" => ctx = "cancelled"
  BY DEF NoEarlyCancel
<1>3. loop[k] \in Goroutine(k)
  BY DEF TypeOK
<1>4. CASE \E err \in {"nil", "failed", "cancelled"} : FnReturns(k, err)
  <2>1. PICK err \in {"nil", "failed", "cancelled"} : FnReturns(k, err)
    BY <1>4
  <2>2. loop'[k].err = err
    BY <1>3, <2>1 DEF FnReturns, TypeOK, Goroutine
  <2> QED
    BY <2>1, <2>2 DEF FnReturns
<1>5. CASE ~\E err \in {"nil", "failed", "cancelled"} : FnReturns(k, err)
  <2>1. loop'[k].err = loop[k].err
    <3>1. Later(k, loop[k]).err = loop[k].err
      BY <1>3 DEF Later, Goroutine
    <3>2. ASSUME Begin(k) \/ Record(k) \/ SelectTick(k) \/ SelectDone(k)
          PROVE  loop'[k].err = loop[k].err
      BY <1>3, <3>2 DEF Begin, Record, SelectTick, SelectDone, TypeOK, Goroutine
    <3> QED
      BY <1>5, <3>1, <3>2, OneLoop
  <2> QED
    BY <1>1, <1>2, <2>1
<1> QED
  BY <1>4, <1>5

\* An error that the cancellation caused never moves the failing gauge.
THEOREM ShutdownRaisesNoAlarm == Spec => ShutdownIsNoFailure
<1> DEFINE Kept == \A l \in Loops : loop[l].err = "cancelled"
                     => loop'[l].failing = loop[l].failing
<1>1. Init => NoEarlyCancel
  BY DEF Init, NoEarlyCancel
<1>2. TypeOK /\ NoEarlyCancel /\ [Next]_vars => [Kept]_vars
  <2> SUFFICES ASSUME TypeOK, NoEarlyCancel, [Next]_vars, NEW k \in Loops,
                      loop[k].err = "cancelled"
               PROVE  loop'[k].failing = loop[k].failing
    OBVIOUS
  <2>1. loop[k] \in Goroutine(k) /\ ctx = "cancelled"
    BY DEF TypeOK, NoEarlyCancel
  <2>2. CASE Record(k)
    <3>1. Failing(k) = loop[k].failing
      BY <2>1 DEF Failing
    <3> QED
      BY <2>1, <2>2, <3>1 DEF Record, TypeOK, Goroutine
  <2>3. CASE ~Record(k)
    <3>1. Later(k, loop[k]).failing = loop[k].failing
      BY <2>1 DEF Later, Goroutine
    <3>2. ASSUME \/ Begin(k) \/ SelectTick(k) \/ SelectDone(k)
                 \/ \E err \in {"nil", "failed", "cancelled"} : FnReturns(k, err)
          PROVE  loop'[k].failing = loop[k].failing
      BY <2>1, <3>2 DEF Begin, FnReturns, SelectTick, SelectDone, TypeOK, Goroutine
    <3> QED
      BY <2>3, <3>1, <3>2, OneLoop
  <2> QED
    BY <2>2, <2>3
<1>3. QED
  BY <1>1, <1>2, NextCancel, TypeCorrect, PTL DEF Spec, ShutdownIsNoFailure
===============================================================================
