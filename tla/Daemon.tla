-------------------------------- MODULE Daemon --------------------------------
(***************************************************************************)
(* How the daemon schedules its loops: metrics.Runner, the goroutines of   *)
(* Syncer.Run that drive one Runner each, and the context they share.      *)
(* What a run of a loop does is Syncer's business; here it takes some time *)
(* and returns some error.                                                 *)
(*                                                                         *)
(* Time is discrete and unbounded.  A loop's record holds spans of time    *)
(* (since its runs began, until its ticker fires), capped just above the   *)
(* loop's interval, where a longer span makes no more difference.          *)
(***************************************************************************)
EXTENDS Integers

CONSTANTS
  Loops,      \* the loops of Syncer.Run
  Interval    \* Runner.Interval of each

ASSUME IntervalAssumption == Interval \in [Loops -> Nat \ {0}]

VARIABLES
  ctx,        \* the context of signal.NotifyContext: "live" or "cancelled"
  loop        \* each loop's goroutine, its ticker and its metrics

vars == <<ctx, loop>>

(***************************************************************************)
(* pc      where Runner.Run is;                                            *)
(* err     what the last run returned: the context's error is "cancelled"; *)
(* age     the time since the latest run began, at most Interval + 1;      *)
(* older   the time since the run before it began, at most Interval;       *)
(* due     the time until the ticker fires;                                *)
(* ready   the ticks in the ticker's channel;                              *)
(* passed  whether the ticker has fired during the latest run (history);   *)
(* overran whether that run was counted in overrun_total;                  *)
(* failing the failing gauge.                                              *)
(***************************************************************************)
Goroutine(l) ==
  [pc      : {"starting", "working", "recording", "selecting", "returned"},
   err     : {"nil", "failed", "cancelled"},
   age     : 0 .. Interval[l] + 1,
   older   : 0 .. Interval[l],
   due     : 1 .. Interval[l],
   ready   : {0, 1},
   passed  : BOOLEAN,
   overran : BOOLEAN,
   failing : BOOLEAN]

Init ==
  /\ ctx = "live"
  /\ loop = [l \in Loops |->
       [pc |-> "starting", err |-> "nil", age |-> 0, older |-> Interval[l],
        due |-> Interval[l], ready |-> 0, passed |-> FALSE, overran |-> FALSE,
        failing |-> FALSE]]

-------------------------------------------------------------------------------
(***************************************************************************)
(* Time and the tickers.                                                   *)
(***************************************************************************)
Capped(n, max) == IF n > max THEN max ELSE n

\* Mutant: a timer in the ticker's place, which fires once.
CountdownOnce(l, due) == IF due <= 1 THEN 0 ELSE due - 1

Countdown(l, due) == IF due = 1 THEN Interval[l] ELSE due - 1

\* Mutant: ticks that queue up.
TicksQueued(ready) == ready + 1

\* The channel holds one tick; one that finds it full is dropped.
Ticks(ready) == 1

\* One unit of time passes for a loop whose ticker is running.
Later(l, r) ==
  [r EXCEPT !.age    = Capped(@ + 1, Interval[l] + 1),
            !.older  = Capped(@ + 1, Interval[l]),
            !.due    = Countdown(l, @),
            !.ready  = IF r.due = 1 THEN Ticks(@) ELSE @,
            !.passed = @ \/ (r.due = 1 /\ r.pc = "working")]

Ticking(l) == loop[l].pc \notin {"starting", "returned"}

Elapse ==
  /\ loop' = [l \in Loops |-> IF Ticking(l) THEN Later(l, loop[l]) ELSE loop[l]]
  /\ UNCHANGED ctx

-------------------------------------------------------------------------------
(***************************************************************************)
(* The goroutine of a loop.                                                *)
(***************************************************************************)
\* The ticker is made and the first run begins, whatever the context says.
Begin(l) ==
  /\ loop[l].pc = "starting"
  /\ loop' = [loop EXCEPT ![l].pc = "working"]
  /\ UNCHANGED ctx

\* Mutant: every loop is held to the shortest of the intervals.
OverranShortest(l) == \E k \in Loops : loop[l].age > Interval[k]

Overran(l) == loop[l].age > Interval[l]

\* fn returns; the time it took is compared with the interval.
FnReturns(l, err) ==
  /\ loop[l].pc = "working"
  /\ err = "cancelled" => ctx = "cancelled"
  /\ loop' = [loop EXCEPT ![l].pc = "recording",
                          ![l].err = err,
                          ![l].overran = Overran(l)]
  /\ UNCHANGED ctx

\* Mutant: every error counts.
FailingOnError(l) == loop[l].err # "nil"

\* The failing gauge after a run; an error under a cancelled context is ignored.
Failing(l) ==
  IF loop[l].err # "nil" /\ ctx = "cancelled"
  THEN loop[l].failing
  ELSE loop[l].err # "nil"

\* The context is looked at only now: it may have been cancelled since.
Record(l) ==
  /\ loop[l].pc = "recording"
  /\ loop' = [loop EXCEPT ![l].pc = "selecting", ![l].failing = Failing(l)]
  /\ UNCHANGED ctx

\* The select: with both cases ready, either may be taken.
SelectTick(l) ==
  /\ loop[l].pc = "selecting"
  /\ loop[l].ready > 0
  /\ loop' = [loop EXCEPT ![l].pc = "working",
                          ![l].ready = @ - 1,
                          ![l].age = 0,
                          ![l].older = Capped(loop[l].age, Interval[l]),
                          ![l].passed = FALSE,
                          ![l].overran = FALSE]
  /\ UNCHANGED ctx

\* Mutant: a tick that is ready is always taken first.
SelectDoneLast(l) ==
  /\ loop[l].pc = "selecting"
  /\ ctx = "cancelled"
  /\ loop[l].ready = 0
  /\ loop' = [loop EXCEPT ![l].pc = "returned"]
  /\ UNCHANGED ctx

SelectDone(l) ==
  /\ loop[l].pc = "selecting"
  /\ ctx = "cancelled"
  /\ loop' = [loop EXCEPT ![l].pc = "returned"]
  /\ UNCHANGED ctx

\* SIGTERM or SIGINT.
Cancel ==
  /\ ctx = "live"
  /\ ctx' = "cancelled"
  /\ UNCHANGED loop

Next ==
  \/ Elapse
  \/ Cancel
  \/ \E l \in Loops :
       \/ Begin(l)
       \/ \E err \in {"nil", "failed", "cancelled"} : FnReturns(l, err)
       \/ Record(l)
       \/ SelectTick(l)
       \/ SelectDone(l)

Spec == Init /\ [][Next]_vars

(***************************************************************************)
(* Time passes and goroutines run.  A run may hang while the context is    *)
(* live (an RPC has no deadline), but returns once it is cancelled.  The   *)
(* select picks at random among the cases that are ready, so it does not   *)
(* pass over the cancellation for ever.                                    *)
(***************************************************************************)
Fairness ==
  /\ WF_vars(Elapse)
  /\ \A l \in Loops :
       /\ WF_vars(Begin(l))
       /\ WF_vars(ctx = "cancelled" /\ \E err \in {"nil", "failed", "cancelled"} :
                                          FnReturns(l, err))
       /\ WF_vars(Record(l))
       /\ WF_vars(SelectTick(l))
       /\ SF_vars(SelectDone(l))

FairSpec == Spec /\ Fairness

-------------------------------------------------------------------------------
(***************************************************************************)
(* Properties.                                                             *)
(***************************************************************************)
TypeOK == /\ ctx \in {"live", "cancelled"}
          /\ loop \in [Loops -> UNION {Goroutine(l) : l \in Loops}]
          /\ \A l \in Loops : loop[l] \in Goroutine(l)

(***************************************************************************)
(* What makes NoBurst inductive.  While no tick is ready, the next one     *)
(* fires a full interval after the run before the latest began; a tick     *)
(* that is ready came that late already, and the tick after it will come   *)
(* a full interval after the latest run began.                             *)
(***************************************************************************)
Spaced ==
  \A l \in Loops :
    IF loop[l].ready = 0
    THEN loop[l].older + loop[l].due >= Interval[l]
    ELSE loop[l].older >= Interval[l] /\ loop[l].age + loop[l].due >= Interval[l]

(***************************************************************************)
(* However long the runs take, no three of them begin within one interval: *)
(* the ticks a long run misses collapse into one (loop.go 36-39).          *)
(***************************************************************************)
NoBurst ==
  [][ \A l \in Loops : loop[l].pc = "selecting" /\ loop'[l].pc = "working"
        => loop[l].older >= Interval[l] ]_vars

\* A run in which no tick has fired yet has had less than an interval.
NotDueYet ==
  \A l \in Loops : loop[l].pc \in {"starting", "working"} /\ ~loop[l].passed
                     => loop[l].age + loop[l].due <= Interval[l]

TickerPhase == Spaced /\ NotDueYet

(***************************************************************************)
(* A run counted as an overrun was still at work when the next one came    *)
(* due (metrics.go 41-42).                                                 *)
(***************************************************************************)
OverrunWasDue == \A l \in Loops : loop[l].overran => loop[l].passed

(***************************************************************************)
(* Shutting down raises no alarm: an error that the cancellation caused    *)
(* leaves the failing gauge alone (loop.go 73-76).                         *)
(***************************************************************************)
ShutdownIsNoFailure ==
  [][ \A l \in Loops : loop[l].err = "cancelled"
        => loop'[l].failing = loop[l].failing ]_vars

\* Once the context is cancelled all loops return, and Syncer.Run with them.
Returns == ctx = "cancelled" ~> \A l \in Loops : loop[l].pc = "returned"

\* A loop that waits runs again, as long as nobody stops the daemon.
RunsAgain ==
  \A l \in Loops :
    loop[l].pc = "selecting" ~> (loop[l].pc = "working" \/ ctx = "cancelled")
===============================================================================
