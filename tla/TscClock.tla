------------------------------- MODULE TscClock -------------------------------
(***************************************************************************)
(* TscClock of tsc_clock.hpp: a calibration made once, behind              *)
(* std::call_once, by whichever thread comes first, and read afterwards by *)
(* every thread that finds the flag initialized set.                       *)
(*                                                                         *)
(* cycles is the processor's counter, and the steady clock counts one      *)
(* nanosecond every CyclesPerNs of them.  Time passes between any two      *)
(* steps of a thread, so the two readings of a pair (clock, then counter)  *)
(* may lie far apart: held remembers by how much.  aware is the set of the *)
(* threads that the calibration has happened before, through the flag's    *)
(* release and acquire or through call_once; the others may still load an  *)
(* old FALSE.  native tells the two builds apart.                          *)
(***************************************************************************)
EXTENDS Integers

CONSTANTS
  Threads,
  Windows,        \* what callers pass to initialize
  DefaultWindow,  \* its default argument
  MinWindow,      \* what a window that is not positive becomes
  CyclesPerNs,
  IdleHorizon, MeasureHorizon, Horizon
    \* bounds on cycles: until the first pair is read, until the calibration
    \* is stored, and for ever

\* Mutant: the window is taken as it is.
RawWindow(w) == w

\* initialize: the window it measures over.
Window(w) == IF w <= 0 THEN MinWindow ELSE w

ASSUME ClockAssumption ==
  /\ Windows \subseteq Int
  /\ {DefaultWindow, MinWindow, CyclesPerNs} \subseteq Nat \ {0}

\* The bounds on time leave room for every calibration.
ASSUME HorizonAssumption ==
  /\ {IdleHorizon, MeasureHorizon, Horizon} \subseteq Nat \ {0}
  /\ \A w \in Windows \cup {DefaultWindow} :
       IdleHorizon + CyclesPerNs * (Window(w) + 1) <= MeasureHorizon
  /\ MeasureHorizon <= Horizon

VARIABLES
  native,        \* which build it is
  cycles,
  once,          \* the once_flag: "fresh", "running" or "done"
  calibration,   \* the members of Calibration; a ratio is a pair of integers
  initialized,
  pc, op, window,
  start, end,    \* the two pairs of readings, local to the calibration
  held, aware,
  latest, floor  \* the latest now_ns() returned so far, and when each call began

stateVars == <<once, calibration, initialized>>
measureVars == <<start, end, held>>
historyVars == <<latest, floor>>
vars == <<native, cycles, stateVars, pc, op, window, measureVars, aware,
          historyVars>>

\* now_cycles stands for the two ratios as well: all three are one read.
Operations == {"initialize", "is_initialized", "now_ns", "now_cycles"}
NoReading == [ns |-> 0, cycles |-> 0]
NoCalibration == [native |-> FALSE, base |-> NoReading,
                  elapsed |-> [ns |-> 1, cycles |-> 1]]

Init ==
  /\ native \in BOOLEAN
  /\ cycles = 1
  /\ once = "fresh"
  /\ calibration = NoCalibration
  /\ initialized = FALSE
  /\ pc = [t \in Threads |-> "idle"]
  /\ op = [t \in Threads |-> "initialize"]
  /\ window = [t \in Threads |-> MinWindow]
  /\ start = NoReading /\ end = NoReading
  /\ held = NoReading
  /\ aware = {}
  /\ latest = 0
  /\ floor = [t \in Threads |-> 0]

-----------------------------------------------------------------------------
(* Time *)

steady_clock == cycles \div CyclesPerNs

Measuring == \E t \in Threads : pc[t] \in {"spin", "end_time", "end_cycles"}

\* Time passes, within the bounds.
Tick ==
  /\ cycles < (IF initialized THEN Horizon
               ELSE IF Measuring THEN MeasureHorizon ELSE IdleHorizon)
  /\ cycles' = cycles + 1
  /\ UNCHANGED <<native, stateVars, pc, op, window, measureVars, aware,
                 historyVars>>

-----------------------------------------------------------------------------
(* A thread calls one of the operations. *)

\* t goes from one place to the next within a call; time stands still.
Goto(t, from, to) ==
  /\ pc[t] = from
  /\ pc' = [pc EXCEPT ![t] = to]
  /\ UNCHANGED <<native, cycles, op, window, historyVars>>

\* The call returns and its arguments are gone.
Return(t, from) ==
  /\ pc[t] = from
  /\ pc' = [pc EXCEPT ![t] = "idle"]
  /\ op' = [op EXCEPT ![t] = "initialize"]
  /\ window' = [window EXCEPT ![t] = MinWindow]
  /\ floor' = [floor EXCEPT ![t] = 0]
  /\ UNCHANGED <<native, cycles>>

Initialize(t) ==
  /\ pc[t] = "idle"
  /\ pc' = [pc EXCEPT ![t] = "once"]
  /\ \E w \in Windows : window' = [window EXCEPT ![t] = Window(w)]
  /\ UNCHANGED <<native, cycles, stateVars, op, measureVars, aware, historyVars>>

Call(t) ==
  /\ pc[t] = "idle"
  /\ pc' = [pc EXCEPT ![t] = "check"]
  /\ \E o \in Operations \ {"initialize"} :
       /\ op' = [op EXCEPT ![t] = o]
       /\ floor' = [floor EXCEPT ![t] = IF o = "now_ns" THEN latest ELSE 0]
  /\ UNCHANGED <<native, cycles, stateVars, window, measureVars, aware, latest>>

\* Mutant: the flag is loaded relaxed and synchronises with nothing.
FindsItSetRelaxed(t) ==
  /\ initialized
  /\ IF op[t] = "is_initialized"
     THEN Return(t, "check") /\ UNCHANGED latest
     ELSE Goto(t, "check", "use")
  /\ UNCHANGED <<stateVars, measureVars, aware>>

\* is_initialized() returns true ...
FindsItSet(t) ==
  /\ initialized
  /\ aware' = aware \cup {t}
  /\ IF op[t] = "is_initialized"
     THEN Return(t, "check") /\ UNCHANGED latest
     ELSE Goto(t, "check", "use")
  /\ UNCHANGED <<stateVars, measureVars>>

\* ... or false, perhaps an old one ...
FindsItUnset(t) ==
  /\ ~initialized \/ t \notin aware
  /\ op[t] = "is_initialized"
  /\ Return(t, "check")
  /\ UNCHANGED <<stateVars, measureVars, aware, latest>>

\* Mutant: the clock itself is read while there is no calibration yet.
ReadsClockMeanwhile(t) ==
  /\ ~initialized \/ t \notin aware
  /\ op[t] # "is_initialized"
  /\ Goto(t, "check", "use")
  /\ UNCHANGED <<stateVars, measureVars, aware>>

\* ... and then the others call initialize() with its default first.
InitializesFirst(t) ==
  /\ pc[t] = "check"
  /\ ~initialized \/ t \notin aware
  /\ op[t] # "is_initialized"
  /\ pc' = [pc EXCEPT ![t] = "once"]
  /\ window' = [window EXCEPT ![t] = Window(DefaultWindow)]
  /\ UNCHANGED <<native, cycles, stateVars, op, measureVars, aware, historyVars>>

-----------------------------------------------------------------------------
(* initialize: std::call_once *)

LeaveInitialize(t, from) ==
  IF op[t] = "initialize"
  THEN Return(t, from) /\ UNCHANGED latest
  ELSE Goto(t, from, "use")

\* The first thread calibrates.
EnterOnce(t) ==
  /\ Goto(t, "once", "start_time")
  /\ once = "fresh"
  /\ once' = "running"
  /\ UNCHANGED <<calibration, initialized, measureVars, aware>>

\* The others wait until it has.
PassOnce(t) ==
  /\ once = "done"
  /\ aware' = aware \cup {t}
  /\ LeaveInitialize(t, "once")
  /\ UNCHANGED <<stateVars, measureVars>>

StartTime(t) ==
  /\ native
  /\ Goto(t, "start_time", "start_cycles")
  /\ start' = [start EXCEPT !.ns = steady_clock]
  /\ held' = [held EXCEPT !.ns = cycles]
  /\ UNCHANGED <<stateVars, end, aware>>

StartCycles(t) ==
  /\ Goto(t, "start_cycles", "spin")
  /\ start' = [start EXCEPT !.cycles = cycles]
  /\ held' = [held EXCEPT !.ns = cycles - @]
  /\ UNCHANGED <<stateVars, end, aware>>

\* Mutant: the deadline moves with the clock.
LeaveSpinLate(t) ==
  /\ Goto(t, "spin", "end_time")
  /\ steady_clock >= steady_clock + window[t]
  /\ UNCHANGED <<stateVars, measureVars, aware>>

\* The clock has reached the deadline.
LeaveSpin(t) ==
  /\ Goto(t, "spin", "end_time")
  /\ steady_clock >= start.ns + window[t]
  /\ UNCHANGED <<stateVars, measureVars, aware>>

EndTime(t) ==
  /\ Goto(t, "end_time", "end_cycles")
  /\ end' = [end EXCEPT !.ns = steady_clock]
  /\ held' = [held EXCEPT !.cycles = cycles]
  /\ UNCHANGED <<stateVars, start, aware>>

\* At least a cycle has passed since the other reading of the counter.
EndCycles(t) ==
  /\ Goto(t, "end_cycles", "store")
  /\ cycles > start.cycles
  /\ end' = [end EXCEPT !.cycles = cycles]
  /\ held' = [held EXCEPT !.cycles = cycles - @]
  /\ UNCHANGED <<stateVars, start, aware>>

\* Without the counter one reading of the clock is enough.
ReadClock(t) ==
  /\ ~native
  /\ Goto(t, "start_time", "store")
  /\ end' = [ns |-> steady_clock, cycles |-> steady_clock]
  /\ UNCHANGED <<stateVars, start, held, aware>>

\* Mutant: the base takes the clock from one pair and the counter from the other.
MeasuredAcross ==
  [native |-> native, base |-> [end EXCEPT !.cycles = start.cycles],
   elapsed |-> [ns |-> end.ns - start.ns, cycles |-> end.cycles - start.cycles]]

\* Mutant: the differences are taken the wrong way round.
MeasuredBackwards ==
  [native |-> native, base |-> end,
   elapsed |-> [ns |-> start.ns - end.ns, cycles |-> start.cycles - end.cycles]]

\* The calibration the readings give; cycles_per_ns and ns_per_cycle are the two
\* quotients of elapsed.
Measured ==
  IF native
  THEN [native |-> TRUE, base |-> end,
        elapsed |-> [ns |-> end.ns - start.ns,
                     cycles |-> end.cycles - start.cycles]]
  ELSE [NoCalibration EXCEPT !.base = end]

Store(t) ==
  /\ Goto(t, "store", "flag")
  /\ calibration' = Measured
  /\ aware' = {t}
  /\ UNCHANGED <<once, initialized, measureVars>>

SetFlag(t) ==
  /\ Goto(t, "flag", "leave")
  /\ initialized' = TRUE
  /\ UNCHANGED <<once, calibration, measureVars, aware>>

\* The calibration is made and call_once lets the others go.
LeaveOnce(t) ==
  /\ LeaveInitialize(t, "leave")
  /\ once' = "done"
  /\ start' = NoReading /\ end' = NoReading
  /\ UNCHANGED <<calibration, initialized, held, aware>>

-----------------------------------------------------------------------------
(* What the operations return. *)

delta_cycles == cycles - calibration.base.cycles

\* The product with ns_per_cycle, cut to an integer.
delta_ns == (delta_cycles * calibration.elapsed.ns) \div calibration.elapsed.cycles

NowNs == IF calibration.native THEN calibration.base.ns + delta_ns
         ELSE steady_clock

LargerOf(a, b) == IF a >= b THEN a ELSE b

\* now_ns, now_cycles, cycles_per_ns or ns_per_cycle returns.
Use(t) ==
  /\ Return(t, "use")
  /\ latest' = IF op[t] = "now_ns" THEN LargerOf(latest, NowNs) ELSE latest
  /\ UNCHANGED <<stateVars, measureVars, aware>>

-----------------------------------------------------------------------------
Calibrate(t) ==
  \/ StartTime(t)
  \/ StartCycles(t)
  \/ LeaveSpin(t)
  \/ EndTime(t)
  \/ EndCycles(t)
  \/ ReadClock(t)
  \/ Store(t)
  \/ SetFlag(t)
  \/ LeaveOnce(t)

Inside(t) ==
  \/ FindsItSet(t)
  \/ FindsItUnset(t)
  \/ InitializesFirst(t)
  \/ EnterOnce(t)
  \/ PassOnce(t)
  \/ Calibrate(t)
  \/ Use(t)

Next ==
  \/ Tick
  \/ \E t \in Threads : Initialize(t) \/ Call(t) \/ Inside(t)

\* Time goes on, and a thread inside a call keeps running.
Fairness == WF_vars(Tick) /\ \A t \in Threads : WF_vars(Inside(t))

Spec == Init /\ [][Next]_vars /\ Fairness

-----------------------------------------------------------------------------
Reading == [ns : 0 .. Horizon, cycles : 0 .. Horizon]

TypeOK ==
  /\ native \in BOOLEAN
  /\ cycles \in 0 .. Horizon
  /\ once \in {"fresh", "running", "done"}
  /\ calibration \in [native : BOOLEAN, base : Reading, elapsed : Reading]
  /\ initialized \in BOOLEAN
  /\ pc \in [Threads -> {"idle", "check", "once", "start_time", "start_cycles",
                         "spin", "end_time", "end_cycles", "store", "flag",
                         "leave", "use"}]
  /\ op \in [Threads -> Operations]
  /\ window \in [Threads -> Nat \ {0}]
  /\ {start, end, held} \subseteq Reading
  /\ aware \subseteq Threads
  /\ latest \in Nat
  /\ floor \in [Threads -> Nat]

\* Whoever reads the calibration without a lock reads the finished one: the flag
\* or call_once has made the calibration happen before the read, the counter is
\* at or past its base, and from then on that thread finds the flag set.
ReadsFinished ==
  \A t \in Threads :
    pc[t] = "use" => /\ t \in aware
                     /\ initialized
                     /\ calibration.native = native
                     /\ calibration.native => delta_cycles >= 0

\* The asserts of initialize hold whatever window was asked for: the clock and
\* the counter have moved on between the readings, so neither ratio is 0 nor
\* divides by it, and the clock by the window of the thread that calibrates.  (That
\* the counter has moved on is what EndCycles takes from the processor.)
MeasuredWholeWindow ==
  \A t \in Threads :
    pc[t] = "store" /\ native =>
      /\ end.ns - start.ns >= window[t]
      /\ end.ns > start.ns
      /\ end.cycles > start.cycles

\* How far now_ns() is from the steady clock depends only on how long the
\* calibrating thread was held up between the two readings of a pair: the base
\* is late by the second hold-up, and the rate, over the time since, is wrong by
\* the difference the two made to the number of cycles measured.
AccurateUnlessHeldUp ==
  initialized /\ native =>
    LET wrong == NowNs * CyclesPerNs - cycles
        rate == LargerOf(held.ns, held.cycles) + CyclesPerNs
        size == IF wrong >= 0 THEN wrong ELSE -wrong
    IN  size * calibration.elapsed.cycles
          <= calibration.elapsed.cycles * (held.cycles + 2 * CyclesPerNs)
             + delta_cycles * rate

\* now_ns() never goes back, across threads either: a call returns no less than
\* any call that had returned before it began.
NeverGoesBack ==
  [][\A t \in Threads : Use(t) /\ op[t] = "now_ns" => NowNs >= floor[t]]_vars

\* Every call returns, those that find the calibration under way too.
CallsReturn == \A t \in Threads : pc[t] \in {"check", "once"} ~> pc[t] = "idle"
=============================================================================
