---------------------------- MODULE TscClockProofs ----------------------------
(***************************************************************************)
(* The theorems about TscClock, for any threads, windows and speed of the  *)
(* counter, in both builds, however long the bounds let time go on.        *)
(***************************************************************************)
EXTENDS TscClock, TLAPS

-----------------------------------------------------------------------------
(* The inductive invariant *)

Calibrating == {"start_time", "start_cycles", "spin", "end_time", "end_cycles",
                "store", "flag", "leave"}

\* One thread at most is inside call_once, and the flag is set at its end, or when
\* nobody is inside any more.
OnceInv ==
  /\ \A t \in Threads : pc[t] \in Calibrating => once = "running"
  /\ \A s, t \in Threads :
       pc[s] \in Calibrating /\ pc[t] \in Calibrating => s = t
  /\ once = "done" => initialized
  /\ initialized => once = "done" \/ \E t \in Threads : pc[t] = "leave"
  /\ \A t \in Threads :
       /\ pc[t] \in {"leave", "use"} => initialized
       /\ pc[t] \in {"flag", "leave", "use"} => t \in aware

\* What the clock showed when the counter was at c.
ClockAt(c) == c \div CyclesPerNs

\* What the calibrating thread has read: each clock reading is that of a moment, the
\* counter was read at or after it, and held is how long after.
HasMeasured(t) ==
  /\ pc[t] \in {"start_cycles", "spin", "end_time", "end_cycles"} => native
  /\ pc[t] = "start_cycles" => held.ns <= cycles /\ start.ns = ClockAt(held.ns)
  /\ pc[t] \in {"spin", "end_time", "end_cycles", "store"} /\ native =>
       /\ held.ns <= start.cycles /\ start.cycles <= cycles
       /\ start.ns = ClockAt(start.cycles - held.ns)
  /\ pc[t] = "end_time" => ClockAt(cycles) >= start.ns + window[t]
  /\ pc[t] = "end_cycles" => held.cycles <= cycles /\ end.ns = ClockAt(held.cycles)
  /\ pc[t] = "store" /\ native =>
       /\ held.cycles <= end.cycles /\ end.cycles <= cycles
       /\ end.ns = ClockAt(end.cycles - held.cycles)
       /\ start.cycles < end.cycles
  /\ pc[t] \in {"end_cycles", "store"} /\ native => end.ns >= start.ns + window[t]

MeasureInv == \A t \in Threads : HasMeasured(t)

Stored == initialized \/ \E t \in Threads : pc[t] = "flag"

base == calibration.base
elapsed == calibration.elapsed

\* The calibration, once stored, remembers the two pairs of readings: the base is
\* the second, and what has elapsed before it leads back to the first.
CalibrationInv ==
  Stored =>
    /\ calibration.native = native
    /\ native =>
         /\ elapsed.ns > 0 /\ elapsed.cycles > 0
         /\ base.cycles <= cycles
         /\ held.cycles <= base.cycles
         /\ base.ns = ClockAt(base.cycles - held.cycles)
         /\ elapsed.cycles + held.ns <= base.cycles
         /\ base.ns - elapsed.ns = ClockAt(base.cycles - elapsed.cycles - held.ns)

\* Nothing returned so far is later than the present.
LatestInv ==
  /\ latest <= IF initialized THEN NowNs ELSE 0
  /\ \A t \in Threads : floor[t] <= latest

IInv == TypeOK /\ OnceInv /\ MeasureInv /\ CalibrationInv /\ LatestInv

-----------------------------------------------------------------------------
(* Quotients *)

\* What the constants are.
LEMMA Constants ==
  /\ CyclesPerNs \in Nat \ {0} /\ DefaultWindow \in Nat \ {0}
  /\ MinWindow \in Nat \ {0} /\ Windows \subseteq Int
  /\ IdleHorizon \in Nat \ {0} /\ Horizon \in Nat \ {0} /\ MeasureHorizon \in Nat \ {0}
  /\ IdleHorizon <= Horizon /\ MeasureHorizon <= Horizon
<1>1. CyclesPerNs \in Nat \ {0} /\ DefaultWindow \in Nat \ {0}
      /\ MinWindow \in Nat \ {0} /\ Windows \subseteq Int
  BY ClockAssumption
<1>2. IdleHorizon \in Nat \ {0} /\ Horizon \in Nat \ {0} /\ MeasureHorizon \in Nat \ {0}
      /\ MeasureHorizon <= Horizon
  BY HorizonAssumption
<1>3. IdleHorizon <= MeasureHorizon
  <2>1. Window(DefaultWindow) \in Nat
    BY <1>1 DEF Window
  <2>2. IdleHorizon + CyclesPerNs * (Window(DefaultWindow) + 1) <= MeasureHorizon
    BY HorizonAssumption
  <2>3. CyclesPerNs * (Window(DefaultWindow) + 1) \in Nat
    BY <1>1, <2>1
  <2>. QED
    BY <1>2, <2>2, <2>3
<1>. QED
  BY <1>1, <1>2, <1>3

\* A quotient is where its multiples say.
LEMMA Quotient ==
  ASSUME NEW n \in Int, NEW d \in Nat \ {0}
  PROVE  /\ n \div d \in Int
         /\ d * (n \div d) <= n
         /\ n < d * (n \div d) + d
OBVIOUS

\* An integer whose product with d lies below another's is no larger.
LEMMA ProductOrder ==
  ASSUME NEW d \in Nat \ {0}, NEW a \in Int, NEW b \in Int, d * a < d * b + d
  PROVE  a <= b
<1>. SUFFICES ASSUME a >= b + 1 PROVE FALSE
  OBVIOUS
<1>1. d * a >= d * (b + 1)
  OBVIOUS
<1>2. d * (b + 1) = d * b + d
  OBVIOUS
<1>. QED
  BY <1>1, <1>2

\* Quotients grow with what is divided.
LEMMA QuotientGrows ==
  ASSUME NEW m \in Int, NEW n \in Int, NEW d \in Nat \ {0}, m <= n
  PROVE  m \div d <= n \div d
<1>. DEFINE a == m \div d
            b == n \div d
<1>1. a \in Int /\ b \in Int /\ d * a <= m /\ n < d * b + d
  BY Quotient
<1>2. d * a \in Int /\ d * b \in Int
  BY <1>1
<1>3. d * a < d * b + d
  BY <1>1, <1>2
<1>. QED
  BY <1>1, <1>3, ProductOrder

\* And lie between 0 and it when it is not negative.
LEMMA QuotientRange ==
  ASSUME NEW n \in Nat, NEW d \in Nat \ {0}
  PROVE  n \div d \in 0 .. n
<1>. DEFINE a == n \div d
<1>1. a \in Int /\ d * a <= n /\ n < d * a + d
  BY Quotient
<1>2. 0 <= a
  BY <1>1, ProductOrder
<1>3. a <= d * a
  BY <1>1, <1>2
<1>4. d * a \in Int
  BY <1>1
<1>. QED
  BY <1>1, <1>2, <1>3, <1>4

\* The clock shows a number, no larger than the counter, and never goes back.
LEMMA ClockFacts ==
  /\ \A c \in Nat : ClockAt(c) \in 0 .. c
  /\ \A c, e \in Nat : c <= e => ClockAt(c) <= ClockAt(e)
BY QuotientRange, QuotientGrows, Constants DEF ClockAt

\* One nanosecond is CyclesPerNs cycles.
LEMMA ClockQuotient ==
  ASSUME NEW c \in Nat
  PROVE  /\ CyclesPerNs * ClockAt(c) <= c
         /\ c < CyclesPerNs * ClockAt(c) + CyclesPerNs
BY Quotient, Constants DEF ClockAt

-----------------------------------------------------------------------------
(* What the invariant says of a state *)

\* While a thread is inside call_once nobody else is, and before it has stored the
\* calibration nobody uses one.
LEMMA AloneInside ==
  ASSUME IInv, NEW t \in Threads, pc[t] \in Calibrating
  PROVE  /\ \A s \in Threads : s # t => pc[s] \notin Calibrating
         /\ once = "running"
         /\ pc[t] # "leave" => ~initialized /\ \A s \in Threads : pc[s] # "use"
         /\ pc[t] \notin {"flag", "leave"} => ~Stored
<1>1. /\ \A s \in Threads : s # t => pc[s] \notin Calibrating
      /\ once = "running"
  BY DEF IInv, OnceInv
<1>2. pc[t] # "leave" => ~initialized
  BY <1>1 DEF IInv, OnceInv, Calibrating
<1>. QED
  BY <1>1, <1>2 DEF IInv, OnceInv, Stored, Calibrating

GivesTime == NowNs \in Nat

\* Once there is a calibration the time it gives is a number.
LEMMA NowNsType == TypeOK /\ CalibrationInv /\ Stored => GivesTime
<1>. SUFFICES ASSUME TypeOK, CalibrationInv, Stored PROVE NowNs \in Nat
  BY DEF GivesTime
<1>1. cycles \in Nat /\ base.ns \in Nat /\ base.cycles \in Nat
      /\ elapsed.ns \in Nat /\ elapsed.cycles \in Nat
  BY Constants DEF TypeOK, Reading, base, elapsed
<1>2. CASE native
  <2>1. calibration.native /\ elapsed.cycles > 0 /\ base.cycles <= cycles
    BY <1>2 DEF CalibrationInv
  <2>. elapsed.cycles \in Nat \ {0} /\ delta_cycles \in Nat
    BY <1>1, <2>1 DEF delta_cycles, base
  <2>2. delta_cycles * elapsed.ns \in Nat
    BY <1>1, <2>1
  <2>3. (delta_cycles * elapsed.ns) \div elapsed.cycles
          \in 0 .. delta_cycles * elapsed.ns
    BY <2>2, QuotientRange
  <2>4. delta_ns \in Nat
    BY <2>2, <2>3 DEF delta_ns, elapsed
  <2>. QED
    BY <1>1, <2>1, <2>4 DEF NowNs, base
<1>3. CASE ~native
  BY <1>1, <1>3, ClockFacts DEF CalibrationInv, NowNs, steady_clock, ClockAt
<1>. QED
  BY <1>2, <1>3

\* The same of the next state.
LEMMA NowNsTypeNext == TypeOK' /\ CalibrationInv' /\ Stored' => GivesTime'
BY NowNsType, PTL

-----------------------------------------------------------------------------
(* The invariant is inductive *)

\* At first nobody has done anything.
LEMMA InitIInv == Init => IInv
<1>. SUFFICES ASSUME Init PROVE IInv
  OBVIOUS
<1>1. TypeOK
  <2>1. {start, end, held} \subseteq Reading
    BY Constants DEF Init, NoReading, Reading
  <2>2. calibration \in [native : BOOLEAN, base : Reading, elapsed : Reading]
    BY Constants DEF Init, NoCalibration, NoReading, Reading
  <2>3. pc \in [Threads -> {"idle", "check", "once", "start_time", "start_cycles",
                            "spin", "end_time", "end_cycles", "store", "flag",
                            "leave", "use"}]
    BY DEF Init
  <2>4. op \in [Threads -> Operations]
    BY DEF Init, Operations
  <2>5. window \in [Threads -> Nat \ {0}] /\ cycles \in 0 .. Horizon
    BY Constants DEF Init
  <2>6. latest \in Nat /\ floor \in [Threads -> Nat] /\ aware \subseteq Threads
    BY DEF Init
  <2>. QED
    BY <2>1, <2>2, <2>3, <2>4, <2>5, <2>6 DEF Init, TypeOK
<1>2. OnceInv /\ MeasureInv /\ CalibrationInv /\ LatestInv
  BY DEF Init, OnceInv, MeasureInv, HasMeasured, CalibrationInv, LatestInv, Stored,
     Calibrating
<1>. QED
  BY <1>1, <1>2 DEF IInv

\* A step of a thread outside call_once.
LEMMA OutsideStep ==
  ASSUME IInv, NEW t \in Threads, NEW to \in {"idle", "check", "once", "use"},
         pc[t] \notin Calibrating,
         pc' = [pc EXCEPT ![t] = to],
         to = "use" => initialized /\ t \in aware',
         aware \subseteq aware', aware' \subseteq Threads,
         op' \in [Threads -> Operations],
         window' \in [Threads -> Nat \ {0}],
         \A s \in Threads : s # t => window'[s] = window[s],
         latest' \in Nat, latest' <= IF initialized THEN NowNs ELSE 0,
         floor' \in [Threads -> Nat],
         \A s \in Threads : floor'[s] <= latest',
         UNCHANGED <<native, cycles, stateVars, measureVars>>
  PROVE  IInv'
<1>. USE DEF IInv, stateVars, measureVars
<1>1. pc'[t] = to /\ \A s \in Threads : s # t => pc'[s] = pc[s]
  BY DEF TypeOK
<1>2. TypeOK'
  <2>1. pc' \in [Threads -> {"idle", "check", "once", "start_time", "start_cycles",
                             "spin", "end_time", "end_cycles", "store", "flag",
                             "leave", "use"}]
    BY DEF TypeOK
  <2>. QED
    BY <2>1 DEF TypeOK
<1>3. \A s \in Threads :
        pc'[s] \in Calibrating => s # t /\ pc[s] \in Calibrating /\ pc'[s] = pc[s]
  BY <1>1 DEF Calibrating
<1>4. OnceInv'
  <2>1. \A s \in Threads : /\ pc'[s] \in {"leave", "use"} => initialized
                           /\ pc'[s] \in {"flag", "leave", "use"} => s \in aware'
    BY <1>1 DEF OnceInv
  <2>2. \A s \in Threads : pc[s] = "leave" => pc'[s] = "leave"
    BY <1>1 DEF Calibrating
  <2>. QED
    BY <1>3, <2>1, <2>2 DEF OnceInv
<1>5. MeasureInv'
  <2>. SUFFICES ASSUME NEW s \in Threads PROVE HasMeasured(s)'
    BY DEF MeasureInv
  <2>1. CASE pc'[s] \in Calibrating
    BY <1>3, <2>1 DEF MeasureInv, HasMeasured
  <2>2. CASE pc'[s] \notin Calibrating
    BY <2>2 DEF HasMeasured, Calibrating
  <2>. QED
    BY <2>1, <2>2
<1>6. CalibrationInv'
  <2>1. Stored' => Stored
    BY <1>3 DEF Stored, Calibrating
  <2>. QED
    BY <2>1 DEF CalibrationInv, base, elapsed
<1>7. LatestInv'
  BY DEF LatestInv, NowNs, delta_ns, delta_cycles, steady_clock
<1>. QED
  BY <1>2, <1>4, <1>5, <1>6, <1>7

\* A step of the calibration before it is stored.
LEMMA MeasureStep ==
  ASSUME IInv, NEW t \in Threads,
         NEW to \in {"start_cycles", "spin", "end_time", "end_cycles", "store"},
         pc[t] \in Calibrating \ {"flag", "leave"},
         pc' = [pc EXCEPT ![t] = to],
         start' \in Reading, end' \in Reading, held' \in Reading,
         HasMeasured(t)',
         UNCHANGED <<native, cycles, stateVars, op, window, aware, historyVars>>
  PROVE  IInv'
<1>. USE DEF IInv, stateVars, historyVars
<1>1. pc'[t] = to /\ \A s \in Threads : s # t => pc'[s] = pc[s]
  BY DEF TypeOK
<1>2. \A s \in Threads : s # t => pc[s] \notin Calibrating
  BY AloneInside
<1>3. TypeOK'
  <2>1. pc' \in [Threads -> {"idle", "check", "once", "start_time", "start_cycles",
                             "spin", "end_time", "end_cycles", "store", "flag",
                             "leave", "use"}]
    BY DEF TypeOK
  <2>. QED
    BY <2>1 DEF TypeOK
<1>4. ~Stored /\ ~Stored'
  <2>1. ~Stored
    BY AloneInside
  <2>. QED
    BY <1>1, <2>1 DEF Stored
<1>5. OnceInv'
  BY <1>1, <1>2, <1>4 DEF OnceInv, Stored, Calibrating
<1>6. MeasureInv'
  <2>. SUFFICES ASSUME NEW s \in Threads, s # t PROVE HasMeasured(s)'
    BY DEF MeasureInv
  <2>. QED
    BY <1>1, <1>2 DEF HasMeasured, Calibrating
<1>7. CalibrationInv'
  BY <1>4 DEF CalibrationInv
<1>8. LatestInv'
  BY <1>4 DEF LatestInv, Stored
<1>. QED
  BY <1>3, <1>5, <1>6, <1>7, <1>8

\* The clock reading taken now.
LEMMA SteadyNow ==
  TypeOK => /\ cycles \in 0 .. Horizon /\ cycles \in Nat
            /\ steady_clock = ClockAt(cycles) /\ steady_clock \in 0 .. Horizon
<1>. SUFFICES ASSUME TypeOK
              PROVE  /\ cycles \in 0 .. Horizon /\ cycles \in Nat
                     /\ steady_clock = ClockAt(cycles)
                     /\ steady_clock \in 0 .. Horizon
  OBVIOUS
<1>1. cycles \in 0 .. Horizon /\ cycles \in Nat /\ Horizon \in Nat
  BY Constants DEF TypeOK
<1>2. ClockAt(cycles) \in 0 .. cycles
  BY <1>1, ClockFacts
<1>. QED
  BY <1>1, <1>2 DEF steady_clock, ClockAt

\* The clock is read for the first time.
LEMMA StartTimeStep ==
  ASSUME IInv, NEW t \in Threads, StartTime(t)
  PROVE  IInv'
<1>1. /\ pc[t] = "start_time" /\ pc' = [pc EXCEPT ![t] = "start_cycles"] /\ native
      /\ UNCHANGED <<native, cycles, stateVars, op, window, aware, historyVars>>
      /\ end' = end
  BY DEF StartTime, Goto
<1>2. /\ start' \in Reading /\ start'.ns = ClockAt(cycles)
      /\ held' \in Reading /\ held'.ns = cycles
  BY SteadyNow DEF IInv, TypeOK, StartTime, Reading
<1>3. pc'[t] = "start_cycles"
  BY <1>1 DEF IInv, TypeOK
<1>4. HasMeasured(t)'
  BY <1>1, <1>2, <1>3, SteadyNow DEF IInv, HasMeasured
<1>. QED
  BY <1>1, <1>2, <1>4, MeasureStep DEF IInv, TypeOK, Calibrating

\* The counter is read after the clock.
LEMMA StartCyclesStep ==
  ASSUME IInv, NEW t \in Threads, StartCycles(t)
  PROVE  IInv'
<1>1. /\ pc[t] = "start_cycles" /\ pc' = [pc EXCEPT ![t] = "spin"]
      /\ UNCHANGED <<native, cycles, stateVars, op, window, aware, historyVars>>
      /\ end' = end
  BY DEF StartCycles, Goto
<1>2. /\ native /\ held.ns <= cycles /\ start.ns = ClockAt(held.ns)
      /\ start \in Reading /\ held \in Reading
      /\ cycles \in 0 .. Horizon /\ Horizon \in Nat
  BY <1>1, Constants DEF IInv, TypeOK, MeasureInv, HasMeasured
<1>3. /\ start' \in Reading /\ start'.ns = start.ns /\ start'.cycles = cycles
      /\ held' \in Reading /\ held'.ns = cycles - held.ns
  BY <1>2 DEF StartCycles, Reading
<1>4. pc'[t] = "spin"
  BY <1>1 DEF IInv, TypeOK
<1>5. cycles - (cycles - held.ns) = held.ns
  BY <1>2 DEF Reading
<1>6. HasMeasured(t)'
  BY <1>1, <1>2, <1>3, <1>4, <1>5 DEF HasMeasured, Reading
<1>. QED
  BY <1>1, <1>3, <1>6, MeasureStep DEF IInv, TypeOK, Calibrating

\* The clock has reached the deadline.
LEMMA LeaveSpinStep ==
  ASSUME IInv, NEW t \in Threads, LeaveSpin(t)
  PROVE  IInv'
<1>1. /\ pc[t] = "spin" /\ pc' = [pc EXCEPT ![t] = "end_time"]
      /\ UNCHANGED <<native, cycles, stateVars, op, window, aware, historyVars>>
      /\ start' = start /\ end' = end /\ held' = held
      /\ steady_clock >= start.ns + window[t]
  BY DEF LeaveSpin, Goto, measureVars
<1>2. pc'[t] = "end_time"
  BY <1>1 DEF IInv, TypeOK
<1>3. HasMeasured(t)'
  BY <1>1, <1>2, SteadyNow DEF IInv, MeasureInv, HasMeasured
<1>. QED
  BY <1>1, <1>3, MeasureStep DEF IInv, TypeOK, Calibrating

\* The clock is read a second time.
LEMMA EndTimeStep ==
  ASSUME IInv, NEW t \in Threads, EndTime(t)
  PROVE  IInv'
<1>1. /\ pc[t] = "end_time" /\ pc' = [pc EXCEPT ![t] = "end_cycles"]
      /\ UNCHANGED <<native, cycles, stateVars, op, window, aware, historyVars>>
      /\ start' = start
  BY DEF EndTime, Goto
<1>2. /\ end' \in Reading /\ end'.ns = ClockAt(cycles)
      /\ held' \in Reading /\ held'.cycles = cycles /\ held'.ns = held.ns
  BY SteadyNow DEF IInv, TypeOK, EndTime, Reading
<1>3. pc'[t] = "end_cycles"
  BY <1>1 DEF IInv, TypeOK
<1>4. HasMeasured(t)'
  BY <1>1, <1>2, <1>3, SteadyNow DEF IInv, MeasureInv, HasMeasured
<1>. QED
  BY <1>1, <1>2, <1>4, MeasureStep DEF IInv, TypeOK, Calibrating

\* The counter is read a second time, and has moved on.
LEMMA EndCyclesStep ==
  ASSUME IInv, NEW t \in Threads, EndCycles(t)
  PROVE  IInv'
<1>1. /\ pc[t] = "end_cycles" /\ pc' = [pc EXCEPT ![t] = "store"]
      /\ UNCHANGED <<native, cycles, stateVars, op, window, aware, historyVars>>
      /\ start' = start /\ cycles > start.cycles
  BY DEF EndCycles, Goto
<1>2. /\ native /\ held.cycles <= cycles /\ end.ns = ClockAt(held.cycles)
      /\ end \in Reading /\ held \in Reading /\ start \in Reading
      /\ cycles \in 0 .. Horizon /\ Horizon \in Nat
  BY <1>1, Constants DEF IInv, TypeOK, MeasureInv, HasMeasured
<1>3. /\ end' \in Reading /\ end'.ns = end.ns /\ end'.cycles = cycles
      /\ held' \in Reading /\ held'.cycles = cycles - held.cycles
      /\ held'.ns = held.ns
  BY <1>2 DEF EndCycles, Reading
<1>4. pc'[t] = "store"
  BY <1>1 DEF IInv, TypeOK
<1>5. cycles - (cycles - held.cycles) = held.cycles /\ cycles - held.cycles <= cycles
  BY <1>2 DEF Reading
<1>6. HasMeasured(t)'
  BY <1>1, <1>2, <1>3, <1>4, <1>5 DEF IInv, MeasureInv, HasMeasured
<1>. QED
  BY <1>1, <1>3, <1>6, MeasureStep DEF IInv, TypeOK, Calibrating

\* The one reading of the build without the counter.
LEMMA ReadClockStep ==
  ASSUME IInv, NEW t \in Threads, ReadClock(t)
  PROVE  IInv'
<1>1. /\ pc[t] = "start_time" /\ pc' = [pc EXCEPT ![t] = "store"] /\ ~native
      /\ UNCHANGED <<native, cycles, stateVars, op, window, aware, historyVars>>
      /\ start' = start /\ held' = held
  BY DEF ReadClock, Goto
<1>2. end' \in Reading
  BY SteadyNow DEF IInv, ReadClock, Reading
<1>3. pc'[t] = "store"
  BY <1>1 DEF IInv, TypeOK
<1>4. HasMeasured(t)'
  BY <1>1, <1>3 DEF HasMeasured
<1>. QED
  BY <1>1, <1>2, <1>4, MeasureStep DEF IInv, TypeOK, Calibrating

\* The time the calibration gives does not go back while the counter goes on.
LEMMA NowNsGrows ==
  ASSUME TypeOK, CalibrationInv, Stored, cycles' = cycles + 1,
         calibration' = calibration
  PROVE  NowNs <= NowNs'
<1>1. cycles \in Nat /\ base.ns \in Nat /\ base.cycles \in Nat
      /\ elapsed.ns \in Nat /\ elapsed.cycles \in Nat
  BY Constants DEF TypeOK, Reading, base, elapsed
<1>2. CASE calibration.native
  <2>1. elapsed.cycles > 0 /\ base.cycles <= cycles
    BY <1>2 DEF CalibrationInv
  <2>. DEFINE d == delta_cycles
              e == elapsed.ns
              q == (d * e) \div elapsed.cycles
              r == ((d + 1) * e) \div elapsed.cycles
  <2>2. d \in Nat /\ e \in Nat /\ elapsed.cycles \in Nat \ {0}
    BY <1>1, <2>1 DEF delta_cycles, base
  <2>3. d * e \in Int /\ (d + 1) * e \in Int /\ d * e <= (d + 1) * e
    BY <2>2
  <2>4. q \in Int /\ r \in Int /\ q <= r
    BY <2>2, <2>3, QuotientGrows, Quotient
  <2>5. delta_cycles' = d + 1
    BY <1>1 DEF delta_cycles, base
  <2>6. delta_ns = q /\ delta_ns' = r
    BY <2>5 DEF delta_ns, elapsed
  <2>7. NowNs = base.ns + q /\ NowNs' = base.ns + r
    BY <1>2, <2>6 DEF NowNs, base
  <2>. QED
    BY <1>1, <2>4, <2>7
<1>3. CASE ~calibration.native
  <2>1. NowNs = ClockAt(cycles) /\ NowNs' = ClockAt(cycles + 1)
    BY <1>3 DEF NowNs, steady_clock, ClockAt
  <2>2. cycles + 1 \in Nat /\ cycles <= cycles + 1
    BY <1>1
  <2>. QED
    BY <1>1, <2>1, <2>2, ClockFacts
<1>. QED
  BY <1>2, <1>3

\* Time passes.
LEMMA TickStep ==
  ASSUME IInv, Tick
  PROVE  IInv'
<1>. USE DEF IInv, stateVars, measureVars, historyVars
<1>1. cycles' = cycles + 1 /\ cycles \in Nat /\ Horizon \in Nat /\ cycles < Horizon
  BY Constants DEF Tick, TypeOK
<1>2. UNCHANGED <<native, stateVars, pc, op, window, measureVars, aware, historyVars>>
  BY DEF Tick
<1>3. TypeOK'
  <2>1. cycles' \in 0 .. Horizon
    BY <1>1
  <2>. QED
    BY <1>2, <2>1 DEF TypeOK
<1>4. OnceInv'
  BY <1>2 DEF OnceInv
<1>5. MeasureInv'
  <2>. SUFFICES ASSUME NEW t \in Threads PROVE HasMeasured(t)'
    BY DEF MeasureInv
  <2>1. ClockAt(cycles) <= ClockAt(cycles')
        /\ ClockAt(cycles) \in Int /\ ClockAt(cycles') \in Int
    BY <1>1, ClockFacts
  <2>2. {start, end, held} \subseteq [ns : Int, cycles : Int] /\ window[t] \in Int
    BY Constants DEF TypeOK, Reading
  <2>3. HasMeasured(t)
    BY DEF MeasureInv
  <2>4. pc[t] = "end_time" => ClockAt(cycles') >= start.ns + window[t]
    BY <2>1, <2>2, <2>3 DEF HasMeasured
  <2>. QED
    BY <1>1, <1>2, <2>2, <2>3, <2>4 DEF HasMeasured
<1>6. CalibrationInv'
  <2>1. base.cycles \in Int
    BY DEF TypeOK, Reading, base
  <2>. QED
    BY <1>1, <1>2, <2>1 DEF CalibrationInv, Stored, base, elapsed
<1>7. LatestInv'
  <2>1. CASE initialized
    <3>1. Stored /\ Stored'
      BY <1>2, <2>1 DEF Stored
    <3>2. NowNs <= NowNs'
      BY <1>1, <1>2, <3>1, NowNsGrows
    <3>3. NowNs \in Nat
      BY <3>1, NowNsType DEF GivesTime
    <3>4. NowNs' \in Nat
      BY <1>3, <1>6, <3>1, NowNsTypeNext DEF GivesTime
    <3>5. latest <= NowNs /\ latest \in Nat
      BY <2>1 DEF LatestInv, TypeOK
    <3>6. latest <= NowNs'
      BY <3>2, <3>3, <3>4, <3>5
    <3>. QED
      BY <1>2, <2>1, <3>6 DEF LatestInv
  <2>2. CASE ~initialized
    BY <1>2, <2>2 DEF LatestInv
  <2>. QED
    BY <2>1, <2>2
<1>. QED
  BY <1>3, <1>4, <1>5, <1>6, <1>7

\* A thread is the first to enter call_once.
LEMMA EnterOnceStep ==
  ASSUME IInv, NEW t \in Threads, EnterOnce(t)
  PROVE  IInv'
<1>. USE DEF IInv, stateVars, measureVars, historyVars
<1>1. /\ pc' = [pc EXCEPT ![t] = "start_time"] /\ once = "fresh" /\ once' = "running"
      /\ UNCHANGED <<native, cycles, calibration, initialized, op, window,
                     measureVars, aware, historyVars>>
  BY DEF EnterOnce, Goto
<1>2. pc'[t] = "start_time" /\ \A s \in Threads : s # t => pc'[s] = pc[s]
  BY <1>1 DEF TypeOK
<1>3. \A s \in Threads : pc[s] \notin Calibrating
  BY <1>1 DEF OnceInv
<1>4. ~initialized
  BY <1>1, <1>3 DEF OnceInv, Calibrating
<1>5. TypeOK'
  <2>1. pc' \in [Threads -> {"idle", "check", "once", "start_time", "start_cycles",
                             "spin", "end_time", "end_cycles", "store", "flag",
                             "leave", "use"}]
    BY <1>1 DEF TypeOK
  <2>. QED
    BY <1>1, <2>1 DEF TypeOK
<1>6. OnceInv'
  BY <1>1, <1>2, <1>3, <1>4 DEF OnceInv, Calibrating
<1>7. MeasureInv'
  BY <1>2, <1>3 DEF MeasureInv, HasMeasured, Calibrating
<1>8. ~Stored'
  BY <1>1, <1>2, <1>3, <1>4 DEF Stored, Calibrating
<1>9. CalibrationInv' /\ LatestInv'
  BY <1>1, <1>4, <1>8 DEF CalibrationInv, LatestInv
<1>. QED
  BY <1>5, <1>6, <1>7, <1>9

\* The calibration is stored: what elapsed is positive and leads from the second
\* pair of readings back to the first.
LEMMA StoreStep ==
  ASSUME IInv, NEW t \in Threads, Store(t)
  PROVE  IInv'
<1>. USE DEF IInv, stateVars, measureVars, historyVars
<1>1. /\ pc[t] = "store" /\ pc' = [pc EXCEPT ![t] = "flag"]
      /\ calibration' = Measured /\ aware' = {t}
      /\ UNCHANGED <<native, cycles, once, initialized, op, window, measureVars,
                     historyVars>>
  BY DEF Store, Goto
<1>2. pc'[t] = "flag" /\ \A s \in Threads : s # t => pc'[s] = pc[s]
  BY <1>1 DEF TypeOK
<1>3. /\ \A s \in Threads : s # t => pc[s] \notin Calibrating
      /\ \A s \in Threads : pc[s] # "use"
      /\ once = "running" /\ ~initialized
  BY <1>1, AloneInside DEF Calibrating
<1>4. /\ start.ns \in 0 .. Horizon /\ start.cycles \in 0 .. Horizon
      /\ end.ns \in 0 .. Horizon /\ end.cycles \in 0 .. Horizon
      /\ held.ns \in 0 .. Horizon /\ held.cycles \in 0 .. Horizon
      /\ window[t] \in Nat \ {0} /\ Horizon \in Nat \ {0} /\ cycles \in 0 .. Horizon
      /\ end \in Reading
  BY Constants DEF TypeOK, Reading
<1>5. native => /\ held.ns <= start.cycles /\ start.ns = ClockAt(start.cycles - held.ns)
                /\ held.cycles <= end.cycles /\ end.cycles <= cycles
                /\ end.ns = ClockAt(end.cycles - held.cycles)
                /\ start.cycles < end.cycles
                /\ end.ns >= start.ns + window[t]
  BY <1>1 DEF MeasureInv, HasMeasured
<1>6. /\ calibration'.native = native /\ base' = end
      /\ native => elapsed' = [ns |-> end.ns - start.ns,
                               cycles |-> end.cycles - start.cycles]
      /\ ~native => elapsed' = [ns |-> 1, cycles |-> 1]
      /\ calibration' = [native |-> native, base |-> base', elapsed |-> elapsed']
  BY <1>1 DEF Measured, NoCalibration, base, elapsed, TypeOK
<1>7. TypeOK'
  <2>1. pc' \in [Threads -> {"idle", "check", "once", "start_time", "start_cycles",
                             "spin", "end_time", "end_cycles", "store", "flag",
                             "leave", "use"}]
    BY <1>1 DEF TypeOK
  <2>2. elapsed' \in Reading
    BY <1>4, <1>5, <1>6 DEF Reading
  <2>3. native \in BOOLEAN
    BY DEF TypeOK
  <2>4. calibration' \in [native : BOOLEAN, base : Reading, elapsed : Reading]
    BY <1>4, <1>6, <2>2, <2>3
  <2>. QED
    BY <1>1, <2>1, <2>4 DEF TypeOK
<1>8. OnceInv'
  BY <1>1, <1>2, <1>3 DEF OnceInv, Calibrating
<1>9. MeasureInv'
  BY <1>2, <1>3 DEF MeasureInv, HasMeasured, Calibrating
<1>10. CalibrationInv'
  <2>1. ASSUME native
        PROVE  /\ elapsed'.ns > 0 /\ elapsed'.cycles > 0
               /\ elapsed'.cycles + held.ns <= end.cycles
               /\ end.ns - elapsed'.ns = start.ns
               /\ end.cycles - elapsed'.cycles = start.cycles
    <3>1. /\ elapsed'.ns = end.ns - start.ns
          /\ elapsed'.cycles = end.cycles - start.cycles
      BY <1>6, <2>1
    <3>. QED
      BY <1>4, <1>5, <2>1, <3>1
  <2>. QED
    BY <1>1, <1>5, <1>6, <2>1 DEF CalibrationInv
<1>11. LatestInv'
  BY <1>1, <1>3 DEF LatestInv
<1>. QED
  BY <1>7, <1>8, <1>9, <1>10, <1>11

\* The flag is set.
LEMMA SetFlagStep ==
  ASSUME IInv, NEW t \in Threads, SetFlag(t)
  PROVE  IInv'
<1>. USE DEF IInv, stateVars, measureVars, historyVars
<1>1. /\ pc[t] = "flag" /\ pc' = [pc EXCEPT ![t] = "leave"] /\ initialized' = TRUE
      /\ UNCHANGED <<native, cycles, once, calibration, op, window, measureVars,
                     aware, historyVars>>
  BY DEF SetFlag, Goto
<1>2. pc'[t] = "leave" /\ \A s \in Threads : s # t => pc'[s] = pc[s]
  BY <1>1 DEF TypeOK
<1>3. /\ \A s \in Threads : s # t => pc[s] \notin Calibrating
      /\ once = "running" /\ ~initialized /\ Stored
  BY <1>1, AloneInside DEF Calibrating, Stored
<1>4. TypeOK'
  <2>1. pc' \in [Threads -> {"idle", "check", "once", "start_time", "start_cycles",
                             "spin", "end_time", "end_cycles", "store", "flag",
                             "leave", "use"}]
    BY <1>1 DEF TypeOK
  <2>. QED
    BY <1>1, <2>1 DEF TypeOK
<1>5. OnceInv'
  BY <1>1, <1>2, <1>3 DEF OnceInv, Calibrating
<1>6. MeasureInv'
  BY <1>2, <1>3 DEF MeasureInv, HasMeasured, Calibrating
<1>7. CalibrationInv'
  BY <1>1, <1>3 DEF CalibrationInv, base, elapsed
<1>8. LatestInv'
  <2>1. NowNs' = NowNs
    BY <1>1 DEF NowNs, delta_ns, delta_cycles, steady_clock
  <2>2. NowNs \in Nat /\ latest <= 0 /\ latest \in Nat
    BY <1>3, NowNsType DEF LatestInv, TypeOK, GivesTime
  <2>. QED
    BY <1>1, <2>1, <2>2 DEF LatestInv
<1>. QED
  BY <1>4, <1>5, <1>6, <1>7, <1>8

\* A thread leaves call_once behind it, from inside or past it.
LEMMA LeaveInitializeFacts ==
  ASSUME TypeOK, LatestInv, NEW t \in Threads, NEW from, LeaveInitialize(t, from)
  PROVE  /\ pc[t] = from
         /\ \E to \in {"idle", "use"} : pc' = [pc EXCEPT ![t] = to]
         /\ op' \in [Threads -> Operations]
         /\ window' \in [Threads -> Nat \ {0}]
         /\ \A s \in Threads : s # t => window'[s] = window[s]
         /\ latest' = latest
         /\ floor' \in [Threads -> Nat]
         /\ \A s \in Threads : floor'[s] <= latest
         /\ native' = native /\ cycles' = cycles
<1>1. CASE op[t] = "initialize"
  <2>1. /\ pc[t] = from /\ pc' = [pc EXCEPT ![t] = "idle"]
        /\ op' = [op EXCEPT ![t] = "initialize"]
        /\ window' = [window EXCEPT ![t] = MinWindow]
        /\ floor' = [floor EXCEPT ![t] = 0]
        /\ latest' = latest /\ native' = native /\ cycles' = cycles
    BY <1>1 DEF LeaveInitialize, Return
  <2>2. latest \in Nat /\ \A s \in Threads : floor[s] <= latest
    BY DEF TypeOK, LatestInv
  <2>3. op' \in [Threads -> Operations]
    BY <2>1 DEF TypeOK, Operations
  <2>4. /\ window' \in [Threads -> Nat \ {0}]
        /\ \A s \in Threads : s # t => window'[s] = window[s]
    BY <2>1, Constants DEF TypeOK
  <2>5. floor' \in [Threads -> Nat] /\ \A s \in Threads : floor'[s] <= latest
    BY <2>1, <2>2 DEF TypeOK
  <2>. QED
    BY <2>1, <2>3, <2>4, <2>5
<1>2. CASE op[t] # "initialize"
  BY <1>2 DEF LeaveInitialize, Goto, historyVars, TypeOK, LatestInv
<1>. QED
  BY <1>1, <1>2

\* call_once is done.
LEMMA LeaveOnceStep ==
  ASSUME IInv, NEW t \in Threads, LeaveOnce(t)
  PROVE  IInv'
<1>. USE DEF IInv
<1>1. /\ once' = "done" /\ start' = NoReading /\ end' = NoReading
      /\ UNCHANGED <<calibration, initialized, held, aware>>
      /\ LeaveInitialize(t, "leave")
  BY DEF LeaveOnce
<1>2. PICK to \in {"idle", "use"} : pc' = [pc EXCEPT ![t] = to]
  BY <1>1, LeaveInitializeFacts
<1>3. /\ pc[t] = "leave" /\ native' = native /\ cycles' = cycles /\ latest' = latest
      /\ op' \in [Threads -> Operations]
      /\ window' \in [Threads -> Nat \ {0}]
      /\ floor' \in [Threads -> Nat] /\ \A s \in Threads : floor'[s] <= latest
  BY <1>1, LeaveInitializeFacts
<1>4. pc'[t] = to /\ \A s \in Threads : s # t => pc'[s] = pc[s]
  BY <1>2 DEF TypeOK
<1>5. /\ \A s \in Threads : s # t => pc[s] \notin Calibrating
      /\ initialized /\ t \in aware
  BY <1>3, AloneInside DEF Calibrating, OnceInv
<1>6. \A s \in Threads : pc'[s] \notin Calibrating
  BY <1>4, <1>5 DEF Calibrating
<1>7. TypeOK'
  <2>1. pc' \in [Threads -> {"idle", "check", "once", "start_time", "start_cycles",
                             "spin", "end_time", "end_cycles", "store", "flag",
                             "leave", "use"}]
    BY <1>2 DEF TypeOK
  <2>2. {start', end', held'} \subseteq Reading
    BY <1>1, Constants DEF TypeOK, NoReading, Reading
  <2>. QED
    BY <1>1, <1>3, <2>1, <2>2 DEF TypeOK
<1>8. OnceInv'
  BY <1>1, <1>4, <1>5, <1>6 DEF OnceInv, Calibrating
<1>9. MeasureInv'
  BY <1>6 DEF MeasureInv, HasMeasured, Calibrating
<1>10. CalibrationInv'
  <2>1. Stored
    BY <1>5 DEF Stored
  <2>. QED
    BY <1>1, <1>3, <2>1 DEF CalibrationInv, base, elapsed
<1>11. LatestInv'
  <2>1. NowNs' = NowNs
    BY <1>1, <1>3 DEF NowNs, delta_ns, delta_cycles, steady_clock
  <2>. QED
    BY <1>1, <1>3, <2>1 DEF LatestInv
<1>. QED
  BY <1>7, <1>8, <1>9, <1>10, <1>11

-----------------------------------------------------------------------------
(* The steps outside call_once, one action each *)

\* initialize is called, with some window.
LEMMA InitializeStep ==
  ASSUME IInv, NEW t \in Threads, Initialize(t)
  PROVE  IInv'
<1>1. PICK w \in Windows : window' = [window EXCEPT ![t] = Window(w)]
  BY DEF Initialize
<1>2. /\ window' \in [Threads -> Nat \ {0}]
      /\ \A s \in Threads : s # t => window'[s] = window[s]
  <2>1. Window(w) \in Nat \ {0}
    BY Constants DEF Window
  <2>. QED
    BY <1>1, <2>1 DEF IInv, TypeOK
<1>3. /\ pc[t] = "idle" /\ pc' = [pc EXCEPT ![t] = "once"]
      /\ UNCHANGED <<native, cycles, stateVars, op, measureVars, aware, latest, floor>>
  BY DEF Initialize, historyVars
<1>. QED
  BY <1>2, <1>3, OutsideStep DEF IInv, TypeOK, LatestInv, Calibrating

\* Another operation is called.
LEMMA CallStep ==
  ASSUME IInv, NEW t \in Threads, Call(t)
  PROVE  IInv'
<1>1. PICK o \in Operations :
        /\ op' = [op EXCEPT ![t] = o]
        /\ floor' = [floor EXCEPT ![t] = IF o = "now_ns" THEN latest ELSE 0]
  BY DEF Call
<1>2. /\ pc[t] = "idle" /\ pc' = [pc EXCEPT ![t] = "check"]
      /\ UNCHANGED <<native, cycles, stateVars, window, measureVars, aware, latest>>
  BY DEF Call
<1>3. op' \in [Threads -> Operations]
  BY <1>1 DEF IInv, TypeOK
<1>4. floor' \in [Threads -> Nat] /\ \A s \in Threads : floor'[s] <= latest
  <2>1. latest \in Nat /\ \A s \in Threads : floor[s] \in Nat /\ floor[s] <= latest
    BY DEF IInv, TypeOK, LatestInv
  <2>. QED
    BY <1>1, <2>1 DEF IInv, TypeOK
<1>. QED
  BY <1>2, <1>3, <1>4, OutsideStep DEF IInv, TypeOK, LatestInv, Calibrating

\* What a call that returns leaves of the invariant's parts.
LEMMA ReturnFacts ==
  ASSUME IInv, NEW t \in Threads, NEW from, Return(t, from), NEW n \in Nat, latest <= n
  PROVE  /\ pc[t] = from /\ pc' = [pc EXCEPT ![t] = "idle"]
         /\ op' \in [Threads -> Operations]
         /\ window' \in [Threads -> Nat \ {0}]
         /\ \A s \in Threads : s # t => window'[s] = window[s]
         /\ floor' \in [Threads -> Nat]
         /\ \A s \in Threads : floor'[s] <= n
         /\ native' = native /\ cycles' = cycles
<1>1. /\ pc[t] = from /\ pc' = [pc EXCEPT ![t] = "idle"]
      /\ op' = [op EXCEPT ![t] = "initialize"]
      /\ window' = [window EXCEPT ![t] = MinWindow]
      /\ floor' = [floor EXCEPT ![t] = 0]
      /\ native' = native /\ cycles' = cycles
  BY DEF Return
<1>2. op' \in [Threads -> Operations]
  BY <1>1 DEF IInv, TypeOK, Operations
<1>3. /\ window' \in [Threads -> Nat \ {0}]
      /\ \A s \in Threads : s # t => window'[s] = window[s]
  BY <1>1, Constants DEF IInv, TypeOK
<1>4. floor' \in [Threads -> Nat] /\ \A s \in Threads : floor'[s] <= n
  <2>1. latest \in Nat /\ \A s \in Threads : floor[s] \in Nat /\ floor[s] <= latest
    BY DEF IInv, TypeOK, LatestInv
  <2>. QED
    BY <1>1, <2>1 DEF IInv, TypeOK
<1>. QED
  BY <1>1, <1>2, <1>3, <1>4

\* The flag is found set.
LEMMA FindsItSetStep ==
  ASSUME IInv, NEW t \in Threads, FindsItSet(t)
  PROVE  IInv'
<1>1. /\ initialized /\ aware' = aware \cup {t}
      /\ UNCHANGED <<stateVars, measureVars>>
  BY DEF FindsItSet
<1>2. latest \in Nat /\ latest <= NowNs
  BY <1>1 DEF IInv, TypeOK, LatestInv
<1>3. CASE op[t] = "is_initialized"
  <2>1. Return(t, "check") /\ latest' = latest
    BY <1>3 DEF FindsItSet
  <2>. QED
    BY <1>1, <1>2, <2>1, ReturnFacts, OutsideStep DEF IInv, TypeOK, LatestInv, Calibrating
<1>4. CASE op[t] # "is_initialized"
  <2>1. Goto(t, "check", "use")
    BY <1>4 DEF FindsItSet
  <2>2. /\ pc[t] = "check" /\ pc' = [pc EXCEPT ![t] = "use"]
        /\ UNCHANGED <<native, cycles, op, window, latest, floor>>
    BY <2>1 DEF Goto, historyVars
  <2>. QED
    BY <1>1, <1>2, <2>2, OutsideStep DEF IInv, TypeOK, LatestInv, Calibrating
<1>. QED
  BY <1>3, <1>4

\* The flag is found unset by is_initialized.
LEMMA FindsItUnsetStep ==
  ASSUME IInv, NEW t \in Threads, FindsItUnset(t)
  PROVE  IInv'
<1>1. /\ Return(t, "check") /\ latest' = latest /\ aware' = aware
      /\ UNCHANGED <<stateVars, measureVars>>
  BY DEF FindsItUnset
<1>2. latest \in Nat
  BY DEF IInv, TypeOK
<1>. QED
  BY <1>1, <1>2, ReturnFacts, OutsideStep DEF IInv, TypeOK, LatestInv, Calibrating

\* The flag is found unset by the others, which initialise first.
LEMMA InitializesFirstStep ==
  ASSUME IInv, NEW t \in Threads, InitializesFirst(t)
  PROVE  IInv'
<1>1. /\ window' \in [Threads -> Nat \ {0}]
      /\ \A s \in Threads : s # t => window'[s] = window[s]
  <2>1. Window(DefaultWindow) \in Nat \ {0}
    BY Constants DEF Window
  <2>. QED
    BY <2>1 DEF IInv, TypeOK, InitializesFirst
<1>2. /\ pc[t] = "check" /\ pc' = [pc EXCEPT ![t] = "once"]
      /\ UNCHANGED <<native, cycles, stateVars, op, measureVars, aware, latest, floor>>
  BY DEF InitializesFirst, historyVars
<1>. QED
  BY <1>1, <1>2, OutsideStep DEF IInv, TypeOK, LatestInv, Calibrating

\* call_once has nothing to do.
LEMMA PassOnceStep ==
  ASSUME IInv, NEW t \in Threads, PassOnce(t)
  PROVE  IInv'
<1>1. /\ once = "done" /\ aware' = aware \cup {t} /\ LeaveInitialize(t, "once")
      /\ UNCHANGED <<stateVars, measureVars>>
  BY DEF PassOnce
<1>2. initialized
  BY <1>1 DEF IInv, OnceInv
<1>3. PICK to \in {"idle", "use"} : pc' = [pc EXCEPT ![t] = to]
  BY <1>1, LeaveInitializeFacts DEF IInv
<1>4. /\ pc[t] = "once" /\ native' = native /\ cycles' = cycles /\ latest' = latest
      /\ op' \in [Threads -> Operations]
      /\ window' \in [Threads -> Nat \ {0}]
      /\ \A s \in Threads : s # t => window'[s] = window[s]
      /\ floor' \in [Threads -> Nat] /\ \A s \in Threads : floor'[s] <= latest
  BY <1>1, LeaveInitializeFacts DEF IInv
<1>. QED
  BY <1>1, <1>2, <1>3, <1>4, OutsideStep DEF IInv, TypeOK, LatestInv, Calibrating

\* A reading is returned: it is the present, and no earlier one was later.
LEMMA UseStep ==
  ASSUME IInv, NEW t \in Threads, Use(t)
  PROVE  IInv' /\ NowNs >= floor[t]
<1>1. /\ Return(t, "use") /\ aware' = aware /\ pc[t] = "use"
      /\ latest' = IF op[t] = "now_ns" THEN LargerOf(latest, NowNs) ELSE latest
      /\ UNCHANGED <<stateVars, measureVars>>
  BY DEF Use, Return
<1>2. initialized
  BY <1>1 DEF IInv, OnceInv
<1>3. NowNs \in Nat
  BY <1>2, NowNsType DEF IInv, Stored, GivesTime
<1>4. latest \in Nat /\ latest <= NowNs /\ floor[t] \in Nat /\ floor[t] <= latest
  BY <1>2 DEF IInv, TypeOK, LatestInv
<1>5. latest' \in Nat /\ latest <= latest' /\ latest' <= NowNs
  BY <1>1, <1>3, <1>4 DEF LargerOf
<1>6. IInv'
  BY <1>1, <1>2, <1>5, ReturnFacts, OutsideStep DEF IInv, TypeOK, Calibrating
<1>. QED
  BY <1>3, <1>4, <1>6

-----------------------------------------------------------------------------
(* How accurate the clock is *)

\* A factor that is not negative keeps the order.
LEMMA ProductGrows ==
  ASSUME NEW c \in Nat, NEW a \in Int, NEW b \in Int, a <= b
  PROVE  c * a <= c * b
OBVIOUS

\* The arithmetic of now_ns: a time b read when the counter was at c, h before its
\* base at c + h; a rate of n nanoseconds to e cycles, from readings that go back to
\* the clock's b - n when the counter was at s; d cycles since the base.
LEMMA ErrorBound ==
  ASSUME NEW P \in Nat \ {0}, NEW b \in Int, NEW n \in Nat, NEW e \in Nat \ {0},
         NEW d \in Nat, NEW q \in Int, NEW g \in Nat, NEW h \in Nat,
         NEW c \in Int, NEW s \in Int, NEW r \in Int,
         P * b <= c, c < P * b + P,
         P * (b - n) <= s, s < P * (b - n) + P,
         c + h - (s + g) = e,
         e * q <= d * n, d * n < e * q + e,
         g + P <= r, h + P <= r
  PROVE  LET wrong == (b + q) * P - (c + h + d)
         IN  /\ wrong * e <= e * (h + 2 * P) + d * r
             /\ (-wrong) * e <= e * (h + 2 * P) + d * r
<1>. DEFINE x == P * n - e
            first == b * P - c - h
            wrong == (b + q) * P - (c + h + d)
<1>1. P * (b - n) = P * b - P * n /\ P * b \in Int /\ P * n \in Int
  OBVIOUS
<1>2. -r <= x /\ x <= r
  BY <1>1
<1>3. d * x <= d * r /\ d * (-r) <= d * x
  BY <1>1, <1>2, ProductGrows
<1>4. -(P + h) <= first /\ first <= 0
  BY <1>1
<1>5. e * first <= 0 /\ e * (-(P + h)) <= e * first
  <2>1. e * first <= e * 0
    BY <1>1, <1>4, ProductGrows
  <2>2. e * (-(P + h)) <= e * first
    BY <1>1, <1>4, ProductGrows
  <2>. QED
    BY <2>1, <2>2
<1>6. P * (e * q) <= P * (d * n) /\ P * (d * n) <= P * (e * q) + P * e
  <2>1. e * q \in Int /\ d * n \in Int /\ d * n <= e * q + e
    OBVIOUS
  <2>2. P * (d * n) <= P * (e * q + e)
    BY <2>1, ProductGrows
  <2>3. P * (e * q + e) = P * (e * q) + P * e
    BY <2>1
  <2>. QED
    BY <2>1, <2>2, <2>3, ProductGrows
<1>7. e * wrong = e * first + P * (e * q) - d * e
  OBVIOUS
<1>8. P * (d * n) - d * e = d * x
  OBVIOUS
<1>9. /\ e * wrong \in Int /\ e * first \in Int /\ P * (e * q) \in Int /\ d * e \in Int
      /\ P * (d * n) \in Int /\ d * x \in Int /\ d * r \in Int /\ P * e \in Int
      /\ e * h \in Nat /\ e * P \in Nat
  BY <1>1
<1>10. e * (-(P + h)) = -(e * P) - (e * h) /\ d * (-r) = -(d * r) /\ P * e = e * P
  OBVIOUS
<1>11. e * (h + 2 * P) = e * h + 2 * (e * P)
  OBVIOUS
<1>12. wrong * e = e * wrong /\ (-wrong) * e = -(e * wrong)
  OBVIOUS
<1>. HIDE DEF x, first, wrong
<1>13. e * wrong <= d * r
  BY <1>3, <1>5, <1>6, <1>7, <1>8, <1>9
<1>14. -(e * wrong) <= e * h + 2 * (e * P) + d * r
  BY <1>3, <1>5, <1>6, <1>7, <1>8, <1>9, <1>10
<1>15. /\ wrong * e <= e * (h + 2 * P) + d * r
       /\ (-wrong) * e <= e * (h + 2 * P) + d * r
  BY <1>9, <1>11, <1>12, <1>13, <1>14
<1>. QED
  BY <1>15 DEF wrong

\* The error bound of a calibration that has been stored.
LEMMA AccurateWhenStored == IInv => AccurateUnlessHeldUp
<1>. SUFFICES ASSUME IInv, initialized, native PROVE AccurateUnlessHeldUp
  BY DEF AccurateUnlessHeldUp
<1>. DEFINE P == CyclesPerNs
            b == base.ns
            n == elapsed.ns
            e == elapsed.cycles
            d == delta_cycles
            q == (d * n) \div e
            g == held.ns
            h == held.cycles
            c == base.cycles - h
            s == base.cycles - e - g
            r == LargerOf(g, h) + P
            wrong == (b + q) * P - (c + h + d)
<1>1. /\ calibration.native
      /\ n > 0 /\ e > 0 /\ base.cycles <= cycles /\ h <= base.cycles
      /\ b = ClockAt(c) /\ e + g <= base.cycles /\ b - n = ClockAt(s)
  BY DEF IInv, CalibrationInv, Stored
<1>2. /\ P \in Nat \ {0} /\ b \in Nat /\ n \in Nat /\ e \in Nat \ {0}
      /\ base.cycles \in Nat /\ g \in Nat /\ h \in Nat /\ cycles \in Nat
  BY <1>1, Constants DEF IInv, TypeOK, Reading, base, elapsed
<1>3. c \in Nat /\ s \in Nat /\ d \in Nat /\ c + h + d = cycles
  BY <1>1, <1>2 DEF delta_cycles, base
<1>4. P * b <= c /\ c < P * b + P
  <2>1. P * ClockAt(c) <= c /\ c < P * ClockAt(c) + P
    BY <1>3, ClockQuotient
  <2>. QED
    BY <1>1, <2>1
<1>5. P * (b - n) <= s /\ s < P * (b - n) + P
  <2>1. P * ClockAt(s) <= s /\ s < P * ClockAt(s) + P
    BY <1>3, ClockQuotient
  <2>. QED
    BY <1>1, <2>1
<1>6. d * n \in Int
  BY <1>2, <1>3
<1>7. q \in Int /\ e * q <= d * n /\ d * n < e * q + e
  BY <1>2, <1>6, Quotient
<1>8. r \in Int /\ g + P <= r /\ h + P <= r
  BY <1>2 DEF LargerOf
<1>9. c + h - (s + g) = e
  BY <1>2
<1>10. NowNs = b + q /\ wrong = NowNs * CyclesPerNs - cycles
  BY <1>1, <1>3 DEF NowNs, delta_ns, base, elapsed
<1>11. /\ wrong * e <= e * (h + 2 * P) + d * r
       /\ (-wrong) * e <= e * (h + 2 * P) + d * r
  <2>. HIDE DEF P, b, n, e, d, q, g, h, c, s, r
  <2>. QED
    BY <1>2, <1>3, <1>4, <1>5, <1>7, <1>8, <1>9, ErrorBound
<1>. HIDE DEF wrong
<1>12. CASE wrong >= 0
  BY <1>10, <1>11, <1>12 DEF AccurateUnlessHeldUp, elapsed
<1>13. CASE ~(wrong >= 0)
  BY <1>10, <1>11, <1>13 DEF AccurateUnlessHeldUp, elapsed
<1>. QED
  BY <1>12, <1>13

-----------------------------------------------------------------------------
(* The theorems *)

\* Every step keeps the invariant: one case per action.
LEMMA NextIInv == IInv /\ [Next]_vars => IInv'
<1>. SUFFICES ASSUME IInv, [Next]_vars PROVE IInv'
  OBVIOUS
<1>1. ASSUME NEW t \in Threads, Inside(t)
      PROVE  IInv'
  BY <1>1, FindsItSetStep, FindsItUnsetStep, InitializesFirstStep, EnterOnceStep,
     PassOnceStep, StartTimeStep, StartCyclesStep, LeaveSpinStep, EndTimeStep,
     EndCyclesStep, ReadClockStep, StoreStep, SetFlagStep, LeaveOnceStep, UseStep
  DEF Inside, Calibrate
<1>2. CASE UNCHANGED vars
  <2>. USE <1>2 DEF IInv, vars, stateVars, measureVars, historyVars
  <2>1. TypeOK'
    BY DEF TypeOK
  <2>2. OnceInv'
    BY DEF OnceInv
  <2>3. MeasureInv'
    BY DEF MeasureInv, HasMeasured
  <2>4. CalibrationInv'
    BY DEF CalibrationInv, Stored, base, elapsed
  <2>5. LatestInv'
    BY DEF LatestInv, NowNs, delta_ns, delta_cycles, steady_clock
  <2>. QED
    BY <2>1, <2>2, <2>3, <2>4, <2>5
<1>. QED
  BY <1>1, <1>2, TickStep, InitializeStep, CallStep DEF Next

\* The invariant holds in every state of every behaviour.
THEOREM InvariantHolds == Spec => []IInv
BY InitIInv, NextIInv, PTL DEF Spec

\* The types: among them that no reading and no difference of two is negative.
THEOREM TypeCorrect == Spec => []TypeOK
<1>1. IInv => TypeOK
  BY DEF IInv
<1>. QED
  BY <1>1, InvariantHolds, PTL

\* Every unlocked read of the calibration happens after it was stored, by the flag
\* or by call_once (tsc_clock.hpp, now_ns and the others).
THEOREM ReadsAreFinished == Spec => []ReadsFinished
<1>1. IInv => ReadsFinished
  BY Constants DEF IInv, ReadsFinished, OnceInv, CalibrationInv, Stored, delta_cycles,
     base, TypeOK, Reading
<1>. QED
  BY <1>1, InvariantHolds, PTL

\* The asserts of initialize: the clock and the counter have moved on, the clock by
\* the whole window.
THEOREM WindowMeasured == Spec => []MeasuredWholeWindow
<1>1. IInv => MeasuredWholeWindow
  <2>. SUFFICES ASSUME IInv, NEW t \in Threads, pc[t] = "store", native
                PROVE  /\ end.ns - start.ns >= window[t]
                       /\ end.ns > start.ns
                       /\ end.cycles > start.cycles
    BY DEF MeasuredWholeWindow
  <2>1. end.ns >= start.ns + window[t] /\ start.cycles < end.cycles
    BY DEF IInv, MeasureInv, HasMeasured
  <2>2. /\ end.ns \in Int /\ start.ns \in Int /\ window[t] \in Nat \ {0}
        /\ end.cycles \in Int /\ start.cycles \in Int
    BY DEF IInv, TypeOK, Reading
  <2>. QED
    BY <2>1, <2>2
<1>. QED
  BY <1>1, InvariantHolds, PTL

\* now_ns() is as far from the steady clock as the hold-ups between the readings of
\* a pair make it, and no further.
THEOREM Accurate == Spec => []AccurateUnlessHeldUp
BY AccurateWhenStored, InvariantHolds, PTL

\* now_ns() never goes back, across threads either.
THEOREM Monotonic == Spec => NeverGoesBack
<1>1. IInv /\ [Next]_vars =>
        [\A t \in Threads : Use(t) /\ op[t] = "now_ns" => NowNs >= floor[t]]_vars
  BY UseStep
<1>. QED
  BY <1>1, InvariantHolds, PTL DEF Spec, NeverGoesBack
=============================================================================
