------------------------------- MODULE Timing -------------------------------
(***************************************************************************)
(* The time of a function, as the allocator's driver measures it: fcyc.c   *)
(* takes the best of K samples of the cycle counter of clock.c, with or    *)
(* without its compensation for timer interrupts; ftimer.c takes the       *)
(* average of n runs from gettimeofday() or from the interval timer.       *)
(* config.h has fsecs.c choose one.                                        *)
(***************************************************************************)
EXTENDS Integers, Sequences, SequencesExt

CONSTANTS K, MAXSAMPLES,   \* of the K-best scheme
          EPSILON,         \* its tolerance, in per cent
          CYCLES,          \* what a run of the function may take
          TICK,            \* cycles that a timer interrupt takes
          CYC_PER_TICK,    \* what callibrate() may see of one
          NEVENT, RECORDTHRESH,   \* of callibrate(): how many it sees, which it takes
          RUNS,            \* n of ftimer.c
          MAX_ETIME,       \* seconds that the interval timer runs
          UINT             \* number of unsigned ints: the width of half the counter; and usecs of a second

ASSUME TimingAssumption ==
  /\ K \in Nat \ {0} /\ MAXSAMPLES \in Nat \ {0} /\ EPSILON \in Nat /\ CYCLES \subseteq Nat
  /\ TICK \in Nat /\ CYC_PER_TICK \subseteq Nat /\ NEVENT \in Nat \ {0} /\ RECORDTHRESH \in Nat
  /\ RUNS \in Nat \ {0} /\ MAX_ETIME \in Nat \ {0} /\ UINT \in Nat \ {0}

VARIABLES method,          \* "fcyc", "gettod" or "itimer"
          compensate, cyc_per_tick,
          now,             \* the cycle counter <<hi, lo>>, the time of day <<sec, usec>>, or
                           \* what is left of the interval timer
          start,           \* what was read before the first run
          values, samplecount,
          elapsed,         \* what each sample should be: cycles of the function (not in the code)
          timed            \* the measurement is over

timingvars == <<method, compensate, cyc_per_tick, now, start, values, samplecount, elapsed, timed>>

\* The counter after some cycles.
Later(counter, cycles) ==
  LET n == (counter[1] * UINT + counter[2] + cycles) % (UINT * UINT)
  IN  <<n \div UINT, n % UINT>>

\* Mutation: the borrow is forgotten.
GetCounter_NoBorrow(from, to) ==
  ((to[1] - from[1]) % UINT) * UINT + ((to[2] - from[2]) % UINT)

\* get_counter(): the subtraction of two unsigned halves.
GetCounter(from, to) ==
  LET lo == (to[2] - from[2]) % UINT
      borrow == IF lo > to[2] THEN 1 ELSE 0
      hi == (to[1] - from[1] - borrow) % UINT
  IN  hi * UINT + lo

\* add_sample(): a new sample goes to the end, or in place of the largest, and is sorted in.
SortIn(s, val) ==
  InsertAt(s, Max({p \in DOMAIN s : s[p] <= val} \cup {0}) + 1, val)

AddSample(val) ==
  /\ values' = IF samplecount < K THEN SortIn(values, val)
               ELSE IF val < Last(values) THEN SortIn(Front(values), val) ELSE values
  /\ samplecount' = samplecount + 1

Converged(s) == Len(s) >= K /\ (100 + EPSILON) * s[1] >= 100 * s[K]

InitSampler == values = <<>> /\ samplecount = 0
InitEtime == now = <<MAX_ETIME, 0>>

TimingInit ==
  /\ method \in {"fcyc", "gettod", "itimer"}
  /\ compensate \in IF method = "fcyc" THEN BOOLEAN ELSE {FALSE}
  /\ cyc_per_tick = 0
  /\ IF method = "itimer" THEN InitEtime ELSE now \in (0 .. UINT - 1) \X (0 .. UINT - 1)
  /\ start = now /\ InitSampler
  /\ elapsed = <<>> /\ timed = FALSE

\* callibrate(): of the interrupts it sees, the one that took the fewest cycles and more than the
\* threshold; 0 if there is none.
Callibrate(seen) ==
  LET taken == {cpt \in Range(seen) : cpt > RECORDTHRESH}
  IN  IF taken = {} THEN 0 ELSE Min(taken)

\* start_comp_counter() callibrates until that has found something.
StartCompCounter ==
  IF cyc_per_tick = 0 THEN \E seen \in [1 .. NEVENT -> CYC_PER_TICK] : cyc_per_tick' = Callibrate(seen)
                      ELSE UNCHANGED cyc_per_tick
GetCompCounter(from, to, ticks) == GetCounter(from, to) - ticks * cyc_per_tick'

\* fcyc(): a round of its loop.  While the function ran there was a timer interrupt, or none.
Sample ==
  /\ method = "fcyc" /\ ~timed
  /\ IF compensate THEN StartCompCounter ELSE UNCHANGED cyc_per_tick
  /\ \E cycles \in CYCLES, ticks \in 0 .. 1 :
       LET end == Later(now, cycles + ticks * TICK)
       IN  /\ now' = end /\ start' = now
           /\ AddSample(IF compensate THEN GetCompCounter(now, end, ticks) ELSE GetCounter(now, end))
           /\ elapsed' = Append(elapsed, cycles + ticks * (TICK - cyc_per_tick'))
  /\ timed' = (Converged(values') \/ samplecount' >= MAXSAMPLES)
  /\ UNCHANGED <<method, compensate>>

\* ftimer_gettod(): n runs between two readings of the clock, and their difference.
GetTimeOfDay(from, to) == (to[1] - from[1]) * UINT + to[2] - from[2]

Run ==
  /\ method = "gettod" /\ ~timed
  /\ \E cycles \in CYCLES :
       /\ now' = <<now[1] + (now[2] + cycles) \div UINT, (now[2] + cycles) % UINT>>
       /\ elapsed' = Append(elapsed, cycles)
  /\ timed' = (Len(elapsed') = RUNS)
  /\ values' = IF timed' THEN <<GetTimeOfDay(start, now')>> ELSE values
  /\ UNCHANGED <<method, compensate, cyc_per_tick, start, samplecount>>

\* ftimer_itimer(): the interval timer counts down.
GetEtime(v_curr) == (MAX_ETIME - v_curr[1]) * UINT - v_curr[2]

RunItimer ==
  /\ method = "itimer" /\ ~timed
  /\ \E cycles \in CYCLES :
       LET left == now[1] * UINT + now[2] - cycles
       IN  /\ left > 0
           /\ now' = <<left \div UINT, left % UINT>>
           /\ elapsed' = Append(elapsed, cycles)
  /\ timed' = (Len(elapsed') = RUNS)
  /\ values' = IF timed' THEN <<GetEtime(now') - GetEtime(start)>> ELSE values
  /\ UNCHANGED <<method, compensate, cyc_per_tick, start, samplecount>>

\* It has run down: the SIGALRM ends the program.
Expire ==
  /\ method = "itimer" /\ ~timed
  /\ \E cycles \in CYCLES : now[1] * UINT + now[2] <= cycles
  /\ method' = "killed"
  /\ UNCHANGED <<compensate, cyc_per_tick, now, start, values, samplecount, elapsed, timed>>

TimingNext == Sample \/ Run \/ RunItimer \/ Expire
-----------------------------------------------------------------------------
TimeOf(s) == MapThenSumSet(LAMBDA i : s[i], DOMAIN s)

\* t are the k smallest of s, in order, or all that there are.
Smallest(t, k, s) ==
  \E rank \in Bijection(DOMAIN s, DOMAIN s) :
    /\ \A i, j \in DOMAIN s : i <= j => s[rank[i]] <= s[rank[j]]
    /\ t = [i \in 1 .. IF Len(s) < k THEN Len(s) ELSE k |-> s[rank[i]]]

\* What fcyc() keeps are the K smallest of all its samples, each the number of cycles between its
\* two readings, whether the counter's low half or the counter itself wraps in between; it goes on
\* only while these differ by more than epsilon, or the smallest is negative: a compensation that
\* is larger than an interrupt was leads to that, and then to MAXSAMPLES samples however close they
\* are.  ftimer_gettod() and ftimer_itimer() return the time of all their runs.
TimingRight ==
  CASE method = "fcyc" ->
         /\ Smallest(values, K, elapsed)
         /\ samplecount >= K /\ samplecount < MAXSAMPLES /\ values[1] >= 0
              => (timed <=> 100 * (values[K] - values[1]) <= EPSILON * values[1])
    [] method \in {"gettod", "itimer"} -> timed => values = <<TimeOf(elapsed)>>
    [] OTHER -> TRUE
=============================================================================
