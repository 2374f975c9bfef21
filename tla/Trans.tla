------------------------------- MODULE Trans -------------------------------
(***************************************************************************)
(* Part B of the cache lab: test-trans.c runs each of the transpose        *)
(* functions of trans.c under tracegen.c, which validates its result,      *)
(* replays its accesses in a 1 KB direct mapped cache (module Csim stands  *)
(* for csim-ref) and records the misses; driver.py gives points for those  *)
(* of the submission.                                                      *)
(***************************************************************************)
EXTENDS Csim

CONSTANT OtherSizes    \* sizes on the command line that the driver does not grade

\* The tiles of 32 and 64 columns are for square matrices: of another the submission would take rows
\* of A that it does not have.
ASSUME TransAssumption == /\ OtherSizes \subseteq Nat \X Nat
                          /\ \A s \in OtherSizes : s[1] \in {32, 64} => s[2] = s[1]

VARIABLES size,          \* <<M, N>> on the command line: A is N x M, B is M x N
          fn,            \* the function that runs, or func_counter
          at,            \* its loop variables <<i, j, k, l>>; Ended after the last round
          v,             \* the elements it has read and not written yet
          reading,       \* it reads, or it writes
          B,             \* the rows of B, one after the other
          num_misses,    \* of the functions that were correct, in func_list
          results        \* correct and misses of the submission

transvars == <<size, fn, at, v, reading, B, num_misses, results>>

\* eval_perf(5, 1, 5): 32 sets of one line of 32 bytes, 8 elements.  A and B are int[256][256],
\* one after the other.
TransGeometry == <<32, 1>>
ELEMENTS == 8
BASE == 65536 \div ELEMENTS

\* What driver.py asks for.
Sizes == {<<32, 32>>, <<64, 64>>, <<61, 67>>}
M == size[1]
N == size[2]

\* registerFunctions(): the submission and the simple scan.
Submission == 0
func_counter == 2

INT_MAX == 2147483647

\* The misses of tracegen's own accesses: the two markers and what is between them and the function.
HARNESS == 3

MAXN == 256
Ended == <<>>
Unset == -1      \* what is in B before: rand()

\* The element A[i][j] is the number of its place: no two are equal.
A(i, j) == i * M + j
BlockOfA(i, j) == A(i, j) \div ELEMENTS
BlockOfB(i, j) == BASE + (i * N + j) \div ELEMENTS
Transposed == [p \in 0 .. M * N - 1 |-> A(p % N, p \div N)]

\* Mutation: tiles of two lines of the cache for 32 columns.
Tile_OfTwoLines == IF fn # Submission THEN MAXN ELSE IF M = 32 THEN 16 ELSE IF M = 64 THEN 4 ELSE 17

\* A function takes A tile by tile, and in a row of a tile a burst of elements at a time, which it
\* reads before it writes the first of them.
Blocked == fn = Submission /\ M \in {32, 64}
Tile == IF fn # Submission THEN MAXN ELSE IF M = 32 THEN 8 ELSE IF M = 64 THEN 4 ELSE 17
Burst == IF Blocked THEN Tile ELSE 1
Rows == IF Blocked THEN M ELSE N

\* Where the loop over the tile that begins at first ends.
Edge(first, bound) == IF first + Tile < bound THEN first + Tile ELSE bound

\* The loop variables of the round after a burst.
Round(i, j, k, l) ==
  CASE l + Burst < Edge(j, M) -> <<i, j, k, l + Burst>>
    [] l + Burst >= Edge(j, M) /\ k + 1 < Edge(i, Rows) -> <<i, j, k + 1, j>>
    [] l + Burst >= Edge(j, M) /\ k + 1 >= Edge(i, Rows) /\ j + Tile < M -> <<i, j + Tile, i, j + Tile>>
    [] l + Burst >= Edge(j, M) /\ k + 1 >= Edge(i, Rows) /\ j + Tile >= M /\ i + Tile < Rows
         -> <<i + Tile, 0, i + Tile, 0>>
    [] OTHER -> Ended

\* A new process: tracegen fills A and B, the simulator begins with an empty cache.
Start == at = <<0, 0, 0, 0>> /\ v = <<>> /\ reading = TRUE

\* What main() refuses: a size of 0, or one above MAXN.
ArgsOk == M # 0 /\ N # 0 /\ M <= MAXN /\ N <= MAXN

TransInit ==
  /\ size \in Sizes \cup OtherSizes /\ ArgsOk /\ fn = 0 /\ Start
  /\ B = [p \in 0 .. M * N - 1 |-> Unset]
  /\ num_misses = <<0, 0>> /\ results = [correct |-> 0, misses |-> INT_MAX]
  /\ geometry = TransGeometry /\ EmptyCache

ReadElement ==
  /\ at # Ended /\ reading
  /\ LET k == at[3]
         l == at[4] + Len(v)
     IN  v' = Append(v, A(k, l)) /\ Access(BlockOfA(k, l), 0)
  /\ reading' = (Len(v') < Burst)
  /\ UNCHANGED <<size, fn, at, B, num_misses, results, again>>

\* Mutation: column and row of B are swapped.
Target_Swapped(l, k) == <<k, l>>

\* B[l][k] takes A[k][l].
Target(l, k) == <<l, k>>

WriteElement ==
  /\ at # Ended /\ ~reading
  /\ LET to == Target(at[4] + Burst - Len(v), at[3])
     IN  /\ B' = [B EXCEPT ![to[1] * N + to[2]] = Head(v)]
         /\ Access(BlockOfB(to[1], to[2]), 0)
  /\ v' = Tail(v) /\ reading' = (v' = <<>>)
  /\ at' = IF v' = <<>> THEN Round(at[1], at[2], at[3], at[4]) ELSE at
  /\ UNCHANGED <<size, fn, num_misses, results, again>>

\* validate() against correctTrans(), the simulation, and on to the next function.
EvalPerf ==
  /\ at = Ended /\ fn < func_counter
  /\ num_misses' = IF B = Transposed THEN [num_misses EXCEPT ![fn + 1] = miss_count + HARNESS]
                   ELSE num_misses
  /\ results' = IF B = Transposed /\ fn = Submission
                THEN [correct |-> 1, misses |-> miss_count + HARNESS] ELSE results
  /\ fn' = fn + 1
  /\ at' = <<0, 0, 0, 0>> /\ v' = <<>> /\ reading' = TRUE
  /\ B' = [p \in DOMAIN B |-> Unset]
  /\ lines' = EmptyLines /\ recent' = NoUse /\ hit_count' = 0 /\ miss_count' = 0
  /\ eviction_count' = 0 /\ access_log' = 0
  /\ UNCHANGED <<geometry, size, again>>

\* After 120 seconds sigalrm_handler() prints 0:0, whatever has been found, and ends the program.
SigAlrm ==
  /\ results' = [correct |-> 0, misses |-> 0] /\ fn' = func_counter
  /\ UNCHANGED <<csimvars, size, at, v, reading, B, num_misses>>

TransNext == fn < func_counter /\ (ReadElement \/ WriteElement \/ EvalPerf \/ SigAlrm)

\* computeMissScore(), in tenths of a point.
Points(misses, lower, upper, full) ==
  IF misses <= lower THEN 10 * full ELSE IF misses >= upper THEN 0
  ELSE (20 * full * (upper - misses) + upper - lower) \div (2 * (upper - lower))

Score == results.correct *
  CASE M = 32 -> Points(results.misses, 300, 600, 8)
    [] M = 64 -> Points(results.misses, 1300, 2000, 8)
    [] M = 61 -> Points(results.misses, 2000, 3000, 10)
    [] OTHER -> 0
-----------------------------------------------------------------------------
\* What cachelab/README.md:321, 349, 374 and 383 report: misses of the submission and of the simple
\* scan.  (374 says 4723 for the scan of 61 x 67, the number of 64 x 64.)
Reported(n) == CASE n = 32 -> <<287, 1183>> [] n = 64 -> <<1699, 4723>> [] n = 61 -> <<1950, 4423>>

\* Every function transposes, whatever its tiles and wherever they end.
Transposes == at = Ended => B = Transposed

\* Its misses on the sizes that are graded are those that the README reports, worth 8, 3.4 and 10
\* points.  A run that is timed out is worth none, although the driver then reads of 0 misses.
MissesRight ==
  /\ results.misses = 0 => Score = 0
  /\ size \in Sizes /\ fn # Submission /\ results.misses # 0 =>
       /\ \A f \in 1 .. fn : num_misses[f] = Reported(M)[f]
       /\ Score = CASE M = 32 -> 80 [] M = 64 -> 34 [] M = 61 -> 100
=============================================================================
