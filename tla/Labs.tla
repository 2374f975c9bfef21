-------------------------------- MODULE Labs --------------------------------
(***************************************************************************)
(* The sequential parts of the labs, each on its own: the cache simulator  *)
(* (Csim), the transpose functions and their driver (Trans), the bit       *)
(* puzzles (Bits), the functions that parse (Texts) and the measurement of *)
(* time (Timing).  A behaviour runs one of them; the state of the others   *)
(* stays as it is at first.                                                *)
(***************************************************************************)
EXTENDS Trans, Bits, Texts, Timing

VARIABLE program

Programs == {"csim", "trans", "bits", "texts", "timing"}
vars == <<program, csimvars, transvars, x, y, z, text, timingvars>>

NoCsim   == geometry = <<1, 1>> /\ EmptyCache
NoTrans  == /\ size = <<0, 0>> /\ fn = 0 /\ Start /\ B = <<>>
            /\ num_misses = <<0, 0>> /\ results = [correct |-> 0, misses |-> INT_MAX]
NoBits   == x = {} /\ y = {} /\ z = {}
NoTexts  == text = [kind |-> "none"]
NoTiming == /\ method = "none" /\ compensate = FALSE /\ cyc_per_tick = 0
            /\ now = <<0, 0>> /\ start = <<0, 0>>
            /\ values = <<>> /\ samplecount = 0 /\ elapsed = <<>> /\ timed = FALSE

Init ==
  \/ program = "csim" /\ CsimInit /\ NoTrans /\ NoBits /\ NoTexts /\ NoTiming
  \/ program = "trans" /\ TransInit /\ NoBits /\ NoTexts /\ NoTiming
  \/ program = "bits" /\ NoCsim /\ NoTrans /\ BitsInit /\ NoTexts /\ NoTiming
  \/ program = "texts" /\ NoCsim /\ NoTrans /\ NoBits /\ TextsInit /\ NoTiming
  \/ program = "timing" /\ NoCsim /\ NoTrans /\ NoBits /\ NoTexts /\ TimingInit

Next ==
  /\ \/ program = "csim" /\ CsimNext /\ UNCHANGED <<transvars, timingvars>>
     \/ program = "trans" /\ TransNext /\ UNCHANGED timingvars
     \/ program = "timing" /\ TimingNext /\ UNCHANGED <<csimvars, transvars>>
  /\ UNCHANGED <<program, x, y, z, text>>

Spec == Init /\ [][Next]_vars
-----------------------------------------------------------------------------
TypeOK ==
  /\ program \in Programs
  /\ CacheTypeOK
  /\ fn \in 0 .. func_counter /\ at \in Seq(Nat) /\ v \in Seq(Nat) /\ reading \in BOOLEAN
  /\ program = "trans" => B \in [0 .. M * N - 1 -> -1 .. M * N - 1]
  /\ x \subseteq Bit /\ y \subseteq Bit /\ z \subseteq Bit
  /\ now[2] \in 0 .. UINT - 1 /\ start[2] \in 0 .. UINT - 1
  /\ Len(values) <= K /\ values \in Seq(Int) /\ samplecount \in 0 .. MAXSAMPLES

\* The puzzles of datalab/bits.c give what the comment above each asks for, for every word.
PuzzlesRight == program = "bits" => BitsRight

\* The transpose functions of trans.c transpose, matrices of any size.
TransposeRight == program = "trans" => Transposes

\* They have the misses and the points that cachelab/README.md reports.
MissesReported == program = "trans" => MissesRight
=============================================================================
