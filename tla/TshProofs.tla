----------------------------- MODULE TshProofs -----------------------------
(***************************************************************************)
(* Proofs about the shell of Tsh, for any size of the job list, any number *)
(* of children, and any use of the built-in commands and of the keyboard.  *)
(***************************************************************************)
EXTENDS Tsh, Extrema, SequenceTheorems, TLAPS

USE MaxJobsAssumption, TshAssumption DEF MaxJobsAssumption, TshAssumption

-----------------------------------------------------------------------------
(* The inductive invariant.                                                  *)

\* The states of a child that waitpid has not taken.
Living == Alive \cup {"zombie"}

Labels  == {"prompt", "block", "fork", "addjob", "unblock", "waitfg",
            "readpid", "test", "cont", "setstate"}
Reports == {"none", "exited", "signaled", "stopped"}
Job     == [pid : 0 .. MaxPid, jid : Nat, state : {UNDEF, FG, BG, ST}]
Frame   == [sig : Signals, at : {"start", "body", "kill"}, pid : 0 .. MaxPid,
            st : Reports, saved : SUBSET Signals]

Listed(p) == \E s \in Slots : jobs[s].pid = p

\* What TypeOK says, without its bound on the depth of the handlers.
TypeInv ==
  /\ jobs \in [Slots -> Job] /\ nextjid \in Nat \ {0}
  /\ pc \in Labels /\ cur \in -1 .. MaxPid /\ bg \in BOOLEAN /\ slot \in 0 .. MAXJOBS
  /\ mask \subseteq Signals /\ pending \subseteq Signals
  /\ frames \in Seq(Frame)
  /\ child \in [Pids -> {"none", "reaped"} \cup Living]
  /\ report \in [Pids -> Reports]
  /\ doomed \subseteq Pids /\ refused \subseteq Pids
  /\ status \in {"up", "exit", "crash"}

\* A handler is never interrupted by its own signal, nor by one that was blocked when it
\* started; and SIGCHLD is blocked from before fork() until the job is added.
MaskInv ==
  /\ \A k \in DOMAIN frames : /\ frames[k].sig \in mask /\ frames[k].saved \subseteq mask
                              /\ frames[k].sig \notin frames[k].saved
  /\ \A j, k \in DOMAIN frames : j < k => /\ frames[j].sig \in frames[k].saved
                                          /\ frames[j].saved \subseteq frames[k].saved
  /\ pc \in {"fork", "addjob", "unblock"} =>
       "CHLD" \in mask /\ \A k \in DOMAIN frames : "CHLD" \in frames[k].saved

\* What waitpid would say of a child is true.
ChildInv ==
  \A p \in Pids : /\ report[p] = "stopped" => child[p] = "stopped"
                  /\ report[p] \in {"exited", "signaled"} => child[p] = "zombie"

\* main: do_bgfg() has a slot and the pid of a job, and the child that eval() adds is not listed yet.
MainInv ==
  /\ pc \in {"readpid", "test", "cont", "setstate"} => slot \in Slots
  /\ pc \in {"test", "cont"} => cur # -1
  /\ pc = "addjob" => \/ cur = -1
                      \/ cur \in Pids /\ child[cur] \in Living /\ ~Listed(cur)

\* A sigchld_handler that has taken a change has still to record it, for a job that is listed or
\* that addjob() had no slot for.
FrameInv ==
  \A k \in DOMAIN frames :
    /\ frames[k].at = "body" =>
         /\ frames[k].sig = "CHLD" /\ frames[k].pid \in Pids /\ frames[k].st # "none"
         /\ child[frames[k].pid] \in (IF frames[k].st = "stopped" THEN Living ELSE {"reaped"})
         /\ Listed(frames[k].pid) \/ frames[k].pid \in refused
    /\ frames[k].at = "kill" => frames[k].sig # "CHLD"

ListInv ==
  /\ \A s \in Slots : jobs[s].pid # 0 =>
       \/ child[jobs[s].pid] \in Living
       \/ child[jobs[s].pid] = "reaped" /\ InRecord(jobs[s].pid)
  /\ \A p \in Pids : child[p] \in Living =>
       Listed(p) \/ p \in refused \/ (pc = "addjob" /\ cur = p)
  /\ \A r, s \in Slots : jobs[r].pid = jobs[s].pid /\ jobs[r].pid # 0 => r = s

IInv == TypeInv /\ MaskInv /\ ChildInv /\ MainInv /\ FrameInv /\ ListInv

\* Without `fg', a job in the foreground is the one that eval() has added and waits for.
EvalInv ==
  /\ pc \in {"readpid", "test", "cont", "setstate"} => bg
  /\ \A s \in Slots : jobs[s].state = FG =>
       pc \in {"unblock", "waitfg"} /\ jobs[s].pid = cur /\ cur # 0 /\ ~bg

-----------------------------------------------------------------------------
(* The helpers of the job list.                                              *)

\* A loop from the first slot finds the least one that satisfies its condition.
LEMMA FirstOfLeast ==
  ASSUME NEW n \in Nat, NEW S \in SUBSET (1 .. n), S # {}
  PROVE  FirstOf(S) \in S
<1>1. IsFiniteSet(1 .. n)
  BY FS_Interval
<1>2. IsFiniteSet(S)
  BY <1>1, FS_Subset
<1>3. S \in SUBSET Nat
  OBVIOUS
<1>4. \E s \in S : \A r \in S : s <= r
  BY <1>2, <1>3, LeastExists
<1> QED
  BY <1>4 DEF FirstOf

LEMMA SlotsFinite == Slots = 1 .. MAXJOBS /\ IsFiniteSet(Slots)
BY FS_Interval DEF Slots

\* The same for a condition on slots, which may hold of none.
LEMMA FirstSlot ==
  ASSUME NEW S \in SUBSET Slots
  PROVE  /\ FirstOf(S) = 0 <=> S = {}
         /\ S # {} => FirstOf(S) \in S
<1>1. CASE S = {}
  BY <1>1 DEF FirstOf
<1>2. CASE S # {}
  <2>1. S \in SUBSET (1 .. MAXJOBS) /\ MAXJOBS \in Nat
    BY DEF Slots
  <2>2. FirstOf(S) \in S
    BY <1>2, <2>1, FirstOfLeast
  <2>3. 0 \notin S
    BY <2>1
  <2> QED
    BY <1>2, <2>2, <2>3
<1> QED
  BY <1>1, <1>2

LEMMA JobOfPidFinds ==
  ASSUME NEW p \in Pids
  PROVE  /\ JobOfPid(jobs, p) = 0 <=> ~Listed(p)
         /\ Listed(p) => JobOfPid(jobs, p) \in Slots /\ jobs[JobOfPid(jobs, p)].pid = p
<1>1. JobOfPid(jobs, p) = FirstOf({s \in Slots : jobs[s].pid = p})
  BY DEF JobOfPid, Pids
<1> QED
  BY <1>1, FirstSlot DEF Listed

LEMMA JobOfJidFinds ==
  ASSUME TypeInv, NEW j \in {jobs[s].jid : s \in Slots} \ {0}
  PROVE  JobOfJid(jobs, j) \in Slots
<1>1. j \in Nat \ {0}
  BY DEF TypeInv, Job
<1>2. JobOfJid(jobs, j) = FirstOf({s \in Slots : jobs[s].jid = j})
  BY <1>1 DEF JobOfJid
<1> QED
  BY <1>2, FirstSlot

LEMMA FreeSlotFinds ==
  /\ FreeSlot(jobs) = 0 <=> \A s \in Slots : jobs[s].pid # 0
  /\ FreeSlot(jobs) # 0 => FreeSlot(jobs) \in Slots /\ jobs[FreeSlot(jobs)].pid = 0
BY FirstSlot DEF FreeSlot

LEMMA FgPidFinds ==
  ASSUME TypeInv
  PROVE  /\ FgPid(jobs) \in 0 .. MaxPid
         /\ \A s \in Slots : jobs[s].state = FG =>
              \E r \in Slots : jobs[r].state = FG /\ FgPid(jobs) = jobs[r].pid
<1> DEFINE S == {r \in Slots : jobs[r].state = FG}
           f == FirstOf(S)
<1>1. (f = 0 <=> S = {}) /\ (S # {} => f \in S)
  BY FirstSlot
<1>2. FgPid(jobs) = IF f = 0 THEN 0 ELSE jobs[f].pid
  BY DEF FgPid
<1>3. \A r \in Slots : jobs[r].pid \in 0 .. MaxPid
  BY DEF TypeInv, Job
<1>4. 0 \notin Slots
  BY DEF Slots
<1> HIDE DEF f
<1> QED
  BY <1>1, <1>2, <1>3, <1>4

\* The largest jid in use, 0 if there is none.
LEMMA MaxJidNat ==
  ASSUME NEW table, \A s \in Slots : table[s].jid \in Nat
  PROVE  MaxJid(table) \in Nat
<1> DEFINE jid == [s \in Slots |-> table[s].jid]
           J == {table[s].jid : s \in Slots}
<1>1. jid \in Surjection(Slots, J)
  BY DEF Surjection
<1>2. IsFiniteSet(J \cup {0})
  <2> HIDE DEF jid, J
  <2>1. IsFiniteSet(J)
    BY <1>1, SlotsFinite, FS_Surjection
  <2> QED
    BY <2>1, FS_AddElement
<1>3. J \cup {0} \in SUBSET Nat
  OBVIOUS
<1>4. \E m \in J \cup {0} : \A r \in J \cup {0} : r <= m
  <2> HIDE DEF J
  <2> QED
    BY <1>2, <1>3, GreatestExists
<1>5. \E m \in J \cup {0} : \A s \in Slots : table[s].jid <= m
  BY <1>4
<1> QED
  BY <1>3, <1>5 DEF MaxJid

-----------------------------------------------------------------------------
(* The stack of handlers: what a delivery, a step and a return do to it.     *)

LEMMA TopFrame ==
  ASSUME TypeInv, frames # <<>>
  PROVE  /\ Len(frames) \in Nat \ {0} /\ DOMAIN frames = 1 .. Len(frames)
         /\ Len(frames) \in DOMAIN frames /\ Top \in Frame
BY DEF TypeInv, Top

LEMMA Pushed ==
  ASSUME TypeInv, NEW f \in Frame, frames' = Append(frames, f)
  PROVE  /\ frames' \in Seq(Frame) /\ Len(frames) \in Nat
         /\ DOMAIN frames = 1 .. Len(frames) /\ DOMAIN frames' = 1 .. Len(frames) + 1
         /\ \A k \in DOMAIN frames : k \in DOMAIN frames' /\ frames'[k] = frames[k]
         /\ frames'[Len(frames) + 1] = f
BY DEF TypeInv

LEMMA Replaced ==
  ASSUME TypeInv, frames # <<>>, NEW f \in Frame, SetTop(f)
  PROVE  /\ frames' \in Seq(Frame) /\ DOMAIN frames' = DOMAIN frames
         /\ frames'[Len(frames)] = f
         /\ \A k \in DOMAIN frames : k # Len(frames) => frames'[k] = frames[k]
BY TopFrame DEF TypeInv, SetTop

LEMMA Popped ==
  ASSUME TypeInv, frames # <<>>, Return
  PROVE  /\ frames' \in Seq(Frame) /\ DOMAIN frames' = 1 .. Len(frames) - 1
         /\ \A k \in DOMAIN frames' :
              k \in DOMAIN frames /\ k < Len(frames) /\ frames'[k] = frames[k]
<1>1. Len(frames) \in Nat \ {0} /\ DOMAIN frames = 1 .. Len(frames)
  BY TopFrame
<1>2. frames' = SubSeq(frames, 1, Len(frames) - 1)
  BY DEF Return, Front
<1>3. /\ frames' \in Seq(Frame) /\ Len(frames') = Len(frames) - 1
      /\ \A k \in 1 .. Len(frames) - 1 : frames'[k] = frames[k]
  BY <1>1, <1>2, SubSeqProperties DEF TypeInv
<1> QED
  BY <1>1, <1>3

\* SIGCHLD is blocked in its handler: there is at most one.
LEMMA OneReaper ==
  ASSUME TypeInv, MaskInv, NEW j \in DOMAIN frames, NEW k \in DOMAIN frames,
         frames[j].sig = frames[k].sig
  PROVE  j = k
<1>1. j \in Nat /\ k \in Nat
  BY DEF TypeInv
<1> QED
  BY <1>1 DEF MaskInv

-----------------------------------------------------------------------------
(* What steps have in common.                                                *)

\* What the kernel does to the children: one that has not been reaped stays so, and a change
\* that waitpid will report sets SIGCHLD pending.
Moved ==
  /\ child' \in [Pids -> {"none", "reaped"} \cup Living] /\ report' \in [Pids -> Reports]
  /\ doomed' \subseteq Pids /\ pending' \subseteq Signals /\ pending \subseteq pending'
  /\ \A p \in Pids : child'[p] = child[p] \/ (child[p] \in Living /\ child'[p] \in Living)
  /\ ChildInv'
  /\ "CHLD" \in pending' \/ report' = report

LEMMA NothingMoves ==
  ASSUME TypeInv, ChildInv, UNCHANGED <<childvars, pending>>
  PROVE  Moved
BY DEF TypeInv, ChildInv, Moved, childvars

LEMMA InterruptMoves ==
  ASSUME TypeInv, ChildInv, NEW p \in Pids, Interrupt(p)
  PROVE  Moved
<1>1. CASE child[p] = "run"
  BY <1>1 DEF TypeInv, ChildInv, Moved, Interrupt, Living, Alive, Reports, Signals
<1>2. CASE child[p] # "run"
  BY <1>2 DEF TypeInv, ChildInv, Moved, Interrupt, childvars
<1> QED
  BY <1>1, <1>2

LEMMA SuspendMoves ==
  ASSUME TypeInv, ChildInv, NEW p \in Pids, Suspend(p)
  PROVE  Moved
<1>1. CASE child[p] = "run"
  BY ZenonT(60), <1>1 DEF TypeInv, ChildInv, Moved, Suspend, Living, Alive, Reports, Signals
<1>2. CASE child[p] # "run"
  BY <1>2 DEF TypeInv, ChildInv, Moved, Suspend, childvars
<1> QED
  BY <1>1, <1>2

LEMMA ContinueMoves ==
  ASSUME TypeInv, ChildInv, NEW p \in Pids, Continue(p)
  PROVE  Moved
<1>1. CASE child[p] = "stopped"
  BY ZenonT(60), <1>1 DEF TypeInv, ChildInv, Moved, Continue, Living, Alive, Reports, Signals
<1>2. CASE child[p] # "stopped"
  BY <1>2 DEF TypeInv, ChildInv, Moved, Continue, childvars
<1> QED
  BY <1>1, <1>2

LEMMA ChildMoves ==
  ASSUME TypeInv, ChildInv, NEW p \in Pids, Child(p)
  PROVE  Moved /\ UNCHANGED <<shellvars, jobvars, frames, mask, status>>
<1>1. CASE SetGroup(p)
  BY <1>1 DEF SetGroup, TypeInv, ChildInv, Moved, Living, Alive, signalvars
<1>2. CASE Exec(p)
  BY <1>2 DEF Exec, TypeInv, ChildInv, Moved, Living, Alive, signalvars
<1>3. CASE ChildEnds(p)
  BY <1>3 DEF ChildEnds, TypeInv, ChildInv, Moved, Living, Alive, Reports, Signals
<1>4. CASE ChildStops(p)
  BY <1>4, SuspendMoves DEF ChildStops
<1> QED
  BY <1>1, <1>2, <1>3, <1>4 DEF Child

\* The list and the handlers keep their invariants while the list is left alone, children move, and
\* handlers start, look for the foreground job, and return.
LEMMA ListSteady ==
  ASSUME TypeInv, ListInv, UNCHANGED <<jobs, refused>>, Moved,
         \A p \in Pids : InRecord(p) => InRecord(p)',
         pc = "addjob" => pc' = "addjob" /\ cur' = cur
  PROVE  ListInv'
<1>1. \A s \in Slots : jobs[s].pid # 0 => jobs[s].pid \in Pids
  BY DEF TypeInv, Job, Pids
<1>2. \A p \in Pids : Listed(p)' <=> Listed(p)
  BY DEF Listed
<1>3. (\A s \in Slots : jobs[s].pid # 0 =>
         \/ child[jobs[s].pid] \in Living
         \/ child[jobs[s].pid] = "reaped" /\ InRecord(jobs[s].pid))'
  <2> SUFFICES ASSUME NEW s \in Slots, jobs[s].pid # 0
               PROVE  \/ child'[jobs[s].pid] \in Living
                      \/ child'[jobs[s].pid] = "reaped" /\ InRecord(jobs[s].pid)'
    OBVIOUS
  <2>1. jobs[s].pid \in Pids
    BY <1>1
  <2> QED
    BY <2>1 DEF ListInv, Moved
<1>4. (\A p \in Pids : child[p] \in Living =>
         Listed(p) \/ p \in refused \/ (pc = "addjob" /\ cur = p))'
  BY <1>2 DEF ListInv, Moved
<1>5. (\A r, s \in Slots : jobs[r].pid = jobs[s].pid /\ jobs[r].pid # 0 => r = s)'
  BY DEF ListInv
<1> QED
  BY <1>3, <1>4, <1>5 DEF ListInv

FramesKept ==
  \A k \in DOMAIN frames' : \/ k \in DOMAIN frames /\ frames'[k] = frames[k]
                            \/ frames'[k].at = "kill" /\ frames'[k].sig # "CHLD"

LEMMA FramesSteady ==
  ASSUME TypeInv, FrameInv, UNCHANGED <<jobs, refused>>, Moved, FramesKept
  PROVE  FrameInv'
<1>1. \A p \in Pids : Listed(p)' <=> Listed(p)
  BY DEF Listed
<1>2. "reaped" \notin Living
  BY DEF Living, Alive
<1>3. SUFFICES ASSUME NEW k \in DOMAIN frames'
               PROVE  (/\ frames[k].at = "body" =>
                            /\ frames[k].sig = "CHLD" /\ frames[k].pid \in Pids
                            /\ frames[k].st # "none"
                            /\ child[frames[k].pid] \in
                                 (IF frames[k].st = "stopped" THEN Living ELSE {"reaped"})
                            /\ Listed(frames[k].pid) \/ frames[k].pid \in refused
                       /\ frames[k].at = "kill" => frames[k].sig # "CHLD")'
  BY DEF FrameInv
<1>4. CASE k \in DOMAIN frames /\ frames'[k] = frames[k]
  BY <1>1, <1>2, <1>4 DEF FrameInv, Moved
<1>5. CASE frames'[k].at = "kill" /\ frames'[k].sig # "CHLD"
  BY <1>5
<1> QED
  BY <1>4, <1>5 DEF FramesKept

LEMMA MainSteady ==
  ASSUME TypeInv, MainInv, UNCHANGED <<jobs, shellvars>>, Moved
  PROVE  MainInv'
BY DEF MainInv, Moved, Listed, shellvars

\* A step of main on top of which no handler runs.
LEMMA NoFrames ==
  ASSUME frames' = <<>>, pc' \in {"fork", "addjob", "unblock"} => "CHLD" \in mask'
  PROVE  MaskInv' /\ FrameInv'
BY DEF MaskInv, FrameInv

-----------------------------------------------------------------------------
(* The invariant is inductive: one lemma per action, or per kind of action.  *)

LEMMA Ranges ==
  /\ 0 \in -1 .. MaxPid /\ 0 \in 0 .. MAXJOBS /\ 0 \in 0 .. MaxPid
  /\ \A p \in Pids : p \in -1 .. MaxPid /\ p \in 0 .. MaxPid /\ p # 0 /\ p # -1
  /\ \A s \in Slots : s \in 0 .. MAXJOBS
BY DEF Pids, Slots

LEMMA InitInv == Init => IInv
<1> SUFFICES ASSUME Init PROVE IInv
  OBVIOUS
<1>1. ClearedJob \in Job /\ ClearedJob.pid = 0
  BY DEF ClearedJob, Job
<1>2. TypeInv
  <2>1. jobs \in [Slots -> Job] /\ nextjid \in Nat \ {0}
    BY <1>1 DEF Init, InitJobs
  <2>2. pc \in Labels /\ cur \in -1 .. MaxPid /\ bg \in BOOLEAN /\ slot \in 0 .. MAXJOBS
    BY Ranges DEF Init, Labels
  <2>3. /\ child \in [Pids -> {"none", "reaped"} \cup Living] /\ report \in [Pids -> Reports]
        /\ frames \in Seq(Frame)
    BY DEF Init, Reports
  <2>4. status \in {"up", "exit", "crash"} /\ mask = {} /\ pending = {}
        /\ doomed = {} /\ refused = {}
    BY DEF Init
  <2> QED
    BY <2>1, <2>2, <2>3, <2>4 DEF TypeInv
<1>3. MaskInv /\ FrameInv
  BY DEF Init, MaskInv, FrameInv
<1>4. ChildInv /\ MainInv
  BY DEF Init, ChildInv, MainInv
<1>5. ListInv
  BY <1>1 DEF Init, ListInv, InitJobs, Living, Alive
<1> QED
  BY <1>2, <1>3, <1>4, <1>5 DEF IInv

LEMMA ExitInv ==
  ASSUME NEW how \in {"exit", "crash"}, Exit(how)
  PROVE  IInv'
<1>1. ClearedJob \in Job /\ ClearedJob.pid = 0
  BY DEF ClearedJob, Job
<1>2. TypeInv'
  <2>1. jobs' \in [Slots -> Job] /\ nextjid' \in Nat \ {0}
    BY <1>1 DEF Exit, ToPrompt, InitJobs
  <2>2. pc' \in Labels /\ cur' \in -1 .. MaxPid /\ bg' \in BOOLEAN /\ slot' \in 0 .. MAXJOBS
    BY Ranges DEF Exit, ToPrompt, Labels
  <2>3. /\ child' \in [Pids -> {"none", "reaped"} \cup Living] /\ report' \in [Pids -> Reports]
        /\ frames' \in Seq(Frame)
    BY DEF Exit, ToPrompt, Reports
  <2>4. status' \in {"up", "exit", "crash"} /\ mask' = {} /\ pending' = {}
        /\ doomed' = {} /\ refused' = {}
    BY DEF Exit, ToPrompt
  <2> QED
    BY <2>1, <2>2, <2>3, <2>4 DEF TypeInv
<1>3. MaskInv' /\ FrameInv'
  BY DEF Exit, ToPrompt, MaskInv, FrameInv
<1>4. ChildInv' /\ MainInv'
  BY DEF Exit, ToPrompt, ChildInv, MainInv
<1>5. ListInv'
  BY <1>1 DEF Exit, ListInv, InitJobs, Living, Alive
<1> QED
  BY <1>2, <1>3, <1>4, <1>5 DEF IInv

\* The steps of main that leave the list and the children alone.
QuietMain == \/ Command \/ Block \/ ForkFails \/ Unblock \/ WaitFgDone
             \/ BgFgByPid \/ BgFgByJid \/ ReadPid \/ TestState

LEMMA QuietMainInv ==
  ASSUME IInv, QuietMain
  PROVE  IInv'
<1> USE DEF IInv
<1>1. /\ TypeInv'
      /\ pc' \in {"readpid", "test", "cont", "setstate"} => slot' \in Slots
      /\ pc' \in {"test", "cont"} => cur' # -1
  <2>1. CASE Command \/ ForkFails
    BY <2>1 DEF TypeInv, Command, ForkFails, Labels, jobvars, signalvars, childvars
  <2>2. CASE Block
    BY <2>2 DEF TypeInv, Block, Labels, Signals, jobvars, childvars
  <2>3. CASE Unblock \/ WaitFgDone
    BY <2>3, Ranges DEF TypeInv, Unblock, WaitFgDone, ToPrompt, Labels, jobvars, signalvars, childvars
  <2>4. CASE BgFgByPid
    <3>1. PICK p \in Pids : JobOfPid(jobs, p) # 0 /\ slot' = JobOfPid(jobs, p) /\ cur' = p
      BY <2>4 DEF BgFgByPid
    <3>2. slot' \in Slots
      BY <3>1, JobOfPidFinds
    <3>3. cur' \in -1 .. MaxPid /\ slot' \in 0 .. MAXJOBS /\ cur' # -1
      BY <3>1, <3>2, Ranges
    <3>4. bg' \in BOOLEAN /\ pc' \in {"cont", "test"}
      BY <2>4 DEF BgFgByPid
    <3> QED
      BY <2>4, <3>2, <3>3, <3>4 DEF TypeInv, BgFgByPid, Labels, jobvars, signalvars, childvars
  <2>5. CASE BgFgByJid
    <3>1. PICK j \in {jobs[s].jid : s \in Slots} \ {0} : slot' = JobOfJid(jobs, j)
      BY <2>5 DEF BgFgByJid
    <3>2. slot' \in Slots
      BY <3>1, JobOfJidFinds
    <3> QED
      BY <2>5, <3>2 DEF TypeInv, BgFgByJid, Slots, Labels, jobvars, signalvars, childvars
  <2>6. CASE ReadPid
    <3>1. slot \in Slots /\ jobs[slot].pid \in 0 .. MaxPid
      BY <2>6 DEF ReadPid, Main, MainInv, TypeInv, Job
    <3> QED
      BY <2>6, <3>1 DEF TypeInv, ReadPid, Labels, jobvars, signalvars, childvars
  <2>7. CASE TestState
    BY <2>7 DEF TypeInv, TestState, Main, MainInv, Labels, jobvars, signalvars, childvars
  <2> QED
    BY <2>1, <2>2, <2>3, <2>4, <2>5, <2>6, <2>7 DEF QuietMain
<1>2. /\ frames = <<>> /\ frames' = <<>> /\ UNCHANGED <<jobs, refused, childvars, pending>>
      /\ pc # "addjob" /\ (pc' = "addjob" => cur' = -1)
      /\ pc' \in {"fork", "addjob", "unblock"} => "CHLD" \in mask'
  BY DEF QuietMain, Command, Block, ForkFails, Unblock, WaitFgDone, BgFgByPid, BgFgByJid,
         ReadPid, TestState, Main, ToPrompt, MaskInv, jobvars, signalvars
<1>3. MaskInv' /\ FrameInv'
  BY <1>2, NoFrames
<1>4. Moved
  BY <1>2, NothingMoves
<1>5. ListInv'
  BY <1>2, <1>4, ListSteady DEF InRecord
<1>6. MainInv'
  BY <1>1, <1>2 DEF MainInv
<1> QED
  BY <1>1, <1>3, <1>4, <1>5, <1>6 DEF Moved

LEMMA ForkInv ==
  ASSUME IInv, Fork
  PROVE  IInv'
<1> USE DEF IInv
<1>1. cur' \in Pids /\ child[cur'] = "none"
  <2>1. MaxPid \in Nat /\ Unused \in SUBSET (1 .. MaxPid) /\ Unused # {}
    BY DEF Fork, Unused, Pids
  <2>2. cur' \in Unused
    BY <2>1, FirstOfLeast DEF Fork
  <2> QED
    BY <2>2 DEF Unused
<1>2. /\ child' = [child EXCEPT ![cur'] = "forked"] /\ child'[cur'] = "forked"
      /\ pc = "fork" /\ pc' = "addjob" /\ frames = <<>> /\ frames' = <<>>
      /\ UNCHANGED <<jobs, refused, report, mask>>
  BY <1>1 DEF Fork, Main, TypeInv, jobvars, signalvars
<1>3. ~Listed(cur')
  BY <1>1 DEF Listed, ListInv, Living, Alive, Pids
<1>4. TypeInv'
  BY <1>1 DEF Fork, TypeInv, Labels, Living, Alive, Pids, jobvars, signalvars
<1>5. MaskInv' /\ FrameInv'
  BY <1>2, NoFrames DEF MaskInv
<1>6. ChildInv'
  BY <1>1, <1>2 DEF ChildInv, TypeInv
<1>7. MainInv'
  BY <1>1, <1>2, <1>3 DEF MainInv, Listed, Living, Alive
<1>8. ListInv'
  <2>1. \A s \in Slots : jobs[s].pid # 0 =>
          jobs[s].pid \in Pids /\ jobs[s].pid # cur' /\ child[jobs[s].pid] \in Living
    BY <1>2, <1>3 DEF ListInv, InRecord, Listed, TypeInv, Job, Pids
  <2>2. \A p \in Pids : p # cur' => child'[p] = child[p]
    BY <1>2 DEF TypeInv
  <2> QED
    BY <1>1, <1>2, <2>1, <2>2 DEF ListInv, Listed
<1> QED
  BY <1>4, <1>5, <1>6, <1>7, <1>8

\* addjob() of a child that is not listed yet, or of the pid that a failed fork() returned.
LEMMA EvalAddJobInv ==
  ASSUME IInv, EvalAddJob
  PROVE  IInv'
<1> USE DEF IInv
<1>1. /\ pc = "addjob" /\ pc' = "unblock" /\ cur' = cur /\ frames = <<>> /\ frames' = <<>>
      /\ UNCHANGED <<mask, child, report>>
  BY DEF EvalAddJob, Main, signalvars, childvars
<1>2. MaskInv' /\ FrameInv'
  BY <1>1, NoFrames DEF MaskInv
<1>3. ChildInv' /\ MainInv'
  BY <1>1 DEF ChildInv, MainInv
<1>4. \A s \in Slots : jobs[s].pid # 0 => jobs[s].pid \in Pids /\ child[jobs[s].pid] \in Living
  BY <1>1 DEF ListInv, InRecord, TypeInv, Job, Pids
<1>5. CASE cur = -1
  <2>1. UNCHANGED <<jobs, nextjid, refused>>
    BY <1>5 DEF EvalAddJob, AddJob, NextJidAfterAdd
  <2>2. TypeInv'
    BY <1>1, <2>1 DEF EvalAddJob, TypeInv, Labels, signalvars, childvars
  <2>3. ListInv'
    BY <1>1, <1>4, <1>5, <2>1 DEF ListInv, Listed, Pids
  <2> QED
    BY <1>2, <1>3, <2>2, <2>3
<1>6. CASE cur \in Pids /\ FreeSlot(jobs) = 0
  <2>1. UNCHANGED <<jobs, nextjid>> /\ refused' = refused \cup {cur}
    BY <1>6 DEF EvalAddJob, AddJob, NextJidAfterAdd, Pids
  <2>2. TypeInv'
    BY <1>1, <1>6, <2>1 DEF EvalAddJob, TypeInv, Labels, signalvars, childvars
  <2>3. ListInv'
    BY <1>1, <1>4, <2>1 DEF ListInv, Listed
  <2> QED
    BY <1>2, <1>3, <2>2, <2>3
<1>7. CASE cur \in Pids /\ FreeSlot(jobs) # 0
  <2> DEFINE free == FreeSlot(jobs)
             job == [pid |-> cur, jid |-> nextjid, state |-> IF bg THEN BG ELSE FG]
  <2>1. free \in Slots /\ jobs[free].pid = 0
    BY <1>7, FreeSlotFinds
  <2>2. jobs' = [jobs EXCEPT ![free] = job] /\ refused' = refused /\ nextjid' \in Nat \ {0}
    BY <1>7 DEF EvalAddJob, AddJob, NextJidAfterAdd, Pids, TypeInv
  <2>3. child[cur] \in Living /\ ~Listed(cur) /\ cur # 0
    BY <1>1, <1>7 DEF MainInv, Pids
  <2>4. job \in Job
    BY <1>7 DEF Job, TypeInv, Pids
  <2> HIDE DEF free
  <2>5. TypeInv'
    BY <1>1, <2>1, <2>2, <2>4 DEF EvalAddJob, TypeInv, Labels, signalvars, childvars
  <2>6. jobs'[free].pid = cur /\ \A s \in Slots : s # free => jobs'[s] = jobs[s]
    BY <2>1, <2>2 DEF TypeInv
  <2>7. (\A s \in Slots : jobs[s].pid # 0 => child[jobs[s].pid] \in Living)'
    BY <1>1, <1>4, <2>3, <2>6
  <2>8. \A p \in Pids : child'[p] \in Living => Listed(p)' \/ p \in refused'
    BY <1>1, <2>1, <2>2, <2>3, <2>6 DEF ListInv, Listed, Pids
  <2>9. (\A r, s \in Slots : jobs[r].pid = jobs[s].pid /\ jobs[r].pid # 0 => r = s)'
    BY <2>3, <2>6 DEF ListInv, Listed
  <2> QED
    BY <1>2, <1>3, <2>5, <2>7, <2>8, <2>9 DEF ListInv
<1> QED
  BY <1>1, <1>5, <1>6, <1>7 DEF MainInv

LEMMA ContMoves ==
  ASSUME IInv, Cont
  PROVE  Moved
<1> USE DEF IInv
<1>1. CASE cur = 0
  BY <1>1, NothingMoves DEF Cont
<1>2. CASE cur \in Pids
  BY <1>2, Ranges, ContinueMoves DEF Cont
<1>3. cur # -1
  BY DEF Cont, Main, MainInv
<1> QED
  BY <1>1, <1>2, <1>3 DEF TypeInv, Pids

LEMMA ContInv ==
  ASSUME IInv, Cont
  PROVE  IInv'
<1> USE DEF IInv
<1>1. /\ pc = "cont" /\ pc' = "setstate" /\ frames = <<>> /\ frames' = <<>>
      /\ UNCHANGED <<jobs, nextjid, refused, cur, bg, slot, mask, status>>
  BY DEF Cont, Main, jobvars
<1>2. Moved
  BY ContMoves
<1>3. TypeInv'
  BY <1>1, <1>2 DEF TypeInv, Moved, Labels
<1>4. MaskInv' /\ FrameInv'
  BY <1>1, NoFrames
<1>5. ListInv'
  BY <1>1, <1>2, ListSteady DEF InRecord
<1> QED
  BY <1>1, <1>2, <1>3, <1>4, <1>5 DEF Moved, MainInv

LEMMA SetStateInv ==
  ASSUME IInv, SetState
  PROVE  IInv'
<1> USE DEF IInv
<1>1. /\ pc = "setstate" /\ frames = <<>> /\ frames' = <<>>
      /\ jobs' = [jobs EXCEPT ![slot].state = IF bg THEN BG ELSE FG]
      /\ UNCHANGED <<refused, child, report>>
  BY DEF SetState, Main, signalvars, childvars
<1>2. pc' \in {"prompt", "waitfg"} /\ slot \in Slots
  BY <1>1 DEF SetState, ToPrompt, MainInv
<1>3. \A s \in Slots : jobs'[s].pid = jobs[s].pid
  BY <1>2, <1>1 DEF TypeInv, Job
<1>4. jobs' \in [Slots -> Job]
  BY ZenonT(60), <1>2, <1>1 DEF TypeInv, Job
<1>5. TypeInv'
  <2>1. cur' \in -1 .. MaxPid /\ bg' \in BOOLEAN /\ slot' \in 0 .. MAXJOBS
    BY Ranges DEF SetState, ToPrompt, TypeInv
  <2> QED
    BY <1>2, <1>4, <2>1 DEF SetState, TypeInv, Labels, signalvars, childvars
<1>6. MaskInv' /\ FrameInv'
  BY <1>2, <1>1, NoFrames
<1>7. ChildInv' /\ MainInv'
  BY <1>2, <1>1 DEF ChildInv, MainInv
<1>8. ListInv'
  BY <1>2, <1>1, <1>3 DEF ListInv, Listed, InRecord
<1> QED
  BY <1>5, <1>6, <1>7, <1>8

\* The children and the keyboard.
LEMMA OutsideInv ==
  ASSUME IInv, Moved, UNCHANGED <<shellvars, jobvars, frames, mask, status>>
  PROVE  IInv'
<1> USE DEF IInv
<1>1. TypeInv'
  BY DEF TypeInv, Moved, shellvars, jobvars
<1>2. MaskInv'
  BY DEF MaskInv, shellvars
<1>3. MainInv'
  BY MainSteady DEF jobvars
<1>4. FrameInv'
  <2>1. FramesKept
    BY DEF FramesKept
  <2> QED
    BY <2>1, FramesSteady DEF jobvars
<1>5. ListInv'
  BY ListSteady DEF jobvars, shellvars, InRecord
<1> QED
  BY <1>1, <1>2, <1>3, <1>4, <1>5 DEF Moved

LEMMA KeyboardInv ==
  ASSUME IInv, NEW sig \in Keys, Keyboard(sig)
  PROVE  IInv'
<1>1. Moved
  BY DEF Keyboard, Moved, IInv, TypeInv, ChildInv, Signals, childvars
<1> QED
  BY <1>1, OutsideInv DEF Keyboard, childvars

LEMMA DeliverInv ==
  ASSUME IInv, NEW sig \in Signals, Deliver(sig)
  PROVE  IInv'
<1> USE DEF IInv
<1> DEFINE f == [sig |-> sig, at |-> "start", pid |-> 0, st |-> "none", saved |-> mask]
           n == Len(frames) + 1
<1>1. f \in Frame
  BY Ranges DEF Frame, Reports, TypeInv
<1>2. /\ frames' = Append(frames, f) /\ mask' = mask \cup {sig} /\ sig \notin mask
      /\ pending' \subseteq Signals
      /\ UNCHANGED <<pc, cur, bg, slot, jobs, nextjid, refused, child, report, doomed, status>>
  BY DEF Deliver, TypeInv, shellvars, jobvars, childvars
<1> HIDE DEF f
<1>3. /\ frames' \in Seq(Frame) /\ Len(frames) \in Nat
      /\ DOMAIN frames = 1 .. Len(frames) /\ DOMAIN frames' = 1 .. n
      /\ \A k \in DOMAIN frames : k \in DOMAIN frames' /\ frames'[k] = frames[k]
      /\ frames'[n] = f
  BY <1>1, <1>2, Pushed
<1>4. f.sig = sig /\ f.at = "start" /\ f.saved = mask
  BY DEF f
<1>5. TypeInv'
  BY <1>2, <1>3 DEF TypeInv, Signals
<1>6. \A k \in DOMAIN frames' : (k \in DOMAIN frames /\ k # n) \/ k = n
  BY <1>3
<1>7. \A j, k \in DOMAIN frames' : j < k => j \in DOMAIN frames
  BY <1>3
<1>8. MaskInv'
  <2>1. (\A k \in DOMAIN frames : /\ frames[k].sig \in mask /\ frames[k].saved \subseteq mask
                                  /\ frames[k].sig \notin frames[k].saved)'
    BY <1>2, <1>3, <1>4, <1>6 DEF MaskInv
  <2>2. (\A j, k \in DOMAIN frames : j < k => /\ frames[j].sig \in frames[k].saved
                                              /\ frames[j].saved \subseteq frames[k].saved)'
    BY <1>2, <1>3, <1>4, <1>6, <1>7 DEF MaskInv
  <2>3. (pc \in {"fork", "addjob", "unblock"} =>
           "CHLD" \in mask /\ \A k \in DOMAIN frames : "CHLD" \in frames[k].saved)'
    BY <1>2, <1>3, <1>4, <1>6 DEF MaskInv
  <2> QED
    BY <2>1, <2>2, <2>3 DEF MaskInv
<1>9. ChildInv' /\ MainInv'
  BY <1>2 DEF ChildInv, MainInv, Listed
<1>10. FrameInv'
  <2>1. \A p \in Pids : Listed(p)' <=> Listed(p)
    BY <1>2 DEF Listed
  <2> QED
    BY <1>2, <1>3, <1>4, <1>6, <2>1 DEF FrameInv
<1>11. ListInv'
  <2>1. \A p \in Pids : InRecord(p) => InRecord(p)'
    BY <1>3 DEF InRecord
  <2>2. \A s \in Slots : jobs[s].pid # 0 => jobs[s].pid \in Pids
    BY DEF TypeInv, Job, Pids
  <2> QED
    BY <1>2, <2>1, <2>2 DEF ListInv, Listed
<1> QED
  BY <1>5, <1>8, <1>9, <1>10, <1>11

\* While a sigchld_handler is at the start of its loop, no change is between being taken and
\* recorded: the jobs of the list are all of children that have not been reaped.
LEMMA NothingInRecord ==
  ASSUME IInv, Handler("CHLD", "start")
  PROVE  /\ \A k \in DOMAIN frames : frames[k].at # "body"
         /\ \A s \in Slots : jobs[s].pid # 0 =>
              jobs[s].pid \in Pids /\ child[jobs[s].pid] \in Living
<1> USE DEF IInv
<1>1. Len(frames) \in DOMAIN frames /\ Top = frames[Len(frames)]
  BY TopFrame DEF Handler, Top
<1>2. \A k \in DOMAIN frames : frames[k].at # "body"
  BY <1>1, OneReaper DEF Handler, FrameInv
<1>3. \A p \in Pids : ~InRecord(p)
  BY <1>2 DEF InRecord
<1>4. \A s \in Slots : jobs[s].pid # 0 => jobs[s].pid \in Pids
  BY DEF TypeInv, Job, Pids
<1> QED
  BY <1>2, <1>3, <1>4 DEF ListInv

\* The child that eval() is about to add cannot be reaped: SIGCHLD is blocked.
LEMMA NoReaperBeforeAdd ==
  ASSUME IInv, pc = "addjob", NEW k \in DOMAIN frames
  PROVE  frames[k].sig # "CHLD"
BY DEF IInv, MaskInv

LEMMA ReapInv ==
  ASSUME IInv, Reap
  PROVE  IInv'
<1> USE DEF IInv
<1>1. PICK p \in Waitable :
        /\ SetTop([Top EXCEPT !.at = "body", !.pid = p, !.st = report[p]])
        /\ report' = [report EXCEPT ![p] = "none"]
        /\ child' = [child EXCEPT ![p] = IF @ = "zombie" THEN "reaped" ELSE @]
  BY DEF Reap
<1> DEFINE f == [Top EXCEPT !.at = "body", !.pid = p, !.st = report[p]]
           n == Len(frames)
<1>2. /\ frames # <<>> /\ n \in DOMAIN frames /\ Top = frames[n] /\ Top.sig = "CHLD"
      /\ Top \in Frame /\ UNCHANGED <<pc, cur, bg, slot, jobs, nextjid, refused, mask, pending,
                                      doomed, status>>
  BY TopFrame DEF Reap, Handler, Top, shellvars, jobvars
<1>3. p \in Pids /\ report[p] \in Reports \ {"none"}
  BY DEF Waitable, TypeInv
<1>4. /\ f \in Frame /\ f.sig = "CHLD" /\ f.at = "body" /\ f.pid = p /\ f.st = report[p]
      /\ f.saved = frames[n].saved /\ f.sig = frames[n].sig
  BY <1>2, <1>3, Ranges DEF Frame
<1> HIDE DEF f
<1>5. /\ frames' \in Seq(Frame) /\ DOMAIN frames' = DOMAIN frames /\ frames'[n] = f
      /\ \A k \in DOMAIN frames : k # n => frames'[k] = frames[k]
  BY <1>1, <1>2, <1>4, Replaced DEF f
<1>6. /\ \A k \in DOMAIN frames : frames[k].at # "body"
      /\ \A s \in Slots : jobs[s].pid # 0 => jobs[s].pid \in Pids /\ child[jobs[s].pid] \in Living
  BY NothingInRecord DEF Reap
<1>7. /\ child[p] = IF report[p] = "stopped" THEN "stopped" ELSE "zombie"
      /\ child'[p] = IF report[p] = "stopped" THEN "stopped" ELSE "reaped"
      /\ \A q \in Pids : q # p => child'[q] = child[q] /\ report'[q] = report[q]
      /\ report'[p] = "none"
  BY <1>1, <1>3 DEF ChildInv, Reports, TypeInv
<1>8. TypeInv'
  BY <1>1, <1>2, <1>3, <1>5 DEF TypeInv, Reports
<1>9. MaskInv'
  <2>1. \A k \in DOMAIN frames : frames'[k].sig = frames[k].sig /\ frames'[k].saved = frames[k].saved
    BY <1>4, <1>5
  <2> QED
    BY <1>2, <1>5, <2>1 DEF MaskInv
<1>10. ChildInv'
  BY <1>3, <1>7 DEF ChildInv
<1>11. pc = "addjob" => FALSE
  BY <1>2, NoReaperBeforeAdd
<1>12. MainInv'
  BY <1>2, <1>11 DEF MainInv
<1>13. FrameInv'
  <2>1. Listed(p) \/ p \in refused
    BY <1>3, <1>7, <1>11 DEF ListInv, Living, Alive
  <2>2. Listed(p)' <=> Listed(p)
    BY <1>2 DEF Listed
  <2>3. child'[p] \in (IF report[p] = "stopped" THEN Living ELSE {"reaped"})
    BY <1>7 DEF Living, Alive
  <2> QED
    BY <1>2, <1>3, <1>4, <1>5, <1>6, <2>1, <2>2, <2>3 DEF FrameInv
<1>14. ListInv'
  <2>1. InRecord(p)'
    BY <1>2, <1>4, <1>5 DEF InRecord
  <2>2. (\A s \in Slots : jobs[s].pid # 0 =>
           \/ child[jobs[s].pid] \in Living
           \/ child[jobs[s].pid] = "reaped" /\ InRecord(jobs[s].pid))'
    BY <1>2, <1>6, <1>7, <2>1
  <2>3. \A q \in Pids : child'[q] \in Living => child[q] \in Living
    BY <1>7 DEF Living, Alive
  <2>4. \A q \in Pids : Listed(q)' <=> Listed(q)
    BY <1>2 DEF Listed
  <2> QED
    BY <1>2, <1>11, <2>2, <2>3, <2>4 DEF ListInv
<1> QED
  BY <1>8, <1>9, <1>10, <1>12, <1>13, <1>14

\* A handler returns: the frames below it are as they were.
LEMMA ReturnInv ==
  ASSUME IInv, frames # <<>>, Return, Top.at # "body",
         Moved, UNCHANGED <<shellvars, jobvars, status>>
  PROVE  IInv'
<1> USE DEF IInv
<1> DEFINE n == Len(frames)
<1>1. n \in Nat \ {0} /\ DOMAIN frames = 1 .. n /\ n \in DOMAIN frames /\ Top = frames[n]
      /\ Top \in Frame
  BY TopFrame DEF Top
<1>2. /\ frames' \in Seq(Frame) /\ DOMAIN frames' = 1 .. n - 1
      /\ \A k \in DOMAIN frames' : k \in DOMAIN frames /\ k < n /\ frames'[k] = frames[k]
      /\ mask' = frames[n].saved
  BY <1>1, Popped DEF Return
<1>3. UNCHANGED <<pc, cur, bg, slot, jobs, nextjid, refused, status>>
  BY DEF shellvars, jobvars
<1> HIDE DEF n
<1>4. TypeInv'
  BY <1>1, <1>2, <1>3 DEF TypeInv, Moved, Frame
<1>5. MaskInv'
  BY <1>1, <1>2, <1>3 DEF MaskInv
<1>6. MainInv'
  BY <1>3, MainSteady
<1>7. FrameInv'
  <2>1. FramesKept
    BY <1>2 DEF FramesKept
  <2> QED
    BY <1>3, <2>1, FramesSteady
<1>8. ListInv'
  <2>1. \A k \in DOMAIN frames : frames[k].at = "body" => k \in DOMAIN frames'
    BY <1>1, <1>2
  <2>2. \A p \in Pids : InRecord(p) => InRecord(p)'
    BY <1>2, <2>1 DEF InRecord
  <2> QED
    BY <1>3, <2>2, ListSteady
<1> QED
  BY <1>4, <1>5, <1>6, <1>7, <1>8 DEF Moved

LEMMA ReapDoneInv ==
  ASSUME IInv, ReapDone
  PROVE  IInv'
<1>1. Moved
  BY NothingMoves DEF ReapDone, IInv
<1> QED
  BY <1>1, ReturnInv DEF ReapDone, Handler

LEMMA ForwardMoves ==
  ASSUME IInv, Forward
  PROVE  Moved
<1>1. CASE Top.pid = 0
  BY <1>1, NothingMoves DEF Forward, IInv
<1>2. CASE Top.pid # 0
  <2>1. Top.pid \in Pids
    BY <1>2, TopFrame DEF Forward, Handler, Frame, Pids, IInv
  <2> QED
    BY <1>2, <2>1, InterruptMoves, SuspendMoves DEF Forward, IInv
<1> QED
  BY <1>1, <1>2

LEMMA ForwardInv ==
  ASSUME IInv, Forward
  PROVE  IInv'
<1>1. frames # <<>> /\ Top.at = "kill"
  BY DEF Forward, Handler
<1>2. Moved
  BY ForwardMoves
<1> QED
  BY <1>1, <1>2, ReturnInv DEF Forward

\* sigint_handler() and sigtstp_handler() read the list.
LEMMA FindForegroundInv ==
  ASSUME IInv, FindForeground
  PROVE  IInv'
<1> USE DEF IInv
<1> DEFINE f == [Top EXCEPT !.at = "kill", !.pid = FgPid(jobs)]
           n == Len(frames)
<1>1. /\ frames # <<>> /\ n \in DOMAIN frames /\ Top = frames[n] /\ Top \in Frame
      /\ Top.sig # "CHLD" /\ Top.at = "start" /\ SetTop(f)
      /\ UNCHANGED <<pc, cur, bg, slot, jobs, nextjid, refused, mask, pending, child, report,
                     doomed, status>>
  BY TopFrame DEF FindForeground, Handler, Top, shellvars, jobvars, childvars
<1>2. FgPid(jobs) \in 0 .. MaxPid
  BY FgPidFinds
<1>3. /\ f \in Frame /\ f.at = "kill" /\ f.sig = frames[n].sig /\ f.saved = frames[n].saved
  BY <1>1, <1>2 DEF Frame
<1> HIDE DEF f
<1>4. /\ frames' \in Seq(Frame) /\ DOMAIN frames' = DOMAIN frames /\ frames'[n] = f
      /\ \A k \in DOMAIN frames : k # n => frames'[k] = frames[k]
  BY <1>1, <1>3, Replaced
<1> HIDE DEF n
<1>5. Moved
  BY <1>1, NothingMoves DEF childvars
<1>6. TypeInv'
  BY <1>1, <1>4 DEF TypeInv
<1>7. MaskInv'
  <2>1. \A k \in DOMAIN frames : frames'[k].sig = frames[k].sig /\ frames'[k].saved = frames[k].saved
    BY <1>3, <1>4
  <2> QED
    BY <1>1, <1>4, <2>1 DEF MaskInv
<1>8. MainInv'
  BY <1>1, <1>5, MainSteady DEF shellvars
<1>9. FrameInv'
  <2>1. frames'[n].at = "kill" /\ frames'[n].sig # "CHLD"
    BY <1>1, <1>3, <1>4
  <2>2. FramesKept
    BY <1>4, <2>1 DEF FramesKept
  <2> QED
    BY <1>1, <1>5, <2>2, FramesSteady
<1>10. ListInv'
  <2>1. \A p \in Pids : InRecord(p) => InRecord(p)'
    BY <1>1, <1>4 DEF InRecord
  <2> QED
    BY <1>1, <1>5, <2>1, ListSteady
<1> QED
  BY <1>5, <1>6, <1>7, <1>8, <1>9, <1>10 DEF Moved

\* deletejob() of a listed pid, or the store of ST: what Record does to the list.
LEMMA RecordChanges ==
  ASSUME IInv, Record
  PROVE  /\ jobs' \in [Slots -> Job] /\ nextjid' \in Nat \ {0}
         /\ \A s \in Slots :
              \/ jobs'[s].pid = jobs[s].pid /\ jobs'[s].jid = jobs[s].jid
                 /\ (jobs'[s].pid = Top.pid => Top.st = "stopped")
                 /\ jobs'[s].state \in {jobs[s].state, ST}
              \/ jobs'[s] = ClearedJob /\ jobs[s].pid = Top.pid /\ Top.st # "stopped"
<1> USE DEF IInv
<1> DEFINE p == Top.pid
           g == JobOfPid(jobs, p)
<1>1. /\ p \in Pids /\ Top.st # "none" /\ (Top.st = "exited" \/ g # 0)
  BY TopFrame DEF Record, Handler, FrameInv, Top
<1>2. (g = 0 <=> ~Listed(p)) /\ (Listed(p) => g \in Slots /\ jobs[g].pid = p)
  BY <1>1, JobOfPidFinds
<1>3. ClearedJob \in Job /\ \A s \in Slots : jobs[s] \in Job
  BY DEF ClearedJob, Job, TypeInv
<1>4. p # 0 /\ \A s \in Slots : jobs[s].pid = p => s = g
  BY <1>1, <1>2 DEF ListInv, Listed, Pids
<1>5. CASE Top.st = "stopped"
  <2>1. g \in Slots /\ jobs' = [jobs EXCEPT ![g].state = ST] /\ nextjid' = nextjid
    BY <1>1, <1>2, <1>5 DEF Record
  <2> HIDE DEF g
  <2> QED
    BY <1>3, <1>5, <2>1 DEF TypeInv, Job
<1>6. CASE Top.st # "stopped" /\ g = 0
  <2>1. jobs' = jobs /\ nextjid' = nextjid
    BY <1>6 DEF Record, DeleteJob, NextJidAfterDelete
  <2>2. \A s \in Slots : jobs[s].pid # p
    BY <1>2, <1>6 DEF Listed
  <2> QED
    BY <2>1, <2>2 DEF TypeInv
<1>7. CASE Top.st # "stopped" /\ g # 0
  <2>1. g \in Slots /\ jobs[g].pid = p
    BY <1>2, <1>7
  <2>2. jobs' = DeleteJob(jobs, p) /\ nextjid' = MaxJid(DeleteJob(jobs, p)) + 1
    BY <1>7 DEF Record, NextJidAfterDelete
  <2>3. DeleteJob(jobs, p) = [jobs EXCEPT ![g] = ClearedJob]
    BY <1>7 DEF DeleteJob
  <2> HIDE DEF g
  <2>4. jobs' \in [Slots -> Job] /\ jobs'[g] = ClearedJob /\ \A s \in Slots : s # g => jobs'[s] = jobs[s]
    BY <1>3, <2>1, <2>2, <2>3 DEF TypeInv
  <2>5. MaxJid(jobs') \in Nat
    BY <2>4, MaxJidNat DEF Job
  <2> QED
    BY <1>4, <1>7, <2>1, <2>2, <2>4, <2>5
<1> QED
  BY <1>5, <1>6, <1>7

LEMMA RecordInv ==
  ASSUME IInv, Record
  PROVE  IInv'
<1> USE DEF IInv
<1> DEFINE f == [Top EXCEPT !.at = "start", !.pid = 0, !.st = "none"]
           p == Top.pid
           n == Len(frames)
<1>1. /\ frames # <<>> /\ n \in DOMAIN frames /\ Top = frames[n] /\ Top \in Frame
      /\ Top.sig = "CHLD" /\ Top.at = "body" /\ SetTop(f)
      /\ UNCHANGED <<pc, cur, bg, slot, refused, mask, pending, child, report, doomed, status>>
  BY TopFrame DEF Record, Handler, Top, shellvars, childvars
<1>2. /\ f \in Frame /\ f.at = "start" /\ f.sig = frames[n].sig /\ f.saved = frames[n].saved
  BY <1>1, Ranges DEF Frame, Reports
<1> HIDE DEF f
<1>3. /\ frames' \in Seq(Frame) /\ DOMAIN frames' = DOMAIN frames /\ frames'[n] = f
      /\ \A k \in DOMAIN frames : k # n => frames'[k] = frames[k]
  BY <1>1, <1>2, Replaced
<1>4. /\ p \in Pids /\ child[p] \in (IF Top.st = "stopped" THEN Living ELSE {"reaped"})
  BY <1>1 DEF FrameInv
<1>5. \A k \in DOMAIN frames : k # n => frames[k].at # "body" /\ frames[k].sig # "CHLD"
  BY <1>1, OneReaper DEF FrameInv
<1>6. \A k \in DOMAIN frames' : frames'[k].at # "body"
  BY <1>2, <1>3, <1>5
<1>7. pc # "addjob"
  BY <1>1, NoReaperBeforeAdd
<1>8. /\ jobs' \in [Slots -> Job] /\ nextjid' \in Nat \ {0}
      /\ \A s \in Slots : \/ jobs'[s].pid = jobs[s].pid /\ (jobs'[s].pid = p => Top.st = "stopped")
                          \/ jobs'[s] = ClearedJob /\ jobs[s].pid = p /\ Top.st # "stopped"
  BY RecordChanges
<1>9. ClearedJob.pid = 0 /\ p # 0 /\ "reaped" \notin Living
  BY <1>4 DEF ClearedJob, Pids, Living, Alive
<1> HIDE DEF n, p
<1>10. TypeInv'
  BY <1>1, <1>3, <1>8 DEF TypeInv
<1>11. MaskInv'
  <2>1. \A k \in DOMAIN frames : frames'[k].sig = frames[k].sig /\ frames'[k].saved = frames[k].saved
    BY <1>2, <1>3
  <2> QED
    BY <1>1, <1>3, <2>1 DEF MaskInv
<1>12. ChildInv' /\ MainInv'
  BY <1>1, <1>7 DEF ChildInv, MainInv
<1>13. FrameInv'
  <2>1. \A k \in DOMAIN frames' : frames'[k].at = "kill" => frames'[k].sig # "CHLD"
    BY <1>2, <1>3 DEF FrameInv
  <2> QED
    BY <1>6, <2>1 DEF FrameInv
<1>14. ListInv'
  <2>1. ASSUME NEW s \in Slots, jobs'[s].pid # 0
        PROVE  jobs'[s].pid = jobs[s].pid /\ child[jobs[s].pid] \in Living
    <3>1. jobs'[s].pid = jobs[s].pid /\ (jobs[s].pid = p => Top.st = "stopped")
      BY <1>8, <1>9, <2>1
    <3>2. CASE jobs[s].pid = p
      BY <1>4, <3>1, <3>2
    <3>3. CASE jobs[s].pid # p
      <4>1. ~InRecord(jobs[s].pid)
        BY <1>1, <1>5, <3>3 DEF InRecord, p
      <4> QED
        BY <2>1, <3>1, <4>1 DEF ListInv
    <3> QED
      BY <3>1, <3>2, <3>3
  <2>2. ASSUME NEW q \in Pids, child[q] \in Living
        PROVE  Listed(q)' \/ q \in refused
    <3>1. Listed(q) \/ q \in refused
      BY <1>7, <2>2 DEF ListInv
    <3>2. q = p => Top.st = "stopped"
      BY <1>4, <1>9, <2>2
    <3> QED
      BY <1>8, <3>1, <3>2 DEF Listed
  <2>3. (\A r, s \in Slots : jobs[r].pid = jobs[s].pid /\ jobs[r].pid # 0 => r = s)'
    BY <2>1 DEF ListInv
  <2> QED
    BY <1>1, <2>1, <2>2, <2>3 DEF ListInv
<1> QED
  BY <1>10, <1>11, <1>12, <1>13, <1>14

-----------------------------------------------------------------------------
\* The steps of the shell, sorted by the lemma that treats them.
LEMMA Steps ==
  ASSUME IInv, Next
  PROVE  \/ QuietMain \/ Fork \/ EvalAddJob \/ Cont \/ SetState
         \/ Reap \/ ReapDone \/ Record \/ FindForeground \/ Forward
         \/ \E how \in {"exit", "crash"} : Exit(how)
         \/ \E sig \in Signals : Deliver(sig)
         \/ \E sig \in Keys : Keyboard(sig)
         \/ \E p \in Pids : Child(p)
         \/ UNCHANGED vars
<1>1. CASE Eval
  BY <1>1 DEF Eval, QuietMain
<1>2. CASE BgFg
  BY <1>2 DEF BgFg, QuietMain, ContFails
<1>3. CASE Handle
  BY <1>3 DEF Handle, RecordUnlisted
<1>4. CASE User
  BY <1>4 DEF User, QuietMain, Quit, SigQuit
<1> QED
  BY <1>1, <1>2, <1>3, <1>4 DEF Next

LEMMA NextInv == IInv /\ [Next]_vars => IInv'
<1> SUFFICES ASSUME IInv, [Next]_vars PROVE IInv'
  OBVIOUS
<1>1. CASE UNCHANGED vars
  BY <1>1 DEF IInv, TypeInv, MaskInv, ChildInv, MainInv, FrameInv, ListInv, InRecord, Listed,
              vars, shellvars, jobvars, signalvars, childvars
<1>2. ASSUME NEW p \in Pids, Child(p) PROVE IInv'
  BY <1>2, ChildMoves, OutsideInv DEF IInv
<1>3. CASE Next
  BY <1>1, <1>2, <1>3, Steps, QuietMainInv, ForkInv, EvalAddJobInv, ContInv, SetStateInv,
     ReapInv, ReapDoneInv, RecordInv, FindForegroundInv, ForwardInv, ExitInv, DeliverInv,
     KeyboardInv
<1> QED
  BY <1>1, <1>3

\* The inductive invariant holds in every reachable state.
THEOREM Invariance == Spec => []IInv
BY InitInv, NextInv, PTL DEF Spec

\* At most one handler of each signal runs: a signal is blocked in its handler.
LEMMA DepthBound ==
  ASSUME TypeInv, MaskInv
  PROVE  Len(frames) <= 3
<1> SUFFICES ASSUME Len(frames) > 3 PROVE FALSE
  BY DEF TypeInv
<1>1. 1 \in DOMAIN frames /\ 2 \in DOMAIN frames /\ 3 \in DOMAIN frames /\ 4 \in DOMAIN frames
  BY DEF TypeInv
<1>2. \A k \in DOMAIN frames : frames[k].sig \in Signals
  <2>1. \A k \in DOMAIN frames : frames[k] \in Frame
    BY DEF TypeInv
  <2> QED
    BY <2>1 DEF Frame
<1>3. /\ frames[1].sig # frames[2].sig /\ frames[1].sig # frames[3].sig
      /\ frames[1].sig # frames[4].sig /\ frames[2].sig # frames[3].sig
      /\ frames[2].sig # frames[4].sig /\ frames[3].sig # frames[4].sig
  BY <1>1, OneReaper
<1> QED
  BY <1>1, <1>2, <1>3 DEF Signals

\* The job list, the children and the stack of handlers are of their types, and at most three
\* handlers are on the stack, however the signals come.
THEOREM TypeCorrect == Spec => []TypeOK
<1>1. IInv => TypeOK
  <2> SUFFICES ASSUME IInv PROVE TypeOK
    OBVIOUS
  <2>1. Len(frames) <= 3
    BY DepthBound DEF IInv
  <2>2. \A k \in DOMAIN frames : frames[k] \in Frame
    BY DEF IInv, TypeInv
  <2>3. {"none", "reaped"} \cup Living = {"none", "zombie", "reaped"} \cup Alive
    BY DEF Living
  <2> QED
    BY <2>1, <2>2, <2>3 DEF TypeOK, IInv, TypeInv, Frame, Job, Labels, Reports
<1> QED
  BY <1>1, Invariance, PTL

\* The list and the children agree in every interleaving of main, the handlers, the signals and
\* the children (tsh.c: eval, sigchld_handler, addjob, deletejob).
THEOREM ListCorrect == Spec => []ListMatches
<1>1. IInv => ListMatches
  <2> SUFFICES ASSUME IInv PROVE ListMatches
    OBVIOUS
  <2>1. \A p \in Pids : Listed(p) => JobOfPid(jobs, p) # 0
    BY JobOfPidFinds
  <2> QED
    BY <2>1 DEF ListMatches, IInv, ListInv, Living
<1> QED
  BY <1>1, Invariance, PTL

\* No change of a child is forgotten, though a signal that is pending already is not queued: the
\* loop of sigchld_handler() ends only when waitpid() has nothing left.
LEMMA HeardNext ==
  ASSUME IInv, NoChangeMissed, [Next]_vars
  PROVE  NoChangeMissed'
<1> USE DEF NoChangeMissed, Waitable
<1>1. CASE QuietMain \/ EvalAddJob \/ SetState \/ UNCHANGED vars
  <2>1. UNCHANGED <<frames, pending, report, status>>
    BY <1>1 DEF QuietMain, Command, Block, ForkFails, Unblock, WaitFgDone, BgFgByPid, BgFgByJid,
                ReadPid, TestState, EvalAddJob, SetState, vars, signalvars, childvars
  <2> QED
    BY <2>1
<1>2. CASE Fork
  <2>1. UNCHANGED <<frames, pending, report, status>>
    BY <1>2 DEF Fork, signalvars
  <2> QED
    BY <2>1
<1>3. CASE Moved /\ UNCHANGED <<frames, status>>
  BY <1>3 DEF Moved
<1>4. CASE Cont
  BY <1>3, <1>4, ContMoves DEF Cont
<1>5. ASSUME NEW how \in {"exit", "crash"}, Exit(how) PROVE NoChangeMissed'
  BY <1>5 DEF Exit
<1>6. ASSUME NEW sig \in Keys, Keyboard(sig) PROVE NoChangeMissed'
  BY <1>6 DEF Keyboard, childvars
<1>7. ASSUME NEW p \in Pids, Child(p) PROVE NoChangeMissed'
  BY <1>3, <1>7, ChildMoves DEF IInv
<1>8. ASSUME NEW sig \in Signals, Deliver(sig) PROVE NoChangeMissed'
  <2> DEFINE f == [sig |-> sig, at |-> "start", pid |-> 0, st |-> "none", saved |-> mask]
             n == Len(frames) + 1
  <2>1. frames' = Append(frames, f) /\ f \in Frame /\ f.sig = sig
    BY <1>8, Ranges DEF Deliver, Frame, Reports, IInv, TypeInv
  <2> HIDE DEF f
  <2>2. /\ \A k \in DOMAIN frames : k \in DOMAIN frames' /\ frames'[k] = frames[k]
        /\ n \in DOMAIN frames' /\ frames'[n] = f
    BY <2>1, Pushed DEF IInv
  <2>3. pending' = pending \ {sig} /\ report' = report /\ status' = status
    BY <1>8 DEF Deliver, childvars
  <2> HIDE DEF n
  <2> QED
    BY <2>1, <2>2, <2>3
<1>9. CASE Reap \/ Record
  <2>1. frames # <<>> /\ Top.sig = "CHLD" /\ Len(frames) \in DOMAIN frames /\ Top \in Frame
    BY <1>9, TopFrame DEF Reap, Record, Handler, IInv
  <2>2. PICK f \in Frame : SetTop(f) /\ f.sig = "CHLD"
    <3>1. CASE Record
      <4>1. [Top EXCEPT !.at = "start", !.pid = 0, !.st = "none"] \in Frame
        BY <2>1, Ranges DEF Frame, Reports
      <4>2. [Top EXCEPT !.at = "start", !.pid = 0, !.st = "none"].sig = "CHLD"
        BY <2>1 DEF Frame
      <4> QED
        BY <3>1, <4>1, <4>2 DEF Record
    <3>2. CASE Reap
      <4>1. PICK p \in Waitable : SetTop([Top EXCEPT !.at = "body", !.pid = p, !.st = report[p]])
        BY <3>2 DEF Reap
      <4>2. p \in 0 .. MaxPid /\ report[p] \in Reports
        BY Ranges DEF IInv, TypeInv
      <4>3. [Top EXCEPT !.at = "body", !.pid = p, !.st = report[p]] \in Frame
        BY <2>1, <4>2 DEF Frame
      <4>4. [Top EXCEPT !.at = "body", !.pid = p, !.st = report[p]].sig = "CHLD"
        BY <2>1 DEF Frame
      <4> QED
        BY <4>1, <4>3, <4>4
    <3> QED
      BY <1>9, <3>1, <3>2
  <2>3. Len(frames) \in DOMAIN frames' /\ frames'[Len(frames)] = f
    BY <2>1, <2>2, Replaced DEF IInv
  <2> QED
    BY <2>2, <2>3
<1>10. CASE ReapDone
  BY <1>10 DEF ReapDone, childvars
<1>11. CASE FindForeground
  <2> DEFINE f == [Top EXCEPT !.at = "kill", !.pid = FgPid(jobs)]
  <2>1. frames # <<>> /\ Top.sig # "CHLD" /\ Top \in Frame /\ Top = frames[Len(frames)]
        /\ SetTop(f) /\ UNCHANGED <<pending, report, status>>
    BY <1>11, TopFrame DEF FindForeground, Handler, Top, IInv, childvars
  <2>2. f \in Frame
    BY <2>1, FgPidFinds DEF Frame, IInv
  <2> HIDE DEF f
  <2>3. /\ DOMAIN frames' = DOMAIN frames
        /\ \A k \in DOMAIN frames : k # Len(frames) => frames'[k] = frames[k]
    BY <2>1, <2>2, Replaced DEF IInv
  <2>4. \A k \in DOMAIN frames : frames[k].sig = "CHLD" => k \in DOMAIN frames' /\ frames'[k] = frames[k]
    BY <2>1, <2>3
  <2> QED
    BY <2>1, <2>4
<1>12. CASE Forward
  <2>1. /\ frames # <<>> /\ Top.sig # "CHLD" /\ Top.at = "kill" /\ Top = frames[Len(frames)]
        /\ Return /\ status' = status
    BY <1>12 DEF Forward, Handler, Top
  <2>2. Moved
    BY <1>12, ForwardMoves
  <2>3. /\ Len(frames) \in Nat \ {0} /\ DOMAIN frames = 1 .. Len(frames)
        /\ DOMAIN frames' = 1 .. Len(frames) - 1
        /\ \A k \in DOMAIN frames' : frames'[k] = frames[k]
    BY <2>1, TopFrame, Popped DEF IInv
  <2>4. \A k \in DOMAIN frames : frames[k].sig = "CHLD" => k \in DOMAIN frames' /\ frames'[k] = frames[k]
    BY <2>1, <2>3
  <2> QED
    BY <2>1, <2>2, <2>4 DEF Moved
<1> QED
  BY <1>1, <1>2, <1>4, <1>5, <1>6, <1>7, <1>8, <1>9, <1>10, <1>11, <1>12, Steps

\* While the shell runs, a change that waitpid() would report has its SIGCHLD pending or a
\* sigchld_handler at work.
THEOREM ChangesHeard == Spec => []NoChangeMissed
<1>1. Init => NoChangeMissed
  BY DEF Init, NoChangeMissed, Waitable
<1> QED
  BY <1>1, HeardNext, Invariance, PTL DEF Spec

\* The steps that change the list: the shell ends, addjob() takes a free slot, do_bgfg() sets a
\* state, and a sigchld_handler records a change of the child it has taken.
LEMMA ListSteps ==
  ASSUME IInv, [Next]_vars
  PROVE  \/ EvalAddJob \/ SetState \/ Record \/ jobs' = jobs
         \/ status' # "up" /\ jobs' = InitJobs /\ pc' = "prompt"
<1>1. CASE QuietMain \/ Fork \/ Cont \/ UNCHANGED vars
  BY <1>1 DEF QuietMain, Command, Block, ForkFails, Unblock, WaitFgDone, BgFgByPid, BgFgByJid,
              ReadPid, TestState, Fork, Cont, vars, jobvars
<1>2. CASE Reap \/ ReapDone \/ FindForeground \/ Forward
  BY <1>2 DEF Reap, ReapDone, FindForeground, Forward, jobvars
<1>3. ASSUME NEW how \in {"exit", "crash"}, Exit(how)
      PROVE  status' # "up" /\ jobs' = InitJobs /\ pc' = "prompt"
  BY <1>3 DEF Exit, ToPrompt
<1>4. ASSUME NEW sig \in Signals, Deliver(sig) PROVE jobs' = jobs
  BY <1>4 DEF Deliver, jobvars
<1>5. ASSUME NEW sig \in Keys, Keyboard(sig) PROVE jobs' = jobs
  BY <1>5 DEF Keyboard, jobvars
<1>6. ASSUME NEW p \in Pids, Child(p) PROVE jobs' = jobs
  BY <1>6, ChildMoves DEF IInv, jobvars
<1> QED
  BY <1>1, <1>2, <1>3, <1>4, <1>5, <1>6, Steps

\* A job keeps its slot, its pid and its jid until its process has been reaped, whatever handler
\* runs while main holds a pointer to it.
THEOREM JobsKept == Spec => JobsStay
<1> DEFINE Stays(s) == \/ jobs'[s].pid = jobs[s].pid /\ jobs'[s].jid = jobs[s].jid
                       \/ jobs'[s] = ClearedJob /\ child[jobs[s].pid] = "reaped"
                       \/ status' # "up"
<1>1. ASSUME IInv, [Next]_vars, NEW s \in Slots, jobs[s].pid # 0
      PROVE  Stays(s)
  <2>1. CASE EvalAddJob
    <3>1. CASE cur \in Pids /\ FreeSlot(jobs) # 0
      <4>1. FreeSlot(jobs) # s
        BY <1>1, <3>1, FreeSlotFinds
      <4>2. jobs' = [jobs EXCEPT ![FreeSlot(jobs)] =
                       [pid |-> cur, jid |-> nextjid, state |-> IF bg THEN BG ELSE FG]]
        BY <2>1, <3>1 DEF EvalAddJob, AddJob, Pids
      <4> QED
        BY <1>1, <4>1, <4>2 DEF IInv, TypeInv
    <3>2. CASE ~(cur \in Pids /\ FreeSlot(jobs) # 0)
      BY <1>1, <2>1, <3>2 DEF EvalAddJob, AddJob, Pids, IInv, TypeInv
    <3> QED
      BY <3>1, <3>2
  <2>2. CASE SetState
    BY <1>1, <2>2 DEF SetState, IInv, TypeInv, Job
  <2>3. CASE Record
    <3>1. child[Top.pid] = "reaped" \/ Top.st = "stopped"
      BY <1>1, <2>3, TopFrame DEF IInv, FrameInv, Record, Handler, Top
    <3> QED
      BY <1>1, <2>3, <3>1, RecordChanges
  <2> QED
    BY <1>1, <2>1, <2>2, <2>3, ListSteps
<1>2. IInv /\ [Next]_vars => [\A s \in Slots : jobs[s].pid # 0 => Stays(s)]_vars
  BY <1>1
<1> QED
  BY <1>2, Invariance, PTL DEF Spec, JobsStay

\* The sigchld_handler fails only on a child that addjob() found no slot for: getjobpid() does not
\* return NULL for any other.
CrashIsRefusal == [][status' = "crash" => status = "crash" \/ refused # {}]_vars

THEOREM CrashOnlyRefused == Spec => CrashIsRefusal
<1>1. ASSUME IInv, [Next]_vars, status' = "crash", status # "crash"
      PROVE  refused # {}
  <2>1. RecordUnlisted
    BY <1>1 DEF Next, Eval, BgFg, Handle, User, Finished, Child, Quit, SigQuit, ContFails, Exit,
       Command, Block, Fork, ForkFails, EvalAddJob, Unblock, WaitFgDone, BgFgByPid, BgFgByJid,
       ReadPid, TestState, Cont, SetState, Reap, ReapDone, Record, FindForeground, Forward,
       Keyboard, Deliver, SetGroup, Exec, ChildEnds, ChildStops, vars
  <2>2. Top.pid \in Pids /\ (Listed(Top.pid) \/ Top.pid \in refused)
    BY <1>1, <2>1, TopFrame DEF RecordUnlisted, Handler, IInv, FrameInv, Top
  <2> QED
    BY <2>1, <2>2, JobOfPidFinds DEF RecordUnlisted
<1>2. IInv /\ [Next]_vars => [status' = "crash" => status = "crash" \/ refused # {}]_vars
  BY <1>1
<1> QED
  BY <1>2, Invariance, PTL DEF Spec, CrashIsRefusal

\* A full list holds as many different children as it has slots.
LEMMA FullList ==
  ASSUME IInv, pc = "addjob", cur \in Pids, FreeSlot(jobs) = 0
  PROVE  MAXJOBS < MaxPid
<1> DEFINE pid == [s \in Slots |-> jobs[s].pid]
           Others == Pids \ {cur}
<1>1. /\ \A s \in Slots : jobs[s].pid # 0 /\ jobs[s].pid \in Others
      /\ \A r, s \in Slots : jobs[r].pid = jobs[s].pid => r = s
  BY FreeSlotFinds DEF IInv, TypeInv, Job, Pids, MainInv, Listed, ListInv
<1>2. pid \in Injection(Slots, Others)
  BY <1>1 DEF Injection, IsInjective
<1>3. IsFiniteSet(Slots) /\ Cardinality(Slots) = MAXJOBS
  BY FS_Interval DEF Slots
<1>4. IsFiniteSet(Pids) /\ Cardinality(Pids) = MaxPid
  BY FS_Interval DEF Pids
<1>5. IsFiniteSet(Others) /\ Cardinality(Others) = MaxPid - 1
  BY <1>4, FS_RemoveElement
<1>6. MAXJOBS <= Cardinality(Others)
  <2> HIDE DEF pid, Others
  <2> QED
    BY <1>2, <1>3, <1>5, FS_Injection
<1> QED
  BY <1>5, <1>6

\* With no more children than slots, the sigchld_handler never fails.
THEOREM HandlerSafe ==
  ASSUME MaxPid <= MAXJOBS
  PROVE  Spec => []HandlerSurvives
<1> DEFINE Safe == refused = {} /\ status # "crash"
<1>1. Init => Safe
  BY DEF Init
<1>2. ASSUME IInv, Safe, [Next]_vars
      PROVE  refused' = {}
  <2>1. CASE EvalAddJob
    <3>1. cur > 0 => cur \in Pids
      BY <1>2 DEF IInv, TypeInv, Pids
    <3>2. cur \in Pids => FreeSlot(jobs) # 0
      BY <1>2, <2>1, FullList DEF EvalAddJob, Main
    <3> QED
      BY <1>2, <2>1, <3>1, <3>2 DEF EvalAddJob
  <2>2. CASE ~EvalAddJob
    <3>1. refused' = refused \/ refused' = {}
      BY <1>2, <2>2 DEF Next, Eval, BgFg, Handle, User, Finished, Child, Quit, SigQuit, ContFails,
         Exit, Command, Block, Fork, ForkFails, Unblock, WaitFgDone, BgFgByPid, BgFgByJid,
         ReadPid, TestState, Cont, SetState, Reap, ReapDone, Record, RecordUnlisted,
         FindForeground, Forward, Keyboard, Deliver, SetGroup, Exec, ChildEnds, ChildStops,
         vars, jobvars
    <3> QED
      BY <1>2, <3>1
  <2> QED
    BY <2>1, <2>2
<1>3. IInv /\ Safe /\ [Next]_vars /\ [status' = "crash" => status = "crash" \/ refused # {}]_vars
        => Safe'
  BY <1>2 DEF vars
<1>4. Safe => HandlerSurvives
  BY DEF HandlerSurvives
<1> QED
  BY <1>1, <1>3, <1>4, Invariance, CrashOnlyRefused, PTL DEF Spec, CrashIsRefusal

LEMMA EvalNext ==
  ASSUME "fg" \notin Builtins, IInv, EvalInv, [Next]_vars
  PROVE  EvalInv'
<1> USE DEF EvalInv
<1>1. CASE jobs' = jobs
  <2>1. CASE UNCHANGED shellvars
    BY <1>1, <2>1 DEF shellvars
  <2>2. CASE Command \/ Block \/ Fork \/ ForkFails
    BY <1>1, <2>2 DEF Command, Block, Fork, ForkFails, Main
  <2>3. CASE Unblock
    BY <1>1, <2>3 DEF Unblock, Main, ToPrompt
  <2>4. CASE WaitFgDone
    <3>1. \A s \in Slots : jobs[s].state # FG
      BY <2>4, FgPidFinds DEF WaitFgDone, IInv
    <3> QED
      BY <1>1, <2>4, <3>1 DEF WaitFgDone, ToPrompt
  <2>5. CASE BgFgByPid \/ BgFgByJid
    <3>1. Main("prompt") /\ bg' /\ pc' \in {"cont", "readpid"}
      BY <2>5 DEF BgFgByPid, BgFgByJid
    <3> QED
      BY <1>1, <3>1 DEF Main
  <2>6. CASE ReadPid \/ TestState \/ Cont
    BY <1>1, <2>6 DEF ReadPid, TestState, Cont, Main
  <2>7. ASSUME NEW how \in {"exit", "crash"}, Exit(how) PROVE EvalInv'
    BY <2>7 DEF Exit, ToPrompt, InitJobs, ClearedJob, FG, UNDEF
  <2>8. CASE Reap \/ ReapDone \/ FindForeground \/ Forward
    BY <2>1, <2>8 DEF Reap, ReapDone, FindForeground, Forward
  <2>9. CASE UNCHANGED vars
    BY <2>1, <2>9 DEF vars
  <2>10. ASSUME NEW sig \in Signals, Deliver(sig) PROVE EvalInv'
    BY <2>1, <2>10 DEF Deliver
  <2>11. ASSUME NEW sig \in Keys, Keyboard(sig) PROVE EvalInv'
    BY <2>1, <2>11 DEF Keyboard
  <2>12. ASSUME NEW p \in Pids, Child(p) PROVE EvalInv'
    BY <2>1, <2>12, ChildMoves DEF IInv
  <2>13. CASE EvalAddJob
    BY <1>1, <2>13 DEF EvalAddJob, Main
  <2>14. CASE SetState
    BY <1>1, <2>14 DEF SetState, Main, ToPrompt
  <2>15. CASE Record
    BY <2>1, <2>15 DEF Record
  <2> QED
    BY <2>2, <2>3, <2>4, <2>5, <2>6, <2>7, <2>8, <2>9, <2>10, <2>11, <2>12, <2>13, <2>14, <2>15,
       Steps DEF QuietMain
<1>2. CASE EvalAddJob
  <2>1. \A s \in Slots : jobs[s].state # FG
    BY <1>2 DEF EvalAddJob, Main
  <2>2. CASE jobs' = jobs
    BY <1>1, <2>2
  <2>3. CASE jobs' # jobs
    <3>1. FreeSlot(jobs) # 0 /\ cur # 0
          /\ jobs' = [jobs EXCEPT ![FreeSlot(jobs)] =
                        [pid |-> cur, jid |-> nextjid, state |-> IF bg THEN BG ELSE FG]]
      BY <1>2, <2>3 DEF EvalAddJob, AddJob
    <3>2. FreeSlot(jobs) \in Slots
      BY <3>1, FreeSlotFinds
    <3>3. \A s \in Slots : jobs'[s].state = FG => jobs'[s].pid = cur /\ ~bg
      BY <2>1, <3>1, <3>2 DEF IInv, TypeInv, BG, FG
    <3> QED
      BY <1>2, <3>1, <3>3 DEF EvalAddJob
  <2> QED
    BY <2>2, <2>3
<1>3. CASE SetState
  <2>1. bg /\ slot \in Slots /\ jobs' = [jobs EXCEPT ![slot].state = BG] /\ ToPrompt
        /\ \A s \in Slots : jobs[s].state # FG
    BY <1>3 DEF SetState, Main, IInv, MainInv
  <2> QED
    BY <2>1 DEF ToPrompt, IInv, TypeInv, Job, BG, FG
<1>4. CASE Record
  <2>1. \A s \in Slots : jobs'[s].state = FG => jobs[s].state = FG /\ jobs'[s].pid = jobs[s].pid
    BY <1>4, RecordChanges DEF ClearedJob, FG, ST, UNDEF
  <2> QED
    BY <1>4, <2>1 DEF Record, shellvars
<1>5. CASE jobs' = InitJobs /\ pc' = "prompt"
  BY <1>5 DEF InitJobs, ClearedJob, FG, UNDEF
<1> QED
  BY <1>1, <1>2, <1>3, <1>4, <1>5, ListSteps

\* Unless `fg' is used, at most one job is in the foreground, and none when the user gets a prompt.
THEOREM ForegroundWaited ==
  ASSUME "fg" \notin Builtins
  PROVE  Spec => []PromptWithoutForeground
<1>1. Init => EvalInv
  BY DEF Init, EvalInv, InitJobs, ClearedJob, FG, UNDEF
<1>2. IInv /\ EvalInv /\ [Next]_vars => EvalInv'
  BY EvalNext
<1>3. IInv /\ EvalInv => PromptWithoutForeground
  <2> SUFFICES ASSUME IInv, EvalInv PROVE PromptWithoutForeground
    OBVIOUS
  <2>1. pc = "prompt" => Foreground = {}
    BY DEF EvalInv, Foreground
  <2>2. OneForeground
    <3>1. CASE Foreground = {}
      BY <3>1, FS_EmptySet DEF OneForeground
    <3>2. CASE Foreground # {}
      <4>1. PICK s \in Slots : jobs[s].state = FG
        BY <3>2 DEF Foreground
      <4>2. \A r \in Foreground : r = s
        BY <4>1 DEF EvalInv, IInv, ListInv, Foreground
      <4>3. Foreground = {s}
        BY <4>1, <4>2 DEF Foreground
      <4> QED
        BY <4>3, FS_Singleton DEF OneForeground
    <3> QED
      BY <3>1, <3>2
  <2> QED
    BY <2>1, <2>2 DEF PromptWithoutForeground
<1> QED
  BY <1>1, <1>2, <1>3, Invariance, PTL DEF Spec

=============================================================================
