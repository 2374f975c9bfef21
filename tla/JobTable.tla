----------------------------- MODULE JobTable -----------------------------
(***************************************************************************)
(* The job list of shelllab/tsh.c: a fixed array of jobs, and the helper   *)
(* routines that search it from the first slot and change it.              *)
(***************************************************************************)
EXTENDS Integers

CONSTANT MAXJOBS
ASSUME MaxJobsAssumption == MAXJOBS \in Nat \ {0}

Slots == 1 .. MAXJOBS

UNDEF == "UNDEF"
FG    == "FG"
BG    == "BG"
ST    == "ST"

\* clearjob(), initjobs().
ClearedJob == [pid |-> 0, jid |-> 0, state |-> UNDEF]
InitJobs   == [s \in Slots |-> ClearedJob]

\* The first slot that satisfies a condition, as the loops of the helpers find it; 0 for none.
FirstOf(S) == IF S = {} THEN 0 ELSE CHOOSE s \in S : \A r \in S : s <= r

MaxJid(table) == CHOOSE m \in {table[s].jid : s \in Slots} \cup {0} :
                   \A s \in Slots : table[s].jid <= m

FreeSlot(table) == FirstOf({s \in Slots : table[s].pid = 0})

\* getjobpid() and getjobjid().
JobOfPid(table, pid) == IF pid < 1 THEN 0 ELSE FirstOf({s \in Slots : table[s].pid = pid})
JobOfJid(table, jid) == IF jid < 1 THEN 0 ELSE FirstOf({s \in Slots : table[s].jid = jid})

\* fgpid(): the pid of the first job in state FG, 0 if there is none.
FgPid(table) == LET s == FirstOf({r \in Slots : table[r].state = FG})
                IN  IF s = 0 THEN 0 ELSE table[s].pid

\* Mutation: the pid is not checked, so that a failed fork() is listed.
AddJob_AnyPid(table, pid, state, next) ==
  IF FreeSlot(table) = 0 THEN table
  ELSE [table EXCEPT ![FreeSlot(table)] = [pid |-> pid, jid |-> next, state |-> state]]

\* addjob(): the first free slot; a full table is left as it is.
AddJob(table, pid, state, next) ==
  IF pid < 1 \/ FreeSlot(table) = 0 THEN table
  ELSE [table EXCEPT ![FreeSlot(table)] = [pid |-> pid, jid |-> next, state |-> state]]

NextJidAfterAdd(table, pid, next) ==
  IF pid < 1 \/ FreeSlot(table) = 0 THEN next
  ELSE IF next + 1 > MAXJOBS THEN 1 ELSE next + 1

\* Mutation: deletejob() closes the gap.
DeleteJob_Compact(table, pid) ==
  LET gap == JobOfPid(table, pid)
  IN  IF gap = 0 THEN table
      ELSE [s \in Slots |-> IF s < gap THEN table[s] ELSE IF s < MAXJOBS THEN table[s + 1]
                            ELSE ClearedJob]

\* deletejob(): clears the job and restarts the numbering after the largest jid in use.
DeleteJob(table, pid) ==
  IF JobOfPid(table, pid) = 0 THEN table
  ELSE [table EXCEPT ![JobOfPid(table, pid)] = ClearedJob]

NextJidAfterDelete(table, pid, next) ==
  IF JobOfPid(table, pid) = 0 THEN next ELSE MaxJid(DeleteJob(table, pid)) + 1
=============================================================================
