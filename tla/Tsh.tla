-------------------------------- MODULE Tsh --------------------------------
(***************************************************************************)
(* The shell of shelllab/tsh.c: its main loop (eval, do_bgfg, waitfg), its *)
(* handlers for SIGCHLD, SIGINT and SIGTSTP, the job list, and the kernel  *)
(* that delivers the signals and runs the children.  A handler runs on top *)
(* of whatever the shell was doing, main or another handler, at any point  *)
(* where its signal is not blocked.                                        *)
(***************************************************************************)
EXTENDS JobTable, Sequences, FiniteSets, SequencesExt

CONSTANTS MaxPid,    \* bound: children forked in a behaviour; pids are not reused
          Builtins,  \* which of the built-in commands "fg", "bg" the user types
          Keys       \* which of the signals of ctrl-c and ctrl-z

ASSUME TshAssumption == /\ MaxPid \in Nat /\ Builtins \subseteq {"fg", "bg"}
                        /\ Keys \subseteq {"INT", "TSTP"}

VARIABLES jobs, nextjid,  \* the job list
          pc, cur, bg,    \* main: where it is, its local pid, eval's bg or do_bgfg's command
          slot,           \* do_bgfg's job: a slot of the list
          frames,         \* the handlers that run, the innermost last
          mask, pending,  \* blocked and pending signals of the shell
          child,          \* state of each child
          report,         \* what waitpid will say of a child: "none" if nothing
          doomed,         \* stopped children with a SIGINT pending
          refused,        \* children that addjob() found no slot for
          status          \* of the shell: "up", "exit", "crash"

shellvars  == <<pc, cur, bg, slot>>
jobvars    == <<jobs, nextjid, refused>>
signalvars == <<frames, mask, pending>>
childvars  == <<child, report, doomed>>
vars == <<shellvars, jobvars, signalvars, childvars, status>>

Pids    == 1 .. MaxPid
Signals == {"CHLD", "INT", "TSTP"}
Alive   == {"forked", "group", "run", "stopped"}

Init ==
  /\ jobs = InitJobs /\ nextjid = 1 /\ refused = {}
  /\ pc = "prompt" /\ cur = 0 /\ bg = FALSE /\ slot = 0
  /\ frames = <<>> /\ mask = {} /\ pending = {}
  /\ child = [p \in Pids |-> "none"]
  /\ report = [p \in Pids |-> "none"]
  /\ doomed = {}
  /\ status = "up"

\* main runs only while no handler does.
Main(label) == status = "up" /\ frames = <<>> /\ pc = label

ToPrompt == pc' = "prompt" /\ cur' = 0 /\ bg' = FALSE /\ slot' = 0

\* The shell ends: its memory is gone, and its children are another parent's.
Exit(how) ==
  /\ status' = how
  /\ jobs' = InitJobs /\ nextjid' = 1 /\ refused' = {}
  /\ ToPrompt
  /\ frames' = <<>> /\ mask' = {} /\ pending' = {}
  /\ child' = [p \in Pids |-> "none"] /\ report' = [p \in Pids |-> "none"] /\ doomed' = {}

-----------------------------------------------------------------------------
(* The kernel: what kill() does to the process group of a child.  Before     *)
(* setpgid() the group does not exist; before execve() the child still has   *)
(* the handlers of the shell, which do nothing in its copy of the job list.  *)

\* The default action of SIGINT: kill the child, at once or when it is continued.
Interrupt(p) ==
  CASE child[p] = "run" ->
         /\ child' = [child EXCEPT ![p] = "zombie"]
         /\ report' = [report EXCEPT ![p] = "signaled"]
         /\ pending' = pending \cup {"CHLD"} /\ UNCHANGED doomed
    [] child[p] = "stopped" -> doomed' = doomed \cup {p} /\ UNCHANGED <<child, report, pending>>
    [] OTHER -> UNCHANGED <<childvars, pending>>

Suspend(p) ==
  IF child[p] = "run"
  THEN /\ child' = [child EXCEPT ![p] = "stopped"]
       /\ report' = [report EXCEPT ![p] = "stopped"]
       /\ pending' = pending \cup {"CHLD"} /\ UNCHANGED doomed
  ELSE UNCHANGED <<childvars, pending>>

\* SIGCONT withdraws a stop that waitpid has not reported yet.
Continue(p) ==
  IF child[p] = "stopped"
  THEN /\ child' = [child EXCEPT ![p] = IF p \in doomed THEN "zombie" ELSE "run"]
       /\ report' = [report EXCEPT ![p] = IF p \in doomed THEN "signaled" ELSE "none"]
       /\ pending' = pending \cup {"CHLD"} /\ doomed' = doomed \ {p}
  ELSE UNCHANGED <<childvars, pending>>

\* kill(-p, ...) returns -1: there is no such group.
NoGroup(p) == p # 0 /\ child[p] \in {"none", "forked", "reaped"}

-----------------------------------------------------------------------------
(* eval(): fork and add the job with SIGCHLD blocked, then wait for it if it *)
(* is in the foreground.  Empty lines and `jobs' change nothing.             *)

Command ==
  /\ Main("prompt")
  /\ bg' \in BOOLEAN /\ pc' = "block"
  /\ UNCHANGED <<cur, slot, jobvars, signalvars, childvars, status>>

\* quit or end of file; SIGQUIT ends the shell anywhere.
Quit    == Main("prompt") /\ Exit("exit")
SigQuit == status = "up" /\ Exit("exit")

\* Mutation: SIGCHLD is not blocked.
Block_NoMask ==
  /\ Main("block")
  /\ pc' = "fork"
  /\ UNCHANGED <<cur, bg, slot, jobvars, signalvars, childvars, status>>

Block ==
  /\ Main("block")
  /\ mask' = mask \cup {"CHLD"} /\ pc' = "fork"
  /\ UNCHANGED <<cur, bg, slot, jobvars, frames, pending, childvars, status>>

Unused == {p \in Pids : child[p] = "none"}

Fork ==
  /\ Main("fork") /\ Unused # {}
  /\ cur' = FirstOf(Unused)
  /\ child' = [child EXCEPT ![cur'] = "forked"]
  /\ pc' = "addjob"
  /\ UNCHANGED <<bg, slot, jobvars, signalvars, report, doomed, status>>

\* fork() returns -1, which addjob() and waitfg() then take for a pid.
ForkFails ==
  /\ Main("fork")
  /\ cur' = -1 /\ pc' = "addjob"
  /\ UNCHANGED <<bg, slot, jobvars, signalvars, childvars, status>>

\* The handlers that may run here only read the list (SIGCHLD is blocked): one step.
EvalAddJob ==
  /\ Main("addjob")
  /\ jobs' = AddJob(jobs, cur, IF bg THEN BG ELSE FG, nextjid)
  /\ nextjid' = NextJidAfterAdd(jobs, cur, nextjid)
  /\ refused' = refused \cup (IF cur > 0 /\ FreeSlot(jobs) = 0 THEN {cur} ELSE {})
  /\ pc' = "unblock"
  /\ UNCHANGED <<cur, bg, slot, signalvars, childvars, status>>

\* Mutation: eval() does not wait.
Unblock_NoWait ==
  /\ Main("unblock")
  /\ mask' = mask \ {"CHLD"}
  /\ ToPrompt
  /\ UNCHANGED <<jobvars, frames, pending, childvars, status>>

Unblock ==
  /\ Main("unblock")
  /\ mask' = mask \ {"CHLD"}
  /\ IF bg THEN ToPrompt ELSE pc' = "waitfg" /\ UNCHANGED <<cur, bg, slot>>
  /\ UNCHANGED <<jobvars, frames, pending, childvars, status>>

\* waitfg() spins while fgpid() is its pid.
WaitFgDone ==
  /\ Main("waitfg") /\ FgPid(jobs) # cur
  /\ ToPrompt
  /\ UNCHANGED <<jobvars, signalvars, childvars, status>>

-----------------------------------------------------------------------------
(* do_bgfg(): find the job, by pid or by jid, read its pid, continue it and  *)
(* set its state.  No signal is blocked.                                     *)

BgFgByPid ==
  /\ Main("prompt")
  /\ \E command \in Builtins, p \in Pids :
       /\ JobOfPid(jobs, p) # 0
       /\ slot' = JobOfPid(jobs, p) /\ cur' = p /\ bg' = (command = "bg")
  /\ pc' = IF bg' THEN "cont" ELSE "test"
  /\ UNCHANGED <<jobvars, signalvars, childvars, status>>

BgFgByJid ==
  /\ Main("prompt")
  /\ \E command \in Builtins, j \in {jobs[s].jid : s \in Slots} \ {0} :
       slot' = JobOfJid(jobs, j) /\ bg' = (command = "bg")
  /\ pc' = "readpid"
  /\ UNCHANGED <<cur, jobvars, signalvars, childvars, status>>

ReadPid ==
  /\ Main("readpid")
  /\ cur' = jobs[slot].pid /\ pc' = IF bg THEN "cont" ELSE "test"
  /\ UNCHANGED <<bg, slot, jobvars, signalvars, childvars, status>>

\* fg continues only a job that is stopped.
TestState ==
  /\ Main("test")
  /\ pc' = IF jobs[slot].state = ST THEN "cont" ELSE "setstate"
  /\ UNCHANGED <<cur, bg, slot, jobvars, signalvars, childvars, status>>

\* kill(-pid, SIGCONT).  A pid of 0 is the shell's own group.
Cont ==
  /\ Main("cont") /\ ~NoGroup(cur)
  /\ pc' = "setstate"
  /\ IF cur = 0 THEN UNCHANGED <<childvars, pending>> ELSE Continue(cur)
  /\ UNCHANGED <<cur, bg, slot, jobvars, frames, mask, status>>

ContFails == Main("cont") /\ NoGroup(cur) /\ Exit("exit")

SetState ==
  /\ Main("setstate")
  /\ jobs' = [jobs EXCEPT ![slot].state = IF bg THEN BG ELSE FG]
  /\ IF bg THEN ToPrompt ELSE pc' = "waitfg" /\ UNCHANGED <<cur, bg, slot>>
  /\ UNCHANGED <<nextjid, refused, signalvars, childvars, status>>

-----------------------------------------------------------------------------
(* Handlers.  A frame keeps the handler's locals and the mask to restore.    *)

\* The kernel delivers a pending signal that is not blocked.
Deliver(sig) ==
  /\ status = "up" /\ sig \in pending \ mask
  /\ pending' = pending \ {sig}
  /\ frames' = Append(frames, [sig |-> sig, at |-> "start", pid |-> 0, st |-> "none", saved |-> mask])
  /\ mask' = mask \cup {sig}
  /\ UNCHANGED <<shellvars, jobvars, childvars, status>>

\* The innermost handler is one for sig, at a label.
Top == frames[Len(frames)]
Handler(sig, label) == status = "up" /\ frames # <<>> /\ Top.sig = sig /\ Top.at = label

SetTop(frame) == frames' = [frames EXCEPT ![Len(frames)] = frame]
Return == frames' = Front(frames) /\ mask' = Top.saved

Waitable == {p \in Pids : report[p] # "none"}

\* sigchld_handler(): waitpid(-1, WNOHANG | WUNTRACED) takes any child that has changed.
Reap ==
  /\ Handler("CHLD", "start")
  /\ \E p \in Waitable :
       /\ SetTop([Top EXCEPT !.at = "body", !.pid = p, !.st = report[p]])
       /\ report' = [report EXCEPT ![p] = "none"]
       /\ child' = [child EXCEPT ![p] = IF @ = "zombie" THEN "reaped" ELSE @]
  /\ UNCHANGED <<shellvars, jobvars, mask, pending, doomed, status>>

ReapDone ==
  /\ Handler("CHLD", "start") /\ Waitable = {}
  /\ Return
  /\ UNCHANGED <<shellvars, jobvars, pending, childvars, status>>

\* Mutation: `if' for `while': the handler takes one child and returns.
Record_Once ==
  /\ Handler("CHLD", "body")
  /\ Top.st = "exited" \/ JobOfPid(jobs, Top.pid) # 0
  /\ Return
  /\ IF Top.st = "stopped"
     THEN jobs' = [jobs EXCEPT ![JobOfPid(jobs, Top.pid)].state = ST] /\ UNCHANGED nextjid
     ELSE /\ jobs' = DeleteJob(jobs, Top.pid)
          /\ nextjid' = NextJidAfterDelete(jobs, Top.pid, nextjid)
  /\ UNCHANGED <<shellvars, refused, pending, childvars, status>>

\* Mutation: a stopped job is deleted like one that has ended.
Record_DeletesStopped ==
  /\ Handler("CHLD", "body")
  /\ Top.st = "exited" \/ JobOfPid(jobs, Top.pid) # 0
  /\ SetTop([Top EXCEPT !.at = "start", !.pid = 0, !.st = "none"])
  /\ jobs' = DeleteJob(jobs, Top.pid)
  /\ nextjid' = NextJidAfterDelete(jobs, Top.pid, nextjid)
  /\ UNCHANGED <<shellvars, refused, mask, pending, childvars, status>>

\* Mutation: a stop is reported to the user but not recorded in the list.
Record_IgnoresStop ==
  /\ Handler("CHLD", "body")
  /\ Top.st = "exited" \/ JobOfPid(jobs, Top.pid) # 0
  /\ SetTop([Top EXCEPT !.at = "start", !.pid = 0, !.st = "none"])
  /\ IF Top.st = "stopped" THEN UNCHANGED <<jobs, nextjid>>
     ELSE /\ jobs' = DeleteJob(jobs, Top.pid)
          /\ nextjid' = NextJidAfterDelete(jobs, Top.pid, nextjid)
  /\ UNCHANGED <<shellvars, refused, mask, pending, childvars, status>>

\* The body of the loop runs with every signal blocked: one step.
Record ==
  /\ Handler("CHLD", "body")
  /\ Top.st = "exited" \/ JobOfPid(jobs, Top.pid) # 0
  /\ SetTop([Top EXCEPT !.at = "start", !.pid = 0, !.st = "none"])
  /\ IF Top.st = "stopped"
     THEN jobs' = [jobs EXCEPT ![JobOfPid(jobs, Top.pid)].state = ST] /\ UNCHANGED nextjid
     ELSE /\ jobs' = DeleteJob(jobs, Top.pid)
          /\ nextjid' = NextJidAfterDelete(jobs, Top.pid, nextjid)
  /\ UNCHANGED <<shellvars, refused, mask, pending, childvars, status>>

\* getjobpid() returned NULL: the message or the store dereferences it.
RecordUnlisted ==
  /\ Handler("CHLD", "body")
  /\ Top.st # "exited" /\ JobOfPid(jobs, Top.pid) = 0
  /\ Exit("crash")

\* sigint_handler() and sigtstp_handler(): find the foreground job ...
FindForeground ==
  /\ Handler("INT", "start") \/ Handler("TSTP", "start")
  /\ SetTop([Top EXCEPT !.at = "kill", !.pid = FgPid(jobs)])
  /\ UNCHANGED <<shellvars, jobvars, mask, pending, childvars, status>>

\* ... and send it the signal; a failing kill() is ignored.
Forward ==
  /\ Handler("INT", "kill") \/ Handler("TSTP", "kill")
  /\ IF Top.pid = 0 THEN UNCHANGED <<childvars, pending>>
     ELSE IF Top.sig = "INT" THEN Interrupt(Top.pid) ELSE Suspend(Top.pid)
  /\ Return
  /\ UNCHANGED <<shellvars, jobvars, status>>

-----------------------------------------------------------------------------
(* The environment: the keyboard and the children.                           *)

\* ctrl-c and ctrl-z; a child that has not called setpgid() gets them too and ignores them.
Keyboard(sig) ==
  /\ status = "up" /\ sig \notin pending
  /\ pending' = pending \cup {sig}
  /\ UNCHANGED <<shellvars, jobvars, frames, mask, childvars, status>>

\* setpgid(), then execve().
SetGroup(p) ==
  /\ child[p] = "forked"
  /\ child' = [child EXCEPT ![p] = "group"]
  /\ UNCHANGED <<shellvars, jobvars, signalvars, report, doomed, status>>

Exec(p) ==
  /\ child[p] = "group"
  /\ child' = [child EXCEPT ![p] = "run"]
  /\ UNCHANGED <<shellvars, jobvars, signalvars, report, doomed, status>>

\* A child exits (also: setpgid or execve fails), or a signal of its own kills or stops it.
ChildEnds(p) ==
  /\ \/ child[p] \in {"forked", "group"} /\ report' = [report EXCEPT ![p] = "exited"]
     \/ child[p] = "run" /\ \E r \in {"exited", "signaled"} : report' = [report EXCEPT ![p] = r]
  /\ child' = [child EXCEPT ![p] = "zombie"]
  /\ pending' = pending \cup {"CHLD"}
  /\ UNCHANGED <<shellvars, jobvars, frames, mask, doomed, status>>

ChildStops(p) ==
  /\ child[p] = "run" /\ Suspend(p)
  /\ UNCHANGED <<shellvars, jobvars, frames, mask, status>>

-----------------------------------------------------------------------------
Eval == Block \/ Fork \/ ForkFails \/ EvalAddJob \/ Unblock \/ WaitFgDone

BgFg == ReadPid \/ TestState \/ Cont \/ ContFails \/ SetState

Handle == Reap \/ ReapDone \/ Record \/ RecordUnlisted \/ FindForeground \/ Forward

User == \/ Command \/ Quit \/ SigQuit \/ BgFgByPid \/ BgFgByJid
        \/ \E sig \in Keys : Keyboard(sig)

Child(p) == status = "up" /\ (SetGroup(p) \/ Exec(p) \/ ChildEnds(p) \/ ChildStops(p))

Finished == status # "up"

Next == \/ Eval \/ BgFg \/ Handle \/ User
        \/ \E sig \in Signals : Deliver(sig)
        \/ \E p \in Pids : Child(p)
        \/ Finished /\ UNCHANGED vars

\* Handlers return and forked children start (weak fairness).  Strong fairness of main: it runs
\* between the handlers.  Strong fairness of the delivery of SIGCHLD: sigprocmask() delivers a
\* pending signal that it unblocks before it returns.  The user need not type and a program
\* need not end.
Fairness == /\ SF_vars(Eval \/ BgFg) /\ WF_vars(Handle) /\ SF_vars(Deliver("CHLD"))
            /\ WF_vars(\E p \in Pids : Child(p) /\ (SetGroup(p) \/ Exec(p)))

\* The user does not type ctrl-c and ctrl-z so fast, for ever, that a handler always runs.
TypistPauses == []<>(frames = <<>> \/ status # "up")

Spec     == Init /\ [][Next]_vars
FairSpec == Spec /\ Fairness /\ TypistPauses

-----------------------------------------------------------------------------
TypeOK ==
  /\ jobs \in [Slots -> [pid : 0 .. MaxPid, jid : Nat, state : {UNDEF, FG, BG, ST}]]
  /\ nextjid \in Nat \ {0}
  /\ pc \in {"prompt", "block", "fork", "addjob", "unblock", "waitfg",
             "readpid", "test", "cont", "setstate"}
  /\ cur \in -1 .. MaxPid /\ bg \in BOOLEAN /\ slot \in 0 .. MAXJOBS
  /\ mask \subseteq Signals /\ pending \subseteq Signals
  /\ Len(frames) <= 3
  /\ \A k \in DOMAIN frames :
       frames[k] \in [sig : Signals, at : {"start", "body", "kill"}, pid : 0 .. MaxPid,
                      st : {"none", "exited", "signaled", "stopped"}, saved : SUBSET Signals]
  /\ child \in [Pids -> {"none", "zombie", "reaped"} \cup Alive]
  /\ report \in [Pids -> {"none", "exited", "signaled", "stopped"}]
  /\ doomed \subseteq Pids /\ refused \subseteq Pids
  /\ status \in {"up", "exit", "crash"}

\* The child whose change a sigchld_handler has taken but not recorded yet; 0 for none.
InRecord(p) == \E k \in DOMAIN frames : frames[k].at = "body" /\ frames[k].pid = p

\* The list and the children agree.  A listed job is a child that has not been reaped, or is being
\* deleted: the shell never shows, continues or waits for a process that is gone.  A child that has
\* not been reaped is listed, unless there was no slot for it: SIGCHLD is blocked until the job is
\* added, however fast the child is (README.md:168).  And no process is listed twice.
ListMatches ==
  /\ \A s \in Slots : jobs[s].pid # 0 =>
       \/ child[jobs[s].pid] \in Alive \cup {"zombie"}
       \/ child[jobs[s].pid] = "reaped" /\ InRecord(jobs[s].pid)
  /\ \A p \in Pids : child[p] \in Alive \cup {"zombie"} =>
       JobOfPid(jobs, p) # 0 \/ p \in refused \/ (pc = "addjob" /\ cur = p)
  /\ \A r, s \in Slots : jobs[r].pid = jobs[s].pid /\ jobs[r].pid # 0 => r = s

\* However many children end while SIGCHLD is blocked or already pending (it is not queued), no
\* change is forgotten: a SIGCHLD is pending or its handler is still at work.
NoChangeMissed ==
  status = "up" /\ Waitable # {} =>
    "CHLD" \in pending \/ \E k \in DOMAIN frames : frames[k].sig = "CHLD"

\* A listed job keeps its slot and its jid until its process has been reaped: main holds pointers
\* into the list, and the user names jobs by jid, while handlers change the list.
JobsStay ==
  [][\A s \in Slots : jobs[s].pid # 0 =>
       \/ jobs'[s].pid = jobs[s].pid /\ jobs'[s].jid = jobs[s].jid
       \/ jobs'[s] = ClearedJob /\ child[jobs[s].pid] = "reaped"
       \/ status' # "up"]_vars

Foreground == {s \in Slots : jobs[s].state = FG}

\* tsh.c:35 `At most 1 job can be in the FG state'.
OneForeground == Cardinality(Foreground) <= 1

\* Unless `fg' is used, at most one job is in the foreground, and none when the user gets a prompt:
\* eval() has waited for it, and whatever takes it out of the foreground is recorded.
PromptWithoutForeground == OneForeground /\ (pc = "prompt" => Foreground = {})

\* tsh.c:360 `The handler reaps all available zombie children': it does not fail half way.
HandlerSurvives == status # "crash"

\* Every child that ends is reaped in the end, unless the shell itself ends: with a bounded number
\* of children, again and again none of them is a zombie.
ZombiesReaped == []<>({p \in Pids : child[p] = "zombie"} = {} \/ status # "up")

\* tsh.c:345 `waitfg - Block until process pid is no longer the foreground process': the shell
\* comes back to its prompt when the job it waits for has ended or is stopped for good.
WaitEnds ==
  (pc = "waitfg" /\ cur \in {p \in Pids : child[p] \in {"zombie", "stopped"}})
    ~> (pc # "waitfg" \/ status # "up" \/ cur \in {p \in Pids : child[p] = "run"})
=============================================================================
