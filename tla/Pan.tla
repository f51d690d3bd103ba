-------------------------------- MODULE Pan ---------------------------------
(***************************************************************************)
(* ltp-pan, the test driver (ltp/pan/ltp-pan.c): its scheduler, its slots, *)
(* its signal handling and its hunt for orphaned process groups, together  *)
(* with the processes it starts.  One action is one stretch of ltp-pan     *)
(* between two points where another process or a signal matters.  Signals  *)
(* arrive between any two actions; the handlers are installed without      *)
(* SA_RESTART, so a blocked read(), waitpid() or wait() fails with EINTR.  *)
(*                                                                         *)
(* A process is a member of Pids; p also names the process group p leads.  *)
(* st[p] is what the kernel knows of the leader; p is in kids when other   *)
(* processes live in the group.  A pid is not reused while ltp-pan still   *)
(* holds it.  Only SIGKILL is sure to end a process; what any other signal *)
(* does is up to the test.                                                 *)
(***************************************************************************)
EXTENDS Ratchet, Integers, FiniteSets

CONSTANTS KeepActive,   \* -x: the number of slots
          Pids,         \* bound: the processes that can exist at once
          Ncmd,         \* coll->cnt
          StartsOpt,    \* -s, or -1 when it is not given
          Timed,        \* -t
          Sequential,   \* -S
          ForkInRoad,   \* -y
          HasBrakes,    \* -A
          TrackExit,    \* -e
          Outcomes,     \* how a command may end
          MaxSignals,   \* bound: how many signals arrive
          CanFail,      \* a fork or an exec may fail
          Bump,         \* an ltp-bump works on the same active file
          None, PanPid  \* no process (pgrp 0), and ltp-pan itself

ASSUME PanConstants ==
    /\ KeepActive \in Nat \ {0}
    /\ IsFiniteSet(Pids) /\ None \notin Pids /\ PanPid \notin Pids
    /\ Ncmd \in Nat \ {0} /\ StartsOpt \in Nat \cup {-1} /\ MaxSignals \in Nat
    /\ {Timed, Sequential, ForkInRoad, HasBrakes, TrackExit, CanFail, Bump} \subseteq BOOLEAN
    /\ HasBrakes => TrackExit
ASSUME PanOutcomes == Outcomes \subseteq {"pass", "conf", "fail", "exit130", "killed"}
ASSUME PanSignals == Signals \subseteq Handled /\ "INT" \in Handled
                     /\ "TERM" \in Handled /\ "none" \notin Handled

VARIABLES
    pc,             \* where ltp-pan is
    starts, num_active, stop, go_idle, fork_in_road,
    exit_stat,      \* its low byte
    pgrp, stopping, \* running[i].pgrp, running[i].stopping
    orphans,        \* the pgrps in the orphan list
    zoo,            \* the pids in the active file
    cpid,           \* the child run_child or check_pids is busy with
    stat_loc,       \* the wait status of cpid
    slot,           \* the loop index of propagate_signal
    phase,          \* "run" in the scheduling loop, "end" after it
    st, kids,       \* the processes
    owed,           \* history: commands forked minus verdicts logged
    stray,          \* history: children wait() returned that have no slot
    leaked,         \* history: children that escaped run_child
    failed,         \* history: a command that ran uninterrupted was logged as failed
    unstarted,      \* history: a command that did not start was logged as failed
    braked,         \* history: the brakes (-A) were applied
    nsig            \* history: signals received

sched == <<starts, num_active, stop, go_idle, exit_stat, fork_in_road>>
slots == <<pgrp, stopping>>
books == <<orphans, zoo>>
local == <<cpid, stat_loc, slot, phase>>
procs == <<st, kids>>
hist == <<owed, stray, leaked, failed, unstarted, braked, nsig>>
vars == <<pc, sched, slots, books, local, procs, hist, rvars>>

Slots == 0 .. KeepActive - 1
ExitCodes == 256                                    \* exit() keeps the low byte
Exits == {"pass", "conf", "fail", "exit130"}        \* the exit codes told apart
Zombies == Exits \cup {"killed", "execfail"}
Terminal == {"exit", "aborted", "crashed"}

Occupied == {i \in Slots : pgrp[i] # None}
Held == {pgrp[i] : i \in Occupied}
Children == {p \in Pids : st[p] # "none"}
\* kill(-p, 0) succeeds
GroupLives(p) == st[p] # "none" \/ p \in kids

\* The default for starts; -1 is "for ever".
InitialStarts ==
    IF Timed /\ StartsOpt = -1 THEN -1
    ELSE IF StartsOpt = -1 THEN IF Sequential THEN Ncmd ELSE 1
    ELSE IF StartsOpt = 0 THEN -1
    ELSE IF StartsOpt < KeepActive THEN KeepActive ELSE StartsOpt

\* main() once the active file is open and its spare lines are allocated.
Init == /\ pc = "fill"
        /\ starts = InitialStarts /\ num_active = 0
        /\ stop = FALSE /\ go_idle = FALSE /\ exit_stat = 0
        /\ fork_in_road = ForkInRoad
        /\ pgrp = [i \in Slots |-> None] /\ stopping = [i \in Slots |-> FALSE]
        /\ orphans = {} /\ zoo = {PanPid}
        /\ cpid = None /\ stat_loc = "pass" /\ slot = 0 /\ phase = "run"
        /\ st = [p \in Pids |-> "none"] /\ kids = {}
        /\ owed = 0 /\ stray = 0 /\ leaked = 0 /\ failed = FALSE /\ unstarted = FALSE
        /\ braked = FALSE /\ nsig = 0
        /\ RatchetInit
-----------------------------------------------------------------------------
(* The scheduling loop and run_child() *)

\* Mutant: one command more than there are slots.
FillingOneMore == /\ num_active <= KeepActive /\ starts # 0
                  /\ ~stop /\ rec_signal = "none" /\ ~go_idle

\* Mutant: the scheduler does not look at rec_signal.
FillingUnheeding == /\ num_active < KeepActive /\ starts # 0
                    /\ ~stop /\ ~go_idle

Filling == /\ num_active < KeepActive /\ starts # 0
           /\ ~stop /\ rec_signal = "none" /\ ~go_idle

FirstFree(i) == i \notin Occupied /\ \A j \in Slots : j < i => j \in Occupied

FreePid(p) == ~GroupLives(p) /\ p \notin Held \cup orphans \cup zoo

\* run_child returned -1: only a sequential run counts it as a start.
NotStarted == starts' = IF Sequential /\ starts > 0 THEN starts - 1 ELSE starts

\* run_child up to its read() of the error pipe.
Fork ==
    /\ pc = "fill" /\ Filling /\ Occupied # Slots
    /\ \E p \in Pids : /\ FreePid(p)
                       /\ cpid' = p
                       /\ st' = [st EXCEPT ![p] = "forked"]
    /\ owed' = owed + 1
    /\ pc' = "errpipe"
    /\ UNCHANGED <<sched, slots, books, stat_loc, slot, phase, kids, rvars,
                   stray, leaked, failed, unstarted, braked, nsig>>

\* open(), pipe() or fork() failed; fork() does when there is no pid left.
StartFails ==
    /\ CanFail \/ \A p \in Pids : ~FreePid(p)
    /\ pc = "fill" /\ Filling /\ Occupied # Slots
    /\ NotStarted
    /\ UNCHANGED <<pc, num_active, stop, go_idle, exit_stat, fork_in_road,
                   slots, books, local, procs, hist, rvars>>

\* "Aborting: i == keep_active"
Abort ==
    /\ pc = "fill" /\ Filling /\ Occupied = Slots
    /\ WaitHandler("INT")
    /\ exit_stat' = (exit_stat + 1) % ExitCodes
    /\ UNCHANGED <<pc, starts, num_active, stop, go_idle, fork_in_road,
                   slots, books, local, procs, hist>>

\* read() returned 0: the child is past its exec, or dead.
ReadEof ==
    /\ pc = "errpipe" /\ st[cpid] \notin {"forked", "execfail"}
    /\ \E i \in Slots : /\ FirstFree(i)
                        /\ pgrp' = [pgrp EXCEPT ![i] = cpid]
                        /\ stopping' = [stopping EXCEPT ![i] = FALSE]
    /\ zoo' = zoo \cup {cpid}
    /\ num_active' = num_active + 1
    /\ starts' = IF starts > 0 THEN starts - 1 ELSE starts
    /\ pc' = "fill"
    /\ UNCHANGED <<stop, go_idle, exit_stat, fork_in_road, orphans, local, procs, hist, rvars>>

\* The child wrote why it could not exec.
ReadError ==
    /\ pc = "errpipe" /\ st[cpid] = "execfail"
    /\ pc' = "execwait"
    /\ UNCHANGED <<sched, slots, books, local, procs, hist, rvars>>

\* Mutant: a command that did not start is counted as active.
WaitpidCounts ==
    /\ pc = "execwait" /\ st[cpid] \in Zombies
    /\ st' = [st EXCEPT ![cpid] = "none"]
    /\ owed' = owed - 1
    /\ unstarted' = (unstarted \/ st[cpid] # "pass")
    /\ leaked' = IF cpid \in kids THEN leaked + 1 ELSE leaked
    /\ NotStarted
    /\ num_active' = num_active + 1
    /\ pc' = "fill"
    /\ UNCHANGED <<stop, go_idle, exit_stat, fork_in_road, slots, books,
                   local, kids, stray, failed, braked, nsig, rvars>>

\* waitpid(cpid) and the verdict of a command that "did not start".
Waitpid ==
    /\ pc = "execwait" /\ st[cpid] \in Zombies
    /\ st' = [st EXCEPT ![cpid] = "none"]
    /\ owed' = owed - 1
    /\ unstarted' = (unstarted \/ st[cpid] # "pass")
    /\ leaked' = IF cpid \in kids THEN leaked + 1 ELSE leaked
    /\ NotStarted
    /\ pc' = "fill"
    /\ UNCHANGED <<num_active, stop, go_idle, exit_stat, fork_in_road, slots, books,
                   local, kids, stray, failed, braked, nsig, rvars>>

\* The end of the inner loop, and the tests for a reason to stop.
LeaveFill ==
    /\ pc = "fill" /\ ~Filling
    /\ \/ starts = 0 /\ stop' = TRUE
       \/ starts = -1 /\ stop' \in {stop, TRUE}         \* PAN_STOP_FILE
       \/ starts > 0 /\ stop' = stop
    /\ pc' = "signal"
    /\ UNCHANGED <<starts, num_active, go_idle, exit_stat, fork_in_road,
                   slots, books, local, procs, hist, rvars>>
-----------------------------------------------------------------------------
(* Signals: the test of rec_signal and propagate_signal() *)

\* A signal puts the scheduler to sleep with -y and stops it without.
StopOrIdle(fork) == /\ go_idle' = (go_idle \/ fork)
                    /\ stop' = (stop \/ ~fork)

NoSignal ==
    /\ pc = "signal" /\ rec_signal = "none"
    /\ pc' = "check"
    /\ UNCHANGED <<sched, slots, books, local, procs, hist, rvars>>

StopScheduler ==
    /\ pc = "signal" /\ rec_signal = "USR2"
    /\ StopOrIdle(fork_in_road)
    /\ TakeSignal
    /\ pc' = "check"
    /\ UNCHANGED <<starts, num_active, exit_stat, fork_in_road, slots, books, local, procs, hist>>

\* The alarm of -t is to count as a SIGTERM.
AlarmIsTerm == /\ rec_signal' = IF rec_signal = "ALRM" THEN "TERM" ELSE rec_signal
               /\ UNCHANGED <<send_signal, lastsent>>

Propagate ==
    /\ pc = "signal" /\ rec_signal \notin {"none", "USR2"}
    /\ fork_in_road' = (fork_in_road /\ rec_signal # "USR1")
    /\ AlarmIsTerm
    /\ slot' = 0
    /\ pc' = "propagate"
    /\ UNCHANGED <<starts, num_active, stop, go_idle, exit_stat, slots, books,
                   cpid, stat_loc, phase, procs, hist>>

\* kill(-p, send_signal) for every p of ps.  ltp-pan may signal whatever it started:
\* EPERM, for a group that has changed its user, is left out.
KillGroups(ps) ==
    IF send_signal = "KILL"
    THEN /\ st' = [p \in Pids |-> IF p \in ps /\ st[p] = "running" THEN "killed" ELSE st[p]]
         /\ kids' = kids \ ps
    ELSE UNCHANGED procs

KillSlot ==
    /\ pc = "propagate" /\ slot \in Slots
    /\ KillGroups({pgrp[slot]})
    /\ stopping' = [stopping EXCEPT ![slot] = @ \/ pgrp[slot] # None]
    /\ slot' = slot + 1
    /\ UNCHANGED <<pc, sched, pgrp, books, cpid, stat_loc, phase, hist, rvars>>

\* Mutant: the line of an orphaned group that is gone stays in the active file.
CheckOrphansKeepLine ==
    /\ orphans' = {o \in orphans : GroupLives(o)}
    /\ UNCHANGED zoo

\* check_orphans(): drop the groups that kill() reports to be empty.  A group it may
\* not signal would stay for ever; there is none.
CheckOrphans ==
    /\ orphans' = {o \in orphans : GroupLives(o)}
    /\ zoo' = zoo \ {o \in orphans : ~GroupLives(o)}

KillOrphans ==
    /\ pc = "propagate" /\ slot = KeepActive
    /\ CheckOrphans
    /\ KillGroups(orphans)
    /\ pc' = "propagated"
    /\ UNCHANGED <<sched, slots, local, hist, rvars>>

\* The end of propagate_signal(), and what its two callers do next.
PropagateEnd ==
    /\ pc = "propagated"
    /\ TakeSignal
    /\ IF phase = "end" THEN pc' = "orphans" /\ UNCHANGED <<stop, go_idle>>
                 ELSE pc' = "check" /\ StopOrIdle(fork_in_road)
    /\ UNCHANGED <<starts, num_active, exit_stat, fork_in_road, slots, books, local, procs, hist>>
-----------------------------------------------------------------------------
(* check_pids() *)

Check ==
    /\ pc = "check"
    /\ CheckOrphans
    /\ pc' = "wait"
    /\ UNCHANGED <<sched, slots, local, procs, hist, rvars>>

WaitReap ==
    /\ pc = "wait"
    /\ \E p \in Children : /\ st[p] \in Zombies
                           /\ cpid' = p /\ stat_loc' = st[p]
                           /\ st' = [st EXCEPT ![p] = "none"]
    /\ pc' = "reaped"
    /\ UNCHANGED <<sched, slots, books, slot, phase, kids, hist, rvars>>

\* ECHILD
WaitNone ==
    /\ pc = "wait" /\ Children = {}
    /\ pc' = "loop"
    /\ UNCHANGED <<sched, slots, books, local, procs, hist, rvars>>

\* What the scheduler does with the result of check_pids.
AfterCheck(err) ==
    /\ go_idle' = (go_idle \/ (err /\ fork_in_road))
    /\ exit_stat' = IF err /\ TrackExit THEN (exit_stat + 1) % ExitCodes ELSE exit_stat
    /\ IF err /\ HasBrakes THEN WaitHandler("INT") /\ braked' = TRUE
                           ELSE UNCHANGED <<rvars, braked>>

\* Mutant: an exit with 130 is taken for an interruption without asking who did it.
BadExitNot130 == {"fail", "execfail"}

BadExit == {"fail", "exit130", "execfail"}

\* Mutant: nobody looks for what the child left behind in its group.
RecordSlotForgets(i) ==
    LET interrupted == stat_loc = "exit130" /\ stopping[i]
        w == IF interrupted THEN "pass" ELSE stat_loc
        err == w \in BadExit \/ (w = "killed" /\ ~stopping[i])
    IN  /\ pc = "reaped" /\ pgrp[i] = cpid
        /\ pgrp' = [pgrp EXCEPT ![i] = None]
        /\ num_active' = num_active - 1
        /\ owed' = owed - 1
        /\ failed' = (failed \/ (w \notin {"pass", "conf"} /\ ~stopping[i]))
        /\ IF cpid \in zoo
           THEN /\ zoo' = zoo \ {cpid}
                /\ orphans' = orphans
                /\ AfterCheck(err)
                /\ pc' = "loop"
           ELSE /\ pc' = "aborted"
                /\ UNCHANGED <<books, go_idle, exit_stat, rvars, braked>>
        /\ UNCHANGED <<starts, stop, fork_in_road, stopping, local, procs,
                       stray, leaked, unstarted, nsig>>

\* A child with a slot: log it, free the slot and its line of the active file, and
\* look for what it left behind in its group.  ltp-pan gives up if the line is gone.
RecordSlot(i) ==
    LET interrupted == stat_loc = "exit130" /\ stopping[i]
        w == IF interrupted THEN "pass" ELSE stat_loc
        err == w \in BadExit \/ (w = "killed" /\ ~stopping[i])
    IN  /\ pc = "reaped" /\ pgrp[i] = cpid
        /\ pgrp' = [pgrp EXCEPT ![i] = None]
        /\ num_active' = num_active - 1
        /\ owed' = owed - 1
        /\ failed' = (failed \/ (w \notin {"pass", "conf"} /\ ~stopping[i]))
        /\ IF cpid \in zoo
           THEN /\ zoo' = IF cpid \in kids THEN zoo ELSE zoo \ {cpid}
                /\ orphans' = IF cpid \in kids THEN orphans \cup {cpid} ELSE orphans
                /\ AfterCheck(err)
                /\ pc' = "loop"
           ELSE /\ pc' = "aborted"
                /\ UNCHANGED <<books, go_idle, exit_stat, rvars, braked>>
        /\ UNCHANGED <<starts, stop, fork_in_road, stopping, local, procs,
                       stray, leaked, unstarted, nsig>>

\* Mutant: a child is logged before its slot is looked for.
RecordStrayLogs ==
    /\ pc = "reaped" /\ cpid \notin Held
    /\ num_active' = num_active - 1
    /\ owed' = owed - 1
    /\ stray' = stray + 1
    /\ AfterCheck(stat_loc \in BadExit)
    /\ pc' = "loop"
    /\ UNCHANGED <<starts, stop, fork_in_road, slots, books, local, procs,
                   leaked, failed, unstarted, nsig>>

\* A child without one.
RecordStray ==
    /\ pc = "reaped" /\ cpid \notin Held
    /\ num_active' = num_active - 1
    /\ stray' = stray + 1
    /\ AfterCheck(stat_loc \in BadExit)
    /\ pc' = "loop"
    /\ UNCHANGED <<starts, stop, fork_in_road, slots, books, local, procs,
                   owed, leaked, failed, unstarted, nsig>>

\* Mutant: the loop is left with commands still active.
LoopEndEarly ==
    /\ pc = "loop"
    /\ IF stop
       THEN pc' = "orphans" /\ phase' = "end" /\ UNCHANGED <<go_idle, rvars>>
       ELSE /\ pc' = "fill" /\ UNCHANGED phase
            /\ IF go_idle /\ num_active = 0 THEN go_idle' = FALSE /\ ResetRatchet
                                            ELSE UNCHANGED <<go_idle, rvars>>
    /\ UNCHANGED <<starts, num_active, stop, exit_stat, fork_in_road, slots, books,
                   cpid, stat_loc, slot, procs, hist>>

\* The end of the scheduling loop.
LoopEnd ==
    /\ pc = "loop"
    /\ IF stop /\ num_active = 0
       THEN pc' = "orphans" /\ phase' = "end" /\ UNCHANGED <<go_idle, rvars>>
       ELSE /\ pc' = "fill" /\ UNCHANGED phase
            /\ IF go_idle /\ num_active = 0 THEN go_idle' = FALSE /\ ResetRatchet
                                            ELSE UNCHANGED <<go_idle, rvars>>
    /\ UNCHANGED <<starts, num_active, stop, exit_stat, fork_in_road, slots, books,
                   cpid, stat_loc, slot, procs, hist>>
-----------------------------------------------------------------------------
(* The wait for the orphaned groups, and the end *)

\* After five seconds ltp-pan signals itself, unless somebody else has.
HuntOrphans ==
    /\ pc = "orphans" /\ orphans # {}
    /\ IF rec_signal = "none" THEN WaitHandler("INT") ELSE AlarmIsTerm
    /\ slot' = 0
    /\ pc' = "propagate"
    /\ UNCHANGED <<sched, slots, books, cpid, stat_loc, phase, procs, hist>>

Exit ==
    /\ pc = "orphans" /\ orphans = {}
    /\ zoo' = zoo \ {PanPid}
    /\ pc' = "exit"
    /\ UNCHANGED <<sched, slots, orphans, local, procs, hist, rvars>>
-----------------------------------------------------------------------------
(* The arrival of a signal *)

Arrives(sig) == /\ pc \notin Terminal /\ nsig < MaxSignals
                /\ nsig' = nsig + 1
                /\ WaitHandler(sig)

\* ... outside a blocking call, or just before one.
Signalled(sig) ==
    /\ Arrives(sig)
    /\ UNCHANGED <<pc, sched, slots, books, local, procs,
                   owed, stray, leaked, failed, unstarted, braked>>

\* ... while read(errpipe) waits for the exec.  The result -1 counts as an error
\* report of uninitialized length; the terminator stored behind it may crash ltp-pan.
InterruptRead(sig) ==
    /\ pc = "errpipe" /\ st[cpid] = "forked"
    /\ Arrives(sig)
    /\ pc' \in {"execwait", "crashed"}
    /\ UNCHANGED <<sched, slots, books, local, procs,
                   owed, stray, leaked, failed, unstarted, braked>>

\* ... while waitpid(cpid) waits.  The verdict is read off an uninitialized status.
InterruptWaitpid(sig) ==
    /\ pc = "execwait" /\ st[cpid] \notin Zombies
    /\ Arrives(sig)
    /\ owed' = owed - 1
    /\ leaked' = leaked + 1
    /\ \E garbage \in BOOLEAN : unstarted' = (unstarted \/ garbage)
    /\ NotStarted
    /\ pc' = "fill"
    /\ UNCHANGED <<num_active, stop, go_idle, exit_stat, fork_in_road,
                   slots, books, local, procs, stray, failed, braked>>

\* ... while wait() waits.
InterruptWait(sig) ==
    /\ pc = "wait" /\ Children # {} /\ \A p \in Children : st[p] \notin Zombies
    /\ Arrives(sig)
    /\ pc' = "loop"
    /\ UNCHANGED <<sched, slots, books, local, procs,
                   owed, stray, leaked, failed, unstarted, braked>>
-----------------------------------------------------------------------------
(* The processes ltp-pan starts, and ltp-bump *)

Becomes(p, from, to) == /\ st[p] = from
                        /\ st' = [st EXCEPT ![p] = to]

panvars == <<pc, sched, slots, books, local, hist, rvars>>

Exec(p) == Becomes(p, "forked", "running") /\ UNCHANGED <<kids, panvars>>

ExecFails(p) == CanFail /\ Becomes(p, "forked", "execfail") /\ UNCHANGED <<kids, panvars>>

TestEnds(p) == /\ \E z \in Outcomes : Becomes(p, "running", z)
               /\ UNCHANGED <<kids, panvars>>

\* A test leaves another process in its group.
Spawns(p) == /\ st[p] = "running" /\ p \notin kids
             /\ kids' = kids \cup {p}
             /\ UNCHANGED <<st, panvars>>

KidsEnd(p) == /\ p \in kids
              /\ kids' = kids \ {p}
              /\ UNCHANGED <<st, panvars>>

\* ltp-bump looked p up in the active file, found it dead and clears its line.
BumpClears(p) ==
    /\ Bump /\ p \in zoo /\ st[p] = "none"
    /\ zoo' = zoo \ {p}
    /\ UNCHANGED <<pc, sched, slots, orphans, local, procs, hist, rvars>>
-----------------------------------------------------------------------------
PanStep == \/ Fork \/ StartFails \/ Abort \/ ReadEof \/ ReadError \/ Waitpid \/ LeaveFill
           \/ NoSignal \/ StopScheduler \/ Propagate \/ KillSlot \/ KillOrphans \/ PropagateEnd
           \/ Check \/ WaitReap \/ WaitNone \/ (\E i \in Slots : RecordSlot(i)) \/ RecordStray
           \/ LoopEnd \/ HuntOrphans \/ Exit

Signal == \E sig \in Signals : \/ Signalled(sig) \/ InterruptRead(sig)
                               \/ InterruptWaitpid(sig) \/ InterruptWait(sig)

Process == \E p \in Pids : \/ Exec(p) \/ ExecFails(p) \/ TestEnds(p)
                           \/ Spawns(p) \/ KidsEnd(p) \/ BumpClears(p)

Terminated == pc \in Terminal /\ UNCHANGED vars

Next == PanStep \/ Signal \/ Process \/ Terminated

Spec == Init /\ [][Next]_vars

\* ltp-pan is scheduled and a child gets as far as its exec.  Nothing obliges a
\* test, or what it leaves behind, to end.
Scheduled == WF_vars(PanStep) /\ \A p \in Pids : WF_vars(Exec(p) \/ ExecFails(p))
-----------------------------------------------------------------------------
TypeOK ==
    /\ pc \in {"fill", "errpipe", "execwait", "signal", "propagate", "propagated",
               "check", "wait", "reaped", "loop", "orphans"} \cup Terminal
    /\ phase \in {"run", "end"}
    /\ starts \in Nat \cup {-1} /\ num_active \in Int /\ exit_stat \in 0 .. ExitCodes - 1
    /\ stop \in BOOLEAN /\ go_idle \in BOOLEAN /\ fork_in_road \in BOOLEAN
    /\ pgrp \in [Slots -> Pids \cup {None}] /\ stopping \in [Slots -> BOOLEAN]
    /\ orphans \subseteq Pids /\ zoo \subseteq Pids \cup {PanPid}
    /\ cpid \in Pids \cup {None} /\ stat_loc \in Zombies /\ slot \in 0 .. KeepActive
    /\ st \in [Pids -> {"none", "forked", "running"} \cup Zombies]
    /\ kids \subseteq Pids
    /\ owed \in Int /\ stray \in Nat /\ leaked \in Nat /\ nsig \in 0 .. MaxSignals
    /\ failed \in BOOLEAN /\ unstarted \in BOOLEAN /\ braked \in BOOLEAN
    /\ RatchetTypeOK

\* The child run_child is busy with, between its fork and its verdict.
InFlight == IF pc \in {"errpipe", "execwait", "crashed"} THEN {cpid} ELSE {}

\* num_active, on which the scheduler bases every decision, counts the occupied
\* slots, less the children wait() returned that never had one: it is only right
\* while no child escapes run_child (lines 1071 and 1083).
ActiveLaw == num_active = Cardinality(Occupied) - stray

\* Every command forked gets exactly one line in the log, whatever signals arrive
\* and whichever calls they interrupt: the lines owed are the slots still occupied
\* and the child run_child is busy with.
VerdictLaw == owed = Cardinality(Occupied) + Cardinality(InFlight)

\* The active file lists ltp-pan, the commands in its slots and the orphaned groups
\* it is still hunting, and nothing else.
ZooTracks == zoo = Held \cup orphans \cup (IF pc = "exit" THEN {} ELSE {PanPid})

\* Unless a child escaped run_child, ltp-pan exits only when every process of every
\* group it started is dead, every verdict is logged and the active file is clean.
\* An abort (exit(1) in the middle of the work) is not such an exit.
CleanExit ==
    pc = "exit" /\ leaked = 0 => /\ \A p \in Pids : ~GroupLives(p)
                              /\ owed = 0 /\ zoo = {}

\* Unless a child escaped, the scheduler never finds itself without a free slot
\* ("Aborting: i == keep_active").
SlotAvailable == leaked = 0 /\ pc = "fill" /\ Filling => Occupied # Slots

\* The inductive strengthening of the laws above: no pid is held twice, and unless
\* a child escaped every live process is in a slot, in flight or a known orphan.
PanInv ==
    /\ TypeOK /\ ActiveLaw /\ VerdictLaw
    /\ pc = "reaped" => cpid \in Pids /\ st[cpid] = "none"
    /\ InFlight \subseteq Pids \ (Held \cup orphans \cup zoo)
    /\ \A i, j \in Occupied : pgrp[i] = pgrp[j] => i = j
    /\ Held \cap orphans = {}
    /\ zoo \subseteq Held \cup orphans \cup (IF pc = "exit" THEN {} ELSE {PanPid})
    /\ ~Bump => ZooTracks
    /\ phase = "end" => pc \in {"orphans", "propagate", "propagated", "exit"} /\ num_active = 0
    /\ pc \in {"orphans", "exit"} => phase = "end"
    /\ pc = "exit" => orphans = {}
    /\ leaked = 0 => /\ stray = 0
                     /\ Children \subseteq Held \cup InFlight
                     /\ pc = "aborted" \/ kids \subseteq Held \cup orphans \cup InFlight
                     /\ pc = "reaped" => cpid \in Held

\* -A: no command is started any more once one has failed, although it is a signal
\* to itself, read much later, that stops the scheduler.
BrakesHold == [][braked => ~(pc = "fill" /\ pc' = "errpipe")]_vars

\* -e: ltp-pan exits non-zero if a command that ran, and that it did not interrupt,
\* was logged as failed.  The counter at line 607 is cut to eight bits by exit().
FailureShows == pc = "exit" /\ TrackExit /\ failed => exit_stat # 0

\* -e: the same of the commands that did not start, logged by run_child.
UnstartedShows == pc = "exit" /\ TrackExit /\ unstarted => exit_stat # 0

\* ltp-pan does not terminate before everything it started is dead.  One signal while
\* run_child reads the error pipe is enough to violate it: the child is taken for one
\* that did not start, waitpid() reaps it, and nobody looks for the rest of its group.
AllDead == pc \in {"exit", "aborted"} => \A p \in Pids : ~GroupLives(p)

\* The hunt for the orphaned groups ends: the ratchet reaches SIGKILL, whatever
\* state it was left in and whatever the orphans ignore, if ltp-pan may signal them.
OrphansKilled == pc = "orphans" ~> pc \in Terminal

\* A signal ltp-pan has received is propagated to the tests.
SignalPropagated ==
    rec_signal \notin {"none", "USR2"} ~> (rec_signal = "none" \/ pc \in Terminal)
=============================================================================
