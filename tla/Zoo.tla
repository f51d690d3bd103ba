-------------------------------- MODULE Zoo ---------------------------------
(***************************************************************************)
(* The active file (ltp/pan/zoolib.c) and the tools that share it: any     *)
(* number of ltp-pan (ltp/pan/ltp-pan.c) and of ltp-bump                   *)
(* (ltp/pan/ltp-bump.c).  A line of the file is free (it begins with '#')  *)
(* or holds a pid and a tag; all lines have the same width, so a line is   *)
(* rewritten in place.  Each operation takes the fcntl() lock of the file, *)
(* looks for a line and then rewrites or appends one with a single write;  *)
(* a tool may be killed at any point of it, which drops its lock.          *)
(*                                                                         *)
(* The pid of an ltp-pan, and its tag, is the tool itself.  Pids are not   *)
(* reused.  An ltp-bump is given the tag of an ltp-pan.                    *)
(***************************************************************************)
EXTENDS Naturals, Sequences, FiniteSets

CONSTANTS Pans, Bumps,
          Procs,        \* the pids of commands
          KeepActive,   \* -x
          CanCrash,     \* an ltp-pan may be killed
          Free, Nobody

ASSUME ZooConstants ==
    /\ KeepActive \in Nat \ {0} /\ IsFiniteSet(Pans)
    /\ Nobody \notin Pans \cup Bumps \cup Procs \cup (0 .. KeepActive - 1)
    /\ Pans \cap Bumps = {} /\ Pans \cap Procs = {}
    \* the pid of a process is none of the small numbers on the spare lines
    /\ (Pans \cup Procs) \cap (0 .. KeepActive - 1) = {}

VARIABLES
    file,       \* the lines
    lock,       \* who holds the lock
    op,         \* op[t]: the operation t is in, and how far
    pos,        \* pos[t]: the line t found
    stage,      \* stage[t]: where t is between its operations
    c,          \* c[t]: the loop counter of main()
    cpid,       \* cpid[t]: the process t is busy with
    orphans,    \* orphans[t]: the orphaned groups t is hunting
    used,       \* the pids given to commands so far
    listed,     \* history: what t has marked and nobody cleared
    peak        \* history: the most lines that were in use at once

mine == <<c, cpid, orphans, used>>
vars == <<file, lock, op, pos, stage, mine, listed, peak>>

Tools == Pans \cup Bumps
Spare == 0 .. KeepActive - 1        \* the "pids" of the spare lines
Pids == Pans \cup Procs \cup Spare
Marked == [pid : Pids, tag : Pans \cup {"cmd", "panorphan"}]
Lines == Marked \cup {Free}
NoOp == [do |-> "none"]
InUse == {i \in DOMAIN file : file[i] # Free}

ASSUME FreeLine == Free \notin Marked

Init == /\ file = <<>> /\ lock = Nobody
        /\ op = [t \in Tools |-> NoOp] /\ pos = [t \in Tools |-> 0]
        /\ stage = [t \in Tools |-> "start"]
        /\ c = [t \in Tools |-> 0] /\ cpid = [t \in Tools |-> Nobody]
        /\ orphans = [t \in Pans |-> {}] /\ used = {}
        /\ listed = [t \in Pans |-> {}] /\ peak = 0
-----------------------------------------------------------------------------
(* zoolib.c *)

\* Mutant: zoo_lock() does not wait.
ZooLockNoWait(t) ==
    /\ op[t].do # "none" /\ op[t].at = "lock"
    /\ lock' = t
    /\ op' = [op EXCEPT ![t].at = "scan"]
    /\ UNCHANGED <<file, pos, stage, mine, listed, peak>>

\* zoo_lock(): F_SETLKW, tried again when a signal interrupts it.
ZooLock(t) ==
    /\ op[t].do # "none" /\ op[t].at = "lock" /\ lock = Nobody
    /\ lock' = t
    /\ op' = [op EXCEPT ![t].at = "scan"]
    /\ UNCHANGED <<file, pos, stage, mine, listed, peak>>

\* Mutant: zoo_mark() does not look for recycled lines.
MatchesAppend(o, line) ==
    CASE o.do = "mark"   -> FALSE
      [] o.do = "clear"  -> line # Free /\ line.pid = o.pid
      [] o.do = "getpid" -> line # Free /\ line.tag = o.tag

\* The line each operation looks for: a recycled one, a pid, a tag.
Matches(o, line) ==
    CASE o.do = "mark"   -> line = Free
      [] o.do = "clear"  -> line # Free /\ line.pid = o.pid
      [] o.do = "getpid" -> line # Free /\ line.tag = o.tag

\* The loop over fgets(): the first match, or 0.
Scan(t) ==
    LET found == {i \in DOMAIN file : Matches(op[t], file[i])}
    IN  /\ op[t].do # "none" /\ op[t].at = "scan"
        /\ pos' = [pos EXCEPT ![t] = IF found = {} THEN 0
                                     ELSE CHOOSE i \in found : \A j \in found : i <= j]
        /\ op' = [op EXCEPT ![t].at = "write"]
        /\ UNCHANGED <<file, lock, stage, mine, listed, peak>>

\* zoo_unlock(), and back to the caller.
ZooUnlock(t) == /\ lock' = Nobody
                /\ op' = [op EXCEPT ![t] = NoOp] /\ pos' = [pos EXCEPT ![t] = 0]

\* first fit, or a new line at the end
WriteMark(t) ==
    LET line == [pid |-> op[t].pid, tag |-> op[t].tag]
    IN  /\ op[t].do = "mark" /\ op[t].at = "write"
        /\ file' = IF pos[t] = 0 THEN Append(file, line) ELSE [file EXCEPT ![pos[t]] = line]
        /\ listed' = [listed EXCEPT ![t] = @ \cup {op[t].pid}]
        /\ LET n == Cardinality(InUse') IN peak' = IF n > peak THEN n ELSE peak
        /\ ZooUnlock(t)
        /\ UNCHANGED <<stage, mine>>

\* Whose entry a clear takes away: its own, or the one of the dead ltp-pan it is for.
Owner(t) == IF t \in Pans THEN t ELSE op[t].pid

\* Mutant: zoo_clear() goes on to the next line with that pid.
WriteClearAll(t) ==
    /\ op[t].do = "clear" /\ op[t].at = "write" /\ pos[t] # 0
    /\ file' = [i \in DOMAIN file |-> IF file[i] # Free /\ file[i].pid = op[t].pid
                                      THEN Free ELSE file[i]]
    /\ listed' = [listed EXCEPT ![Owner(t)] = @ \ {op[t].pid}]
    /\ ZooUnlock(t)
    /\ UNCHANGED <<stage, mine, peak>>

WriteClear(t) ==
    /\ op[t].do = "clear" /\ op[t].at = "write" /\ pos[t] # 0
    /\ file' = [file EXCEPT ![pos[t]] = Free]
    /\ listed' = [listed EXCEPT ![Owner(t)] = @ \ {op[t].pid}]
    /\ ZooUnlock(t)
    /\ UNCHANGED <<stage, mine, peak>>

\* Mutant: zoo_clear() returns its warning before it unlocks the file.
NotFoundLocked(t) ==
    /\ op[t].do = "clear" /\ op[t].at = "write" /\ pos[t] = 0
    /\ op' = [op EXCEPT ![t] = NoOp]
    /\ stage' = IF stage[t] \in {"free", "reaped"} THEN [stage EXCEPT ![t] = "dead"] ELSE stage
    /\ UNCHANGED <<file, lock, pos, mine, listed, peak>>

\* zoo_clear() returns 1: ltp-pan exits, except when it hunts orphans or leaves anyway.
NotFound(t) ==
    /\ op[t].do = "clear" /\ op[t].at = "write" /\ pos[t] = 0
    /\ ZooUnlock(t)
    /\ stage' = IF stage[t] \in {"free", "reaped"} THEN [stage EXCEPT ![t] = "dead"] ELSE stage
    /\ UNCHANGED <<file, mine, listed, peak>>

\* zoo_getpid() returns the pid of the line, or -1.
GetPid(t) ==
    /\ op[t].do = "getpid" /\ op[t].at = "write"
    /\ cpid' = [cpid EXCEPT ![t] = IF pos[t] = 0 THEN Nobody ELSE file[pos[t]].pid]
    /\ ZooUnlock(t)
    /\ UNCHANGED <<file, stage, c, orphans, used, listed, peak>>
-----------------------------------------------------------------------------
(* The operations ltp-pan and ltp-bump ask for *)

Idle(t) == op[t].do = "none"

Ask(t, o) == op' = [op EXCEPT ![t] = o] /\ UNCHANGED <<file, lock, pos, listed, peak>>
MarkOp(p, tag) == [do |-> "mark", at |-> "lock", pid |-> p, tag |-> tag]
ClearOp(p) == [do |-> "clear", at |-> "lock", pid |-> p]

Goes(t, from, to) == stage[t] = from /\ Idle(t) /\ stage' = [stage EXCEPT ![t] = to]

MarkSelf(t) == /\ Goes(t, "start", "alloc") /\ Ask(t, MarkOp(t, t))
               /\ UNCHANGED mine

\* the spare lines: first all are marked ...
Allocate(t) == /\ Goes(t, "alloc", IF c[t] = KeepActive - 1 THEN "free" ELSE "alloc")
               /\ c' = [c EXCEPT ![t] = (@ + 1) % KeepActive]
               /\ Ask(t, MarkOp(c[t], t))
               /\ UNCHANGED <<cpid, orphans, used>>

\* Mutant: one line too many is cleared.
DeallocateOneMore(t) == /\ Goes(t, "free", "free") /\ c[t] <= KeepActive
                        /\ c' = [c EXCEPT ![t] = @ + 1]
                        /\ Ask(t, ClearOp(c[t]))
                        /\ UNCHANGED <<cpid, orphans, used>>

\* ... then all are cleared
Deallocate(t) == /\ Goes(t, "free", "free") /\ c[t] < KeepActive
                 /\ c' = [c EXCEPT ![t] = @ + 1]
                 /\ Ask(t, ClearOp(c[t]))
                 /\ UNCHANGED <<cpid, orphans, used>>

Ready(t) == /\ Goes(t, "free", "run") /\ c[t] = KeepActive
            /\ UNCHANGED <<file, lock, op, pos, mine, listed, peak>>

Active(t) == listed[t] \ (orphans[t] \cup {t})

\* run_child() has started a command.
Start(t) == /\ Goes(t, "run", "run") /\ Cardinality(Active(t)) < KeepActive
            /\ \E p \in Procs \ used : used' = used \cup {p} /\ Ask(t, MarkOp(p, "cmd"))
            /\ UNCHANGED <<c, cpid, orphans>>

\* check_pids() has waited for a command ...
Reaped(t) == /\ Goes(t, "run", "reaped")
             /\ \E p \in Active(t) : cpid' = [cpid EXCEPT ![t] = p] /\ Ask(t, ClearOp(p))
             /\ UNCHANGED <<c, orphans, used>>

\* ... that left an orphaned group behind, or did not.
Orphaned(t) == /\ Goes(t, "reaped", "run") /\ Ask(t, MarkOp(cpid[t], "panorphan"))
               /\ orphans' = [orphans EXCEPT ![t] = @ \cup {cpid[t]}]
               /\ UNCHANGED <<c, cpid, used>>
NotOrphaned(t) == /\ Goes(t, "reaped", "run")
                  /\ UNCHANGED <<file, lock, op, pos, mine, listed, peak>>

\* check_orphans() finds a group empty.
OrphanGone(t) == /\ Goes(t, "run", "run")
                 /\ \E p \in orphans[t] : /\ orphans' = [orphans EXCEPT ![t] = @ \ {p}]
                                          /\ Ask(t, ClearOp(p))
                 /\ UNCHANGED <<c, cpid, used>>

Leave(t) == /\ Goes(t, "run", "leave") /\ Active(t) = {} /\ orphans[t] = {}
            /\ Ask(t, ClearOp(t))
            /\ UNCHANGED mine
Gone(t) == /\ Goes(t, "leave", "dead")
           /\ UNCHANGED <<file, lock, op, pos, mine, listed, peak>>

\* ltp-pan is killed; the kernel drops its lock.
Crash(t) == /\ CanCrash /\ stage[t] # "dead"
            /\ stage' = [stage EXCEPT ![t] = "dead"]
            /\ op' = [op EXCEPT ![t] = NoOp]
            /\ lock' = IF lock = t THEN Nobody ELSE lock
            /\ pos' = [pos EXCEPT ![t] = 0]
            /\ UNCHANGED <<file, mine, listed, peak>>

\* zoo_getpid() for the tag of an ltp-pan.  The tags of commands, whose lines ltp-bump
\* may clear in the same way, are left to BumpClears of module Pan.
BumpLooks(t) == /\ Goes(t, "start", "kill")
                /\ \E n \in Pans : Ask(t, [do |-> "getpid", at |-> "lock", tag |-> n])
                /\ UNCHANGED mine

\* The pids 0, 1, ... of spare lines count as processes that exist.  They do up to 1;
\* a greater one may be nobody's, and its line would be cleared: left out.
Alive(p) == p \in Pans => stage[p] # "dead"

\* kill() failed with ESRCH: the line is cleared.
BumpClears(t) == /\ Goes(t, "kill", "leave") /\ cpid[t] # Nobody /\ ~Alive(cpid[t])
                 /\ Ask(t, ClearOp(cpid[t]))
                 /\ UNCHANGED mine

\* The tag was not found, or its process was signalled.
BumpDone(t) == /\ Goes(t, "kill", "leave") /\ (cpid[t] = Nobody \/ Alive(cpid[t]))
               /\ UNCHANGED <<file, lock, op, pos, mine, listed, peak>>
-----------------------------------------------------------------------------
Lib(t) == \/ ZooLock(t) \/ Scan(t) \/ WriteMark(t) \/ WriteClear(t) \/ NotFound(t) \/ GetPid(t)

Pan(t) == \/ MarkSelf(t) \/ Allocate(t) \/ Deallocate(t) \/ Ready(t) \/ Start(t) \/ Reaped(t)
          \/ Orphaned(t) \/ NotOrphaned(t) \/ OrphanGone(t) \/ Leave(t) \/ Gone(t)

Bump(t) == BumpLooks(t) \/ BumpClears(t) \/ BumpDone(t)

Step(t) == \/ t \in Pans /\ Pan(t)
           \/ t \in Bumps /\ Bump(t)
           \/ Lib(t)

Finished(t) == Idle(t) /\ stage[t] = IF t \in Pans THEN "dead" ELSE "leave"

Done == (\A t \in Tools : Finished(t)) /\ UNCHANGED vars

Next == (\E t \in Tools : Step(t)) \/ (\E t \in Pans : Crash(t)) \/ Done

Spec == Init /\ [][Next]_vars

\* The tools are scheduled; a command ends some time.
FairSpec == Spec /\ \A t \in Tools : WF_vars(Step(t))
-----------------------------------------------------------------------------
ZooTypeOK ==
    /\ file \in Seq(Lines) /\ lock \in Tools \cup {Nobody}
    /\ pos \in [Tools -> 0 .. Len(file)] /\ c \in [Tools -> 0 .. KeepActive]
    /\ stage \in [Tools -> {"start", "alloc", "free", "run", "reaped", "leave", "kill", "dead"}]
    /\ cpid \in [Tools -> Pids \cup {Nobody}] /\ orphans \in [Pans -> SUBSET Procs]
    /\ used \subseteq Procs /\ listed \in [Pans -> SUBSET Pids] /\ peak \in Nat
    /\ \A t \in Tools : op[t].do \in {"none", "mark", "clear", "getpid"}

LinesOf(p) == Cardinality({i \in InUse : file[i].pid = p})

\* The file holds a line for a pid exactly as often as the tools have marked it and
\* not cleared it, although the ltp-pans all use the same pids for their spare lines
\* and may clear each other's, and wherever one of them is killed.
Registered == \A p \in Pids : LinesOf(p) = Cardinality({t \in Pans : p \in listed[t]})

\* First fit: the file never has more lines than were in use at one time.
NoWaste == Len(file) = peak

R == INSTANCE RegistrySpec WITH Entries <- Pids, count <- [p \in Pids |-> LinesOf(p)]

\* The operations on the file implement a register: no mark is lost to another and
\* no clear takes away more than one line.
RegisterImplemented == R!Spec

-----------------------------------------------------------------------------
(* The inductive strengthening of Registered and NoWaste *)

\* What t will have marked and not cleared once its operation is done.
Expected(t) == CASE op[t].do = "mark"  -> listed[t] \cup {op[t].pid}
                 [] op[t].do = "clear" -> listed[t] \ {op[t].pid}
                 [] OTHER              -> listed[t]

At == {"lock", "scan", "write"}
Ops == {NoOp} \cup [do : {"mark"}, at : At, pid : Pids, tag : Pans \cup {"cmd", "panorphan"}]
              \cup [do : {"clear"}, at : At, pid : Pids]
              \cup [do : {"getpid"}, at : At, tag : Pans]

\* Between its scan and its write a tool holds the lock, and so the line it found is
\* still the one it looked for, and what it did not find is still not there.
Locked(t) ==
    /\ op[t].do # "none" /\ op[t].at \in {"scan", "write"} => lock = t
    /\ op[t].do # "none" /\ op[t].at = "write" =>
          IF pos[t] = 0 THEN \A i \in DOMAIN file : ~Matches(op[t], file[i])
                        ELSE pos[t] \in DOMAIN file /\ Matches(op[t], file[pos[t]])

\* An ltp-pan marks what it has not marked and clears what it has, a process of its
\* own in either case, and the stage it is in says what that is.
PanKnows(t) ==
    /\ op[t].do \in {"none", "mark", "clear"}
    /\ op[t].do = "mark" => op[t].pid \notin listed[t]
    /\ op[t].do = "clear" => op[t].pid \in listed[t]
    /\ (listed[t] \cup Expected(t)) \cap Pans \subseteq {t}
    /\ stage[t] \in {"start", "alloc", "free"} => orphans[t] = {}
    /\ stage[t] = "start" => Expected(t) = {} /\ c[t] = 0
    /\ stage[t] = "alloc" => c[t] < KeepActive /\ Expected(t) = {t} \cup 0 .. c[t] - 1
    /\ stage[t] = "free" => Expected(t) = {t} \cup c[t] .. KeepActive - 1
    /\ stage[t] \in {"run", "reaped"} =>
          orphans[t] \cup {t} \subseteq Expected(t) /\ Expected(t) \subseteq used \cup {t}
    /\ stage[t] = "reaped" => cpid[t] \in used \ Expected(t)
    /\ stage[t] = "dead" => Idle(t)

\* An ltp-bump only clears the line of a dead ltp-pan.
BumpKnows(t) ==
    /\ op[t].do \in {"none", "getpid", "clear"}
    /\ op[t].do = "clear" => op[t].pid \in Pans /\ stage[op[t].pid] = "dead"

ZooInv == /\ ZooTypeOK /\ op \in [Tools -> Ops]
          /\ Registered /\ NoWaste
          /\ \A t \in Tools : Locked(t)
          /\ \A t \in Pans : PanKnows(t)
          /\ \A t \in Bumps : BumpKnows(t)
-----------------------------------------------------------------------------
\* Nobody waits for the lock for ever: all tools get done.
AllLeave == <>(\A t \in Tools : Finished(t))

\* ltp-bump signals the process that is known by the tag it was given.
BumpFindsTool == \A t \in Bumps : cpid[t] # Nobody => cpid[t] \in Pans
=============================================================================
