----------------------------- MODULE ZooProofs ------------------------------
(***************************************************************************)
(* The active file is a register, for any number of tools and commands and *)
(* any keep_active: ZooInv is inductive, and every step on the file is a   *)
(* mark or a clear of RegistrySpec or leaves its counts alone.             *)
(***************************************************************************)
EXTENDS ZooSteps
-----------------------------------------------------------------------------
(* ltp-pan and ltp-bump *)

Stages == {"start", "alloc", "free", "run", "reaped", "leave", "kill", "dead"}

\* The variables of main() and of the loops keep their types; only t's change.
Locals(t) == /\ c' \in [Tools -> 0 .. KeepActive] /\ cpid' \in [Tools -> Pids \cup {Nobody}]
             /\ orphans' \in [Pans -> SUBSET Procs] /\ used' \subseteq Procs /\ used \subseteq used'
             /\ \A x \in Tools \ {t} : /\ c'[x] = c[x] /\ cpid'[x] = cpid[x]
                                       /\ x \in Pans => orphans'[x] = orphans[x]

\* A tool that is between two operations asks for the next one, or for none.
LEMMA AskKeeps ==
    ASSUME ZooInv, NEW t \in Tools, NEW o \in Ops, NEW from \in Stages \ {"dead"},
           NEW to \in Stages,
           Goes(t, from, to), Ask(t, o), o.do # "none" => o.at = "lock", Locals(t),
           t \in Pans => PanKnows(t)', t \in Bumps => BumpKnows(t)'
    PROVE  ZooInv'
  <1>1. /\ op' = [op EXCEPT ![t] = o] /\ UNCHANGED <<file, lock, pos, listed, peak>>
        /\ stage[t] # "dead" /\ stage' = [stage EXCEPT ![t] = to]
    BY DEF Ask, Goes
  <1>2. ZooTypeOK /\ op \in [Tools -> Ops] /\ Registered /\ NoWaste BY DEF ZooInv
  <1>3. /\ op' \in [Tools -> Ops] /\ op'[t] = o /\ \A x \in Tools \ {t} : op'[x] = op[x]
        /\ \A x \in Tools : op'[x].do \in {"none", "mark", "clear", "getpid"}
    BY <1>1, <1>2, OpFields
  <1>4. /\ stage' \in [Tools -> Stages] /\ \A x \in Tools \ {t} : stage'[x] = stage[x]
    BY <1>1, <1>2 DEF ZooTypeOK, Stages
  <1>5. Types' BY <1>1, <1>2, <1>3, <1>4 DEF Types, ZooTypeOK, Locals, Stages
  <1>6. Locked(t)' BY <1>3 DEF Locked
  <1>7. \A x \in Tools \ {t} : Keeps(x) BY <1>1, <1>3, <1>4 DEF Keeps, Locals
  <1>8. Registered' /\ NoWaste' BY <1>1, <1>2, CountsStand
  <1>9. used \subseteq used' BY DEF Locals
  <1> QED BY <1>1, <1>5, <1>6, <1>7, <1>8, <1>9, StepKeeps

\* Between two operations an ltp-pan has listed what it expects.
LEMMA PanIdle ==
    ASSUME ZooInv, NEW t \in Pans, Idle(t)
    PROVE  /\ PanKnows(t) /\ Expected(t) = listed[t] /\ op[t] = NoOp /\ t \in Tools
           /\ listed[t] \subseteq Pids /\ orphans[t] \subseteq Procs /\ used \subseteq Procs
           /\ c[t] \in 0 .. KeepActive
           /\ c \in [Tools -> 0 .. KeepActive] /\ cpid \in [Tools -> Pids \cup {Nobody}]
           /\ orphans \in [Pans -> SUBSET Procs] /\ op \in [Tools -> Ops]
  <1>1. PanKnows(t) /\ t \in Tools BY DEF ZooInv, Tools
  <1>2. /\ listed[t] \subseteq Pids /\ orphans[t] \subseteq Procs /\ used \subseteq Procs
        /\ c[t] \in 0 .. KeepActive
        /\ c \in [Tools -> 0 .. KeepActive] /\ cpid \in [Tools -> Pids \cup {Nobody}]
        /\ orphans \in [Pans -> SUBSET Procs] /\ op \in [Tools -> Ops]
    BY <1>1 DEF ZooInv, ZooTypeOK
  <1>3. op[t].do = "none" /\ op[t] = NoOp BY <1>1, <1>2, OpFields DEF Idle
  <1>4. Expected(t) = listed[t] BY <1>3 DEF Expected
  <1> QED BY <1>1, <1>2, <1>3, <1>4

\* Asking for nothing changes no operation.
LEMMA AskNothing ==
    ASSUME op \in [Tools -> Ops], NEW t \in Tools, op[t] = NoOp,
           UNCHANGED <<file, lock, op, pos, listed, peak>>
    PROVE  Ask(t, NoOp) /\ NoOp \in Ops /\ NoOp.do = "none" /\ op'[t].do = "none"
  BY DEF Ask, Ops, NoOp

\* The operations asked for.
LEMMA MarkIsOp ==
    ASSUME NEW p \in Pids, NEW tag \in Pans \cup {"cmd", "panorphan"}
    PROVE  /\ MarkOp(p, tag) \in Ops /\ MarkOp(p, tag).do = "mark"
           /\ MarkOp(p, tag).at = "lock" /\ MarkOp(p, tag).pid = p
  BY DEF MarkOp, Ops, At

LEMMA ClearIsOp ==
    ASSUME NEW p \in Pids
    PROVE  /\ ClearOp(p) \in Ops /\ ClearOp(p).do = "clear"
           /\ ClearOp(p).at = "lock" /\ ClearOp(p).pid = p
  BY DEF ClearOp, Ops, At

\* After asking for a mark or a clear.
LEMMA MarkExpected ==
    ASSUME ZooInv, NEW t \in Pans, Idle(t), NEW p \in Pids,
           NEW tag \in Pans \cup {"cmd", "panorphan"},
           Ask(t, MarkOp(p, tag))
    PROVE  /\ Expected(t)' = listed[t] \cup {p} /\ listed' = listed
           /\ op'[t].do = "mark" /\ op'[t].pid = p
  <1>1. op'[t] = MarkOp(p, tag) /\ listed' = listed BY PanIdle DEF Ask
  <1> QED BY <1>1, MarkIsOp DEF Expected

LEMMA ClearExpected ==
    ASSUME ZooInv, NEW t \in Pans, Idle(t), NEW p \in Pids, Ask(t, ClearOp(p))
    PROVE  /\ Expected(t)' = listed[t] \ {p} /\ listed' = listed
           /\ op'[t].do = "clear" /\ op'[t].pid = p
  <1>1. op'[t] = ClearOp(p) /\ listed' = listed BY PanIdle DEF Ask
  <1> QED BY <1>1, ClearIsOp DEF Expected

\* ltp-pan registers itself.
LEMMA MarkSelfKeeps == ASSUME ZooInv, NEW t \in Pans, MarkSelf(t) PROVE ZooInv'
  <1>1. Goes(t, "start", "alloc") /\ Ask(t, MarkOp(t, t)) /\ UNCHANGED mine /\ Idle(t)
        /\ stage[t] = "start" /\ stage' = [stage EXCEPT ![t] = "alloc"]
    BY DEF MarkSelf, Goes
  <1>2. /\ PanKnows(t) /\ Expected(t) = listed[t] /\ t \in Tools /\ t \in Pids
        /\ stage'[t] = "alloc"
    BY <1>1, PanIdle DEF Pids, ZooInv, ZooTypeOK
  <1>3. listed[t] = {} /\ c[t] = 0 /\ orphans[t] = {} BY <1>1, <1>2 DEF PanKnows
  <1>4. /\ Expected(t)' = {t} /\ listed'[t] = {} /\ op'[t].do = "mark" /\ op'[t].pid = t
    BY <1>1, <1>2, <1>3, MarkExpected, SMTT(20)
  <1>5. PanKnows(t)'
    <2>1. 0 .. c'[t] - 1 = {} /\ c'[t] < KeepActive BY <1>1, <1>3, ZooConstants DEF mine
    <2> QED BY <1>1, <1>2, <1>3, <1>4, <2>1, SMTT(20) DEF PanKnows, mine
  <1>6. Locals(t) BY <1>1, PanIdle DEF Locals, mine
  <1> QED BY <1>1, <1>2, <1>5, <1>6, MarkIsOp, AskKeeps, ZooConstants, SMTT(20) DEF Stages

\* The spare lines are marked one after the other.
LEMMA AllocateKeeps == ASSUME ZooInv, NEW t \in Pans, Allocate(t) PROVE ZooInv'
  <1> DEFINE to == IF c[t] = KeepActive - 1 THEN "free" ELSE "alloc"
  <1>1. /\ Goes(t, "alloc", to) /\ Ask(t, MarkOp(c[t], t)) /\ Idle(t)
        /\ c' = [c EXCEPT ![t] = (c[t] + 1) % KeepActive] /\ UNCHANGED <<cpid, orphans, used>>
        /\ stage[t] = "alloc" /\ stage' = [stage EXCEPT ![t] = to]
    BY DEF Allocate, Goes
  <1>2. /\ PanKnows(t) /\ Expected(t) = listed[t] /\ t \in Tools /\ c[t] \in 0 .. KeepActive
        /\ stage'[t] = to
    BY <1>1, PanIdle, ZenonT(30) DEF ZooInv, ZooTypeOK
  <1>3. /\ c[t] < KeepActive /\ listed[t] = {t} \cup 0 .. c[t] - 1 /\ orphans[t] = {}
    BY <1>1, <1>2 DEF PanKnows
  <1>4. /\ c[t] \in Spare /\ c[t] \in Pids /\ c[t] # t /\ c[t] \notin Pans /\ c[t] \notin listed[t]
    BY <1>2, <1>3, ZooConstants DEF Spare, Pids
  <1>5. /\ Expected(t)' = listed[t] \cup {c[t]} /\ listed' = listed
        /\ op'[t].do = "mark" /\ op'[t].pid = c[t]
    BY <1>1, <1>4, MarkExpected
  <1>6. /\ c[t] = KeepActive - 1 => (c[t] + 1) % KeepActive = 0
        /\ c[t] # KeepActive - 1 => (c[t] + 1) % KeepActive = c[t] + 1
    BY <1>2, <1>3, ZooConstants
  <1>7. c' \in [Tools -> 0 .. KeepActive] /\ c'[t] = (c[t] + 1) % KeepActive
        /\ \A x \in Tools \ {t} : c'[x] = c[x]
    <2>1. (c[t] + 1) % KeepActive \in 0 .. KeepActive BY <1>2, <1>3, <1>6, ZooConstants
    <2> QED BY <1>1, <1>2, <2>1, PanIdle
  <1>8. PanKnows(t)'
    <2>1. CASE c[t] = KeepActive - 1
      <3>1. stage'[t] = "free" /\ c'[t] = 0 BY <1>2, <1>6, <1>7, <2>1
      <3>2. Expected(t)' = {t} \cup c'[t] .. KeepActive - 1
        BY <1>2, <1>3, <1>5, <2>1, <3>1, ZooConstants
      <3> QED BY <1>1, <1>2, <1>3, <1>4, <1>5, <3>1, <3>2, ZenonT(30) DEF PanKnows
    <2>2. CASE c[t] # KeepActive - 1
      <3>1. stage'[t] = "alloc" /\ c'[t] = c[t] + 1 /\ c'[t] < KeepActive
        BY <1>2, <1>3, <1>6, <1>7, <2>2, ZooConstants
      <3>2. Expected(t)' = {t} \cup 0 .. c'[t] - 1 BY <1>2, <1>3, <1>5, <3>1, SMTT(20)
      <3> QED BY <1>1, <1>2, <1>3, <1>4, <1>5, <3>1, <3>2, ZenonT(30) DEF PanKnows
    <2> QED BY <2>1, <2>2, ZenonT(30)
  <1>9. Locals(t) BY <1>1, <1>7, PanIdle DEF Locals
  <1>10. to \in Stages /\ "alloc" \in Stages \ {"dead"} BY DEF Stages
  <1> HIDE DEF to
  <1>11. MarkOp(c[t], t) \in Ops /\ MarkOp(c[t], t).at = "lock" BY <1>4, MarkIsOp
  <1>12. t \notin Bumps BY ZooConstants
  <1> QED BY <1>1, <1>2, <1>8, <1>9, <1>10, <1>11, <1>12, AskKeeps, ZenonT(30)

\* ... and cleared one after the other.
LEMMA DeallocateKeeps == ASSUME ZooInv, NEW t \in Pans, Deallocate(t) PROVE ZooInv'
  <1>1. /\ Goes(t, "free", "free") /\ c[t] < KeepActive /\ Ask(t, ClearOp(c[t])) /\ Idle(t)
        /\ c' = [c EXCEPT ![t] = c[t] + 1] /\ UNCHANGED <<cpid, orphans, used>>
        /\ stage[t] = "free" /\ stage' = [stage EXCEPT ![t] = "free"]
    BY DEF Deallocate, Goes
  <1>2. /\ PanKnows(t) /\ Expected(t) = listed[t] /\ t \in Tools /\ c[t] \in 0 .. KeepActive
        /\ stage'[t] = "free"
    BY <1>1, PanIdle DEF ZooInv, ZooTypeOK
  <1>3. listed[t] = {t} \cup c[t] .. KeepActive - 1 /\ orphans[t] = {}
    BY <1>1, <1>2 DEF PanKnows
  <1>4. /\ c[t] \in Spare /\ c[t] \in Pids /\ c[t] # t /\ c[t] \in listed[t]
    BY <1>1, <1>2, <1>3, ZooConstants DEF Spare, Pids
  <1>5. /\ Expected(t)' = listed[t] \ {c[t]} /\ listed' = listed
        /\ op'[t].do = "clear" /\ op'[t].pid = c[t]
    BY <1>1, <1>4, ClearExpected
  <1>6. c' \in [Tools -> 0 .. KeepActive] /\ c'[t] = c[t] + 1
        /\ \A x \in Tools \ {t} : c'[x] = c[x]
    BY <1>1, <1>2, PanIdle, ZooConstants
  <1>7. Expected(t)' = {t} \cup c'[t] .. KeepActive - 1
    BY <1>1, <1>2, <1>3, <1>4, <1>5, <1>6, ZooConstants
  <1>8. PanKnows(t)' BY <1>1, <1>2, <1>3, <1>4, <1>5, <1>7, ZenonT(30) DEF PanKnows
  <1>9. Locals(t) BY <1>1, <1>6, PanIdle DEF Locals
  <1>10. "free" \in Stages \ {"dead"} BY DEF Stages
  <1>11. ClearOp(c[t]) \in Ops /\ ClearOp(c[t]).at = "lock" BY <1>4, ClearIsOp
  <1>12. t \notin Bumps BY ZooConstants
  <1> QED BY <1>1, <1>2, <1>8, <1>9, <1>10, <1>11, <1>12, AskKeeps, ZenonT(30)

\* Steps of ltp-pan between two operations.
LEMMA PanMoves ==
    ASSUME ZooInv, NEW t \in Pans, Ready(t) \/ NotOrphaned(t) \/ Gone(t)
    PROVE  ZooInv'
  <1>1. /\ Idle(t) /\ UNCHANGED <<file, lock, op, pos, mine, listed, peak>>
        /\ \/ Goes(t, "free", "run") /\ c[t] = KeepActive
           \/ Goes(t, "reaped", "run")
           \/ Goes(t, "leave", "dead")
    BY DEF Ready, NotOrphaned, Gone, Goes
  <1>2. /\ PanKnows(t) /\ Expected(t) = listed[t] /\ t \in Tools /\ c[t] \in 0 .. KeepActive
        /\ op[t] = NoOp /\ op \in [Tools -> Ops]
    BY <1>1, PanIdle
  <1>3. Ask(t, NoOp) /\ NoOp \in Ops /\ NoOp.do = "none" /\ op'[t].do = "none"
    BY <1>1, <1>2, AskNothing
  <1>4. Expected(t)' = listed[t] /\ listed' = listed BY <1>1, <1>3, ZenonT(30) DEF Expected
  <1>5. Locals(t) BY <1>1, PanIdle DEF Locals, mine
  <1>6. t \notin Bumps BY ZooConstants
  <1>7. stage \in [Tools -> Stages] BY DEF ZooInv, ZooTypeOK, Stages
  <1>8. CASE Goes(t, "free", "run") /\ c[t] = KeepActive
    <2>1. stage[t] = "free" /\ stage'[t] = "run" BY <1>2, <1>7, <1>8, ZenonT(30) DEF Goes
    <2>2. listed[t] = {t} /\ orphans[t] = {}
      BY <1>2, <1>8, <2>1, ZooConstants DEF PanKnows
    <2>3. PanKnows(t)' BY <1>1, <1>2, <1>3, <1>4, <2>1, <2>2, ZenonT(30) DEF PanKnows, mine
    <2> QED BY <1>2, <1>3, <1>5, <1>6, <1>8, <2>3, AskKeeps, ZenonT(30) DEF Stages
  <1>9. CASE Goes(t, "reaped", "run")
    <2>1. stage[t] = "reaped" /\ stage'[t] = "run" BY <1>2, <1>7, <1>9, ZenonT(30) DEF Goes
    <2>2. PanKnows(t)' BY <1>1, <1>2, <1>3, <1>4, <2>1, ZenonT(30) DEF PanKnows, mine
    <2> QED BY <1>2, <1>3, <1>5, <1>6, <1>9, <2>2, AskKeeps, ZenonT(30) DEF Stages
  <1>10. CASE Goes(t, "leave", "dead")
    <2>1. stage[t] = "leave" /\ stage'[t] = "dead" BY <1>2, <1>7, <1>10, SMTT(20) DEF Goes
    <2>2. PanKnows(t)' BY <1>1, <1>2, <1>3, <1>4, <2>1, ZenonT(30) DEF PanKnows, mine, Idle
    <2> QED BY <1>2, <1>3, <1>5, <1>6, <1>10, <2>2, AskKeeps, ZenonT(30) DEF Stages
  <1> QED BY <1>1, <1>8, <1>9, <1>10

\* A command is started under a process id that was not in use.
LEMMA StartKeeps == ASSUME ZooInv, NEW t \in Pans, Start(t) PROVE ZooInv'
  <1>1. PICK p \in Procs \ used :
          /\ Goes(t, "run", "run") /\ Idle(t) /\ used' = used \cup {p} /\ Ask(t, MarkOp(p, "cmd"))
          /\ UNCHANGED <<c, cpid, orphans>>
    BY DEF Start, Goes
  <1>2. /\ PanKnows(t) /\ Expected(t) = listed[t] /\ t \in Tools /\ stage[t] = "run"
        /\ stage'[t] = "run"
    BY <1>1, PanIdle, ZenonT(30) DEF Goes, ZooInv, ZooTypeOK
  <1>3. /\ orphans[t] \cup {t} \subseteq listed[t] /\ listed[t] \subseteq used \cup {t}
        /\ listed[t] \cap Pans \subseteq {t}
    BY <1>2, ZenonT(30) DEF PanKnows
  <1>4. p \in Pids /\ p # t /\ p \notin Pans /\ p \notin listed[t]
    BY <1>1, <1>3, ZooConstants, SMTT(20) DEF Pids
  <1>5. /\ Expected(t)' = listed[t] \cup {p} /\ listed' = listed
        /\ op'[t].do = "mark" /\ op'[t].pid = p
    BY <1>1, <1>4, MarkExpected, ZenonT(30)
  <1>6. PanKnows(t)' BY <1>1, <1>2, <1>3, <1>4, <1>5, ZenonT(30) DEF PanKnows
  <1>7. Locals(t) BY <1>1, PanIdle DEF Locals
  <1>8. MarkOp(p, "cmd") \in Ops /\ MarkOp(p, "cmd").at = "lock" BY <1>4, MarkIsOp
  <1>9. t \notin Bumps /\ "run" \in Stages \ {"dead"} BY ZooConstants DEF Stages
  <1> QED BY <1>1, <1>2, <1>6, <1>7, <1>8, <1>9, AskKeeps, SMTT(20)

\* A command has ended: its line is cleared.
LEMMA ReapedKeeps == ASSUME ZooInv, NEW t \in Pans, Reaped(t) PROVE ZooInv'
  <1>1. PICK p \in Active(t) :
          /\ Goes(t, "run", "reaped") /\ Idle(t) /\ cpid' = [cpid EXCEPT ![t] = p]
          /\ Ask(t, ClearOp(p)) /\ UNCHANGED <<c, orphans, used>>
    BY ZenonT(30) DEF Reaped, Goes
  <1>2. /\ PanKnows(t) /\ Expected(t) = listed[t] /\ t \in Tools /\ stage[t] = "run"
        /\ stage'[t] = "reaped"
    BY <1>1, PanIdle, ZenonT(30) DEF Goes, ZooInv, ZooTypeOK
  <1>3. /\ orphans[t] \cup {t} \subseteq listed[t] /\ listed[t] \subseteq used \cup {t}
        /\ listed[t] \cap Pans \subseteq {t} /\ listed[t] \subseteq Pids
    BY <1>1, <1>2, PanIdle DEF PanKnows
  <1>4. p \in listed[t] /\ p \notin orphans[t] /\ p # t /\ p \in Pids /\ p \in used
    BY <1>1, <1>3, SMTT(20) DEF Active
  <1>5. /\ Expected(t)' = listed[t] \ {p} /\ listed' = listed
        /\ op'[t].do = "clear" /\ op'[t].pid = p
    BY <1>1, <1>4, ClearExpected, ZenonT(30)
  <1>6. /\ cpid' \in [Tools -> Pids \cup {Nobody}] /\ cpid'[t] = p
        /\ \A x \in Tools \ {t} : cpid'[x] = cpid[x]
    BY <1>1, <1>2, <1>4, PanIdle, ZenonT(30)
  <1>7. PanKnows(t)' BY <1>1, <1>2, <1>3, <1>4, <1>5, <1>6, ZenonT(30) DEF PanKnows
  <1>8. Locals(t) BY <1>1, <1>6, PanIdle DEF Locals
  <1>9. ClearOp(p) \in Ops /\ ClearOp(p).at = "lock" BY <1>4, ClearIsOp
  <1>10. t \notin Bumps /\ "run" \in Stages \ {"dead"} /\ "reaped" \in Stages
    BY ZooConstants DEF Stages
  <1> QED BY <1>1, <1>2, <1>7, <1>8, <1>9, <1>10, AskKeeps, ZenonT(30)

\* It left an orphaned group behind: the line of its process id is marked again.
LEMMA OrphanedKeeps == ASSUME ZooInv, NEW t \in Pans, Orphaned(t) PROVE ZooInv'
  <1>1. /\ Goes(t, "reaped", "run") /\ Idle(t) /\ Ask(t, MarkOp(cpid[t], "panorphan"))
        /\ orphans' = [orphans EXCEPT ![t] = orphans[t] \cup {cpid[t]}]
        /\ UNCHANGED <<c, cpid, used>>
    BY DEF Orphaned, Goes
  <1>2. /\ PanKnows(t) /\ Expected(t) = listed[t] /\ t \in Tools /\ stage[t] = "reaped"
        /\ stage'[t] = "run" /\ used \subseteq Procs
    BY <1>1, PanIdle, ZenonT(30) DEF Goes, ZooInv, ZooTypeOK
  <1>3. /\ orphans[t] \cup {t} \subseteq listed[t] /\ listed[t] \subseteq used \cup {t}
        /\ listed[t] \cap Pans \subseteq {t} /\ cpid[t] \in used /\ cpid[t] \notin listed[t]
    BY <1>2 DEF PanKnows
  <1>4. cpid[t] \in Procs /\ cpid[t] \in Pids /\ cpid[t] \notin Pans
    BY <1>2, <1>3, ZooConstants, SMTT(20) DEF Pids
  <1>5. /\ Expected(t)' = listed[t] \cup {cpid[t]} /\ listed' = listed
        /\ op'[t].do = "mark" /\ op'[t].pid = cpid[t]
    BY <1>1, <1>4, MarkExpected, SMTT(20)
  <1>6. /\ orphans' \in [Pans -> SUBSET Procs] /\ orphans'[t] = orphans[t] \cup {cpid[t]}
        /\ \A x \in Pans \ {t} : orphans'[x] = orphans[x]
    BY <1>1, <1>4, PanIdle, SMTT(20)
  <1>7. PanKnows(t)' BY <1>1, <1>2, <1>3, <1>4, <1>5, <1>6, ZenonT(30) DEF PanKnows
  <1>8. Locals(t) BY <1>1, <1>6, PanIdle DEF Locals
  <1>9. MarkOp(cpid[t], "panorphan") \in Ops /\ MarkOp(cpid[t], "panorphan").at = "lock"
    BY <1>4, MarkIsOp
  <1>10. t \notin Bumps /\ "run" \in Stages /\ "reaped" \in Stages \ {"dead"}
    BY ZooConstants, ZenonT(30) DEF Stages
  <1> QED BY <1>1, <1>2, <1>7, <1>8, <1>9, <1>10, AskKeeps, ZenonT(30)

\* An orphaned group is empty: its line is cleared.
LEMMA OrphanGoneKeeps == ASSUME ZooInv, NEW t \in Pans, OrphanGone(t) PROVE ZooInv'
  <1>1. PICK p \in orphans[t] :
          /\ Goes(t, "run", "run") /\ Idle(t) /\ Ask(t, ClearOp(p))
          /\ orphans' = [orphans EXCEPT ![t] = orphans[t] \ {p}]
          /\ UNCHANGED <<c, cpid, used>>
    BY ZenonT(30) DEF OrphanGone, Goes
  <1>2. /\ PanKnows(t) /\ Expected(t) = listed[t] /\ t \in Tools /\ stage[t] = "run"
        /\ stage'[t] = "run" /\ orphans[t] \subseteq Procs
    BY <1>1, PanIdle, ZenonT(30) DEF Goes, ZooInv, ZooTypeOK
  <1>3. /\ orphans[t] \cup {t} \subseteq listed[t] /\ listed[t] \subseteq used \cup {t}
        /\ listed[t] \cap Pans \subseteq {t}
    BY <1>2, ZenonT(30) DEF PanKnows
  <1>4. p \in Pids /\ p # t /\ p \in listed[t]
    BY <1>1, <1>2, <1>3, ZooConstants, ZenonT(30) DEF Pids
  <1>5. /\ Expected(t)' = listed[t] \ {p} /\ listed' = listed
        /\ op'[t].do = "clear" /\ op'[t].pid = p
    BY <1>1, <1>4, ClearExpected, ZenonT(30)
  <1>6. /\ orphans' \in [Pans -> SUBSET Procs] /\ orphans'[t] = orphans[t] \ {p}
        /\ \A x \in Pans \ {t} : orphans'[x] = orphans[x]
    BY <1>1, <1>2, PanIdle, ZenonT(30)
  <1>7. PanKnows(t)' BY <1>1, <1>2, <1>3, <1>4, <1>5, <1>6, ZenonT(30) DEF PanKnows
  <1>8. Locals(t) BY <1>1, <1>6, PanIdle, ZenonT(30) DEF Locals
  <1>9. ClearOp(p) \in Ops /\ ClearOp(p).at = "lock" BY <1>4, ClearIsOp
  <1>10. t \notin Bumps /\ "run" \in Stages \ {"dead"} BY ZooConstants DEF Stages
  <1> QED BY <1>1, <1>2, <1>7, <1>8, <1>9, <1>10, AskKeeps, ZenonT(30)

\* ltp-pan clears its own line last.
LEMMA LeaveKeeps == ASSUME ZooInv, NEW t \in Pans, Leave(t) PROVE ZooInv'
  <1>1. Goes(t, "run", "leave") /\ Idle(t) /\ Ask(t, ClearOp(t)) /\ UNCHANGED mine
    BY DEF Leave, Goes
  <1>2. /\ PanKnows(t) /\ Expected(t) = listed[t] /\ t \in Tools /\ stage[t] = "run"
        /\ stage'[t] = "leave" /\ t \in Pids
    BY <1>1, PanIdle, ZenonT(30) DEF Goes, ZooInv, ZooTypeOK, Pids
  <1>3. t \in listed[t] /\ listed[t] \cap Pans \subseteq {t} BY <1>2 DEF PanKnows
  <1>4. /\ Expected(t)' = listed[t] \ {t} /\ listed' = listed
        /\ op'[t].do = "clear" /\ op'[t].pid = t
    BY <1>1, <1>2, ClearExpected, ZenonT(30)
  <1>5. PanKnows(t)' BY <1>2, <1>3, <1>4, ZenonT(30) DEF PanKnows
  <1>6. Locals(t) BY <1>1, PanIdle DEF Locals, mine
  <1>7. ClearOp(t) \in Ops /\ ClearOp(t).at = "lock" BY <1>2, ClearIsOp
  <1>8. t \notin Bumps /\ "run" \in Stages \ {"dead"} /\ "leave" \in Stages
    BY ZooConstants DEF Stages
  <1> QED BY <1>1, <1>2, <1>5, <1>6, <1>7, <1>8, AskKeeps, ZenonT(30)

\* ltp-pan is killed: what it has listed stays, and the lock is free if it was its own.
LEMMA CrashKeeps == ASSUME ZooInv, NEW t \in Pans, Crash(t) PROVE ZooInv'
  <1>1. /\ stage' = [stage EXCEPT ![t] = "dead"] /\ op' = [op EXCEPT ![t] = NoOp]
        /\ lock' = IF lock = t THEN Nobody ELSE lock
        /\ pos' = [pos EXCEPT ![t] = 0] /\ UNCHANGED <<file, mine, listed, peak>>
    BY DEF Crash
  <1>2. /\ ZooTypeOK /\ op \in [Tools -> Ops] /\ Registered /\ NoWaste /\ t \in Tools
        /\ PanKnows(t) /\ Len(file) \in Nat
    BY LenProperties DEF ZooInv, ZooTypeOK, Tools
  <1>3. NoOp \in Ops /\ NoOp.do = "none" BY DEF Ops, NoOp
  <1>4. /\ op' \in [Tools -> Ops] /\ op'[t] = NoOp /\ op'[t].do = "none"
        /\ \A x \in Tools \ {t} : op'[x] = op[x]
    BY <1>1, <1>2, <1>3
  <1>5. \A x \in Tools : op'[x].do \in {"none", "mark", "clear", "getpid"} BY <1>4, OpFields
  <1>6. /\ pos' \in [Tools -> 0 .. Len(file)] /\ \A x \in Tools \ {t} : pos'[x] = pos[x]
    BY <1>1, <1>2 DEF ZooTypeOK
  <1>7. /\ stage' \in [Tools -> Stages] /\ stage'[t] = "dead"
        /\ \A x \in Tools \ {t} : stage'[x] = stage[x]
    BY <1>1, <1>2 DEF ZooTypeOK, Stages
  <1>8. Types' BY <1>1, <1>2, <1>4, <1>5, <1>6, <1>7, ZenonT(30) DEF Types, ZooTypeOK, mine, Stages
  <1>9. \A x \in Tools \ {t} : Keeps(x) BY <1>1, <1>4, <1>6, <1>7, ZenonT(30) DEF Keeps, mine
  <1>10. Locked(t)' BY <1>4, ZenonT(30) DEF Locked
  <1>11. PanKnows(t)'
    <2>1. Expected(t)' = listed[t] BY <1>1, <1>4 DEF Expected
    <2> QED BY <1>1, <1>2, <1>4, <1>7, <2>1, ZenonT(30) DEF PanKnows, Idle
  <1>12. Registered' /\ NoWaste' BY <1>1, <1>2, CountsStand
  <1>13. t \notin Bumps BY ZooConstants
  <1>14. (lock' = lock /\ file' = file) \/ lock \in {t, Nobody} BY <1>1
  <1>15. used \subseteq used' /\ \A x \in Pans \ {t} : listed'[x] = listed[x] BY <1>1 DEF mine
  <1> QED
    BY <1>2, <1>7, <1>8, <1>9, <1>10, <1>11, <1>12, <1>13, <1>14, <1>15, StepKeeps, ZenonT(30)

\* ltp-bump looks for a tag, and clears the line of the process it finds dead.
LEMMA BumpKeeps == ASSUME ZooInv, NEW t \in Bumps, Bump(t) PROVE ZooInv'
  <1>1. /\ t \in Tools /\ t \notin Pans /\ op \in [Tools -> Ops] /\ ZooTypeOK
        /\ {"start", "kill", "leave"} \subseteq Stages \ {"dead"}
    BY ZooConstants DEF Tools, ZooInv, Stages
  <1>2. UNCHANGED mine => Locals(t) BY <1>1 DEF Locals, mine, ZooTypeOK
  <1>3. CASE BumpLooks(t)
    <2>1. PICK n \in Pans : Ask(t, [do |-> "getpid", at |-> "lock", tag |-> n])
      BY <1>3 DEF BumpLooks
    <2> DEFINE o == [do |-> "getpid", at |-> "lock", tag |-> n]
    <2>2. o \in Ops /\ o.at = "lock" /\ o.do = "getpid" BY DEF Ops, At
    <2>3. op'[t] = o BY <1>1, <2>1 DEF Ask
    <2>4. BumpKnows(t)' BY <2>2, <2>3 DEF BumpKnows
    <2>5. Goes(t, "start", "kill") /\ UNCHANGED mine BY <1>3, ZenonT(30) DEF BumpLooks
    <2> HIDE DEF o
    <2> QED BY <1>1, <1>2, <2>1, <2>2, <2>4, <2>5, AskKeeps, ZenonT(30) DEF o
  <1>4. CASE BumpClears(t)
    <2>1. /\ Goes(t, "kill", "leave") /\ UNCHANGED mine /\ Ask(t, ClearOp(cpid[t]))
          /\ stage' = [stage EXCEPT ![t] = "leave"]
          /\ cpid[t] \in Pans /\ stage[cpid[t]] = "dead"
      BY <1>4 DEF BumpClears, Alive, Goes
    <2>2. cpid[t] \in Pids BY <2>1 DEF Pids
    <2>3. op'[t] = ClearOp(cpid[t]) /\ stage'[cpid[t]] = "dead"
      BY <1>1, <2>1, ZenonT(30) DEF Ask, ZooTypeOK, Tools
    <2>4. BumpKnows(t)' BY <2>1, <2>2, <2>3, ClearIsOp, ZenonT(30) DEF BumpKnows
    <2>5. ClearOp(cpid[t]) \in Ops /\ ClearOp(cpid[t]).at = "lock" BY <2>2, ClearIsOp
    <2> QED BY <1>1, <1>2, <2>1, <2>4, <2>5, AskKeeps, ZenonT(30)
  <1>5. CASE BumpDone(t)
    <2>1. /\ Goes(t, "kill", "leave") /\ Idle(t)
          /\ UNCHANGED <<file, lock, op, pos, mine, listed, peak>>
      BY <1>5 DEF BumpDone, Goes
    <2>2. op[t] = NoOp BY <1>1, <2>1, OpFields DEF Idle
    <2>3. Ask(t, NoOp) /\ NoOp \in Ops /\ NoOp.do = "none" /\ op'[t].do = "none"
      BY <1>1, <2>1, <2>2, AskNothing
    <2>4. BumpKnows(t)' BY <2>3 DEF BumpKnows
    <2> QED BY <1>1, <1>2, <2>1, <2>3, <2>4, AskKeeps, ZenonT(30)
  <1> QED BY <1>3, <1>4, <1>5 DEF Bump
-----------------------------------------------------------------------------
(* The theorems *)

LEMMA ZooInitInv == Init => ZooInv
  <1> SUFFICES ASSUME Init PROVE ZooInv OBVIOUS
  <1>1. file = <<>> /\ Len(file) = 0 /\ DOMAIN file = {} BY DEF Init
  <1>2. NoOp \in Ops /\ NoOp.do = "none" BY DEF Ops, NoOp
  <1>3. op \in [Tools -> Ops] /\ \A t \in Tools : op[t] = NoOp /\ op[t].do = "none"
    BY <1>2 DEF Init
  <1>4. ZooTypeOK
    <2>1. file \in Seq(Lines) BY <1>1
    <2>2. 0 \in 0 .. KeepActive BY ZooConstants
    <2> QED BY <1>1, <1>3, <2>1, <2>2 DEF Init, ZooTypeOK
  <1>5. Registered
    <2>1. ASSUME NEW p \in Pids PROVE LinesOf(p) = Cardinality({t \in Pans : p \in listed[t]})
      <3>1. {i \in InUse : file[i].pid = p} = {} BY <1>1 DEF InUse
      <3>2. {t \in Pans : p \in listed[t]} = {} BY DEF Init
      <3> QED BY <3>1, <3>2, ZenonT(30) DEF LinesOf
    <2> QED BY <2>1 DEF Registered
  <1>6. NoWaste BY <1>1 DEF Init, NoWaste
  <1>7. \A t \in Tools : Locked(t) BY <1>3 DEF Locked
  <1>8. \A t \in Pans : PanKnows(t)
    <2>1. ASSUME NEW t \in Pans PROVE PanKnows(t)
      <3>1. /\ t \in Tools /\ listed[t] = {} /\ orphans[t] = {} /\ stage[t] = "start"
            /\ c[t] = 0
        BY DEF Init, Tools
      <3>2. Expected(t) = {} BY <1>3, <3>1 DEF Expected
      <3> QED BY <1>3, <3>1, <3>2, ZenonT(30) DEF PanKnows
    <2> QED BY <2>1, ZenonT(30)
  <1>9. \A t \in Bumps : BumpKnows(t) BY <1>3 DEF BumpKnows, Tools
  <1> QED BY <1>3, <1>4, <1>5, <1>6, <1>7, <1>8, <1>9, ZenonT(30) DEF ZooInv

LEMMA ZooInvStep == ZooInv /\ [Next]_vars => ZooInv'
  <1> SUFFICES ASSUME ZooInv, [Next]_vars PROVE ZooInv' OBVIOUS
  <1>1. ASSUME NEW t \in Pans, Pan(t) PROVE ZooInv'
    BY <1>1, MarkSelfKeeps, AllocateKeeps, DeallocateKeeps, PanMoves, StartKeeps, ReapedKeeps,
       OrphanedKeeps, OrphanGoneKeeps, LeaveKeeps, ZenonT(30) DEF Pan
  <1>2. ASSUME NEW t \in Tools, Lib(t) PROVE ZooInv'
    BY <1>2, ZooLockKeeps, ScanKeeps, WriteMarkKeeps, WriteClearKeeps, NotFoundKeeps,
       GetPidKeeps, ZenonT(30) DEF Lib
  <1>3. CASE UNCHANGED vars
    <2>1. \A t : /\ Expected(t)' = Expected(t) /\ Locked(t)' = Locked(t)
                 /\ Idle(t)' = Idle(t)
      BY <1>3, ZenonT(30) DEF vars, Expected, Locked, Idle
    <2>2. \A t : PanKnows(t)' = PanKnows(t) /\ BumpKnows(t)' = BumpKnows(t)
      BY <1>3, <2>1 DEF vars, mine, PanKnows, BumpKnows
    <2>3. Registered' /\ NoWaste' BY <1>3, CountsStand, ZenonT(30) DEF vars, ZooInv
    <2>4. ZooTypeOK' /\ op' \in [Tools -> Ops] BY <1>3 DEF ZooInv, ZooTypeOK, vars, mine
    <2> QED BY <2>1, <2>2, <2>3, <2>4, ZenonT(30) DEF ZooInv
  <1> QED BY <1>1, <1>2, <1>3, BumpKeeps, CrashKeeps, ZenonT(30) DEF Next, Step, Done

\* The strengthened invariant holds for every number of ltp-pans, ltp-bumps and
\* commands, every -x, and wherever an ltp-pan is killed.
THEOREM ZooInvariant == Spec => []ZooInv
  BY ZooInitInv, ZooInvStep, PTL DEF Spec

\* All variables of the tools that share the active file keep their types.
THEOREM ZooTypes == Spec => []ZooTypeOK
  <1>1. ZooInv => ZooTypeOK BY DEF ZooInv
  <1> QED BY <1>1, ZooInvariant, PTL

\* zoo_mark() and zoo_clear(): the file holds a line for a pid exactly as often as it
\* has been marked and not cleared, whoever else uses the file and whoever is killed.
THEOREM LinesRegistered == Spec => []Registered
  <1>1. ZooInv => Registered BY DEF ZooInv
  <1> QED BY <1>1, ZooInvariant, PTL

\* zoo_mark() reuses freed lines: the file is never longer than the most lines that
\* were in use at one time.
THEOREM FileNotWasted == Spec => []NoWaste
  <1>1. ZooInv => NoWaste BY DEF ZooInv
  <1> QED BY <1>1, ZooInvariant, PTL

\* A step that leaves the file alone leaves the register alone.
LEMMA SameFile ==
    ASSUME file' = file
    PROVE  [p \in Pids |-> LinesOf(p)]' = [p \in Pids |-> LinesOf(p)]
  <1>1. \A p : LinesOf(p)' = LinesOf(p) BY DEF LinesOf, InUse
  <1> QED BY <1>1

\* zoolib.c implements a register: of all that the tools do, exactly the write of
\* zoo_mark() adds one entry and the write of zoo_clear() takes one away.
THEOREM ZooImplementsRegister == Spec => RegisterImplemented
  <1> DEFINE n == [p \in Pids |-> LinesOf(p)]
  <1>1. Init => R!Init
    <2> SUFFICES ASSUME Init, NEW p \in Pids PROVE LinesOf(p) = 0 BY DEF R!Init
    <2>1. {i \in InUse : file[i].pid = p} = {} BY DEF Init, InUse
    <2> QED BY <2>1, FS_EmptySet, ZenonT(30) DEF LinesOf
  <1>2. ZooInv /\ [Next]_vars => [R!Next]_n
    <2> SUFFICES ASSUME ZooInv, [Next]_vars PROVE R!Next \/ n' = n OBVIOUS
    <2>1. file \in Seq(Lines) BY DEF ZooInv, ZooTypeOK
    <2>2. ASSUME NEW t \in Tools, WriteMark(t) PROVE R!Next
      <3>1. PICK k : \E line \in Marked :
                  line.pid = op[t].pid /\ k \notin InUse /\ Rewrites(k, line)
        BY <2>2, MarkWrites, ZenonT(30)
      <3>2. PICK line \in Marked :
                  line.pid = op[t].pid /\ k \notin InUse /\ Rewrites(k, line)
        BY <3>1, ZenonT(30)
      <3>3. \A p : LinesOf(p)' = IF p = line.pid THEN LinesOf(p) + 1 ELSE LinesOf(p)
        BY <2>1, <3>2, MarkCounts
      <3>4. line.pid \in Pids BY DEF Marked
      <3>5. n' = [n EXCEPT ![line.pid] = n[line.pid] + 1] BY <3>3, <3>4
      <3> QED BY <3>4, <3>5, ZenonT(30) DEF R!Next, R!Mark
    <2>3. ASSUME NEW t \in Tools, WriteClear(t) PROVE R!Next
      <3> DEFINE q == op[t].pid
      <3>1. /\ pos[t] \in InUse /\ file[pos[t]].pid = q /\ Rewrites(pos[t], Free)
        BY <2>3, ClearWrites
      <3>2. /\ LinesOf(q) > 0
            /\ \A p : LinesOf(p)' = IF p = q THEN LinesOf(p) - 1 ELSE LinesOf(p)
        BY <2>1, <3>1, ClearCounts, ZenonT(30)
      <3>3. q \in Pids BY <2>3, OpFields DEF WriteClear, ZooInv
      <3> HIDE DEF q
      <3>4. n' = [n EXCEPT ![q] = n[q] - 1] /\ n[q] > 0 BY <3>2, <3>3, ZenonT(30)
      <3> QED BY <3>3, <3>4, ZenonT(30) DEF R!Next, R!Clear
    <2>4. CASE file' = file BY <2>4, SameFile
    <2>5. (\E t \in Tools : WriteMark(t) \/ WriteClear(t)) \/ file' = file
      <3>1. ASSUME NEW t \in Tools, Step(t) PROVE WriteMark(t) \/ WriteClear(t) \/ file' = file
        BY <3>1 DEF Step, Pan, Bump, Lib, ZooLock, Scan, NotFound, GetPid, MarkSelf, Allocate,
           Deallocate, Ready, Start, Reaped, Orphaned, NotOrphaned, OrphanGone, Leave, Gone,
           BumpLooks, BumpClears, BumpDone, Ask
      <3> QED BY <3>1, ZenonT(30) DEF Next, Crash, Done, vars
    <2> QED BY <2>2, <2>3, <2>4, <2>5
  <1> QED BY <1>1, <1>2, ZooInvariant, PTL DEF Spec, RegisterImplemented, R!Spec
=============================================================================
