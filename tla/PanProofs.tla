----------------------------- MODULE PanProofs -----------------------------
(***************************************************************************)
(* For every number of slots, processes and commands, every combination of *)
(* options and every sequence of signals: num_active counts the occupied   *)
(* slots less the strays, every command gets one verdict, and unless a     *)
(* child escapes run_child ltp-pan leaves nothing behind when it exits.    *)
(***************************************************************************)
EXTENDS Pan, FiniteSetTheorems, TLAPS

\* The invariant and the types under names that stay folded in the statements of the
\* lemmas when a proof expands PanInv and TypeOK.
Inv == PanInv
Typed == TypeOK
-----------------------------------------------------------------------------
(* The slots as finite sets, and the types after every step *)

\* The table of running commands holds finitely many.
LEMMA OccupiedFinite == IsFiniteSet(Occupied) /\ Cardinality(Occupied) \in Nat
  <1>1. IsFiniteSet(Slots) BY PanConstants, FS_Interval DEF Slots
  <1>2. Occupied \in SUBSET Slots BY DEF Occupied
  <1> QED BY <1>1, <1>2, FS_Subset, FS_CardinalityType

\* There are keep_active slots.
LEMMA SlotsCardinality == IsFiniteSet(Slots) /\ Cardinality(Slots) = KeepActive
  <1>1. 0 \in Int /\ KeepActive - 1 \in Int /\ ~(0 > KeepActive - 1) BY PanConstants
  <1> QED BY <1>1, FS_Interval, PanConstants DEF Slots

\* Putting a process into a free slot.
LEMMA TakeSlot ==
    ASSUME pgrp \in [Slots -> Pids \cup {None}], NEW i \in Slots, NEW p \in Pids,
           i \notin Occupied, pgrp' = [pgrp EXCEPT ![i] = p]
    PROVE  /\ Occupied' = Occupied \cup {i}
           /\ Held' = Held \cup {p}
           /\ Cardinality(Occupied') = Cardinality(Occupied) + 1
  <1>1. p # None BY PanConstants
  <1>2. Occupied' = Occupied \cup {i} BY <1>1 DEF Occupied
  <1>3. \A j \in Occupied : pgrp'[j] = pgrp[j] BY DEF Occupied
  <1>4. pgrp'[i] = p OBVIOUS
  <1>5. Held' = Held \cup {p} BY <1>2, <1>3, <1>4 DEF Held
  <1> QED BY <1>2, <1>5, OccupiedFinite, FS_AddElement, Zenon

\* Freeing one.
LEMMA FreeSlot ==
    ASSUME pgrp \in [Slots -> Pids \cup {None}], NEW i \in Occupied,
           pgrp' = [pgrp EXCEPT ![i] = None]
    PROVE  /\ Occupied' = Occupied \ {i}
           /\ Held \subseteq Held' \cup {pgrp[i]} /\ Held' \subseteq Held
           /\ Cardinality(Occupied') = Cardinality(Occupied) - 1
           /\ \A j \in Occupied' : pgrp'[j] = pgrp[j]
  <1>1. Occupied' = Occupied \ {i} BY DEF Occupied
  <1>2. \A j \in Occupied' : pgrp'[j] = pgrp[j] BY <1>1 DEF Occupied
  <1>3. Held \subseteq Held' \cup {pgrp[i]} /\ Held' \subseteq Held BY <1>1, <1>2 DEF Held
  <1> QED BY <1>1, <1>2, <1>3, OccupiedFinite, FS_RemoveElement, Zenon

\* Types are kept by a step that changes nothing.
LEMMA StutterType == ASSUME TypeOK, UNCHANGED vars PROVE TypeOK'
  BY DEF vars, sched, slots, books, local, procs, hist, rvars, TypeOK, RatchetTypeOK

\* ltp-pan starts with empty tables and its own line in the active file.
LEMMA InitInv == Init => PanInv
  <1> SUFFICES ASSUME Init PROVE PanInv OBVIOUS
  <1>1. TypeOK
    <2>1. /\ stop \in BOOLEAN /\ go_idle \in BOOLEAN /\ fork_in_road \in BOOLEAN
          /\ failed \in BOOLEAN /\ unstarted \in BOOLEAN /\ braked \in BOOLEAN
          /\ stopping \in [Slots -> BOOLEAN]
      BY PanConstants, Zenon DEF Init
    <2>2. starts \in Nat \cup {-1} BY PanConstants DEF Init, InitialStarts
    <2> QED BY <2>1, <2>2, PanConstants
            DEF Init, TypeOK, Zombies, Exits, Terminal, ExitCodes, RatchetInit, RatchetTypeOK
  <1>2. Occupied = {} BY DEF Init, Occupied
  <1>3. Held = {} BY <1>2 DEF Held
  <1>4. InFlight = {} BY DEF Init, InFlight
  <1>5. Children = {} BY DEF Init, Children
  <1>6. ActiveLaw /\ VerdictLaw BY <1>2, <1>4, FS_EmptySet DEF ActiveLaw, VerdictLaw, Init
  <1> QED BY <1>1, <1>2, <1>3, <1>4, <1>5, <1>6 DEF PanInv, ZooTracks, Init
-----------------------------------------------------------------------------
\* The four ways in which ltp-pan and its handler change the ratchet.
LEMMA RatchetType ==
    ASSUME RatchetTypeOK
    PROVE  /\ \A sig \in Handled : WaitHandler(sig) => RatchetTypeOK'
           /\ ResetRatchet => RatchetTypeOK'
           /\ TakeSignal => RatchetTypeOK'
           /\ AlarmIsTerm => RatchetTypeOK'
           /\ UNCHANGED rvars => RatchetTypeOK'
  <1>1. ASSUME NEW sig \in Handled, WaitHandler(sig) PROVE RatchetTypeOK'
    <2>1. rec_signal' \in Handled \cup {"none"} BY <1>1 DEF WaitHandler
    <2>2. sig # "USR2" => Escalate(sig) \in Sendable \cup {"none"}
      BY DEF Escalate, Sendable, RatchetTypeOK
    <2> QED BY <1>1, <2>1, <2>2 DEF WaitHandler, RatchetTypeOK
  <1>2. ResetRatchet => RatchetTypeOK' BY DEF ResetRatchet, RatchetTypeOK
  <1>3. TakeSignal => RatchetTypeOK' BY DEF TakeSignal, RatchetTypeOK
  <1>4. AlarmIsTerm => RatchetTypeOK' BY PanSignals DEF AlarmIsTerm, RatchetTypeOK
  <1>5. UNCHANGED rvars => RatchetTypeOK' BY DEF rvars, RatchetTypeOK
  <1> QED BY <1>1, <1>2, <1>3, <1>4, <1>5

\* What a signal does to the handler's variables and to the count of signals.
LEMMA ArrivesType == ASSUME TypeOK, NEW sig \in Signals, Arrives(sig)
                     PROVE  nsig' \in 0 .. MaxSignals /\ RatchetTypeOK'
  <1>1. nsig' \in 0 .. MaxSignals BY PanConstants DEF Arrives, TypeOK
  <1>2. RatchetTypeOK' BY PanSignals, RatchetType DEF Arrives, TypeOK
  <1> QED BY <1>1, <1>2

\* A kill() ends processes or none.
LEMMA KillType ==
    ASSUME st \in [Pids -> {"none", "forked", "running"} \cup Zombies], kids \subseteq Pids,
           NEW ps, KillGroups(ps)
    PROVE  /\ st' \in [Pids -> {"none", "forked", "running"} \cup Zombies]
           /\ kids' \subseteq Pids
  <1>1. CASE send_signal = "KILL" BY <1>1 DEF KillGroups, Zombies, Exits
  <1>2. CASE send_signal # "KILL" BY <1>2 DEF KillGroups, procs
  <1> QED BY <1>1, <1>2

\* What the result of check_pids changes.
LEMMA AfterCheckType ==
    ASSUME exit_stat \in 0 .. ExitCodes - 1, braked \in BOOLEAN, RatchetTypeOK,
           NEW err, AfterCheck(err)
    PROVE  /\ go_idle' \in BOOLEAN /\ braked' \in BOOLEAN
           /\ exit_stat' \in 0 .. ExitCodes - 1 /\ RatchetTypeOK'
  <1>1. go_idle' \in BOOLEAN BY Zenon DEF AfterCheck
  <1>2. exit_stat' \in 0 .. ExitCodes - 1 BY DEF AfterCheck, ExitCodes
  <1>3. CASE err /\ HasBrakes
    BY <1>1, <1>2, <1>3, RatchetType, PanSignals DEF AfterCheck
  <1>4. CASE ~(err /\ HasBrakes)
    BY <1>1, <1>2, <1>4, RatchetType DEF AfterCheck
  <1> QED BY <1>3, <1>4

\* The steps of the commands, their children and ltp-bump keep the types.
LEMMA ProcessType == ASSUME TypeOK, Process PROVE TypeOK'
  <1> USE DEF panvars, sched, slots, books, local, procs, hist, rvars
  <1>1. PICK p \in Pids : \/ Exec(p) \/ ExecFails(p) \/ TestEnds(p)
                          \/ Spawns(p) \/ KidsEnd(p) \/ BumpClears(p)
    BY DEF Process
  <1>2. CASE Exec(p) \/ ExecFails(p) \/ TestEnds(p)
    <2>1. PICK z \in {"running"} \cup Zombies : st' = [st EXCEPT ![p] = z]
      BY <1>2, PanOutcomes DEF Exec, ExecFails, TestEnds, Becomes, Zombies, Exits
    <2>2. kids' = kids /\ UNCHANGED panvars BY <1>2, Zenon DEF Exec, ExecFails, TestEnds
    <2>3. st' \in [Pids -> {"none", "forked", "running"} \cup Zombies]
      BY <2>1, Zenon DEF TypeOK
    <2> QED BY <2>2, <2>3 DEF TypeOK, RatchetTypeOK
  <1>3. CASE Spawns(p) BY <1>3 DEF Spawns, TypeOK, RatchetTypeOK
  <1>4. CASE KidsEnd(p) BY <1>4 DEF KidsEnd, TypeOK, RatchetTypeOK
  <1>5. CASE BumpClears(p) BY <1>5 DEF BumpClears, TypeOK, RatchetTypeOK
  <1> QED BY <1>1, <1>2, <1>3, <1>4, <1>5

\* The signals that cut no verdict short change the place in the code at most.
LEMMA SignalType ==
    ASSUME TypeOK, NEW sig \in Signals,
           \/ Signalled(sig) \/ InterruptRead(sig) \/ InterruptWait(sig)
    PROVE  TypeOK'
  <1> USE DEF sched, slots, books, local, procs
  <1>1. Arrives(sig) BY DEF Signalled, InterruptRead, InterruptWait
  <1>2. nsig' \in 0 .. MaxSignals /\ RatchetTypeOK' BY <1>1, ArrivesType
  <1>3. CASE Signalled(sig) BY <1>2, <1>3 DEF Signalled, TypeOK
  <1>4. CASE InterruptRead(sig) BY <1>2, <1>4 DEF InterruptRead, TypeOK, Terminal
  <1>5. CASE InterruptWait(sig) BY <1>2, <1>5 DEF InterruptWait, TypeOK
  <1> QED BY <1>3, <1>4, <1>5

\* The one that does writes a verdict and lets the child escape.
LEMMA EscapeType == ASSUME TypeOK, NEW sig \in Signals, InterruptWaitpid(sig)
                    PROVE  TypeOK'
  <1> USE DEF sched, slots, books, local, procs
  <1>1. Arrives(sig) BY DEF InterruptWaitpid
  <1>2. nsig' \in 0 .. MaxSignals /\ RatchetTypeOK' BY <1>1, ArrivesType
  <1>3. unstarted' \in BOOLEAN BY Zenon DEF InterruptWaitpid
  <1>4. starts' \in Nat \cup {-1} BY DEF InterruptWaitpid, NotStarted, TypeOK
  <1>5. /\ pc' = "fill" /\ owed' = owed - 1 /\ leaked' = leaked + 1
        /\ UNCHANGED <<num_active, pgrp, orphans, zoo, cpid, st, kids, stray, phase>>
        /\ UNCHANGED <<stop, go_idle, exit_stat, fork_in_road, stopping, stat_loc, slot,
                       failed, braked>>
    BY ZenonT(30) DEF InterruptWaitpid
  <1> QED BY <1>2, <1>3, <1>4, <1>5 DEF TypeOK

\* What ltp-pan does between two changes of its tables.
LEMMA QuietInv ==
    ASSUME Inv, Typed',
           UNCHANGED <<num_active, pgrp, orphans, zoo, cpid, st, kids, owed, stray, leaked>>,
           InFlight' = InFlight, pc' = "reaped" => pc = "reaped",
           pc' = "exit" <=> pc = "exit", pc = "aborted" => pc' = "aborted",
           phase' = "end" => /\ pc' \in {"orphans", "propagate", "propagated", "exit"}
                             /\ num_active = 0,
           pc' \in {"orphans", "exit"} => phase' = "end"
    PROVE  Inv'
  <1> PanInv /\ TypeOK' BY DEF Inv, Typed
  <1> SUFFICES PanInv' BY DEF Inv
  <1>1. Occupied' = Occupied /\ Held' = Held /\ Children' = Children
    BY DEF Occupied, Held, Children
  <1>2. ActiveLaw' /\ VerdictLaw' BY <1>1 DEF PanInv, ActiveLaw, VerdictLaw
  <1>3. ~Bump => ZooTracks' BY <1>1 DEF PanInv, ZooTracks
  <1>4. \A i, j \in Occupied' : pgrp'[i] = pgrp'[j] => i = j
    <2>1. \A i, j \in Occupied : pgrp[i] = pgrp[j] => i = j BY DEF PanInv
    <2> QED BY <1>1, <2>1
  <1> QED BY <1>1, <1>2, <1>3, <1>4 DEF PanInv
-----------------------------------------------------------------------------
\* Every step of ltp-pan keeps the variables in their types.
LEMMA PanStepType == ASSUME Inv, PanStep PROVE Typed'
  <1> PanInv BY DEF Inv
  <1> SUFFICES TypeOK' BY DEF Typed
  <1> USE PanConstants, PanSignals
  <1> USE DEF TypeOK, sched, slots, books, local, procs, hist, Terminal
  <1>0. TypeOK /\ (InFlight \subseteq Pids) BY DEF PanInv
  <1>r. /\ \A sig \in Handled : WaitHandler(sig) => RatchetTypeOK'
        /\ ResetRatchet => RatchetTypeOK'
        /\ TakeSignal => RatchetTypeOK'
        /\ AlarmIsTerm => RatchetTypeOK'
        /\ UNCHANGED rvars => RatchetTypeOK'
    BY <1>0, RatchetType, ZenonT(30)
  <1>1. ASSUME Fork PROVE TypeOK' BY <1>0, <1>r, <1>1 DEF Fork, Zombies, Exits
  <1>2. ASSUME StartFails PROVE TypeOK' BY <1>0, <1>r, <1>2 DEF StartFails, NotStarted
  <1>3. ASSUME Abort PROVE TypeOK' BY <1>0, <1>r, <1>3 DEF Abort, ExitCodes
  <1>4. ASSUME ReadEof PROVE TypeOK' BY <1>0, <1>r, <1>4 DEF ReadEof, InFlight
  <1>5. ASSUME ReadError PROVE TypeOK' BY <1>0, <1>r, <1>5, ZenonT(30) DEF ReadError
  <1>6. ASSUME Waitpid PROVE TypeOK'
    <2>1. unstarted' \in BOOLEAN BY <1>6, Zenon DEF Waitpid
    <2>2. /\ starts' \in Nat \cup {-1} /\ leaked' \in Nat /\ owed' \in Int
          /\ st' \in [Pids -> {"none", "forked", "running"} \cup Zombies]
      <3>1. /\ NotStarted /\ owed' = owed - 1
            /\ leaked' = IF cpid \in kids THEN leaked + 1 ELSE leaked
            /\ st' = [st EXCEPT ![cpid] = "none"]
        BY <1>6, Zenon DEF Waitpid
      <3>2. starts' \in Nat \cup {-1} BY <1>0, <3>1 DEF NotStarted
      <3>3. leaked' \in Nat BY <1>0, <3>1
      <3>4. owed' \in Int BY <1>0, <3>1
      <3>5. st' \in [Pids -> {"none", "forked", "running"} \cup Zombies] BY <1>0, <3>1, Zenon
      <3> QED BY <3>2, <3>3, <3>4, <3>5
    <2>3. UNCHANGED <<phase, num_active, exit_stat, stop, go_idle, fork_in_road, pgrp, stopping,
                      orphans, zoo, cpid, stat_loc, slot, kids, stray, nsig, failed, braked>>
      BY <1>6 DEF Waitpid
    <2>4. pc' = "fill" /\ RatchetTypeOK' BY <1>r, <1>6, ZenonT(30) DEF Waitpid
    <2> QED BY <1>0, <2>1, <2>2, <2>3, <2>4
  <1>7. ASSUME LeaveFill PROVE TypeOK'
    <2>1. stop' \in BOOLEAN BY <1>0, <1>7, Zenon DEF LeaveFill
    <2>2. /\ pc' = "signal"
          /\ UNCHANGED <<starts, num_active, go_idle, exit_stat, fork_in_road,
                         slots, books, local, procs, hist, rvars>>
      BY <1>7, Zenon DEF LeaveFill
    <2> QED BY <1>0, <1>r, <2>1, <2>2
  <1>8. ASSUME NoSignal PROVE TypeOK' BY <1>0, <1>r, <1>8, ZenonT(30) DEF NoSignal
  <1>9. ASSUME StopScheduler PROVE TypeOK'
    BY <1>0, <1>r, <1>9, ZenonT(30) DEF StopScheduler, StopOrIdle
  <1>10. ASSUME Propagate PROVE TypeOK' BY <1>0, <1>r, <1>10 DEF Propagate
  <1>11. ASSUME KillSlot PROVE TypeOK'
    <2>1. KillGroups({pgrp[slot]}) BY <1>11, Zenon DEF KillSlot
    <2>2. /\ st' \in [Pids -> {"none", "forked", "running"} \cup Zombies]
          /\ kids' \subseteq Pids
      BY <1>0, <2>1, KillType, Zenon
    <2>3. stopping' \in [Slots -> BOOLEAN] BY <1>0, <1>11, ZenonT(30) DEF KillSlot
    <2>4. slot' \in 0 .. KeepActive BY <1>0, <1>11 DEF KillSlot, Slots
    <2>5. UNCHANGED <<pc, sched, pgrp, books, cpid, stat_loc, phase, hist, rvars>>
      BY <1>11, Zenon DEF KillSlot
    <2> QED BY <1>0, <1>r, <2>2, <2>3, <2>4, <2>5
  <1>12. ASSUME KillOrphans PROVE TypeOK'
    <2>1. KillGroups(orphans) BY <1>12, Zenon DEF KillOrphans
    <2>2. /\ st' \in [Pids -> {"none", "forked", "running"} \cup Zombies]
          /\ kids' \subseteq Pids
      BY <1>0, <2>1, KillType, Zenon
    <2>3. /\ pc' = "propagated" /\ orphans' \subseteq orphans /\ zoo' \subseteq zoo
          /\ UNCHANGED <<sched, slots, local, hist, rvars>>
      BY <1>12, Zenon DEF KillOrphans, CheckOrphans
    <2> QED BY <1>0, <1>r, <2>2, <2>3
  <1>13. ASSUME PropagateEnd PROVE TypeOK'
    <2>1. stop' \in BOOLEAN /\ go_idle' \in BOOLEAN
      BY <1>0, <1>13, Zenon DEF PropagateEnd, StopOrIdle
    <2> QED BY <1>0, <1>r, <1>13, <2>1 DEF PropagateEnd
  <1>14. ASSUME Check PROVE TypeOK' BY <1>0, <1>r, <1>14, ZenonT(30) DEF Check, CheckOrphans
  <1>15. ASSUME WaitReap PROVE TypeOK' BY <1>0, <1>r, <1>15 DEF WaitReap, Zombies, Exits, Children
  <1>16. ASSUME WaitNone PROVE TypeOK' BY <1>0, <1>r, <1>16, ZenonT(30) DEF WaitNone
  <1>c. ASSUME NEW err, AfterCheck(err)
        PROVE  /\ go_idle' \in BOOLEAN /\ braked' \in BOOLEAN
               /\ exit_stat' \in 0 .. ExitCodes - 1 /\ RatchetTypeOK'
    BY <1>0, <1>c, AfterCheckType, Zenon
  <1>17. ASSUME RecordStray PROVE TypeOK'
    <2>1. PICK err : AfterCheck(err) BY <1>17, ZenonT(30) DEF RecordStray
    <2>2. /\ num_active' = num_active - 1 /\ stray' = stray + 1 /\ pc' = "loop"
          /\ UNCHANGED <<starts, stop, fork_in_road, slots, books, local, procs,
                         owed, leaked, failed, unstarted, nsig>>
      BY <1>17, ZenonT(30) DEF RecordStray
    <2> QED BY <1>0, <1>c, <2>1, <2>2
  <1>18. ASSUME LoopEnd PROVE TypeOK'
    <2>1. go_idle' \in BOOLEAN /\ phase' \in {"run", "end"} /\ pc' \in {"orphans", "fill"}
      BY <1>0, <1>18, Zenon DEF LoopEnd
    <2>2. ResetRatchet \/ UNCHANGED rvars BY <1>18, Zenon DEF LoopEnd
    <2>3. UNCHANGED <<starts, num_active, stop, exit_stat, fork_in_road, slots, books,
                      cpid, stat_loc, slot, procs, hist>>
      BY <1>18, Zenon DEF LoopEnd
    <2> QED BY <1>0, <1>r, <2>1, <2>2, <2>3
  <1>19. ASSUME HuntOrphans PROVE TypeOK' BY <1>0, <1>r, <1>19 DEF HuntOrphans
  <1>20. ASSUME Exit PROVE TypeOK' BY <1>0, <1>r, <1>20, ZenonT(30) DEF Exit
  <1>21. ASSUME NEW i \in Slots, RecordSlot(i) PROVE TypeOK'
    <2>1. failed' \in BOOLEAN BY <1>21, ZenonT(30) DEF RecordSlot
    <2>2. CASE cpid \in zoo
      <3>1. PICK err : AfterCheck(err) BY <1>21, <2>2, ZenonT(30) DEF RecordSlot
      <3>2. /\ pgrp' = [pgrp EXCEPT ![i] = None] /\ num_active' = num_active - 1
            /\ owed' = owed - 1 /\ pc' = "loop"
            /\ zoo' \subseteq zoo /\ orphans' \subseteq orphans \cup {cpid}
            /\ cpid \in kids \/ orphans' = orphans
            /\ UNCHANGED <<starts, stop, fork_in_road, stopping, local, procs,
                           stray, leaked, unstarted, nsig>>
        BY <1>21, <2>2, ZenonT(30) DEF RecordSlot
      <3> QED BY <1>0, <1>c, <2>1, <3>1, <3>2
    <2>3. CASE cpid \notin zoo
      <3>1. /\ pgrp' = [pgrp EXCEPT ![i] = None] /\ num_active' = num_active - 1
            /\ owed' = owed - 1 /\ pc' = "aborted"
            /\ UNCHANGED <<books, go_idle, exit_stat, rvars, braked>>
            /\ UNCHANGED <<starts, stop, fork_in_road, stopping, local, procs,
                           stray, leaked, unstarted, nsig>>
        BY <1>21, <2>3, ZenonT(30) DEF RecordSlot
      <3> QED BY <1>0, <1>r, <2>1, <3>1
    <2> QED BY <2>2, <2>3
  <1> QED BY <1>1, <1>2, <1>3, <1>4, <1>5, <1>6, <1>7, <1>8, <1>9, <1>10, <1>11, <1>12, <1>13, <1>14,
             <1>15, <1>16, <1>17, <1>18, <1>19, <1>20, <1>21, Zenon DEF PanStep
-----------------------------------------------------------------------------
(* The steps that change the slots, the orphans or the active file *)

\* The steps of ltp-pan that change none of its tables.
LEMMA PanQuietStep ==
    ASSUME Inv, Typed',
           \/ StartFails \/ Abort \/ ReadError \/ LeaveFill \/ NoSignal \/ StopScheduler
           \/ Propagate \/ WaitNone \/ LoopEnd \/ HuntOrphans \/ PropagateEnd
    PROVE  Inv'
  <1> PanInv /\ TypeOK' BY DEF Inv, Typed
  <1> SUFFICES PanInv' BY ZenonT(30) DEF Inv
  <1> USE DEF sched, slots, books, local, procs, hist
  <1>0. /\ phase = "end" => /\ pc \in {"orphans", "propagate", "propagated", "exit"}
                            /\ num_active = 0
        /\ pc \in {"orphans", "exit"} => phase = "end"
        /\ phase \in {"run", "end"}
    BY DEF PanInv, TypeOK
  <1>1. CASE StartFails
    BY <1>0, <1>1, QuietInv DEF StartFails, InFlight, Inv, Typed
  <1>2. CASE Abort
    BY <1>0, <1>2, QuietInv, ZenonT(30) DEF Abort, InFlight, Inv, Typed
  <1>3. CASE ReadError
    BY <1>0, <1>3, QuietInv, ZenonT(30) DEF ReadError, InFlight, Inv, Typed
  <1>4. CASE LeaveFill
    BY <1>0, <1>4, QuietInv, ZenonT(30) DEF LeaveFill, InFlight, Inv, Typed
  <1>5. CASE NoSignal
    BY <1>0, <1>5, QuietInv DEF NoSignal, InFlight, Inv, Typed
  <1>6. CASE StopScheduler
    BY <1>0, <1>6, QuietInv, ZenonT(30) DEF StopScheduler, InFlight, Inv, Typed
  <1>7. CASE Propagate
    BY <1>0, <1>7, QuietInv, ZenonT(30) DEF Propagate, InFlight, Inv, Typed
  <1>8. CASE WaitNone
    BY <1>0, <1>8, QuietInv, ZenonT(30) DEF WaitNone, InFlight, Inv, Typed
  <1>9. CASE LoopEnd
    BY <1>0, <1>9, QuietInv, ZenonT(30) DEF LoopEnd, InFlight, Inv, Typed
  <1>10. CASE HuntOrphans
    BY <1>0, <1>10, QuietInv, ZenonT(30) DEF HuntOrphans, InFlight, Inv, Typed
  <1>11. CASE PropagateEnd
    BY <1>0, <1>11, QuietInv, ZenonT(30) DEF PropagateEnd, InFlight, Inv, Typed
  <1> QED BY <1>1, <1>2, <1>3, <1>4, <1>5, <1>6, <1>7, <1>8, <1>9, <1>10, <1>11
-----------------------------------------------------------------------------
\* run_child(): the fork.
LEMMA ForkInv == ASSUME Inv, Typed', Fork PROVE Inv'
  <1> PanInv /\ TypeOK' BY DEF Inv, Typed
  <1> SUFFICES PanInv' BY DEF Inv
  <1>1. PICK p \in Pids : /\ FreePid(p) /\ cpid' = p
                          /\ st' = [st EXCEPT ![p] = "forked"]
    BY Zenon DEF Fork
  <1>2. /\ pc = "fill" /\ pc' = "errpipe" /\ owed' = owed + 1
        /\ UNCHANGED <<num_active, pgrp, orphans, zoo, kids, stray, leaked, phase>>
    BY DEF Fork, sched, slots, books
  <1>3. Occupied' = Occupied /\ Held' = Held BY <1>2 DEF Occupied, Held
  <1>4. InFlight = {} /\ InFlight' = {p} BY <1>1, <1>2, ZenonT(30) DEF InFlight
  <1>5. ActiveLaw' BY <1>2, <1>3, ZenonT(30) DEF ActiveLaw, PanInv
  <1>6. VerdictLaw'
    <2>1. Cardinality(InFlight) = 0 /\ Cardinality(InFlight') = 1
      BY <1>4, FS_EmptySet, FS_Singleton, Zenon
    <2> QED BY <1>2, <1>3, <2>1, OccupiedFinite DEF VerdictLaw, PanInv
  <1>7. Children' \subseteq Children \cup {p} BY <1>1 DEF Children, PanInv, TypeOK
  <1>8. p \notin Held \cup orphans \cup zoo BY <1>1, ZenonT(30) DEF FreePid
  <1>9. ~Bump => ZooTracks' BY <1>2, <1>3, ZenonT(30) DEF ZooTracks, PanInv
  <1> QED BY <1>1, <1>2, <1>3, <1>4, <1>5, <1>6, <1>7, <1>8, <1>9 DEF PanInv

\* run_child(): the child has called execvp(), and gets a slot and a line in the active file.
LEMMA ReadEofInv == ASSUME Inv, Typed', ReadEof PROVE Inv'
  <1> PanInv /\ TypeOK' BY DEF Inv, Typed
  <1> SUFFICES PanInv' BY DEF Inv
  <1>1. PICK i \in Slots : FirstFree(i) /\ pgrp' = [pgrp EXCEPT ![i] = cpid]
    BY Zenon DEF ReadEof
  <1>2. /\ pc = "errpipe" /\ pc' = "fill" /\ zoo' = zoo \cup {cpid}
        /\ num_active' = num_active + 1
        /\ UNCHANGED <<orphans, cpid, st, kids, owed, stray, leaked, phase>>
    BY DEF ReadEof, local, procs, hist
  <1>3. InFlight = {cpid} /\ InFlight' = {} BY <1>2 DEF InFlight
  <1>4. cpid \in Pids /\ cpid \notin Held \cup orphans \cup zoo BY <1>3 DEF PanInv
  <1>5. /\ Occupied' = Occupied \cup {i} /\ Held' = Held \cup {cpid}
        /\ Cardinality(Occupied') = Cardinality(Occupied) + 1
    <2>1. pgrp \in [Slots -> Pids \cup {None}] /\ i \notin Occupied
      BY <1>1, ZenonT(30) DEF PanInv, TypeOK, FirstFree
    <2> QED BY <1>1, <1>4, <2>1, TakeSlot, Zenon
  <1>6. ActiveLaw'
    <2>1. num_active = Cardinality(Occupied) - stray /\ stray \in Nat
      BY Zenon DEF PanInv, ActiveLaw, TypeOK
    <2> QED BY <1>2, <1>5, <2>1, OccupiedFinite DEF ActiveLaw
  <1>7. VerdictLaw'
    <2>1. Cardinality(InFlight) = 1 /\ Cardinality(InFlight') = 0
      BY <1>3, FS_EmptySet, FS_Singleton, Zenon
    <2> QED BY <1>2, <1>5, <2>1, OccupiedFinite DEF VerdictLaw, PanInv, TypeOK
  <1>8. Children' = Children BY <1>2, ZenonT(30) DEF Children
  <1>9. ~Bump => ZooTracks' BY <1>2, <1>5 DEF ZooTracks, PanInv
  <1>10. \A j, k \in Occupied' : pgrp'[j] = pgrp'[k] => j = k
    <2>1. \A j \in Occupied : pgrp'[j] = pgrp[j] /\ pgrp[j] \in Held
      BY <1>1 DEF Occupied, Held, FirstFree, PanInv, TypeOK
    <2>2. pgrp'[i] = cpid BY <1>1 DEF PanInv, TypeOK
    <2> QED BY <1>4, <1>5, <2>1, <2>2, ZenonT(90) DEF PanInv
  <1> QED BY <1>2, <1>3, <1>4, <1>5, <1>6, <1>7, <1>8, <1>9, <1>10 DEF PanInv

\* run_child(): the child could not call execvp() and is reaped at once.
LEMMA WaitpidInv == ASSUME Inv, Typed', Waitpid PROVE Inv'
  <1> PanInv /\ TypeOK' BY DEF Inv, Typed
  <1> SUFFICES PanInv' BY DEF Inv
  <1>1. /\ pc = "execwait" /\ pc' = "fill" /\ owed' = owed - 1
        /\ st' = [st EXCEPT ![cpid] = "none"]
        /\ leaked' = IF cpid \in kids THEN leaked + 1 ELSE leaked
        /\ UNCHANGED <<num_active, pgrp, orphans, zoo, cpid, kids, stray, phase>>
    BY DEF Waitpid, slots, books, local
  <1>2. InFlight = {cpid} /\ InFlight' = {} BY <1>1 DEF InFlight
  <1>3. Occupied' = Occupied /\ Held' = Held BY <1>1 DEF Occupied, Held
  <1>4. ActiveLaw' BY <1>1, <1>3, ZenonT(30) DEF ActiveLaw, PanInv
  <1>5. VerdictLaw'
    <2>1. Cardinality(InFlight) = 1 /\ Cardinality(InFlight') = 0
      BY <1>2, FS_EmptySet, FS_Singleton, Zenon
    <2> QED BY <1>1, <1>3, <2>1, OccupiedFinite DEF VerdictLaw, PanInv, TypeOK
  <1>6. Children' = Children \ {cpid} BY <1>1 DEF Children, PanInv, TypeOK
  <1>7. ~Bump => ZooTracks' BY <1>1, <1>3, ZenonT(30) DEF ZooTracks, PanInv
  <1>8. leaked' = 0 => leaked = 0 /\ cpid \notin kids BY <1>1 DEF PanInv, TypeOK
  <1> QED BY <1>1, <1>2, <1>3, <1>4, <1>5, <1>6, <1>7, <1>8 DEF PanInv

\* kill() neither creates nor reaps a child, and its group only shrinks.
LEMMA KillGroupsFacts ==
    ASSUME TypeOK, NEW ps, KillGroups(ps)
    PROVE  Children' = Children /\ kids' \subseteq kids
  <1>1. CASE send_signal = "KILL"
    <2>1. /\ st' = [p \in Pids |-> IF p \in ps /\ st[p] = "running" THEN "killed" ELSE st[p]]
          /\ kids' = kids \ ps
      BY <1>1 DEF KillGroups
    <2>2. \A p \in Pids : st'[p] = "none" <=> st[p] = "none" BY <2>1
    <2> QED BY <2>1, <2>2 DEF Children
  <1>2. CASE send_signal # "KILL" BY <1>2, ZenonT(30) DEF KillGroups, procs, Children
  <1> QED BY <1>1, <1>2

\* propagate_signal(): one slot.
LEMMA KillSlotInv == ASSUME Inv, Typed', KillSlot PROVE Inv'
  <1> PanInv /\ TypeOK' BY DEF Inv, Typed
  <1> SUFFICES PanInv' BY DEF Inv
  <1>1. /\ pc = "propagate" /\ pc' = pc
        /\ UNCHANGED <<num_active, pgrp, orphans, zoo, cpid, owed, stray, leaked, phase>>
    BY ZenonT(30) DEF KillSlot, sched, books, hist
  <1>2. Children' = Children /\ kids' \subseteq kids
    BY KillGroupsFacts, ZenonT(30) DEF KillSlot, PanInv
  <1>3. Occupied' = Occupied /\ Held' = Held /\ InFlight' = InFlight
    BY <1>1, ZenonT(30) DEF Occupied, Held, InFlight
  <1>4. ActiveLaw' /\ VerdictLaw' BY <1>1, <1>3, ZenonT(30) DEF PanInv, ActiveLaw, VerdictLaw
  <1>5. ~Bump => ZooTracks' BY <1>1, <1>3, ZenonT(30) DEF PanInv, ZooTracks
  <1>6. \A i, j \in Occupied' : pgrp'[i] = pgrp'[j] => i = j BY <1>1, <1>3, ZenonT(30) DEF PanInv
  <1> QED BY <1>1, <1>2, <1>3, <1>4, <1>5, <1>6 DEF PanInv

\* Dropping the orphaned groups that are empty.
LEMMA CheckOrphansInv ==
    ASSUME Inv, Typed', CheckOrphans, Children' = Children, kids' \subseteq kids,
           UNCHANGED <<num_active, pgrp, cpid, owed, stray, leaked, phase>>,
           \/ pc = "propagate" /\ pc' = "propagated"
           \/ pc = "check" /\ pc' = "wait"
    PROVE  Inv'
  <1> PanInv /\ TypeOK' BY DEF Inv, Typed
  <1> SUFFICES PanInv' BY DEF Inv
  <1> DEFINE gone == {o \in orphans : ~GroupLives(o)}
  <1>1. orphans' = orphans \ gone /\ zoo' = zoo \ gone BY DEF CheckOrphans
  <1>2. Occupied' = Occupied /\ Held' = Held BY DEF Occupied, Held
  <1>3. InFlight = {} /\ InFlight' = {} BY ZenonT(30) DEF InFlight
  <1>4. ActiveLaw' /\ VerdictLaw' BY <1>2, <1>3 DEF PanInv, ActiveLaw, VerdictLaw
  <1>5. gone \cap kids = {} /\ gone \subseteq orphans BY ZenonT(30) DEF GroupLives
  <1>6. PanPid \notin gone BY PanConstants, ZenonT(30) DEF PanInv, TypeOK
  <1>7. ~Bump => ZooTracks'
    <2>1. ~Bump => zoo = Held \cup orphans \cup {PanPid} BY Zenon DEF PanInv, ZooTracks
    <2>2. Held \cap orphans = {} BY Zenon DEF PanInv
    <2>3. ~Bump => zoo' = Held' \cup orphans' \cup {PanPid}
      BY <1>1, <1>2, <1>5, <1>6, <2>1, <2>2
    <2> QED BY <2>3, Zenon DEF ZooTracks
  <1>8. \A i, j \in Occupied' : pgrp'[i] = pgrp'[j] => i = j BY <1>2, ZenonT(30) DEF PanInv
  <1>9. /\ Held' \cap orphans' = {}
        /\ zoo' \subseteq Held' \cup orphans' \cup {PanPid}
    BY <1>1, <1>2, <1>5, ZenonT(30) DEF PanInv
  <1>10. leaked' = 0 => /\ stray' = 0
                        /\ Children' \subseteq Held' \cup InFlight'
                        /\ kids' \subseteq Held' \cup orphans' \cup InFlight'
    BY <1>1, <1>2, <1>3, <1>5, ZenonT(30) DEF PanInv
  <1>11. phase' = "end" => pc' \in {"orphans", "propagate", "propagated", "exit"} /\ num_active' = 0
    BY DEF PanInv
  <1> QED BY <1>3, <1>4, <1>7, <1>8, <1>9, <1>10, <1>11 DEF PanInv

\* The two callers of check_orphans().
LEMMA KillOrphansInv == ASSUME Inv, Typed', KillOrphans \/ Check PROVE Inv'
  <1> PanInv /\ TypeOK' BY DEF Inv, Typed
  <1> SUFFICES PanInv' BY ZenonT(30) DEF Inv
  <1> USE DEF sched, slots, local, hist
  <1>1. CASE KillOrphans
    <2>1. Children' = Children /\ kids' \subseteq kids
      BY <1>1, KillGroupsFacts, ZenonT(30) DEF KillOrphans, PanInv
    <2> QED BY <1>1, <2>1, CheckOrphansInv, ZenonT(30) DEF KillOrphans, Inv, Typed
  <1>2. CASE Check
    <2>1. Children' = Children /\ kids' \subseteq kids
      BY <1>2, ZenonT(30) DEF Check, procs, Children
    <2> QED BY <1>2, <2>1, CheckOrphansInv DEF Check, Inv, Typed
  <1> QED BY <1>1, <1>2

\* check_pids(): wait() returns a child.
LEMMA WaitReapInv == ASSUME Inv, Typed', WaitReap PROVE Inv'
  <1> PanInv /\ TypeOK' BY DEF Inv, Typed
  <1> SUFFICES PanInv' BY DEF Inv
  <1>1. PICK p \in Children : cpid' = p /\ st' = [st EXCEPT ![p] = "none"]
    BY Zenon DEF WaitReap
  <1>2. /\ pc = "wait" /\ pc' = "reaped"
        /\ UNCHANGED <<num_active, pgrp, orphans, zoo, kids, owed, stray, leaked, phase>>
    BY ZenonT(30) DEF WaitReap, sched, slots, books, hist
  <1>3. Occupied' = Occupied /\ Held' = Held BY <1>2 DEF Occupied, Held
  <1>4. InFlight = {} /\ InFlight' = {} BY <1>2, ZenonT(30) DEF InFlight
  <1>5. ActiveLaw' /\ VerdictLaw' BY <1>2, <1>3, <1>4 DEF PanInv, ActiveLaw, VerdictLaw
  <1>6. ~Bump => ZooTracks' BY <1>2, <1>3, ZenonT(30) DEF PanInv, ZooTracks
  <1>7. Children' \subseteq Children /\ p \in Pids BY <1>1 DEF Children, PanInv, TypeOK
  <1>8. \A i, j \in Occupied' : pgrp'[i] = pgrp'[j] => i = j BY <1>2, <1>3, ZenonT(30) DEF PanInv
  <1>9. st'[cpid'] = "none" BY <1>1, <1>7, ZenonT(30) DEF PanInv, TypeOK
  <1> QED BY <1>1, <1>2, <1>3, <1>4, <1>5, <1>6, <1>7, <1>8, <1>9 DEF PanInv

\* ltp-pan leaves.
LEMMA ExitInv == ASSUME Inv, Typed', Exit PROVE Inv'
  <1> PanInv /\ TypeOK' BY DEF Inv, Typed
  <1> SUFFICES PanInv' BY DEF Inv
  <1>1. /\ pc = "orphans" /\ pc' = "exit" /\ orphans = {} /\ zoo' = zoo \ {PanPid}
        /\ UNCHANGED <<num_active, pgrp, orphans, cpid, st, kids, owed, stray, leaked, phase>>
    BY ZenonT(30) DEF Exit, sched, slots, local, procs, hist
  <1>2. Occupied' = Occupied /\ Held' = Held /\ Children' = Children
    BY <1>1 DEF Occupied, Held, Children
  <1>3. InFlight = {} /\ InFlight' = {} BY <1>1 DEF InFlight
  <1>4. ActiveLaw' /\ VerdictLaw' BY <1>1, <1>2, <1>3, ZenonT(30) DEF PanInv, ActiveLaw, VerdictLaw
  <1>5. PanPid \notin Held
    <2>1. pgrp \in [Slots -> Pids \cup {None}] BY Zenon DEF PanInv, TypeOK
    <2> QED BY <2>1, PanConstants DEF Held, Occupied
  <1>6. ~Bump => ZooTracks' BY <1>1, <1>2, <1>5 DEF PanInv, ZooTracks
  <1>7. \A i, j \in Occupied' : pgrp'[i] = pgrp'[j] => i = j BY <1>1, <1>2, ZenonT(30) DEF PanInv
  <1> QED BY <1>1, <1>2, <1>3, <1>4, <1>6, <1>7, ZenonT(30) DEF PanInv

\* check_pids(): the child has a slot.
LEMMA RecordSlotInv ==
    ASSUME Inv, Typed', NEW i \in Slots, RecordSlot(i) PROVE Inv'
  <1> PanInv /\ TypeOK' BY DEF Inv, Typed
  <1> SUFFICES PanInv' BY DEF Inv
  <1>1. /\ pc = "reaped" /\ pgrp[i] = cpid /\ pgrp' = [pgrp EXCEPT ![i] = None]
        /\ num_active' = num_active - 1 /\ owed' = owed - 1
        /\ UNCHANGED <<cpid, st, kids, stray, leaked, phase>>
        /\ \/ /\ cpid \in zoo /\ pc' = "loop"
              /\ zoo' = IF cpid \in kids THEN zoo ELSE zoo \ {cpid}
              /\ orphans' = IF cpid \in kids THEN orphans \cup {cpid} ELSE orphans
           \/ /\ cpid \notin zoo /\ pc' = "aborted"
              /\ UNCHANGED <<zoo, orphans>>
    BY ZenonT(30) DEF RecordSlot, local, procs, books
  <1>2. cpid \in Pids /\ cpid # PanPid BY <1>1, PanConstants, ZenonT(30) DEF PanInv
  <1>3. i \in Occupied /\ cpid \in Held BY <1>1, <1>2, PanConstants DEF Occupied, Held
  <1>4. /\ Occupied' = Occupied \ {i} /\ Held \subseteq Held' \cup {cpid} /\ Held' \subseteq Held
        /\ Cardinality(Occupied') = Cardinality(Occupied) - 1
        /\ \A j \in Occupied' : pgrp'[j] = pgrp[j]
    <2>1. pgrp \in [Slots -> Pids \cup {None}] BY DEF PanInv, TypeOK
    <2> QED BY <1>1, <1>3, <2>1, FreeSlot, Zenon
  <1>5. cpid \notin Held'
    <2>1. \A j \in Occupied' : pgrp[j] # cpid BY <1>1, <1>3, <1>4, ZenonT(30) DEF PanInv
    <2> QED BY <1>4, <2>1, ZenonT(30) DEF Held
  <1>6. Held' = Held \ {cpid} BY <1>4, <1>5
  <1>7. InFlight = {} /\ InFlight' = {} BY <1>1, ZenonT(30) DEF InFlight
  <1>n. ActiveLaw /\ VerdictLaw /\ stray \in Nat BY ZenonT(30) DEF PanInv, TypeOK
  <1>8. ActiveLaw' BY <1>1, <1>4, <1>n, OccupiedFinite DEF ActiveLaw
  <1>9. VerdictLaw' BY <1>1, <1>4, <1>7, <1>n, OccupiedFinite, FS_EmptySet DEF VerdictLaw
  <1>10. Children' = Children BY <1>1, ZenonT(30) DEF Children
  <1>11. \A j, k \in Occupied' : pgrp'[j] = pgrp'[k] => j = k BY <1>4, ZenonT(30) DEF PanInv
  <1>12. /\ Held' \cap orphans' = {}
         /\ zoo' \subseteq Held' \cup orphans' \cup {PanPid}
    BY <1>1, <1>5, <1>6, ZenonT(30) DEF PanInv
  <1>13. ~Bump => ZooTracks' BY <1>1, <1>2, <1>3, <1>6 DEF PanInv, ZooTracks
  <1>14. leaked' = 0 => pc' = "aborted" \/ kids' \subseteq Held' \cup orphans' \cup InFlight'
    BY <1>1, <1>6, <1>7, ZenonT(30) DEF PanInv
  <1>15. phase # "end" BY <1>1 DEF PanInv
  <1>16. leaked' = 0 => stray' = 0 /\ Children' \subseteq Held' \cup InFlight'
    <2> SUFFICES ASSUME leaked = 0 PROVE stray' = 0 /\ Children' \subseteq Held'
      BY <1>1, <1>7
    <2>1. stray = 0 /\ Children \subseteq Held BY <1>7, ZenonT(30) DEF PanInv
    <2>2. cpid \notin Children BY <1>1, ZenonT(30) DEF PanInv, Children
    <2> QED BY <1>1, <1>6, <1>10, <2>1, <2>2, ZenonT(30)
  <1> QED BY <1>1, <1>7, <1>8, <1>9, <1>11, <1>12, <1>13, <1>14, <1>15, <1>16, ZenonT(30) DEF PanInv

\* check_pids(): the child has no slot.
LEMMA RecordStrayInv == ASSUME Inv, Typed', RecordStray PROVE Inv'
  <1> PanInv /\ TypeOK' BY DEF Inv, Typed
  <1> SUFFICES PanInv' BY DEF Inv
  <1>1. /\ pc = "reaped" /\ pc' = "loop" /\ cpid \notin Held
        /\ num_active' = num_active - 1 /\ stray' = stray + 1
        /\ UNCHANGED <<pgrp, orphans, zoo, cpid, st, kids, owed, leaked, phase>>
    BY ZenonT(30) DEF RecordStray, slots, books, local, procs
  <1>2. leaked # 0 /\ phase # "end" BY <1>1, ZenonT(30) DEF PanInv
  <1>3. Occupied' = Occupied /\ Held' = Held BY <1>1 DEF Occupied, Held
  <1>4. InFlight = {} /\ InFlight' = {} BY <1>1, ZenonT(30) DEF InFlight
  <1>n. ActiveLaw /\ stray \in Nat BY DEF PanInv, TypeOK
  <1>5. ActiveLaw' BY <1>1, <1>3, <1>n, OccupiedFinite DEF ActiveLaw
  <1>6. VerdictLaw' BY <1>1, <1>3, <1>4, ZenonT(30) DEF PanInv, VerdictLaw
  <1>7. ~Bump => ZooTracks' BY <1>1, <1>3, ZenonT(30) DEF PanInv, ZooTracks
  <1>8. \A i, j \in Occupied' : pgrp'[i] = pgrp'[j] => i = j BY <1>1, <1>3 DEF PanInv
  <1> QED BY <1>1, <1>2, <1>3, <1>4, <1>5, <1>6, <1>7, <1>8, ZenonT(30) DEF PanInv
-----------------------------------------------------------------------------
(* The inductive invariant and what follows from it *)

\* Every step of the scheduler keeps the invariant.
LEMMA PanStepInv == ASSUME Inv, PanStep PROVE Inv'
  <1> PanInv BY DEF Inv
  <1> SUFFICES PanInv' BY DEF Inv
  <1>1. TypeOK' BY PanStepType DEF Inv, Typed
  <1>2. CASE \E i \in Slots : RecordSlot(i) BY <1>1, <1>2, RecordSlotInv DEF Inv, Typed
  <1>3. CASE \/ StartFails \/ Abort \/ ReadError \/ LeaveFill \/ NoSignal \/ StopScheduler
             \/ Propagate \/ WaitNone \/ LoopEnd \/ HuntOrphans \/ PropagateEnd
    BY <1>1, <1>3, PanQuietStep DEF Inv, Typed
  <1>4. CASE Fork \/ ReadEof \/ Waitpid
    BY <1>1, <1>4, ForkInv, ReadEofInv, WaitpidInv DEF Inv, Typed
  <1>5. CASE KillSlot \/ KillOrphans \/ Check
    BY <1>1, <1>5, KillSlotInv, KillOrphansInv DEF Inv, Typed
  <1>6. CASE WaitReap \/ RecordStray \/ Exit
    BY <1>1, <1>6, WaitReapInv, RecordStrayInv, ExitInv DEF Inv, Typed
  <1> QED BY <1>2, <1>3, <1>4, <1>5, <1>6 DEF PanStep

\* A signal keeps the invariant wherever it arrives, the interrupted calls included.
LEMMA SignalInv == ASSUME Inv, Signal PROVE Inv'
  <1> PanInv BY DEF Inv
  <1> SUFFICES PanInv' BY DEF Inv
  <1> USE DEF sched, slots, books, local, procs
  <1>0. PICK sig \in Signals : \/ Signalled(sig) \/ InterruptRead(sig)
                               \/ InterruptWaitpid(sig) \/ InterruptWait(sig)
    BY ZenonT(30) DEF Signal
  <1>1. Arrives(sig) /\ pc \notin Terminal
    BY <1>0, ZenonT(30) DEF Signalled, InterruptRead, InterruptWaitpid, InterruptWait, Arrives
  <1>4. /\ phase = "end" => /\ pc \in {"orphans", "propagate", "propagated", "exit"}
                            /\ num_active = 0
        /\ pc \in {"orphans", "exit"} => phase = "end"
        /\ phase \in {"run", "end"} /\ TypeOK
    BY ZenonT(30) DEF PanInv, TypeOK
  <1>5. CASE Signalled(sig)
    <2>1. TypeOK' BY <1>5, SignalType, Zenon DEF PanInv
    <2> QED BY <1>4, <1>5, <2>1, QuietInv DEF Signalled, InFlight, Inv, Typed
  <1>6. CASE InterruptRead(sig)
    <2>1. TypeOK' BY <1>6, SignalType, Zenon DEF PanInv
    <2> QED BY <1>4, <1>6, <2>1, QuietInv, ZenonT(30) DEF InterruptRead, InFlight, Inv, Typed
  <1>7. CASE InterruptWait(sig)
    <2>1. TypeOK' BY <1>7, SignalType, Zenon DEF PanInv
    <2> QED BY <1>4, <1>7, <2>1, QuietInv, ZenonT(30) DEF InterruptWait, InFlight, Inv, Typed
  <1>8. CASE InterruptWaitpid(sig)
    <2>1. /\ pc = "execwait" /\ pc' = "fill" /\ owed' = owed - 1 /\ leaked' = leaked + 1
          /\ UNCHANGED <<num_active, pgrp, orphans, zoo, cpid, st, kids, stray, phase>>
      BY <1>8, ZenonT(30) DEF InterruptWaitpid
    <2>2. TypeOK' BY <1>8, EscapeType, Zenon DEF PanInv
    <2>3. leaked \in Nat /\ owed \in Int BY <1>4, Zenon DEF TypeOK
    <2>4. owed = Cardinality(Occupied) + Cardinality(InFlight) BY Zenon DEF PanInv, VerdictLaw
    <2>5. InFlight = {cpid} /\ InFlight' = {} BY <2>1 DEF InFlight
    <2>6. Occupied' = Occupied /\ Held' = Held BY <2>1, ZenonT(30) DEF Occupied, Held
    <2>7. ActiveLaw' BY <2>1, <2>6, ZenonT(30) DEF ActiveLaw, PanInv
    <2>8. VerdictLaw'
      <3>1. Cardinality(InFlight) = 1 /\ Cardinality(InFlight') = 0
        BY <2>5, FS_EmptySet, FS_Singleton, ZenonT(30)
      <3>2. owed = Cardinality(Occupied) + 1 BY <2>4, <3>1, Zenon
      <3>3. owed' = Cardinality(Occupied) + 0 BY <2>1, <2>3, <3>2, OccupiedFinite
      <3> QED BY <2>6, <3>1, <3>3, Zenon DEF VerdictLaw
    <2>9. ~Bump => ZooTracks' BY <2>1, <2>6, ZenonT(30) DEF ZooTracks, PanInv
    <2>10. leaked' # 0 BY <2>1, <2>3
    <2>11. \A i, j \in Occupied' : pgrp'[i] = pgrp'[j] => i = j BY <2>1, <2>6, ZenonT(30) DEF PanInv
    <2> QED BY <2>1, <2>2, <2>5, <2>6, <2>7, <2>8, <2>9, <2>10, <2>11, ZenonT(30) DEF PanInv
  <1> QED BY <1>0, <1>5, <1>6, <1>7, <1>8

\* What the processes and ltp-bump do while ltp-pan stands still.
LEMMA OthersInv ==
    ASSUME Inv, Typed',
           UNCHANGED <<pc, num_active, pgrp, orphans, cpid, owed, stray, leaked, phase>>,
           zoo' \subseteq zoo, ~Bump => zoo' = zoo,
           Children' = Children, kids' \subseteq kids \cup Children
    PROVE  Inv'
  <1> PanInv /\ TypeOK' BY DEF Inv, Typed
  <1> SUFFICES PanInv' BY DEF Inv
  <1>1. Occupied' = Occupied /\ Held' = Held /\ InFlight' = InFlight
    BY ZenonT(30) DEF Occupied, Held, InFlight
  <1>2. ActiveLaw' /\ VerdictLaw' BY <1>1, ZenonT(30) DEF PanInv, ActiveLaw, VerdictLaw
  <1>3. ~Bump => ZooTracks' BY <1>1, ZenonT(30) DEF PanInv, ZooTracks
  <1>4. \A i, j \in Occupied' : pgrp'[i] = pgrp'[j] => i = j BY <1>1, ZenonT(30) DEF PanInv
  <1>5. pc = "reaped" => cpid \in Pids /\ st'[cpid] = "none"
    <2> SUFFICES ASSUME pc = "reaped" PROVE cpid \in Pids /\ st'[cpid] = "none" BY Zenon
    <2>1. cpid \in Pids /\ cpid \notin Children BY DEF PanInv, Children
    <2> QED BY <2>1, ZenonT(30) DEF Children
  <1> QED BY <1>1, <1>2, <1>3, <1>4, <1>5, ZenonT(30) DEF PanInv

\* The steps of the commands, their children and ltp-bump.
LEMMA ProcessInv == ASSUME Inv, Process PROVE Inv'
  <1> PanInv BY DEF Inv
  <1> SUFFICES PanInv' BY DEF Inv
  <1> USE DEF panvars, sched, slots, books, local, procs, hist, rvars
  <1>0. TypeOK BY DEF PanInv
  <1>t. TypeOK' BY <1>0, ProcessType, Zenon
  <1>1. PICK p \in Pids : \/ Exec(p) \/ ExecFails(p) \/ TestEnds(p)
                          \/ Spawns(p) \/ KidsEnd(p) \/ BumpClears(p)
    BY DEF Process
  <1>2. CASE Exec(p) \/ ExecFails(p) \/ TestEnds(p)
    <2>1. PICK z \in {"running"} \cup Zombies : st[p] # "none" /\ st' = [st EXCEPT ![p] = z]
      BY <1>2, PanOutcomes DEF Exec, ExecFails, TestEnds, Becomes, Zombies, Exits
    <2>2. kids' = kids /\ UNCHANGED panvars BY <1>2, Zenon DEF Exec, ExecFails, TestEnds
    <2>3. st \in [Pids -> {"none", "forked", "running"} \cup Zombies] BY <1>0, Zenon DEF TypeOK
    <2>4. st'[p] # "none" /\ \A q \in Pids \ {p} : st'[q] = st[q]
      BY <2>1, <2>3 DEF Zombies, Exits
    <2>5. Children' = Children BY <2>1, <2>4 DEF Children
    <2> QED BY <1>t, <2>2, <2>5, OthersInv, ZenonT(30) DEF Inv, Typed
  <1>3. CASE Spawns(p)
    <2>1. Children' = Children /\ p \in Children BY <1>3, Zenon DEF Spawns, Children
    <2> QED BY <1>3, <1>t, <2>1, OthersInv, ZenonT(30) DEF Spawns, Inv, Typed
  <1>4. CASE KidsEnd(p)
    <2>1. Children' = Children BY <1>4 DEF KidsEnd, Children
    <2> QED BY <1>4, <1>t, <2>1, OthersInv, ZenonT(30) DEF KidsEnd, Inv, Typed
  <1>5. CASE BumpClears(p)
    <2>1. Children' = Children BY <1>5, ZenonT(30) DEF BumpClears, Children
    <2> QED BY <1>5, <1>t, <2>1, OthersInv, ZenonT(30) DEF BumpClears, Inv, Typed
  <1> QED BY <1>1, <1>2, <1>3, <1>4, <1>5, ZenonT(30)

\* A step of nothing that is modelled.
LEMMA StutterInv == ASSUME Inv, UNCHANGED vars PROVE Inv'
  <1> PanInv BY DEF Inv
  <1> SUFFICES PanInv' BY DEF Inv
  <1>1. TypeOK' BY StutterType, Zenon DEF PanInv
  <1> USE DEF vars, sched, slots, books, local, procs, hist, rvars
  <1>2. Children' = Children BY DEF Children
  <1> QED BY <1>1, <1>2, OthersInv DEF Inv, Typed

\* The inductive invariant of ltp-pan, for every number of slots, commands and
\* processes and whatever signals arrive where.
THEOREM PanInvariant == Spec => []PanInv
  <1>1. Init => PanInv BY InitInv
  <1>2. PanInv /\ [Next]_vars => PanInv'
    BY PanStepInv, SignalInv, ProcessInv, StutterInv DEF Next, Terminated, Inv, Typed
  <1> QED BY <1>1, <1>2, PTL DEF Spec

\* Every variable of ltp-pan keeps its type: no slot, pid or exit code leaves its range.
THEOREM PanTypes == Spec => []TypeOK
  <1>1. PanInv => TypeOK BY ZenonT(30) DEF PanInv
  <1> QED BY <1>1, PanInvariant, PTL

\* num_active is the number of occupied slots, less the strays.
THEOREM ActiveCounts == Spec => []ActiveLaw
  <1>1. PanInv => ActiveLaw BY ZenonT(30) DEF PanInv
  <1> QED BY <1>1, PanInvariant, PTL

\* Every command forked gets exactly one line in the log.
THEOREM OneVerdictEach == Spec => []VerdictLaw
  <1>1. PanInv => VerdictLaw BY DEF PanInv
  <1> QED BY <1>1, PanInvariant, PTL

\* Without an ltp-bump at work the active file is exactly what ltp-pan keeps track of.
THEOREM ActiveFileTracks == ASSUME ~Bump PROVE Spec => []ZooTracks
  <1>1. PanInv => ZooTracks BY DEF PanInv
  <1> QED BY <1>1, PanInvariant, PTL

\* Unless a child escaped run_child, ltp-pan leaves nothing behind when it exits.
THEOREM LeavesNothing == Spec => []CleanExit
  <1>1. PanInv => CleanExit
    <2> SUFFICES ASSUME PanInv, pc = "exit", leaked = 0
                 PROVE  (\A p \in Pids : ~GroupLives(p)) /\ owed = 0 /\ zoo = {}
      BY ZenonT(30) DEF CleanExit
    <2>1. num_active = 0 /\ stray = 0 /\ orphans = {} BY DEF PanInv
    <2>2. InFlight = {} BY ZenonT(30) DEF InFlight
    <2>3. Cardinality(Occupied) = 0 BY <2>1, OccupiedFinite DEF PanInv, ActiveLaw
    <2>4. Occupied = {} BY <2>3, OccupiedFinite, FS_EmptySet
    <2>5. Held = {} BY <2>4, ZenonT(30) DEF Held
    <2>6. Children = {} /\ kids = {} /\ zoo = {} BY <2>1, <2>2, <2>5, ZenonT(30) DEF PanInv
    <2>7. owed = 0
      <3>1. owed = Cardinality(Occupied) + Cardinality(InFlight) BY Zenon DEF PanInv, VerdictLaw
      <3> QED BY <2>2, <2>3, <3>1, FS_EmptySet
    <2> QED BY <2>6, <2>7 DEF GroupLives, Children
  <1> QED BY <1>1, PanInvariant, PTL

\* Unless a child escaped, the scheduler always finds a free slot for a new command.
THEOREM AlwaysASlot == Spec => []SlotAvailable
  <1>1. PanInv => SlotAvailable
    <2> SUFFICES ASSUME PanInv, leaked = 0, Filling PROVE Occupied # Slots
      BY ZenonT(30) DEF SlotAvailable
    <2>1. num_active = Cardinality(Occupied) - 0 /\ num_active < KeepActive
      BY DEF PanInv, ActiveLaw, Filling
    <2> QED BY <2>1, SlotsCardinality, OccupiedFinite, PanConstants
  <1> QED BY <1>1, PanInvariant, PTL

(***************************************************************************)
(* The brakes (-A): once a command has failed no other is started.         *)
(***************************************************************************)
\* Without -y a signal to itself that is noted but not yet acted on keeps the
\* scheduler from starting commands, and acting on it stops the scheduler.
BrakeInv == /\ ~fork_in_road /\ ~go_idle
            /\ phase = "end" => stop
            /\ braked => stop \/ rec_signal # "none"

\* Every step keeps the brakes applied.
LEMMA BrakeStep == ASSUME BrakeInv, [Next]_vars PROVE BrakeInv'
  <1> USE DEF sched, slots, books, local, procs, hist, rvars
  <1> DEFINE Same == UNCHANGED <<fork_in_road, go_idle, phase, stop, rec_signal, braked>>
  <1>s. Same => BrakeInv' BY DEF BrakeInv
  <1>h. \A sig \in Handled : WaitHandler(sig) => rec_signal' # "none"
    BY PanSignals DEF WaitHandler
  <1>1. CASE Fork \/ StartFails \/ ReadEof \/ ReadError \/ Waitpid
    <2>1. Same BY <1>1, ZenonT(30) DEF Fork, StartFails, ReadEof, ReadError, Waitpid
    <2> QED BY <1>s, <2>1, ZenonT(30)
  <1>2. CASE Abort BY <1>2, <1>h, PanSignals, Zenon DEF Abort, BrakeInv
  <1>3. CASE LeaveFill
    <2>1. UNCHANGED <<fork_in_road, go_idle, phase, rec_signal, braked>> BY <1>3 DEF LeaveFill
    <2>2. stop => stop' BY <1>3, Zenon DEF LeaveFill
    <2> QED BY <2>1, <2>2, ZenonT(30) DEF BrakeInv
  <1>4. CASE StopScheduler BY <1>4, Zenon DEF StopScheduler, StopOrIdle, TakeSignal, BrakeInv
  <1>5. CASE Propagate \/ HuntOrphans
    <2>1. rec_signal # "none" => rec_signal' # "none"
      BY <1>5, <1>h, PanSignals, ZenonT(30) DEF Propagate, HuntOrphans, AlarmIsTerm
    <2>2. UNCHANGED <<go_idle, phase, stop, braked>> BY <1>5 DEF Propagate, HuntOrphans
    <2>3. ~fork_in_road' BY <1>5, ZenonT(30) DEF Propagate, HuntOrphans, BrakeInv
    <2> QED BY <2>1, <2>2, <2>3, ZenonT(30) DEF BrakeInv
  <1>6. CASE KillSlot \/ KillOrphans \/ Check \/ NoSignal \/ WaitReap \/ WaitNone \/ Exit
    <2>1. Same
      BY <1>6, ZenonT(30) DEF KillSlot, KillOrphans, Check, NoSignal, WaitReap, WaitNone, Exit
    <2> QED BY <1>s, <2>1
  <1>7. CASE PropagateEnd
    BY <1>7, Zenon DEF PropagateEnd, StopOrIdle, TakeSignal, BrakeInv
  <1>8. CASE RecordStray \/ \E i \in Slots : RecordSlot(i)
    <2>1. UNCHANGED <<fork_in_road, phase, stop>>
      BY <1>8, Zenon DEF RecordStray, RecordSlot
    <2>2. (\E err : AfterCheck(err)) \/ UNCHANGED <<go_idle, rec_signal, braked>>
      BY <1>8, Zenon DEF RecordStray, RecordSlot
    <2>3. ASSUME NEW err, AfterCheck(err) PROVE BrakeInv'
      <3>1. ~go_idle' BY <2>3, Zenon DEF AfterCheck, BrakeInv
      <3>2. rec_signal' # "none" \/ UNCHANGED <<rec_signal, braked>>
        BY <2>3, <1>h, PanSignals, Zenon DEF AfterCheck
      <3> QED BY <2>1, <3>1, <3>2 DEF BrakeInv
    <2> QED BY <1>s, <2>1, <2>2, <2>3
  <1>9. CASE LoopEnd BY <1>9, Zenon DEF LoopEnd, BrakeInv
  <1>10. CASE Signal
    <2>1. PICK sig \in Signals : Arrives(sig)
      BY <1>10, Zenon DEF Signal, Signalled, InterruptRead, InterruptWaitpid, InterruptWait
    <2>2. rec_signal' # "none" BY <1>h, <2>1, PanSignals DEF Arrives
    <2>3. UNCHANGED <<fork_in_road, go_idle, phase, stop, braked>>
      BY <1>10, ZenonT(30) DEF Signal, Signalled, InterruptRead, InterruptWaitpid, InterruptWait
    <2> QED BY <2>2, <2>3 DEF BrakeInv
  <1>11. CASE Process
    <2>1. Same
      BY <1>11, ZenonT(30)
         DEF Process, Exec, ExecFails, TestEnds, Spawns, KidsEnd, BumpClears, panvars
    <2> QED BY <1>s, <2>1
  <1>12. CASE UNCHANGED vars BY <1>s, <1>12 DEF vars
  <1> QED BY <1>1, <1>2, <1>3, <1>4, <1>5, <1>6, <1>7, <1>8, <1>9, <1>10, <1>11, <1>12, ZenonT(30)
      DEF Next, PanStep, Terminated

\* Without -y, no command is started after the brakes were applied.
THEOREM Brakes == ASSUME ForkInRoad = FALSE PROVE Spec => BrakesHold
  <1>1. Init => BrakeInv BY Zenon DEF Init, BrakeInv
  <1>2. BrakeInv /\ [Next]_vars => BrakeInv' BY BrakeStep
  <1>3. BrakeInv /\ [Next]_vars => [braked => ~(pc = "fill" /\ pc' = "errpipe")]_vars
    <2> SUFFICES ASSUME BrakeInv, Next, pc = "fill", pc' = "errpipe" PROVE ~braked
      BY ZenonT(30)
    <2>1. Filling
      BY Zenon DEF Next, PanStep, Fork, StartFails, Abort, ReadEof, ReadError, Waitpid, LeaveFill,
             NoSignal, StopScheduler, Propagate, KillSlot, KillOrphans, PropagateEnd, Check,
             WaitReap, WaitNone, RecordSlot, RecordStray, LoopEnd, HuntOrphans, Exit,
             Signal, Signalled, InterruptRead, InterruptWaitpid, InterruptWait, Process, Exec,
             ExecFails, TestEnds, Spawns, KidsEnd, BumpClears, panvars, Terminated, vars
    <2> QED BY <2>1, Zenon DEF BrakeInv, Filling
  <1> QED BY <1>1, <1>2, <1>3, PTL DEF Spec, BrakesHold
-----------------------------------------------------------------------------
(***************************************************************************)
(* -e: failures are counted in the exit status, of which exit() keeps the  *)
(* low byte.                                                               *)
(***************************************************************************)
\* A failure was counted, unless ltp-pan gave up while it looked at it.
FailInv == TrackExit /\ failed => exit_stat # 0 \/ pc = "aborted"

\* Counting on from less than 255 never leads back to 0.
LEMMA CountsOn == ASSUME TypeOK, exit_stat < ExitCodes - 1
                  PROVE  (exit_stat + 1) % ExitCodes # 0
  <1>1. exit_stat \in 0 .. ExitCodes - 1 BY Zenon DEF TypeOK
  <1> QED BY <1>1 DEF ExitCodes

\* Every step keeps the failures counted while there is room for one more.
LEMMA FailStep == ASSUME TypeOK, FailInv, exit_stat < ExitCodes - 1, [Next]_vars PROVE FailInv'
  <1> USE DEF sched, slots, books, local, procs, hist, rvars
  <1> DEFINE Same == UNCHANGED <<failed, exit_stat>> /\ (pc = "aborted" => pc' = "aborted")
  <1>s. Same => FailInv' BY Zenon DEF FailInv
  <1>c. (exit_stat + 1) % ExitCodes # 0 BY CountsOn, Zenon
  <1>1. CASE \/ Fork \/ StartFails \/ ReadEof \/ ReadError \/ Waitpid \/ LeaveFill \/ NoSignal
             \/ StopScheduler \/ Propagate \/ KillSlot \/ KillOrphans \/ PropagateEnd
    <2>1. Same
      BY <1>1, ZenonT(30)
         DEF Fork, StartFails, ReadEof, ReadError, Waitpid, LeaveFill, NoSignal, StopScheduler,
             Propagate, KillSlot, KillOrphans, PropagateEnd
    <2> QED BY <1>s, <2>1, Zenon
  <1>2. CASE Check \/ WaitReap \/ WaitNone \/ LoopEnd \/ HuntOrphans \/ Exit
    <2>1. Same BY <1>2, ZenonT(30) DEF Check, WaitReap, WaitNone, LoopEnd, HuntOrphans, Exit
    <2> QED BY <1>s, <2>1, Zenon
  <1>3. CASE Abort BY <1>3, <1>c, Zenon DEF Abort, FailInv
  <1>4. CASE RecordStray
    <2>1. failed' = failed /\ pc = "reaped" BY <1>4, Zenon DEF RecordStray
    <2>2. exit_stat' = exit_stat \/ exit_stat' # 0 BY <1>4, <1>c, Zenon DEF RecordStray, AfterCheck
    <2> QED BY <2>1, <2>2, Zenon DEF FailInv
  <1>5. ASSUME NEW i \in Slots, RecordSlot(i) PROVE FailInv'
    <2> DEFINE w == IF stat_loc = "exit130" /\ stopping[i] THEN "pass" ELSE stat_loc
               err == w \in BadExit \/ (w = "killed" /\ ~stopping[i])
               worse == w \notin {"pass", "conf"} /\ ~stopping[i]
    <2>1. pc = "reaped" /\ failed' = (failed \/ worse) BY <1>5, Zenon DEF RecordSlot
    <2>2. AfterCheck(err) \/ pc' = "aborted" BY <1>5, Zenon DEF RecordSlot
    <2>3. worse => err
      <3>1. stat_loc \in Zombies BY Zenon DEF TypeOK
      <3> QED BY <3>1, Zenon DEF Zombies, Exits, BadExit
    <2> HIDE DEF err, worse
    <2>4. CASE AfterCheck(err)
      <3>1. exit_stat' = exit_stat \/ exit_stat' # 0 BY <2>4, <1>c, Zenon DEF AfterCheck
      <3>2. err /\ TrackExit => exit_stat' # 0 BY <2>4, <1>c, Zenon DEF AfterCheck
      <3> QED BY <2>1, <2>3, <3>1, <3>2, Zenon DEF FailInv
    <2> QED BY <2>2, <2>4, Zenon DEF FailInv
  <1>6. CASE Signal
    <2>1. Same
      BY <1>6, ZenonT(30)
         DEF Signal, Signalled, InterruptRead, InterruptWaitpid, InterruptWait
    <2> QED BY <1>s, <2>1, Zenon
  <1>7. CASE Process
    <2>1. Same
      BY <1>7, ZenonT(30)
         DEF Process, Exec, ExecFails, TestEnds, Spawns, KidsEnd, BumpClears, panvars
    <2> QED BY <1>s, <2>1, Zenon
  <1>8. CASE UNCHANGED vars BY <1>s, <1>8, Zenon DEF vars
  <1> QED BY <1>1, <1>2, <1>3, <1>4, <1>5, <1>6, <1>7, <1>8, ZenonT(30)
      DEF Next, PanStep, Terminated

\* While fewer than 255 failures have been counted, ltp-pan -e exits with 0 only if
\* no command that ran uninterrupted was logged as failed.  Some such bound is needed:
\* the 256th failure takes the byte back to 0.
THEOREM FailuresShow == Spec /\ [](exit_stat < ExitCodes - 1) => []FailureShows
  <1>1. Init => FailInv BY Zenon DEF Init, FailInv
  <1>2. TypeOK /\ FailInv /\ exit_stat < ExitCodes - 1 /\ [Next]_vars => FailInv'
    BY FailStep, Zenon
  <1>3. FailInv => FailureShows BY Zenon DEF FailInv, FailureShows
  <1> QED BY <1>1, <1>2, <1>3, PanTypes, PTL DEF Spec
=============================================================================
