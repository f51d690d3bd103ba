--------------------------- MODULE TestEnvProofs ----------------------------
(***************************************************************************)
(* EnvInv is an invariant of TestEnv: the steps of the test, of the        *)
(* cleanup and of the kernel, and the theorems.                            *)
(***************************************************************************)
EXTENDS TestEnvSteps
-----------------------------------------------------------------------------
(* The test *)

\* The test writes the file that was saved for it.
LEMMA TestWritesKeeps ==
    ASSUME EnvInv, NEW t \in Tests, TestWrites(t), want' = want PROVE EnvInv'
  <1>1. TypeOK /\ Alone
    BY EnvParts
  <1>2. WorldOK'
    BY <1>1 DEF TestWrites, TypeOK, WorldOK, history
  <1>3. Alone'
    BY <1>1 DEF TestWrites, At, Alone, Undisturbed, Holding, history
  <1> QED BY <1>2, <1>3, IdleKeeps DEF TestWrites, history

\* The test sets the clock that was saved for it.
LEMMA TestSetsClockKeeps ==
    ASSUME EnvInv, NEW t \in Tests, TestSetsClock(t), want' = want PROVE EnvInv'
  <1>1. TypeOK /\ Alone
    BY EnvParts
  <1>2. WorldOK'
    BY <1>1 DEF TestSetsClock, TypeOK, WorldOK, history
  <1>3. Alone'
    BY <1>1 DEF TestSetsClock, At, Alone, Undisturbed, Holding, history
  <1> QED BY <1>2, <1>3, IdleKeeps DEF TestSetsClock, history

\* The test unmounts its overlay.
LEMMA TestUmountsKeeps ==
    ASSUME EnvInv, NEW t \in Tests, TestUmounts(t), want' = want PROVE EnvInv'
  <1>1. TypeOK /\ Alone
    BY EnvParts
  <1>2. WorldOK'
    BY <1>1 DEF TestUmounts, TypeOK, WorldOK, history
  <1>3. Alone'
    BY <1>1 DEF TestUmounts, At, Alone, Undisturbed, Holding, history
  <1> QED BY <1>2, <1>3, IdleKeeps DEF TestUmounts, history

\* The kernel detaches a file; who needs it is noted.
LEMMA AutoClearKeeps ==
    ASSUME EnvInv, NEW d \in Devs, AutoClear(d), want' = want PROVE EnvInv'
  <1>1. TypeOK /\ Alone
    BY EnvParts
  <1>2. WorldOK'
    BY <1>1 DEF AutoClear, Robbed, TypeOK, WorldOK
  <1>3. Alone'
    BY <1>1 DEF AutoClear, At, Alone, Undisturbed, Holding
  <1>4. /\ \A e \in Devs, u \in Tests : backing'[e] = u => backing[e] = u
        /\ \A e \in Devs, u \in Tests :
              backing[e] = u /\ backing'[e] # u => u \in robbed' \/ ~Needs(u)
    BY <1>1, TestEnvConstants DEF AutoClear, Robbed, TypeOK
  <1>5. robbed \subseteq robbed'
    BY DEF AutoClear, Robbed
  <1> QED BY <1>2, <1>3, <1>4, <1>5, IdleKeeps DEF AutoClear

\* fork_testrun() returns.
LEMMA TestEndsKeeps ==
    ASSUME EnvInv, NEW t \in Tests, TestEnds(t), want' = want PROVE EnvInv'
  <1>1. /\ lib[t].pc = "test" /\ lib[t].pc # "crashed"
        /\ UNCHANGED <<backing, mounted, ovl, dir, stuck, robbed>>
    BY DEF TestEnds, At, history, world
  <1>2. /\ TypeOK /\ lib[t] \in Records /\ want[t].fs \in Nat
        /\ Noted(t) /\ Stage(t) /\ Owned(t)
    BY <1>1, Parts, Zenon
  <1>3. WorldOK' /\ Frame(t) /\ UNCHANGED Saves
    BY <1>2 DEF TestEnds, TypeOK, WorldOK, Frame, Saves, history, world
  <1>5. CASE Brk(t)
    BY <1>1, <1>3, <1>5, BreakKeeps DEF Plain, SetupSteps
  <1>6. CASE want[t].fs > 0 /\ Goes(t, "fs_umount")
    <2> DEFINE p == "fs_umount"
    <2>1. p = "fs_umount" /\ want[t].fs > 0
      BY <1>6
    <2>2. /\ p \in Steps /\ p \notin {"c_clk", "c_ipc", "exited"}
          /\ p \notin OvlLeft /\ p \notin MntLeft /\ p \notin DevLeft /\ p \notin DirLeft
      BY <2>1, Early DEF SetupSteps
    <2>3. Goes(t, p)
      BY <1>6, Zenon
    <2> HIDE DEF p
    <2>4. Same(lib'[t], lib[t]) /\ lib'[t].pc = p /\ lib'[t].fs = lib[t].fs
      BY <1>2, <2>2, <2>3, GoesFields, ZenonT(30)
    <2>5. Noted(t)'
      BY <1>1, <1>2, <2>1, <2>2, <2>4, ZenonT(30) DEF Noted, At, Same
    <2>6. Stage(t)'
      BY <1>1, <1>2, <2>1, <2>4 DEF Stage, Same, SetupSteps
    <2>7. Owned(t)'
      BY <1>1, <1>2, <2>1, <2>4, Zenon DEF Owned, Same
    <2> QED BY <1>1, <1>3, <2>2, <2>3, <2>5, <2>6, <2>7, GoesKeeps, Zenon DEF Good
  <1> QED BY <1>5, <1>6, Zenon DEF TestEnds

\* tst_umount() after the run of one file system.
LEMMA FsUmountKeeps ==
    ASSUME EnvInv, NEW t \in Tests, FsUmount(t), want' = want PROVE EnvInv'
  <1> DEFINE L == [lib[t] EXCEPT !.mntpoint_mounted = FALSE, !.tries = 0, !.fs = lib[t].fs - 1]
             R == [L EXCEPT !.pc = Runs(t)]
  <1>1. /\ lib[t].pc = "fs_umount" /\ lib[t].pc # "crashed"
        /\ UNCHANGED <<backing, ovl, dir, shm, robbed>>
        /\ stuck \subseteq stuck'
    BY DEF FsUmount, At, GivesUp
  <1>2. TypeOK /\ lib[t] \in Records /\ Noted(t) /\ Stage(t) /\ Owned(t)
    BY <1>1, Parts, Zenon
  <1>3. WorldOK' /\ Frame(t) /\ UNCHANGED Saves
    BY <1>2, ZenonT(30) DEF FsUmount, GivesUp, TypeOK, WorldOK, Frame, Saves
  <1>4. lib[t].fs \in Nat /\ lib[t].fs > 0 /\ want[t].fs > 0 /\ lib[t].tdev # None
    BY <1>2, <1>1 DEF Stage, Records
  <1>5. Runs(t) \in {"mkfs", "test"} /\ Runs(t) \in Steps
    BY <1>2, Places DEF Steps, SetupSteps
  <1>6. /\ L \in Records /\ L.mntpoint_mounted = FALSE /\ L.fs = lib[t].fs - 1
        /\ L.tdev = lib[t].tdev /\ L.device_acquired = lib[t].device_acquired
        /\ L.ovl_mounted = lib[t].ovl_mounted /\ L.TESTDIR = lib[t].TESTDIR
        /\ L.conf_saved = lib[t].conf_saved /\ L.value = lib[t].value
        /\ L.clock_saved = lib[t].clock_saved /\ L.real_begin = lib[t].real_begin
    <2>1. lib[t].fs - 1 \in Nat /\ 0 \in Nat
      BY <1>4
    <2> QED BY <1>2, <2>1, ZenonT(30) DEF Records
  <1>7. R \in Records /\ R.pc = Runs(t) /\ R.fs = L.fs /\ Same(R, L)
    <2> HIDE DEF L
    <2> QED BY <1>5, <1>6, GotoFields
  <1>8. \/ /\ lib' = [lib EXCEPT ![t] = [lib[t] EXCEPT !.tries = lib[t].tries + 1]]
           /\ UNCHANGED mounted
        \/ /\ \/ lib' = [lib EXCEPT ![t] = DoExit(L)]
              \/ lib[t].fs > 1 /\ lib' = [lib EXCEPT ![t] = R]
           /\ mounted'[t] = None \/ t \in stuck'
    <2>1. CASE /\ mounted[t] # None /\ lib[t].mntpoint_mounted
               /\ Again(t, DoExit(L)) \/ (lib[t].fs > 1 /\ Again(t, R))
               /\ GivesUp(t) /\ UNCHANGED mounted
      <3> HIDE DEF L, R
      <3> QED BY <1>2, <2>1, AgainCases DEF GivesUp
    <2>2. CASE /\ \/ lib' = [lib EXCEPT ![t] = DoExit(L)]
                  \/ lib[t].fs > 1 /\ lib' = [lib EXCEPT ![t] = R]
               /\ mounted' = IF lib[t].mntpoint_mounted THEN [mounted EXCEPT ![t] = None]
                             ELSE mounted
               /\ UNCHANGED stuck
      <3> HIDE DEF L, R
      <3>1. ~lib[t].mntpoint_mounted => mounted[t] = None \/ t \in stuck
        BY <1>2, <1>1, ZenonT(30) DEF Noted
      <3> QED BY <1>2, <2>2, <3>1, ZenonT(30) DEF TypeOK
    <2> QED BY <2>1, <2>2, Zenon DEF FsUmount
  <1> HIDE DEF L, R
  <1>9. /\ t \in ovl => lib[t].ovl_mounted
        /\ t \in dir => lib[t].TESTDIR
        /\ lib[t].device_acquired => lib[t].tdev # None
        /\ \A d \in Devs : backing[d] = t =>
              t \in stuck \/ (lib[t].device_acquired /\ lib[t].tdev = d)
        /\ lib[t].device_acquired => backing[lib[t].tdev] = t \/ t \in robbed
    BY <1>2, <1>1, PlainFlags DEF Plain, Good
  <1>10. CASE /\ lib' = [lib EXCEPT ![t] = [lib[t] EXCEPT !.tries = lib[t].tries + 1]]
              /\ UNCHANGED mounted
    BY <1>3, <1>1, <1>10, RetryKeeps, Zenon
  <1>11. CASE lib' = [lib EXCEPT ![t] = DoExit(L)] /\ (mounted'[t] = None \/ t \in stuck')
    <2>1. lib'[t] = DoExit(L)
      BY <1>2, <1>11, ZenonT(30) DEF TypeOK
    <2>2. Good(t)'
      BY <1>1, <1>6, <1>9, <1>11, <2>1, ExitGood, ZenonT(30)
    <2> QED BY <1>3, <1>1, <1>6, <1>11, <2>2, ExitKeeps, Zenon
  <1>12. CASE /\ lib[t].fs > 1 /\ lib' = [lib EXCEPT ![t] = R]
              /\ mounted'[t] = None \/ t \in stuck'
    <2>1. lib'[t] = R
      BY <1>2, <1>12 DEF TypeOK
    <2>2. Noted(t)'
      BY <1>1, <1>4, <1>5, <1>6, <1>7, <1>9, <1>12, <2>1, ZenonT(30)
         DEF Noted, Same, At, DirLeft, DevLeft, MntLeft, OvlLeft
    <2>3. Stage(t)'
      BY <1>2, <1>4, <1>5, <1>6, <1>7, <1>12, <2>1 DEF Stage, Same, SetupSteps
    <2>4. Owned(t)'
      BY <1>1, <1>5, <1>6, <1>7, <1>9, <2>1, ZenonT(30) DEF Owned, Same
    <2>5. /\ R.pc \notin {"c_clk", "c_ipc"} /\ R.conf_saved = lib[t].conf_saved
          /\ R.value = lib[t].value /\ R.clock_saved = lib[t].clock_saved
          /\ R.real_begin = lib[t].real_begin
      BY <1>5, <1>6, <1>7 DEF Same
    <2> QED BY <1>3, <1>1, <1>7, <1>12, <2>2, <2>3, <2>4, <2>5, QuietKeeps, Zenon DEF Good
  <1> QED BY <1>8, <1>10, <1>11, <1>12

-----------------------------------------------------------------------------
(* do_cleanup() *)

\* SAFE_UMOUNT(OVL_MNT)
LEMMA CleanOvlKeeps ==
    ASSUME EnvInv, NEW t \in Tests, CleanOvl(t), want' = want PROVE EnvInv'
  <1> DEFINE N == [lib[t] EXCEPT !.pc = "c_mnt", !.tries = 0]
  <1>1. /\ lib[t].pc = "c_ovl" /\ lib[t].pc # "crashed"
        /\ UNCHANGED <<backing, mounted, dir, shm, stuck, robbed>>
    BY DEF CleanOvl, At, history, world
  <1>2. /\ TypeOK /\ lib[t] \in Records /\ want[t].fs \in Nat
        /\ Noted(t) /\ Stage(t) /\ Owned(t)
    BY <1>1, Parts, Zenon
  <1>3. WorldOK' /\ Frame(t) /\ UNCHANGED Saves
    BY <1>2 DEF CleanOvl, TypeOK, WorldOK, Frame, Saves, history, world
  <1>4. N \in Records /\ N.pc = "c_mnt" /\ N.fs = lib[t].fs /\ Same(N, lib[t])
    <2>1. "c_mnt" \in Steps /\ 0 \in Nat
      BY DEF Steps, OvlLeft, MntLeft, DevLeft, DirLeft
    <2> QED BY <1>2, <2>1, ZenonT(30) DEF Records, Same
  <1>5. \/ lib' = [lib EXCEPT ![t] = N] /\ t \notin ovl' /\ ovl' \subseteq ovl
        \/ lib' = [lib EXCEPT ![t] = [lib[t] EXCEPT !.tries = lib[t].tries + 1]] /\ ovl' = ovl
        \/ Brk(t) /\ ovl' = ovl
    <2>1. ~lib[t].ovl_mounted => t \notin ovl
      BY <1>2 DEF Noted
    <2>2. Again(t, DoExit(lib[t])) =>
            lib' = [lib EXCEPT ![t] = [lib[t] EXCEPT !.tries = lib[t].tries + 1]] \/ Brk(t)
      BY <1>2, AgainCases DEF Brk, TypeOK
    <2> QED BY <2>1, <2>2, ZenonT(30) DEF CleanOvl
  <1> HIDE DEF N
  <1>6. CASE lib' = [lib EXCEPT ![t] = N] /\ t \notin ovl' /\ ovl' \subseteq ovl
    <2>1. lib'[t] = N
      BY <1>2, <1>6, ZenonT(30) DEF TypeOK
    <2>2. Noted(t)'
      BY <1>1, <1>2, <1>4, <1>6, <2>1, ZenonT(30)
         DEF Noted, Same, At, DirLeft, DevLeft, MntLeft, OvlLeft
    <2>3. Stage(t)'
      BY <1>4, <2>1, ZenonT(30) DEF Stage, SetupSteps
    <2>4. Owned(t)'
      BY <1>1, <1>2, <1>4, <2>1, ZenonT(30) DEF Owned, Same
    <2>5. /\ N.pc \notin {"c_clk", "c_ipc"} /\ N.conf_saved = lib[t].conf_saved
          /\ N.value = lib[t].value /\ N.clock_saved = lib[t].clock_saved
          /\ N.real_begin = lib[t].real_begin
      BY <1>4 DEF Same
    <2> QED BY <1>1, <1>3, <1>4, <1>6, <2>2, <2>3, <2>4, <2>5, QuietKeeps, Zenon DEF Good
  <1>7. CASE lib' = [lib EXCEPT ![t] = [lib[t] EXCEPT !.tries = lib[t].tries + 1]]
             /\ ovl' = ovl
    BY <1>1, <1>3, <1>7, RetryKeeps, Zenon
  <1>8. CASE Brk(t) /\ ovl' = ovl
    BY <1>1, <1>3, <1>8, BreakKeeps DEF Plain
  <1> QED BY <1>5, <1>6, <1>7, <1>8

\* tst_umount() of the mntpoint
LEMMA CleanMntKeeps ==
    ASSUME EnvInv, NEW t \in Tests, CleanMnt(t), want' = want PROVE EnvInv'
  <1> DEFINE N == [lib[t] EXCEPT !.pc = "c_dev", !.tries = 0]
  <1>1. /\ lib[t].pc = "c_mnt" /\ lib[t].pc # "crashed"
        /\ UNCHANGED <<backing, ovl, dir, shm, robbed>>
        /\ stuck \subseteq stuck'
    BY DEF CleanMnt, At, history, world, GivesUp
  <1>2. /\ TypeOK /\ lib[t] \in Records /\ want[t].fs \in Nat
        /\ Noted(t) /\ Stage(t) /\ Owned(t)
    BY <1>1, Parts, Zenon
  <1>3. WorldOK' /\ Frame(t) /\ UNCHANGED Saves
    BY <1>2 DEF CleanMnt, TypeOK, WorldOK, Frame, Saves, history, world, GivesUp
  <1>4. N \in Records /\ N.pc = "c_dev" /\ N.fs = lib[t].fs /\ Same(N, lib[t])
    <2>1. "c_dev" \in Steps /\ 0 \in Nat
      BY DEF Steps, OvlLeft, MntLeft, DevLeft, DirLeft
    <2> QED BY <1>2, <2>1, ZenonT(30) DEF Records, Same
  <1>5. \/ lib' = [lib EXCEPT ![t] = N] /\ (mounted'[t] = None \/ t \in stuck')
        \/ lib' = [lib EXCEPT ![t] = [lib[t] EXCEPT !.tries = lib[t].tries + 1]]
           /\ mounted' = mounted
    <2>1. ~lib[t].mntpoint_mounted => mounted[t] = None \/ t \in stuck
      BY <1>2 DEF Noted
    <2>2. CASE /\ lib' = [lib EXCEPT ![t] = N] /\ UNCHANGED stuck
               /\ mounted' = IF lib[t].mntpoint_mounted THEN [mounted EXCEPT ![t] = None]
                             ELSE mounted
      <3> HIDE DEF N
      <3> QED BY <1>2, <2>1, <2>2 DEF TypeOK
    <2>3. CASE Again(t, N) /\ GivesUp(t) /\ UNCHANGED mounted
      <3> HIDE DEF N
      <3> QED BY <1>2, <2>3, AgainCases DEF GivesUp
    <2> QED BY <2>2, <2>3, Zenon DEF CleanMnt
  <1> HIDE DEF N
  <1>6. CASE lib' = [lib EXCEPT ![t] = N] /\ (mounted'[t] = None \/ t \in stuck')
    <2>1. lib'[t] = N
      BY <1>2, <1>6, ZenonT(30) DEF TypeOK
    <2>2. Noted(t)'
      BY <1>1, <1>2, <1>4, <1>6, <2>1, ZenonT(30)
         DEF Noted, Same, At, DirLeft, DevLeft, MntLeft, OvlLeft
    <2>3. Stage(t)'
      BY <1>4, <2>1, ZenonT(30) DEF Stage, SetupSteps
    <2>4. Owned(t)'
      BY <1>1, <1>2, <1>4, <2>1, ZenonT(30) DEF Owned, Same
    <2>5. /\ N.pc \notin {"c_clk", "c_ipc"} /\ N.conf_saved = lib[t].conf_saved
          /\ N.value = lib[t].value /\ N.clock_saved = lib[t].clock_saved
          /\ N.real_begin = lib[t].real_begin
      BY <1>4 DEF Same
    <2> QED BY <1>1, <1>3, <1>4, <1>6, <2>2, <2>3, <2>4, <2>5, QuietKeeps, Zenon DEF Good
  <1>7. CASE lib' = [lib EXCEPT ![t] = [lib[t] EXCEPT !.tries = lib[t].tries + 1]]
             /\ mounted' = mounted
    BY <1>1, <1>3, <1>7, RetryKeeps, Zenon
  <1> QED BY <1>5, <1>6, <1>7

\* The end of tst_release_device(): the file is gone, or something was refused.
LEMMA DetachedKeeps ==
    ASSUME EnvInv, NEW t \in Tests, lib' = [lib EXCEPT ![t] = Detached(lib[t])],
           lib[t].pc \in {"c_dev", "clr"}, WorldOK', Frame(t), UNCHANGED Saves,
           UNCHANGED <<mounted, ovl, dir, shm>>, stuck \subseteq stuck', robbed \subseteq robbed',
           \A d \in Devs : backing'[d] = t => backing[d] = t,
           t \in stuck' \/ (lib[t].tdev \in Devs /\ backing'[lib[t].tdev] # t)
    PROVE  EnvInv'
  <1> DEFINE N == Detached(lib[t])
  <1>1. /\ TypeOK /\ lib[t] \in Records /\ Noted(t) /\ Stage(t) /\ Owned(t)
        /\ lib[t].pc # "crashed"
    BY Parts, ZenonT(30)
  <1>2. lib' = [lib EXCEPT ![t] = N] /\ lib'[t] = N
    BY <1>1 DEF TypeOK
  <1>3. /\ N \in Records /\ N.pc = "c_dir" /\ N.device_acquired = FALSE /\ N.fs = lib[t].fs
        /\ N.mntpoint_mounted = lib[t].mntpoint_mounted /\ N.ovl_mounted = lib[t].ovl_mounted
        /\ N.TESTDIR = lib[t].TESTDIR
        /\ N.conf_saved = lib[t].conf_saved /\ N.value = lib[t].value
        /\ N.clock_saved = lib[t].clock_saved /\ N.real_begin = lib[t].real_begin
    <2>1. "c_dir" \in Steps /\ 0 \in Nat
      BY ZenonT(30) DEF Steps, OvlLeft, MntLeft, DevLeft
    <2> QED BY <1>1, <2>1, ZenonT(30) DEF Detached, Records
  <1> HIDE DEF N
  <1>4. Noted(t)'
    BY <1>1, <1>2, <1>3, ZenonT(30) DEF Noted, At, DirLeft, DevLeft, MntLeft, OvlLeft
  <1>5. Stage(t)'
    BY <1>2, <1>3, ZenonT(30) DEF Stage, SetupSteps
  <1>6. Owned(t)'
    BY <1>2, <1>3, ZenonT(30) DEF Owned
  <1>7. N.pc \notin {"c_clk", "c_ipc"}
    BY <1>3
  <1> QED BY <1>1, <1>2, <1>3, <1>4, <1>5, <1>6, <1>7, QuietKeeps, Zenon DEF Good

\* tst_release_device() decides.
LEMMA CleanDevKeeps ==
    ASSUME EnvInv, NEW t \in Tests, CleanDev(t), want' = want PROVE EnvInv'
  <1>1. /\ lib[t].pc = "c_dev" /\ lib[t].pc # "crashed"
        /\ UNCHANGED <<backing, mounted, ovl, dir, shm, robbed>>
        /\ stuck \subseteq stuck'
    BY DEF CleanDev, At, history, world
  <1>2. /\ TypeOK /\ lib[t] \in Records /\ want[t].fs \in Nat
        /\ Noted(t) /\ Stage(t) /\ Owned(t)
    BY <1>1, Parts, Zenon
  <1>3. WorldOK' /\ Frame(t) /\ UNCHANGED Saves
    BY <1>2 DEF CleanDev, TypeOK, WorldOK, Frame, Saves, history, world
  <1>5. CASE /\ UNCHANGED stuck
             /\ Goes(t, IF lib[t].tdev # None /\ lib[t].device_acquired THEN "clr" ELSE "c_dir")
    <2> DEFINE p == IF lib[t].tdev # None /\ lib[t].device_acquired THEN "clr" ELSE "c_dir"
    <2>1. /\ p \in {"clr", "c_dir"} /\ (p = "clr" => lib[t].tdev # None)
          /\ (p = "c_dir" => ~lib[t].device_acquired) /\ UNCHANGED stuck
      BY <1>1, <1>2, <1>5, ZenonT(30) DEF Noted
    <2>2. p \in Steps /\ p \notin {"c_clk", "c_ipc", "exited"}
      BY <2>1 DEF Steps, OvlLeft, MntLeft, DevLeft, DirLeft
    <2>3. Goes(t, p)
      BY <1>5, Zenon
    <2> HIDE DEF p
    <2>4. Same(lib'[t], lib[t]) /\ lib'[t].pc = p /\ lib'[t].fs = lib[t].fs
      BY <1>2, <2>2, <2>3, GoesFields, ZenonT(30)
    <2>5. Noted(t)'
      BY <1>1, <1>2, <2>1, <2>2, <2>4, ZenonT(30)
         DEF Noted, At, Same, OvlLeft, MntLeft, DevLeft, DirLeft
    <2>6. Stage(t)'
      BY <1>1, <1>2, <2>1, <2>4 DEF Stage, Same, SetupSteps
    <2>7. Owned(t)'
      BY <1>1, <1>2, <2>1, <2>4, Zenon DEF Owned, Same
    <2> QED BY <1>1, <1>3, <2>2, <2>3, <2>5, <2>6, <2>7, GoesKeeps, Zenon DEF Good
  <1>6. CASE lib' = [lib EXCEPT ![t] = Detached(@)] /\ stuck' = stuck \cup {t}
    <2>1. lib' = [lib EXCEPT ![t] = Detached(lib[t])] /\ t \in stuck'
      BY <1>6
    <2> QED BY <1>1, <1>3, <2>1, DetachedKeeps, Zenon
  <1> QED BY <1>5, <1>6, Zenon DEF CleanDev

\* One turn of the loop of tst_detach_device()
LEMMA ClearKeeps ==
    ASSUME EnvInv, NEW t \in Tests, Clear(t), want' = want PROVE EnvInv'
  <1>1. /\ lib[t].pc = "clr" /\ lib[t].pc # "crashed"
        /\ UNCHANGED <<mounted, ovl, dir, shm>>
        /\ stuck \subseteq stuck' /\ robbed \subseteq robbed'
    BY DEF Clear, At, history, world, GivesUp, Robbed
  <1>2. /\ TypeOK /\ lib[t] \in Records /\ want[t].fs \in Nat
        /\ Noted(t) /\ Stage(t) /\ Owned(t)
    BY <1>1, Parts, Zenon
  <1>4. lib[t].tdev \in Devs
    BY <1>1, <1>2, ZenonT(30) DEF Noted, Records
  <1>3. WorldOK' /\ Frame(t) /\ UNCHANGED Saves
    BY <1>2, <1>4, TestEnvConstants DEF Clear, TypeOK, WorldOK, Frame, Saves, history, world,
           GivesUp, Robbed
  <1>5. \A d \in Devs : backing'[d] = t => backing[d] = t
    BY <1>2, <1>4, TestEnvConstants DEF Clear, TypeOK
  <1>6. \/ /\ lib' = [lib EXCEPT ![t] = Detached(lib[t])]
           /\ t \in stuck' \/ backing'[lib[t].tdev] # t
        \/ lib' = [lib EXCEPT ![t] = [lib[t] EXCEPT !.tries = lib[t].tries + 1]]
    <2>1. CASE backing[lib[t].tdev] = None /\ lib' = [lib EXCEPT ![t] = Detached(@)]
      BY <1>4, <1>5, <2>1, TestEnvConstants, ZenonT(30)
    <2>2. CASE /\ backing' = [backing EXCEPT ![lib[t].tdev] = None]
               /\ Again(t, Detached(lib[t]))
      BY <1>2, <1>4, <2>2, AgainCases, TestEnvConstants, ZenonT(30) DEF TypeOK
    <2>3. CASE Again(t, Detached(lib[t])) /\ GivesUp(t)
      BY <1>2, <2>3, AgainCases DEF GivesUp
    <2>4. CASE lib' = [lib EXCEPT ![t] = Detached(@)] /\ stuck' = stuck \cup {t}
      BY <2>4
    <2> QED BY <2>1, <2>2, <2>3, <2>4, Zenon DEF Clear
  <1>7. CASE /\ lib' = [lib EXCEPT ![t] = Detached(lib[t])]
             /\ t \in stuck' \/ backing'[lib[t].tdev] # t
    BY <1>1, <1>3, <1>4, <1>5, <1>7, DetachedKeeps, Zenon
  <1>8. CASE lib' = [lib EXCEPT ![t] = [lib[t] EXCEPT !.tries = lib[t].tries + 1]]
    BY <1>1, <1>3, <1>5, <1>8, RetryKeeps, Zenon
  <1> QED BY <1>6, <1>7, <1>8, ZenonT(30)

\* tst_rmdir(): what is mounted inside was refused.
LEMMA CleanDirKeeps ==
    ASSUME EnvInv, NEW t \in Tests, CleanDir(t), want' = want PROVE EnvInv'
  <1>1. /\ lib[t].pc = "c_dir" /\ lib[t].pc # "crashed"
        /\ UNCHANGED <<backing, mounted, ovl, shm, stuck, robbed>> /\ kept \subseteq kept'
    BY DEF CleanDir, At, history, world
  <1>2. /\ TypeOK /\ lib[t] \in Records /\ want[t].fs \in Nat
        /\ Noted(t) /\ Stage(t) /\ Owned(t)
    BY <1>1, Parts, Zenon
  <1>3. WorldOK' /\ Frame(t) /\ UNCHANGED Saves
    BY <1>2 DEF CleanDir, TypeOK, WorldOK, Frame, Saves, history, world
  <1>5. CASE Goes(t, "c_conf")
    <2> DEFINE p == "c_conf"
    <2>1. p = "c_conf" /\ (t \in dir' => t \in stuck \cup kept' /\ lib[t].TESTDIR)
      BY <1>1, <1>2 DEF CleanDir, Noted, OvlLeft, MntLeft, DevLeft, DirLeft
    <2>2. p \in Steps /\ p \notin {"c_clk", "c_ipc", "exited"}
      BY <2>1 DEF Steps, OvlLeft, MntLeft, DevLeft, DirLeft
    <2>3. Goes(t, p)
      BY <1>5, Zenon
    <2> HIDE DEF p
    <2>4. Same(lib'[t], lib[t]) /\ lib'[t].pc = p /\ lib'[t].fs = lib[t].fs
      BY <1>2, <2>2, <2>3, GoesFields, ZenonT(30)
    <2>5. Noted(t)'
      BY <1>1, <1>2, <2>1, <2>2, <2>4, ZenonT(30)
         DEF Noted, At, Same, OvlLeft, MntLeft, DevLeft, DirLeft
    <2>6. Stage(t)'
      BY <1>1, <1>2, <2>1, <2>4 DEF Stage, Same, SetupSteps
    <2>7. Owned(t)'
      BY <1>1, <1>2, <2>1, <2>4, Zenon DEF Owned, Same
    <2> QED BY <1>1, <1>3, <2>2, <2>3, <2>5, <2>6, <2>7, GoesKeeps, Zenon DEF Good
  <1> QED BY <1>5, ZenonT(30) DEF CleanDir

\* tst_sys_conf_restore(): in an undisturbed system the value is the one of the
\* beginning.
LEMMA CleanConfKeeps ==
    ASSUME EnvInv, NEW t \in Tests, CleanConf(t), want' = want PROVE EnvInv'
  <1> DEFINE N == [lib[t] EXCEPT !.pc = "c_clk"]
  <1>1. /\ TypeOK /\ Alone /\ lib[t] \in Records /\ lib[t].pc # "crashed"
        /\ Noted(t) /\ Stage(t) /\ Owned(t)
    <2>1. lib[t].pc # "crashed"
      BY ZenonT(30) DEF CleanConf, At
    <2> QED BY <2>1, Parts, EnvParts, Zenon
  <1>2. WorldOK' /\ Frame(t)
    BY <1>1, ZenonT(30) DEF CleanConf, TypeOK, WorldOK, Frame, Records
  <1>3. /\ lib[t].pc = "c_conf" /\ Goes(t, "c_clk")
        /\ UNCHANGED <<backing, mounted, ovl, dir, shm, clock, stuck, kept, robbed, mixed>>
    BY DEF CleanConf, At
  <1>4. "c_clk" \in Steps
    BY DEF Steps, OvlLeft, MntLeft, DevLeft, DirLeft
  <1>5. lib' = [lib EXCEPT ![t] = N] /\ N \in Records
    BY <1>1, <1>3, <1>4, GotoFields DEF Goes, TypeOK
  <1> HIDE DEF N
  <1>6. Same(lib'[t], lib[t]) /\ lib'[t].pc = "c_clk" /\ lib'[t].fs = lib[t].fs
    BY <1>1, <1>3, <1>4, GoesFields, ZenonT(30)
  <1>7. Noted(t)'
    BY <1>1, <1>3, <1>6, ZenonT(30) DEF Noted, Same, At, DirLeft, DevLeft, MntLeft, OvlLeft
  <1>8. Stage(t)'
    BY <1>1, <1>2, <1>3, <1>6, ZenonT(30) DEF Stage, Same, SetupSteps, Frame
  <1>8a. Owned(t)'
    BY <1>1, <1>2, <1>3, <1>6, ZenonT(30) DEF Owned, Same
  <1>9. Alone'
    <2> SUFFICES ASSUME Undisturbed' PROVE Alone'
      BY DEF Alone
    <2>1. \A u \in Tests \ {t} : lib'[u] = lib[u]
      BY <1>1, <1>5 DEF TypeOK
    <2>2. ~mixed' /\ denied' = {} /\ \A u \in Tests : lib'[u].pc # "crashed"
      BY DEF Undisturbed, At
    <2>3. /\ denied = {}
          /\ \/ conf' = conf /\ ~lib[t].conf_saved
             \/ conf' = lib[t].value /\ lib[t].conf_saved
      <3>1. t \notin denied'
        BY <2>2
      <3>2. denied' # denied \cup {t}
        BY <3>1
      <3>3. \/ ~lib[t].conf_saved /\ UNCHANGED <<conf, denied>>
            \/ lib[t].conf_saved /\ conf' = lib[t].value /\ UNCHANGED denied
        BY <3>2, Zenon DEF CleanConf
      <3> QED BY <2>2, <3>3
    <2>4. Undisturbed
      BY <1>3, <2>1, <2>2, <2>3, ZenonT(30) DEF Undisturbed, At
    <2>5. \A u \in Tests : /\ lib'[u].conf_saved = lib[u].conf_saved /\ lib'[u].value = lib[u].value
                           /\ lib'[u].clock_saved = lib[u].clock_saved
                           /\ lib'[u].real_begin = lib[u].real_begin
      BY <1>6, <2>1, ZenonT(30) DEF Same
    <2>6. conf' # None => \E u \in Tests : /\ lib'[u].conf_saved
                                           /\ lib'[u].pc \notin {"c_clk", "c_ipc"}
      BY <1>1, <2>1, <2>3, <2>4 DEF Alone
    <2> QED BY <1>1, <1>3, <2>4, <2>5, <2>6, ZenonT(30) DEF Alone, Holding
  <1> QED BY <1>2, <1>5, <1>7, <1>8, <1>8a, <1>9, StepKeeps, Zenon DEF Good

\* tst_wallclock_restore()
LEMMA CleanClockKeeps ==
    ASSUME EnvInv, NEW t \in Tests, CleanClock(t), want' = want PROVE EnvInv'
  <1>1. /\ TypeOK /\ Alone /\ lib[t] \in Records /\ lib[t].pc # "crashed"
        /\ Noted(t) /\ Stage(t) /\ Owned(t)
    <2>1. lib[t].pc # "crashed"
      BY DEF CleanClock, At
    <2> QED BY <2>1, Parts, EnvParts, Zenon
  <1>2. WorldOK' /\ Frame(t)
    BY <1>1 DEF CleanClock, TypeOK, WorldOK, Frame, Records
  <1>3. /\ lib[t].pc = "c_clk"
        /\ UNCHANGED <<backing, mounted, ovl, dir, shm, conf, stuck, kept, robbed, mixed>>
    BY DEF CleanClock, At
  <1>4. "c_ipc" \in Steps
    BY ZenonT(30) DEF Steps, OvlLeft, MntLeft, DevLeft, DirLeft
  <1>5. CASE ~lib[t].clock_saved /\ Goes(t, "c_ipc") /\ UNCHANGED <<clock, denied>>
    <2>1. Same(lib'[t], lib[t]) /\ lib'[t].pc = "c_ipc" /\ lib'[t].fs = lib[t].fs
      BY <1>1, <1>4, <1>5, GoesFields, ZenonT(30)
    <2>2. Noted(t)'
      BY <1>1, <1>3, <2>1, ZenonT(30) DEF Noted, Same, At, DirLeft, DevLeft, MntLeft, OvlLeft
    <2>3. Stage(t)'
      BY <1>1, <1>2, <1>3, <1>5, <2>1, SMTT(20) DEF Stage, Same, SetupSteps, Frame
    <2>3a. Owned(t)'
      BY <1>1, <1>2, <1>3, <1>5, <2>1, Zenon DEF Owned, Same
    <2> QED BY <1>2, <1>3, <1>4, <1>5, <2>2, <2>3, <2>3a, GoesKeeps DEF Good, Saves
  <1>6. CASE /\ lib[t].clock_saved
             /\ lib' = [lib EXCEPT ![t].clock_saved = FALSE, ![t].pc = "c_ipc"]
             /\ clock' = lib[t].real_begin /\ UNCHANGED denied
    <2> DEFINE L == lib[t]
               N == [L EXCEPT !.clock_saved = FALSE, !.pc = "c_ipc"]
    <2>1. /\ lib' = [lib EXCEPT ![t] = N] /\ lib'[t] = N /\ clock' = L.real_begin
          /\ UNCHANGED denied
      BY <1>1, <1>6, Zenon DEF TypeOK
    <2>2. /\ N \in Records /\ N.pc = "c_ipc" /\ N.clock_saved = FALSE
          /\ N.tdev = L.tdev /\ N.device_acquired = L.device_acquired
          /\ N.mntpoint_mounted = L.mntpoint_mounted /\ N.ovl_mounted = L.ovl_mounted
          /\ N.TESTDIR = L.TESTDIR /\ N.conf_saved = L.conf_saved /\ N.value = L.value
          /\ N.real_begin = L.real_begin /\ N.fs = L.fs
      BY <1>1, <1>4, ZenonT(30) DEF Records
    <2> HIDE DEF N
    <2>3. Noted(t)'
      BY <1>1, <1>3, <2>1, <2>2, ZenonT(30) DEF Noted, At, DirLeft, DevLeft, MntLeft, OvlLeft
    <2>4. Stage(t)'
      BY <1>1, <1>2, <1>3, <2>1, <2>2 DEF Stage, Same, SetupSteps, Frame
    <2>4a. Owned(t)'
      BY <1>1, <1>2, <1>3, <2>1, <2>2, Zenon DEF Owned, Same
    <2>5. Alone'
      <3> SUFFICES ASSUME Undisturbed' PROVE Alone'
        BY DEF Alone
      <3>1. \A u \in Tests \ {t} : lib'[u] = lib[u]
        BY <1>1, <2>1 DEF TypeOK
      <3>2. Undisturbed
        BY <1>3, <2>1, <3>1 DEF Undisturbed, At
      <3>3. clock' = None
        BY <1>1, <1>6, <3>2, ZenonT(30) DEF Alone
      <3>4. \A u \in Tests : /\ lib'[u].conf_saved = lib[u].conf_saved
                             /\ lib'[u].value = lib[u].value
                             /\ lib'[u].clock_saved => lib[u].clock_saved
                             /\ lib'[u].real_begin = lib[u].real_begin
        BY <2>1, <2>2, <3>1, ZenonT(30)
      <3>5. conf' # None => \E u \in Tests : /\ lib'[u].conf_saved
                                             /\ lib'[u].pc \notin {"c_clk", "c_ipc"}
        BY <1>1, <1>3, <3>1, <3>2 DEF Alone
      <3> QED BY <1>1, <3>2, <3>3, <3>4, <3>5, ZenonT(30) DEF Alone, Holding
    <2> QED BY <1>2, <2>1, <2>2, <2>3, <2>4, <2>4a, <2>5, StepKeeps, Zenon DEF Good
  <1>7. CASE /\ lib' = [lib EXCEPT ![t] = DoExit([@ EXCEPT !.clock_saved = FALSE])]
             /\ denied' = denied \cup {t}
    <2> DEFINE L == lib[t]
               K == [L EXCEPT !.clock_saved = FALSE]
    <2>1. lib' = [lib EXCEPT ![t] = DoExit(K)] /\ lib'[t] = DoExit(K)
      BY <1>1, <1>7 DEF TypeOK
    <2>2. /\ K \in Records /\ K.tdev = L.tdev /\ K.device_acquired = L.device_acquired
          /\ K.mntpoint_mounted = L.mntpoint_mounted /\ K.ovl_mounted = L.ovl_mounted
          /\ K.TESTDIR = L.TESTDIR
      BY <1>1, ZenonT(30) DEF Records
    <2>3. DoExit(K) \in Records
      BY <2>2, ExitRecord
    <2> HIDE DEF K
    <2>4. /\ mounted[t] # None => t \in stuck
          /\ t \notin ovl /\ (t \in dir => L.TESTDIR) /\ ~L.device_acquired
          /\ \A d \in Devs : backing[d] = t => t \in stuck
      BY <1>1, <1>3, ZenonT(30) DEF Noted, At, DirLeft, DevLeft, MntLeft, OvlLeft
    <2>5. Good(t)'
      BY <1>3, <2>1, <2>2, <2>4, ExitGood
    <2>6. Alone'
      BY <1>7 DEF Alone, Undisturbed
    <2> DEFINE N == DoExit(K)
    <2>7. N \in Records /\ lib' = [lib EXCEPT ![t] = N]
      BY <2>1, <2>3
    <2> HIDE DEF N
    <2> QED BY <1>2, <2>5, <2>6, <2>7, StepKeeps, Zenon
  <1> QED BY <1>5, <1>6, <1>7, Zenon DEF CleanClock

\* cleanup_ipc() and exit(): nothing that is saved is lost.
LEMMA CleanIpcKeeps ==
    ASSUME EnvInv, NEW t \in Tests, CleanIpc(t), want' = want PROVE EnvInv'
  <1> DEFINE N == [Start EXCEPT !.pc = "exited"]
  <1>1. /\ TypeOK /\ Alone /\ lib[t] \in Records /\ lib[t].pc # "crashed"
        /\ Noted(t) /\ Stage(t) /\ Owned(t)
    <2>1. lib[t].pc # "crashed"
      BY DEF CleanIpc, At
    <2> QED BY <2>1, Parts, EnvParts, Zenon
  <1>2. WorldOK' /\ Frame(t)
    BY <1>1 DEF CleanIpc, TypeOK, WorldOK, Frame, history
  <1>3. /\ lib[t].pc = "c_ipc" /\ (t \in shm' => t \in kept') /\ kept \subseteq kept'
        /\ UNCHANGED <<backing, mounted, ovl, dir, conf, clock, stuck, denied, robbed, mixed>>
    BY DEF CleanIpc, At, history
  <1>4. lib' = [lib EXCEPT ![t] = N] /\ lib'[t] = N
    BY <1>1 DEF CleanIpc, TypeOK
  <1>5. /\ N \in Records /\ N.pc = "exited" /\ ~N.device_acquired /\ ~N.conf_saved
        /\ ~N.clock_saved
    <2>1. "exited" \in Steps /\ 0 \in Nat
      BY ZenonT(30) DEF Steps, OvlLeft, MntLeft, DevLeft, DirLeft
    <2> QED BY <2>1, ZenonT(30) DEF Records, Start
  <1> HIDE DEF N
  <1>6. Noted(t)'
    BY <1>1, <1>3, <1>4, <1>5, ZenonT(30) DEF Noted, At, DirLeft, DevLeft, MntLeft, OvlLeft
  <1>7. Stage(t)'
    BY <1>4, <1>5 DEF Stage, Same, SetupSteps, Frame
  <1>7a. Owned(t)'
    BY <1>4, <1>5, ZenonT(30) DEF Owned, Same
  <1>8. Alone'
    <2> SUFFICES ASSUME Undisturbed' PROVE Alone'
      BY DEF Alone
    <2>1. \A u \in Tests \ {t} : lib'[u] = lib[u]
      BY <1>1, <1>4 DEF TypeOK
    <2>2. Undisturbed /\ ~lib[t].clock_saved
      BY <1>1, <1>3, <2>1, ZenonT(30) DEF Undisturbed, At, Stage
    <2>3. conf # None => \E u \in Tests \ {t} : /\ lib[u].conf_saved
                                                /\ lib[u].pc \notin {"c_clk", "c_ipc"}
      BY <1>1, <1>3, <2>2, ZenonT(30) DEF Alone
    <2>4. clock # None => \E u \in Tests \ {t} : lib[u].clock_saved
      BY <1>1, <2>2 DEF Alone
    <2> QED BY <1>1, <1>3, <1>4, <1>5, <2>1, <2>2, <2>3, <2>4 DEF Alone, Holding
  <1> QED BY <1>2, <1>4, <1>5, <1>6, <1>7, <1>7a, <1>8, StepKeeps, Zenon DEF Good
-----------------------------------------------------------------------------
(* The theorems *)

\* Every machine starts with nothing to restore.
LEMMA InitInv == Init => EnvInv
  <1> SUFFICES ASSUME Init PROVE EnvInv
    OBVIOUS
  <1>1. ASSUME NEW t \in Tests
        PROVE  /\ lib[t] \in Records /\ lib[t].pc = "ipc" /\ ~lib[t].device_acquired
               /\ ~lib[t].conf_saved /\ ~lib[t].clock_saved /\ lib[t].fs = want[t].fs
    <2>1. want[t].fs \in Nat /\ "ipc" \in Steps
      BY TestEnvConstants DEF Init, Steps, SetupSteps
    <2> DEFINE f == want[t].fs
    <2>2. lib[t] = [Start EXCEPT !.fs = f] /\ f \in Nat /\ 0 \in Nat
      BY <2>1 DEF Init
    <2> HIDE DEF f
    <2>3. /\ lib[t] \in Records /\ lib[t].pc = "ipc" /\ ~lib[t].device_acquired
          /\ ~lib[t].conf_saved /\ ~lib[t].clock_saved /\ lib[t].fs = f
      BY <2>1, <2>2, ZenonT(30) DEF Start, Records
    <2> QED BY <2>3 DEF f
  <1>2. lib \in [Tests -> Records]
    BY <1>1 DEF Init
  <1>3. TypeOK
    BY <1>2, Zenon DEF Init, TypeOK
  <1>4. ASSUME NEW t \in Tests PROVE Good(t)
    BY <1>1, TestEnvConstants DEF Init, Good, Noted, Stage, Owned, At, SetupSteps
  <1>5. Alone
    BY <1>1 DEF Init, Alone, Holding
  <1> QED BY <1>3, <1>4, <1>5, EnvParts

\* Every step keeps it.
LEMMA NextInv == EnvInv /\ [Next]_vars => EnvInv'
  <1> SUFFICES ASSUME EnvInv, [Next]_vars PROVE EnvInv'
    OBVIOUS
  <1>1. ASSUME UNCHANGED vars PROVE EnvInv'
    <2>1. want' = want /\ lib' = lib /\ UNCHANGED world /\ UNCHANGED history
      BY <1>1 DEF vars
    <2>2. TypeOK /\ Alone
      BY EnvParts, ZenonT(30)
    <2>3. WorldOK' /\ Alone'
      BY <2>1, <2>2, ZenonT(30) DEF TypeOK, WorldOK, Alone, Undisturbed, At, Holding, world, history
    <2> QED BY <2>1, <2>3, IdleKeeps DEF world, history
  <1>2. ASSUME NEW t \in Tests, Setup(t), want' = want PROVE EnvInv'
    BY <1>2, SetupIpcKeeps, TmpdirKeeps, SaveConfKeeps, MountTmpfsKeeps, FindFreeKeeps,
       AttachKeeps, SetStatusKeeps, MkfsKeeps, MountDeviceKeeps, MountOverlayKeeps,
       SaveClockKeeps, ZenonT(30) DEF Setup
  <1>3. ASSUME NEW t \in Tests, Cleanup(t), want' = want PROVE EnvInv'
    BY <1>3, CleanOvlKeeps, CleanMntKeeps, CleanDevKeeps, ClearKeeps, CleanDirKeeps,
       CleanConfKeeps, CleanClockKeeps, CleanIpcKeeps, ZenonT(30) DEF Cleanup
  <1>4. ASSUME NEW t \in Tests, Proceeds(t) PROVE EnvInv'
    BY <1>2, <1>3, <1>4, TestEndsKeeps, FsUmountKeeps DEF Proceeds
  <1>5. ASSUME NEW t \in Tests, UNCHANGED want,
               TestWrites(t) \/ TestSetsClock(t) \/ TestUmounts(t)
        PROVE  EnvInv'
    BY <1>5, TestWritesKeeps, TestSetsClockKeeps, TestUmountsKeeps
  <1>6. ASSUME NEW d \in Devs, AutoClear(d), UNCHANGED want PROVE EnvInv'
    BY <1>6, AutoClearKeeps
  <1> QED BY <1>1, <1>4, <1>5, <1>6, Zenon DEF Next, Over

\* EnvInvariant: in every state of setup, run and cleanup, of any number of tests on
\* one machine, the variables of a library process cover what it has in the system, up
\* to what the kernel refused and a file between LOOP_SET_FD and LOOP_SET_STATUS.
THEOREM EnvInvariant == Spec => []EnvInv
  BY InitInv, NextInv, PTL DEF Spec

\* ExitsClean: a library process that went through do_cleanup() leaves no mount,
\* overlay, file on a loop device, temporary directory or shared memory file behind,
\* unless the kernel refused a umount, LOOP_CLR_FD or LOOP_SET_STATUS, or the removal
\* of the directory or file itself.
THEOREM ExitsClean == Spec => []NothingLeft
  <1>1. EnvInv => NothingLeft
    <2> SUFFICES ASSUME EnvInv, NEW t \in Tests, At(t, "exited")
                 PROVE  /\ t \notin ovl
                        /\ t \in dir => t \in stuck \cup kept
                        /\ t \in shm => t \in kept
                        /\ t \notin stuck => mounted[t] = None /\ \A d \in Devs : backing[d] # t
      BY ZenonT(30) DEF NothingLeft
    <2>1. Noted(t)
      BY ZenonT(30) DEF EnvInv, At
    <2> QED BY <2>1 DEF Noted, At, DirLeft, DevLeft, MntLeft, OvlLeft
  <1> QED BY <1>1, EnvInvariant, PTL

\* DevicesOwned: a device that counts as acquired holds the file of the test, unless
\* it was detached on account of another test.
THEOREM DevicesOwned == Spec => []DeviceIsMine
  <1>1. EnvInv => DeviceIsMine
    BY ZenonT(30) DEF EnvInv, DeviceIsMine, Owned, At
  <1> QED BY <1>1, EnvInvariant, PTL

\* RestoresAlone: tests that do not overlap between save and restore, that were not
\* refused the restoring write and that exited leave file and clock as they were.
THEOREM RestoresAlone == Spec => []RestoredAlone
  <1>1. EnvInv => RestoredAlone
    <2> SUFFICES ASSUME EnvInv, \A t \in Tests : At(t, "ipc") \/ At(t, "exited"),
                        ~mixed, denied = {}
                 PROVE  conf = None /\ clock = None
      BY ZenonT(30) DEF RestoredAlone
    <2>1. Undisturbed
      BY ZenonT(30) DEF Undisturbed, At
    <2>2. \A t \in Tests : ~lib[t].conf_saved /\ ~lib[t].clock_saved
      BY ZenonT(30) DEF EnvInv, Stage, At, SetupSteps
    <2> QED BY <2>1, <2>2, ZenonT(30) DEF EnvInv, Alone
  <1> QED BY <1>1, EnvInvariant, PTL
=============================================================================
