--------------------------- MODULE TestEnvSteps -----------------------------
(***************************************************************************)
(* Every step of do_setup() keeps EnvInv, for any tests, devices and      *)
(* bounds; TestEnvProofs has the other steps and the theorems.             *)
(* A step is one of a single test: the lemmas of the first part say what   *)
(* it has to leave alone for the others, what do_exit() needs to find, and *)
(* when the saved values are not concerned; then there is one lemma per    *)
(* action.                                                                 *)
(***************************************************************************)
EXTENDS TestEnv, TLAPS

\* The part of EnvInv that speaks of one test.
Good(t) == (At(t, "crashed") \/ Noted(t)) /\ Stage(t) /\ Owned(t)

\* EnvInv by its parts.
LEMMA EnvParts == EnvInv <=> TypeOK /\ (\A t \in Tests : Good(t)) /\ Alone
  BY Zenon DEF EnvInv, Good

\* do_exit() leaves a record, in which the cleanup begins or the process is dead.
LEMMA ExitRecord ==
    ASSUME NEW L \in Records
    PROVE  /\ DoExit(L) \in Records
           /\ \/ /\ DoExit(L).pc = "crashed" /\ ~DoExit(L).device_acquired
              \/ /\ DoExit(L).pc = "c_ovl"
                 /\ DoExit(L).tdev = L.tdev /\ DoExit(L).TESTDIR = L.TESTDIR
                 /\ DoExit(L).device_acquired = L.device_acquired
                 /\ DoExit(L).mntpoint_mounted = L.mntpoint_mounted
                 /\ DoExit(L).ovl_mounted = L.ovl_mounted
                 /\ DoExit(L).conf_saved = L.conf_saved /\ DoExit(L).value = L.value
                 /\ DoExit(L).clock_saved = L.clock_saved
                 /\ DoExit(L).real_begin = L.real_begin
  <1>1. CASE L.depth < MaxDepth
    <2>1. DoExit(L) = [L EXCEPT !.pc = "c_ovl", !.depth = L.depth + 1, !.tries = 0, !.fs = 0,
                                !.dev_path = None]
      BY <1>1 DEF DoExit
    <2>2. DoExit(L) \in Records
      <3>1. "c_ovl" \in Steps /\ L.depth + 1 \in Nat /\ 0 \in Nat
        BY DEF Steps, Records
      <3> QED BY <2>1, <3>1, ZenonT(30) DEF Records
    <2> DEFINE E == DoExit(L)
    <2>3. E.pc = "c_ovl" /\ E.tdev = L.tdev /\ E.value = L.value /\ E.real_begin = L.real_begin
      BY <2>1 DEF Records
    <2>4. E.TESTDIR = L.TESTDIR /\ E.device_acquired = L.device_acquired
      BY <2>1 DEF Records
    <2>5. E.mntpoint_mounted = L.mntpoint_mounted /\ E.ovl_mounted = L.ovl_mounted
      BY <2>1 DEF Records
    <2>6. E.conf_saved = L.conf_saved /\ E.clock_saved = L.clock_saved
      BY <2>1 DEF Records
    <2> HIDE DEF E
    <2> QED BY <2>2, <2>3, <2>4, <2>5, <2>6, Zenon DEF E
  <1>2. CASE ~(L.depth < MaxDepth)
    BY <1>2, Zenon DEF DoExit, Records, Steps, Start
  <1> QED BY <1>1, <1>2

\* A test that a step does not touch stays good, if a file it has attached and
\* needs is not detached without a note.
LEMMA OthersKeep ==
    ASSUME TypeOK, NEW u \in Tests, Good(u), lib'[u] = lib[u], want' = want,
           mounted'[u] = mounted[u], u \in ovl' => u \in ovl, u \in dir' => u \in dir,
           u \in shm' => u \in shm, u \in stuck => u \in stuck', u \in robbed => u \in robbed',
           u \in kept => u \in kept', \A d \in Devs : backing'[d] = u => backing[d] = u,
           \A d \in Devs : backing[d] = u /\ backing'[d] # u => u \in robbed' \/ ~Needs(u)
    PROVE  Good(u)'
  <1>1. (At(u, "crashed") \/ Noted(u))'
    BY DEF Good, At, Noted
  <1>2. Stage(u)'
    BY DEF Good, Stage
  <1>3. Owned(u)'
    <2>1. lib[u] \in Records
      BY DEF TypeOK
    <2>2. ASSUME lib[u].pc = "status"
          PROVE  backing'[lib[u].dev_path] = u \/ u \in robbed'
      <3>1. lib[u].dev_path \in Devs
        BY <2>1, <2>2 DEF Good, At, Noted, Records
      <3> QED BY <3>1, <2>2 DEF Good, Owned, Needs, At
    <2>3. ASSUME lib[u].device_acquired
          PROVE  backing'[lib[u].tdev] = u \/ u \in robbed' \/ lib[u].pc = "clr"
      <3>1. lib[u].tdev \in Devs
        BY <2>1, <2>3 DEF Good, At, Noted, Records, Stage
      <3> QED BY <3>1, <2>3, ZenonT(30) DEF Good, Owned, Needs, At
    <2> QED BY <2>2, <2>3 DEF Owned
  <1> QED BY <1>1, <1>2, <1>3 DEF Good

\* What do_exit() has to find in the variables K for the test to stay good.
LEMMA ExitGood ==
    ASSUME NEW t \in Tests, NEW K \in Records, lib'[t] = DoExit(K),
           mounted'[t] # None => t \in stuck' \/ K.mntpoint_mounted,
           t \in ovl' => K.ovl_mounted, t \in dir' => K.TESTDIR,
           K.device_acquired => K.tdev # None,
           \A d \in Devs : backing'[d] = t => t \in stuck' \/ (K.device_acquired /\ K.tdev = d),
           K.device_acquired => backing'[K.tdev] = t \/ t \in robbed'
    PROVE  Good(t)'
  <1>1. CASE DoExit(K).pc = "crashed"
    BY <1>1, ExitRecord DEF Good, At, Stage, Owned, SetupSteps
  <1>2. CASE DoExit(K).pc = "c_ovl"
    <2>1. Noted(t)'
      BY <1>2, ExitRecord DEF Noted, At, DirLeft, DevLeft, MntLeft, OvlLeft
    <2>2. Stage(t)' /\ Owned(t)'
      BY <1>2, ExitRecord DEF Stage, Owned, SetupSteps
    <2> QED BY <2>1, <2>2 DEF Good
  <1> QED BY <1>1, <1>2, ExitRecord

\* Where the flags alone cover what a test has.
Plain == (SetupSteps \ {"status"}) \cup {"test", "fs_umount", "c_ovl"}

\* There the flags cover it.
LEMMA PlainFlags ==
    ASSUME TypeOK, NEW t \in Tests, Good(t), lib[t].pc \in Plain
    PROVE  /\ mounted[t] # None => t \in stuck \/ lib[t].mntpoint_mounted
           /\ t \in ovl => lib[t].ovl_mounted
           /\ t \in dir => lib[t].TESTDIR
           /\ lib[t].device_acquired => lib[t].tdev # None
           /\ \A d \in Devs : backing[d] = t =>
                 t \in stuck \/ (lib[t].device_acquired /\ lib[t].tdev = d)
           /\ lib[t].device_acquired => backing[lib[t].tdev] = t \/ t \in robbed
  <1>1. lib[t].pc \notin {"crashed", "status", "clr", "exited"}
    BY DEF Plain, SetupSteps
  <1> QED BY <1>1 DEF Good, At, Noted, Owned

\* A step that saves, restores and changes nothing that is saved.
LEMMA QuietStep ==
    ASSUME Alone, conf' = conf, clock' = clock, mixed' = mixed, denied' = denied,
           \A u \in Tests :
              \/ lib'[u].pc = "crashed"
              \/ /\ lib'[u].conf_saved = lib[u].conf_saved /\ lib'[u].value = lib[u].value
                 /\ lib'[u].clock_saved = lib[u].clock_saved
                 /\ lib'[u].real_begin = lib[u].real_begin
                 /\ lib[u].pc # "crashed"
                 /\ lib'[u].pc \in {"c_clk", "c_ipc"} => lib[u].pc \in {"c_clk", "c_ipc"}
    PROVE  Alone'
  <1> SUFFICES ASSUME Undisturbed' PROVE Alone'
    BY DEF Alone
  <1>1. Undisturbed /\ \A u \in Tests : lib'[u].pc # "crashed"
    BY DEF Undisturbed, At
  <1> QED BY <1>1 DEF Alone, Holding

\* The types of everything but the library processes.
WorldOK == /\ want \in [Tests -> Wants]
           /\ backing \in [Devs -> Tests \cup {None}] /\ auto \subseteq Devs
           /\ mounted \in [Tests -> Devs \cup {None, Tmpfs}]
           /\ ovl \subseteq Tests /\ dir \subseteq Tests /\ shm \subseteq Tests
           /\ conf \in Tests \cup {None} /\ clock \in Tests \cup {None}
           /\ stuck \subseteq Tests /\ kept \subseteq Tests /\ denied \subseteq Tests /\ robbed \subseteq Tests
           /\ mixed \in BOOLEAN

\* What a step of t leaves alone for the others.
Frame(t) ==
    /\ want' = want /\ kept \subseteq kept'
    /\ \A u \in Tests \ {t} :
          /\ mounted'[u] = mounted[u] /\ (u \in ovl' => u \in ovl)
          /\ (u \in dir' => u \in dir) /\ (u \in shm' => u \in shm)
          /\ (u \in stuck => u \in stuck') /\ (u \in robbed => u \in robbed')
          /\ \A d \in Devs : backing'[d] = u => backing[d] = u
          /\ \A d \in Devs : backing[d] = u /\ backing'[d] # u => u \in robbed' \/ ~Needs(u)

Saves == <<conf, clock, mixed, denied>>

\* A step of t that keeps t good and the saved values in order.
LEMMA StepKeeps ==
    ASSUME EnvInv, NEW t \in Tests, NEW N \in Records, lib' = [lib EXCEPT ![t] = N],
           WorldOK', Frame(t), Good(t)', Alone'
    PROVE  EnvInv'
  <1>1. TypeOK /\ (\A u \in Tests : Good(u))
    BY EnvParts
  <1>2. TypeOK'
    BY <1>1, ZenonT(30) DEF TypeOK, WorldOK
  <1>3. ASSUME NEW u \in Tests, u # t PROVE Good(u)'
    <2>1. lib'[u] = lib[u]
      BY <1>1, <1>3 DEF TypeOK
    <2> QED BY <1>1, <1>3, <2>1, OthersKeep DEF Frame
  <1>4. \A u \in Tests : Good(u)'
    BY <1>3
  <1> QED BY <1>2, <1>4 DEF EnvInv, Good

\* One that saves, restores and changes nothing that is saved.
LEMMA QuietKeeps ==
    ASSUME EnvInv, NEW t \in Tests, NEW N \in Records, lib' = [lib EXCEPT ![t] = N],
           WorldOK', Frame(t), Good(t)', UNCHANGED Saves, lib[t].pc # "crashed",
           \/ N.pc = "crashed"
           \/ /\ N.conf_saved = lib[t].conf_saved /\ N.value = lib[t].value
              /\ N.clock_saved = lib[t].clock_saved /\ N.real_begin = lib[t].real_begin
              /\ N.pc \in {"c_clk", "c_ipc"} => lib[t].pc \in {"c_clk", "c_ipc"}
    PROVE  EnvInv'
  <1>1. TypeOK /\ Alone
    BY EnvParts
  <1>2. lib'[t] = N /\ \A u \in Tests \ {t} : lib'[u] = lib[u]
    BY <1>1, ZenonT(30) DEF TypeOK
  <1>3. Alone'
    <2>1. \A u \in Tests :
              \/ lib'[u].pc = "crashed"
              \/ /\ lib'[u].conf_saved = lib[u].conf_saved /\ lib'[u].value = lib[u].value
                 /\ lib'[u].clock_saved = lib[u].clock_saved
                 /\ lib'[u].real_begin = lib[u].real_begin
                 /\ lib[u].pc # "crashed"
                 /\ lib'[u].pc \in {"c_clk", "c_ipc"} => lib[u].pc \in {"c_clk", "c_ipc"}
      BY <1>2
    <2> QED BY <1>1, <2>1, QuietStep DEF Saves
  <1> QED BY <1>3, StepKeeps, Zenon

\* tst_brk() where the flags cover everything, with nothing changed beside it.
LEMMA BreakKeeps ==
    ASSUME EnvInv, NEW t \in Tests, Brk(t), lib[t].pc \in Plain, WorldOK', Frame(t),
           UNCHANGED Saves, mounted'[t] = mounted[t], t \in ovl' => t \in ovl,
           t \in dir' => t \in dir, t \in stuck => t \in stuck',
           t \in robbed => t \in robbed', backing' = backing
    PROVE  EnvInv'
  <1> DEFINE N == DoExit(lib[t])
  <1>1. TypeOK /\ Good(t) /\ lib[t] \in Records
    BY EnvParts, ZenonT(30) DEF TypeOK
  <1>2. lib' = [lib EXCEPT ![t] = N] /\ lib'[t] = N /\ N \in Records
    BY <1>1, ExitRecord, ZenonT(30) DEF Brk, TypeOK
  <1>3. lib[t].pc # "crashed"
    BY ZenonT(30) DEF Plain, SetupSteps
  <1>4. Good(t)'
    BY <1>1, <1>2, PlainFlags, ExitGood, ZenonT(30)
  <1>5. \/ N.pc = "crashed"
        \/ /\ N.conf_saved = lib[t].conf_saved /\ N.value = lib[t].value
           /\ N.clock_saved = lib[t].clock_saved /\ N.real_begin = lib[t].real_begin
           /\ N.pc \notin {"c_clk", "c_ipc"}
    BY <1>1, ExitRecord
  <1> HIDE DEF N
  <1> QED BY <1>2, <1>3, <1>4, <1>5, QuietKeeps, Zenon

\* Only the place changes.
Same(N, L) ==
    /\ N.dev_path = L.dev_path /\ N.tdev = L.tdev /\ N.device_acquired = L.device_acquired
    /\ N.mntpoint_mounted = L.mntpoint_mounted /\ N.ovl_mounted = L.ovl_mounted
    /\ N.TESTDIR = L.TESTDIR /\ N.conf_saved = L.conf_saved /\ N.value = L.value
    /\ N.clock_saved = L.clock_saved /\ N.real_begin = L.real_begin

\* What goes on has its variables as before.
LEMMA GotoFields ==
    ASSUME NEW L \in Records, NEW p \in Steps
    PROVE  /\ [L EXCEPT !.pc = p] \in Records /\ [L EXCEPT !.pc = p].pc = p
           /\ [L EXCEPT !.pc = p].fs = L.fs /\ Same([L EXCEPT !.pc = p], L)
  BY DEF Records, Same

\* A step of t that only goes on.
LEMMA GoesKeeps ==
    ASSUME EnvInv, NEW t \in Tests, NEW p \in Steps, Goes(t, p), lib[t].pc # "crashed",
           WorldOK', Frame(t), UNCHANGED Saves, Good(t)',
           p \in {"c_clk", "c_ipc"} => lib[t].pc \in {"c_clk", "c_ipc"}
    PROVE  EnvInv'
  <1> DEFINE N == [lib[t] EXCEPT !.pc = p]
  <1>1. lib[t] \in Records /\ lib' = [lib EXCEPT ![t] = N]
    BY EnvParts DEF TypeOK, Goes
  <1>2. N \in Records /\ N.pc = p /\ Same(N, lib[t])
    BY <1>1, GotoFields
  <1> HIDE DEF N
  <1> QED BY <1>1, <1>2, QuietKeeps, Zenon DEF Same

\* What lib'[t] looks like after it.
LEMMA GoesFields ==
    ASSUME TypeOK, NEW t \in Tests, NEW p \in Steps, Goes(t, p)
    PROVE  /\ lib[t] \in Records /\ lib'[t] \in Records /\ lib'[t].pc = p
           /\ lib'[t].fs = lib[t].fs /\ Same(lib'[t], lib[t])
  <1>1. lib[t] \in Records /\ lib'[t] = [lib[t] EXCEPT !.pc = p]
    BY DEF TypeOK, Goes
  <1> QED BY <1>1, GotoFields

\* Where do_setup() goes on.
LEMMA Places ==
    ASSUME TypeOK, NEW t \in Tests
    PROVE  /\ want[t].fs \in Nat
           /\ AfterDevice(t) \in {"overlay", "clock", "mkfs", "test"}
           /\ AfterOverlay(t) \in {"clock", "mkfs", "test"} /\ Runs(t) \in {"mkfs", "test"}
           /\ want[t].fs = 0 => /\ AfterDevice(t) # "mkfs" /\ AfterOverlay(t) # "mkfs"
                                /\ Runs(t) # "mkfs"
           /\ AfterConf(t) \in {"find", "tmpfs", "clock", "test"}
           /\ AfterConf(t) \in {"clock", "test"} => want[t].fs = 0
           /\ AfterConf(t) = "tmpfs" => want[t].fs = 0
           /\ AfterTmpdir(t) \in {"conf", AfterConf(t)}
           /\ AfterIpc(t) \in {"tmpdir", AfterTmpdir(t)}
           /\ AfterMount(t) \in {"overlay", "clock", "test"}
           /\ want[t].kind \in {"rofs", "devfs"} => want[t].fs = 0
  <1>1. /\ want[t].fs \in Nat /\ want[t].kind \in Kinds /\ want[t].clock \in BOOLEAN
        /\ want[t].conf \in BOOLEAN /\ want[t].chk \in BOOLEAN
        /\ want[t].fs > 0 => want[t].kind \in {"dev", "mount"}
    BY TestEnvConstants DEF TypeOK
  <1>2. Runs(t) \in {"mkfs", "test"} /\ (want[t].fs = 0 => Runs(t) = "test")
    BY <1>1 DEF Runs
  <1>3. AfterOverlay(t) \in {"clock", Runs(t)}
    BY DEF AfterOverlay
  <1>4. AfterDevice(t) \in {"overlay", AfterOverlay(t)}
    BY DEF AfterDevice
  <1>5. /\ AfterConf(t) \in {"find", "tmpfs", "clock", "test"}
        /\ AfterConf(t) # "find" => want[t].fs = 0
    <2>1. CASE want[t].kind = "none"
      BY <1>1, <1>2, <1>3, <2>1 DEF AfterConf
    <2>2. CASE want[t].kind \in {"rofs", "devfs"}
      BY <1>1, <2>2 DEF AfterConf
    <2>3. CASE want[t].kind \notin {"none", "rofs", "devfs"}
      BY <2>3 DEF AfterConf
    <2> QED BY <2>1, <2>2, <2>3
  <1>6. AfterTmpdir(t) \in {"conf", AfterConf(t)} /\ AfterIpc(t) \in {"tmpdir", AfterTmpdir(t)}
    BY DEF AfterTmpdir, AfterIpc
  <1>7. AfterMount(t) \in {"overlay", "clock", "test"}
    BY <1>1, <1>2, <1>3, <1>4 DEF AfterMount
  <1> QED BY <1>1, <1>2, <1>3, <1>4, <1>5, <1>6, <1>7

\* The parts of EnvInv for a test that has not crashed.
LEMMA Parts ==
    ASSUME EnvInv, NEW t \in Tests, lib[t].pc # "crashed"
    PROVE  /\ TypeOK /\ lib[t] \in Records /\ want[t].fs \in Nat
           /\ Noted(t) /\ Stage(t) /\ Owned(t)
  BY TestEnvConstants DEF EnvInv, At, TypeOK

\* The steps before the cleanup has passed anything.
LEMMA Early ==
    \A p \in SetupSteps \cup {"test", "fs_umount", "c_ovl"} :
        /\ p \in Steps /\ p \notin {"c_clk", "c_ipc", "exited", "clr", "crashed"}
        /\ p \notin OvlLeft /\ p \notin MntLeft /\ p \notin DevLeft /\ p \notin DirLeft
  BY DEF Steps, SetupSteps, OvlLeft, MntLeft, DevLeft, DirLeft

\* With all_filesystems the test runs after the mount.
LEMMA AfterMountTest == ASSUME NEW t \in Tests PROVE want[t].fs > 0 => AfterMount(t) = "test"
  BY DEF AfterMount

\* do_exit() with variables K that differ from lib[t] in nothing that is saved.
LEMMA ExitKeeps ==
    ASSUME EnvInv, NEW t \in Tests, NEW K \in Records, lib' = [lib EXCEPT ![t] = DoExit(K)],
           K.conf_saved = lib[t].conf_saved, K.value = lib[t].value,
           K.clock_saved = lib[t].clock_saved, K.real_begin = lib[t].real_begin,
           lib[t].pc # "crashed", WorldOK', Frame(t), UNCHANGED Saves, Good(t)'
    PROVE  EnvInv'
  <1> DEFINE N == DoExit(K)
  <1>1. N \in Records /\ lib' = [lib EXCEPT ![t] = N]
    BY ExitRecord
  <1>2. \/ N.pc = "crashed"
        \/ /\ N.conf_saved = lib[t].conf_saved /\ N.value = lib[t].value
           /\ N.clock_saved = lib[t].clock_saved /\ N.real_begin = lib[t].real_begin
           /\ N.pc \notin {"c_clk", "c_ipc"}
    BY ExitRecord, ZenonT(30)
  <1> HIDE DEF N
  <1> QED BY <1>1, <1>2, QuietKeeps, Zenon

\* A step without a change of the library processes.
LEMMA IdleKeeps ==
    ASSUME EnvInv, lib' = lib, WorldOK', want' = want, Alone', mounted' = mounted,
           ovl' \subseteq ovl, dir' = dir, shm' = shm, stuck' = stuck, kept' = kept, robbed \subseteq robbed',
           \A d \in Devs, u \in Tests : backing'[d] = u => backing[d] = u,
           \A d \in Devs, u \in Tests :
              backing[d] = u /\ backing'[d] # u => u \in robbed' \/ ~Needs(u)
    PROVE  EnvInv'
  <1>1. TypeOK /\ (\A u \in Tests : Good(u))
    BY EnvParts, ZenonT(30)
  <1>2. TypeOK'
    BY <1>1, ZenonT(30) DEF TypeOK, WorldOK
  <1>3. ASSUME NEW u \in Tests PROVE Good(u)'
    BY <1>1, OthersKeep, ZenonT(30)
  <1>4. \A u \in Tests : Good(u)'
    BY <1>3
  <1> QED BY <1>2, <1>4 DEF EnvInv, Good

\* A try that is refused changes nothing but the count, and a file of the test goes
\* only in tst_detach_device() or with a note.
LEMMA RetryKeeps ==
    ASSUME EnvInv, NEW t \in Tests,
           lib' = [lib EXCEPT ![t] = [lib[t] EXCEPT !.tries = lib[t].tries + 1]],
           WorldOK', Frame(t), UNCHANGED Saves, lib[t].pc # "crashed",
           mounted'[t] = mounted[t], t \in ovl' => t \in ovl, t \in dir' => t \in dir,
           t \in shm' => t \in shm, t \in stuck => t \in stuck', t \in robbed => t \in robbed',
           \A d \in Devs : backing'[d] = t => backing[d] = t,
           lib[t].pc = "clr" \/ backing' = backing
    PROVE  EnvInv'
  <1> DEFINE N == [lib[t] EXCEPT !.tries = lib[t].tries + 1]
  <1>1. TypeOK /\ lib[t] \in Records /\ Noted(t) /\ Stage(t) /\ Owned(t)
    BY Parts, Zenon
  <1>2. lib' = [lib EXCEPT ![t] = N] /\ lib'[t] = N
    BY <1>1 DEF TypeOK
  <1>3. N \in Records /\ Same(N, lib[t]) /\ N.pc = lib[t].pc /\ N.fs = lib[t].fs
    BY <1>1 DEF Records, Same
  <1> HIDE DEF N
  <1>3a. t \in stuck \cup kept => t \in stuck' \cup kept'
    BY ZenonT(30) DEF Frame
  <1>3b. t \in kept => t \in kept'
    BY ZenonT(30) DEF Frame
  <1>4. Noted(t)'
    BY <1>1, <1>2, <1>3, <1>3a, <1>3b, ZenonT(30) DEF Noted, Same, At
  <1>5. Stage(t)'
    BY <1>1, <1>2, <1>3, ZenonT(30) DEF Stage, Same, Frame
  <1>6. Owned(t)'
    BY <1>1, <1>2, <1>3 DEF Owned, Same
  <1> QED BY <1>2, <1>3, <1>4, <1>5, <1>6, QuietKeeps, Zenon DEF Good, Same

\* Again(t, r) is such a try, or the last one.
LEMMA AgainCases ==
    ASSUME TypeOK, NEW t \in Tests, NEW r, Again(t, r)
    PROVE  \/ lib' = [lib EXCEPT ![t] = [lib[t] EXCEPT !.tries = lib[t].tries + 1]]
           \/ LastTry(t) /\ lib' = [lib EXCEPT ![t] = r]
  BY Zenon DEF Again

-----------------------------------------------------------------------------
(* do_setup() *)

\* setup_ipc()
LEMMA SetupIpcKeeps ==
    ASSUME EnvInv, NEW t \in Tests, SetupIpc(t), want' = want PROVE EnvInv'
  <1>1. /\ lib[t].pc = "ipc" /\ lib[t].pc # "crashed"
        /\ UNCHANGED <<backing, mounted, ovl, dir, stuck, robbed>>
    BY DEF SetupIpc, At, history, world
  <1>2. /\ TypeOK /\ lib[t] \in Records /\ want[t].fs \in Nat
        /\ Noted(t) /\ Stage(t) /\ Owned(t)
    BY <1>1, Parts, Zenon
  <1>3. WorldOK' /\ Frame(t) /\ UNCHANGED Saves
    BY <1>2 DEF SetupIpc, TypeOK, WorldOK, Frame, Saves, history, world
  <1>5. CASE Brk(t)
    BY <1>1, <1>3, <1>5, BreakKeeps DEF Plain, SetupSteps
  <1>6. CASE Goes(t, AfterIpc(t))
    <2> DEFINE p == AfterIpc(t)
    <2>1. /\ p \in {"tmpdir", "conf", "find", "tmpfs", "clock", "test"}
          /\ p \in {"tmpfs", "clock", "test"} => want[t].fs = 0
      BY <1>1, <1>2, Places
    <2>2. /\ p \in Steps /\ p \notin {"c_clk", "c_ipc", "exited"}
          /\ p \notin OvlLeft /\ p \notin MntLeft /\ p \notin DevLeft /\ p \notin DirLeft
      BY <2>1, Early DEF SetupSteps
    <2>3. Goes(t, p)
      BY <1>6, Zenon
    <2> HIDE DEF p
    <2>4. Same(lib'[t], lib[t]) /\ lib'[t].pc = p /\ lib'[t].fs = lib[t].fs
      BY <1>2, <2>2, <2>3, GoesFields, ZenonT(30)
    <2>5. Noted(t)'
      BY <1>1, <1>2, <2>1, <2>2, <2>4, ZenonT(30) DEF Noted, At, Same
    <2>6. Stage(t)'
      BY <1>1, <1>2, <2>1, <2>4 DEF Stage, Same, SetupSteps
    <2>7. Owned(t)'
      BY <1>1, <1>2, <2>1, <2>4, Zenon DEF Owned, Same
    <2> QED BY <1>1, <1>3, <2>2, <2>3, <2>5, <2>6, <2>7, GoesKeeps, Zenon DEF Good
  <1> QED BY <1>5, <1>6, Zenon DEF SetupIpc

\* tst_tmpdir(): the name is noted before anything else can fail.
LEMMA TmpdirKeeps ==
    ASSUME EnvInv, NEW t \in Tests, Tmpdir(t), want' = want PROVE EnvInv'
  <1>1. /\ lib[t].pc = "tmpdir" /\ lib[t].pc # "crashed"
        /\ UNCHANGED <<backing, mounted, ovl, stuck, robbed>>
    BY DEF Tmpdir, At, history, world
  <1>2. /\ TypeOK /\ lib[t] \in Records /\ want[t].fs \in Nat
        /\ Noted(t) /\ Stage(t) /\ Owned(t)
    BY <1>1, Parts, Zenon
  <1>3. WorldOK' /\ Frame(t) /\ UNCHANGED Saves
    BY <1>2, ZenonT(30) DEF Tmpdir, TypeOK, WorldOK, Frame, Saves, history, world
  <1>5. CASE Brk(t) /\ UNCHANGED dir
    BY <1>1, <1>3, <1>5, BreakKeeps DEF Plain, SetupSteps
  <1>6. CASE lib' = [lib EXCEPT ![t] = DoExit([@ EXCEPT !.TESTDIR = TRUE])]
    <2> DEFINE L == lib[t]
               K == [L EXCEPT !.TESTDIR = TRUE]
    <2>1. lib' = [lib EXCEPT ![t] = DoExit(K)] /\ lib'[t] = DoExit(K)
      BY <1>2, <1>6 DEF TypeOK
    <2>2. /\ K \in Records /\ K.TESTDIR = TRUE
          /\ K.tdev = L.tdev /\ K.device_acquired = L.device_acquired
          /\ K.mntpoint_mounted = L.mntpoint_mounted
          /\ K.ovl_mounted = L.ovl_mounted /\ K.conf_saved = L.conf_saved /\ K.value = L.value
          /\ K.clock_saved = L.clock_saved /\ K.real_begin = L.real_begin
      BY <1>2, ZenonT(30) DEF Records
    <2> HIDE DEF K
    <2>3. lib[t].pc \in Plain /\ Good(t)
      BY <1>1, <1>2 DEF Plain, SetupSteps, Good
    <2>4. /\ mounted'[t] # None => t \in stuck' \/ K.mntpoint_mounted
          /\ t \in ovl' => K.ovl_mounted
          /\ t \in dir' => K.TESTDIR
          /\ K.device_acquired => K.tdev # None
          /\ \A d \in Devs : backing'[d] = t =>
                t \in stuck' \/ (K.device_acquired /\ K.tdev = d)
          /\ K.device_acquired => backing'[K.tdev] = t \/ t \in robbed'
      BY <1>1, <1>2, <2>2, <2>3, PlainFlags, Zenon
    <2>5. Good(t)'
      BY <2>1, <2>2, <2>4, ExitGood, Zenon
    <2> QED BY <1>1, <1>3, <2>1, <2>2, <2>5, ExitKeeps, Zenon
  <1>7. CASE lib' = [lib EXCEPT ![t].TESTDIR = TRUE, ![t].pc = AfterTmpdir(t)]
    <2> DEFINE L == lib[t]
               N == [L EXCEPT !.TESTDIR = TRUE, !.pc = AfterTmpdir(t)]
    <2>1. /\ AfterTmpdir(t) \in {"conf", "find", "tmpfs", "clock", "test"}
          /\ AfterTmpdir(t) \in {"tmpfs", "clock", "test"} => want[t].fs = 0
      BY <1>1, <1>2, Places
    <2>2. /\ AfterTmpdir(t) \in Steps /\ AfterTmpdir(t) \notin {"c_clk", "c_ipc", "exited"}
          /\ AfterTmpdir(t) \notin OvlLeft /\ AfterTmpdir(t) \notin MntLeft
          /\ AfterTmpdir(t) \notin DevLeft /\ AfterTmpdir(t) \notin DirLeft
      BY <2>1, Early DEF SetupSteps
    <2>3. lib' = [lib EXCEPT ![t] = N]
      BY <1>7, Zenon
    <2>4. /\ lib'[t] = N /\ N \in Records
          /\ N.TESTDIR = TRUE /\ N.pc = AfterTmpdir(t)
          /\ N.dev_path = L.dev_path /\ N.tdev = L.tdev
          /\ N.device_acquired = L.device_acquired /\ N.mntpoint_mounted = L.mntpoint_mounted
          /\ N.ovl_mounted = L.ovl_mounted /\ N.conf_saved = L.conf_saved
          /\ N.value = L.value /\ N.clock_saved = L.clock_saved
          /\ N.real_begin = L.real_begin /\ N.fs = L.fs
      BY <1>2, <2>1, <2>2, <2>3, ZenonT(30) DEF Records, TypeOK
    <2> HIDE DEF N
    <2>5. Noted(t)'
      BY <1>1, <1>2, <2>1, <2>2, <2>4, ZenonT(30) DEF Noted, At
    <2>6. Stage(t)'
      BY <1>1, <1>2, <2>1, <2>4 DEF Stage, SetupSteps
    <2>7. Owned(t)'
      BY <1>1, <1>2, <2>1, <2>4, Zenon DEF Owned
    <2> QED BY <1>1, <1>3, <2>2, <2>3, <2>4, <2>5, <2>6, <2>7, QuietKeeps, Zenon DEF Good
  <1> QED BY <1>5, <1>6, <1>7, Zenon DEF Tmpdir

\* tst_sys_conf_save(): who saves alone saves the value of the beginning.
LEMMA SaveConfKeeps ==
    ASSUME EnvInv, NEW t \in Tests, SaveConf(t), want' = want PROVE EnvInv'
  <1>1. /\ lib[t].pc = "conf" /\ lib[t].pc # "crashed"
        /\ UNCHANGED <<backing, mounted, ovl, dir, conf, clock, stuck, denied, robbed>>
    BY DEF SaveConf, At, history, world
  <1>2. /\ TypeOK /\ lib[t] \in Records /\ want[t].fs \in Nat
        /\ Noted(t) /\ Stage(t) /\ Owned(t)
    BY <1>1, Parts, Zenon
  <1>3. WorldOK' /\ Frame(t)
    BY <1>2, Zenon DEF SaveConf, TypeOK, WorldOK, Frame, history, world
  <1>5. CASE Brk(t) /\ UNCHANGED mixed
    BY <1>1, <1>3, <1>5, BreakKeeps DEF Plain, SetupSteps, Saves
  <1>6. CASE Goes(t, AfterConf(t)) /\ UNCHANGED mixed
    <2> DEFINE p == AfterConf(t)
    <2>1. /\ p \in {"find", "tmpfs", "clock", "test"}
          /\ p \in {"tmpfs", "clock", "test"} => want[t].fs = 0
      BY <1>1, <1>2, Places
    <2>2. /\ p \in Steps /\ p \notin {"c_clk", "c_ipc", "exited"}
          /\ p \notin OvlLeft /\ p \notin MntLeft /\ p \notin DevLeft /\ p \notin DirLeft
      BY <2>1, Early DEF SetupSteps
    <2>3. Goes(t, p)
      BY <1>6, Zenon
    <2> HIDE DEF p
    <2>4. Same(lib'[t], lib[t]) /\ lib'[t].pc = p /\ lib'[t].fs = lib[t].fs
      BY <1>2, <2>2, <2>3, GoesFields
    <2>5. Noted(t)'
      BY <1>1, <1>2, <2>1, <2>2, <2>4, ZenonT(30) DEF Noted, At, Same
    <2>6. Stage(t)'
      BY <1>1, <1>2, <2>1, <2>4 DEF Stage, Same, SetupSteps
    <2>7. Owned(t)'
      BY <1>1, <1>2, <2>1, <2>4, Zenon DEF Owned, Same
    <2>8. UNCHANGED Saves
      BY <1>1, <1>6 DEF Saves
    <2> QED BY <1>1, <1>3, <2>2, <2>3, <2>5, <2>6, <2>7, <2>8, GoesKeeps, Zenon DEF Good
  <1>7. CASE /\ lib' = [lib EXCEPT ![t].conf_saved = TRUE, ![t].value = conf,
                                 ![t].pc = AfterConf(t)]
             /\ mixed' = (mixed \/ \E u \in Tests \ {t} : Holding(u))
    <2> DEFINE L == lib[t]
               N == [L EXCEPT !.conf_saved = TRUE, !.value = conf, !.pc = AfterConf(t)]
    <2>1. /\ AfterConf(t) \in {"find", "tmpfs", "clock", "test"}
          /\ AfterConf(t) \in {"tmpfs", "clock", "test"} => want[t].fs = 0
      BY <1>1, <1>2, Places, ZenonT(30)
    <2>2. /\ AfterConf(t) \in Steps /\ AfterConf(t) \notin {"c_clk", "c_ipc", "exited"}
          /\ AfterConf(t) \notin OvlLeft /\ AfterConf(t) \notin MntLeft
          /\ AfterConf(t) \notin DevLeft /\ AfterConf(t) \notin DirLeft
      BY <2>1, Early DEF SetupSteps
    <2>3. lib' = [lib EXCEPT ![t] = N]
      BY <1>7, Zenon
    <2>4. /\ lib'[t] = N /\ N \in Records
          /\ N.conf_saved = TRUE /\ N.value = conf
          /\ N.pc = AfterConf(t)
          /\ N.dev_path = L.dev_path /\ N.tdev = L.tdev
          /\ N.device_acquired = L.device_acquired /\ N.mntpoint_mounted = L.mntpoint_mounted
          /\ N.ovl_mounted = L.ovl_mounted /\ N.TESTDIR = L.TESTDIR
          /\ N.clock_saved = L.clock_saved /\ N.real_begin = L.real_begin
          /\ N.fs = L.fs
      BY <1>2, <2>1, <2>2, <2>3, ZenonT(30) DEF Records, TypeOK
    <2> HIDE DEF N
    <2>5. Noted(t)'
      BY <1>1, <1>2, <2>1, <2>2, <2>4, ZenonT(30) DEF Noted, At
    <2>6. Stage(t)'
      BY <1>1, <1>2, <2>1, <2>4 DEF Stage, SetupSteps
    <2>7. Owned(t)'
      BY <1>1, <1>2, <2>1, <2>4, Zenon DEF Owned
    <2>8. Alone'
      <3> SUFFICES ASSUME Undisturbed' PROVE Alone'
        BY DEF Alone
      <3>1. \A u \in Tests \ {t} : lib'[u] = lib[u]
        BY <1>2, <2>3 DEF TypeOK
      <3>2. Undisturbed /\ Alone /\ \A u \in Tests \ {t} : ~Holding(u)
        <4>1. ~mixed' /\ denied' = {} /\ \A u \in Tests : lib'[u].pc # "crashed"
          BY DEF Undisturbed, At
        <4>2. ~mixed /\ \A u \in Tests \ {t} : ~Holding(u)
          BY <4>1, <1>7, Zenon
        <4>3. denied = {} /\ \A u \in Tests : lib[u].pc # "crashed"
          BY <1>1, <3>1, <4>1, ZenonT(30)
        <4> QED BY <4>2, <4>3, EnvParts, ZenonT(30) DEF Undisturbed, At
      <3>3. ~lib[t].clock_saved /\ ~lib[t].conf_saved
        BY <1>1, <1>2, ZenonT(30) DEF Stage, SetupSteps
      <3>4. clock = None /\ (conf # None => lib[t].conf_saved)
        BY <3>2, <3>3 DEF Alone, Holding
      <3>5. \A u \in Tests \ {t} : ~lib'[u].conf_saved /\ ~lib'[u].clock_saved
        BY <3>1, <3>2 DEF Holding
      <3>6. conf' = conf /\ clock' = clock
        BY <1>1, ZenonT(30)
      <3>7. /\ lib'[t].conf_saved => lib'[t].value = None
            /\ lib'[t].clock_saved => lib'[t].real_begin = None
            /\ conf # None => lib'[t].conf_saved /\ lib'[t].pc \notin {"c_clk", "c_ipc"}
        BY <2>2, <2>4, <3>2, <3>3, <3>4 DEF Alone
      <3> QED BY <3>4, <3>5, <3>6, <3>7, ZenonT(30) DEF Alone, Holding
    <2> QED BY <1>3, <2>3, <2>4, <2>5, <2>6, <2>7, <2>8, StepKeeps, Zenon DEF Good
  <1> QED BY <1>5, <1>6, <1>7, Zenon DEF SaveConf

\* prepare_and_mount_ro_fs() and prepare_and_mount_dev_fs() with a tmpfs.
LEMMA MountTmpfsKeeps ==
    ASSUME EnvInv, NEW t \in Tests, MountTmpfs(t), want' = want PROVE EnvInv'
  <1>1. /\ lib[t].pc = "tmpfs" /\ lib[t].pc # "crashed"
        /\ UNCHANGED <<backing, ovl, dir, stuck, robbed>>
    BY DEF MountTmpfs, At, history, world
  <1>2. /\ TypeOK /\ lib[t] \in Records /\ want[t].fs \in Nat
        /\ Noted(t) /\ Stage(t) /\ Owned(t)
    BY <1>1, Parts, Zenon
  <1>3. WorldOK' /\ Frame(t) /\ UNCHANGED Saves
    BY <1>2, ZenonT(30) DEF MountTmpfs, TypeOK, WorldOK, Frame, Saves, history, world
  <1>5. CASE Brk(t) /\ UNCHANGED mounted
    BY <1>1, <1>3, <1>5, BreakKeeps DEF Plain, SetupSteps
  <1>6. CASE /\ Goes(t, IF want[t].kind = "rofs" THEN "find" ELSE AfterDevice(t))
             /\ UNCHANGED mounted
    <2> DEFINE p == IF want[t].kind = "rofs" THEN "find" ELSE AfterDevice(t)
    <2>1. /\ p \in {"find", "overlay", "clock", "test"} /\ want[t].fs = 0
          /\ UNCHANGED mounted
      BY <1>1, <1>2, <1>6, Places, ZenonT(30) DEF Stage
    <2>2. /\ p \in Steps /\ p \notin {"c_clk", "c_ipc", "exited"}
          /\ p \notin OvlLeft /\ p \notin MntLeft /\ p \notin DevLeft /\ p \notin DirLeft
      BY <2>1, Early DEF SetupSteps
    <2>3. Goes(t, p)
      BY <1>6, Zenon
    <2> HIDE DEF p
    <2>4. Same(lib'[t], lib[t]) /\ lib'[t].pc = p /\ lib'[t].fs = lib[t].fs
      BY <1>2, <2>2, <2>3, GoesFields
    <2>5. Noted(t)'
      BY <1>1, <1>2, <2>1, <2>2, <2>4, ZenonT(30) DEF Noted, At, Same
    <2>6. Stage(t)'
      BY <1>1, <1>2, <2>1, <2>4 DEF Stage, Same, SetupSteps
    <2>7. Owned(t)'
      BY <1>1, <1>2, <2>1, <2>4, Zenon DEF Owned, Same
    <2> QED BY <1>1, <1>3, <2>2, <2>3, <2>5, <2>6, <2>7, GoesKeeps, Zenon DEF Good
  <1>7. CASE lib' = [lib EXCEPT ![t].mntpoint_mounted = TRUE, ![t].pc = AfterDevice(t)]
    <2> DEFINE L == lib[t]
               N == [L EXCEPT !.mntpoint_mounted = TRUE, !.pc = AfterDevice(t)]
    <2>1. AfterDevice(t) \in {"overlay", "clock", "test"} /\ want[t].fs = 0
      BY <1>1, <1>2, Places, ZenonT(30) DEF Stage
    <2>2. /\ AfterDevice(t) \in Steps /\ AfterDevice(t) \notin {"c_clk", "c_ipc", "exited"}
          /\ AfterDevice(t) \notin OvlLeft /\ AfterDevice(t) \notin MntLeft
          /\ AfterDevice(t) \notin DevLeft /\ AfterDevice(t) \notin DirLeft
      BY <2>1, Early DEF SetupSteps
    <2>3. lib' = [lib EXCEPT ![t] = N]
      BY <1>7, Zenon
    <2>4. /\ lib'[t] = N /\ N \in Records
          /\ N.mntpoint_mounted = TRUE /\ N.pc = AfterDevice(t)
          /\ N.dev_path = L.dev_path /\ N.tdev = L.tdev
          /\ N.device_acquired = L.device_acquired /\ N.ovl_mounted = L.ovl_mounted
          /\ N.TESTDIR = L.TESTDIR /\ N.conf_saved = L.conf_saved
          /\ N.value = L.value /\ N.clock_saved = L.clock_saved
          /\ N.real_begin = L.real_begin /\ N.fs = L.fs
      BY <1>2, <2>1, <2>2, <2>3, ZenonT(30) DEF Records, TypeOK
    <2> HIDE DEF N
    <2>5. Noted(t)'
      BY <1>1, <1>2, <2>1, <2>2, <2>4, ZenonT(30) DEF Noted, At
    <2>6. Stage(t)'
      BY <1>1, <1>2, <2>1, <2>4 DEF Stage, SetupSteps
    <2>7. Owned(t)'
      BY <1>1, <1>2, <2>1, <2>4, Zenon DEF Owned
    <2> QED BY <1>1, <1>3, <2>2, <2>3, <2>4, <2>5, <2>6, <2>7, QuietKeeps, Zenon DEF Good
  <1>8. CASE lib' = [lib EXCEPT ![t] = DoExit([@ EXCEPT !.mntpoint_mounted = TRUE])]
    <2> DEFINE L == lib[t]
               K == [L EXCEPT !.mntpoint_mounted = TRUE]
    <2>1. lib' = [lib EXCEPT ![t] = DoExit(K)] /\ lib'[t] = DoExit(K)
      BY <1>2, <1>8 DEF TypeOK
    <2>2. /\ K \in Records /\ K.mntpoint_mounted = TRUE
          /\ K.tdev = L.tdev /\ K.device_acquired = L.device_acquired
          /\ K.ovl_mounted = L.ovl_mounted
          /\ K.TESTDIR = L.TESTDIR /\ K.conf_saved = L.conf_saved /\ K.value = L.value
          /\ K.clock_saved = L.clock_saved /\ K.real_begin = L.real_begin
      BY <1>2, ZenonT(30) DEF Records
    <2> HIDE DEF K
    <2>3. lib[t].pc \in Plain /\ Good(t)
      BY <1>1, <1>2 DEF Plain, SetupSteps, Good
    <2>4. /\ mounted'[t] # None => t \in stuck' \/ K.mntpoint_mounted
          /\ t \in ovl' => K.ovl_mounted
          /\ t \in dir' => K.TESTDIR
          /\ K.device_acquired => K.tdev # None
          /\ \A d \in Devs : backing'[d] = t =>
                t \in stuck' \/ (K.device_acquired /\ K.tdev = d)
          /\ K.device_acquired => backing'[K.tdev] = t \/ t \in robbed'
      BY <1>1, <1>2, <2>2, <2>3, PlainFlags, Zenon
    <2>5. Good(t)'
      BY <2>1, <2>2, <2>4, ExitGood, Zenon
    <2> QED BY <1>1, <1>3, <2>1, <2>2, <2>5, ExitKeeps, Zenon
  <1> QED BY <1>5, <1>6, <1>7, <1>8, Zenon DEF MountTmpfs

\* tst_find_free_loopdev()
LEMMA FindFreeKeeps ==
    ASSUME EnvInv, NEW t \in Tests, FindFree(t), want' = want PROVE EnvInv'
  <1>1. /\ lib[t].pc = "find" /\ lib[t].pc # "crashed"
        /\ UNCHANGED <<backing, mounted, ovl, dir, stuck, robbed>>
    BY DEF FindFree, At, history, world
  <1>2. /\ TypeOK /\ lib[t] \in Records /\ want[t].fs \in Nat
        /\ Noted(t) /\ Stage(t) /\ Owned(t)
    BY <1>1, Parts, Zenon
  <1>3. WorldOK' /\ Frame(t) /\ UNCHANGED Saves
    BY <1>2, ZenonT(30) DEF FindFree, TypeOK, WorldOK, Frame, Saves, history, world
  <1>5. CASE Brk(t)
    BY <1>1, <1>3, <1>5, BreakKeeps DEF Plain, SetupSteps
  <1>6. CASE \E d \in Devs : lib' = [lib EXCEPT ![t].dev_path = d, ![t].pc = "attach"]
    <2>0. PICK d \in Devs : lib' = [lib EXCEPT ![t].dev_path = d, ![t].pc = "attach"]
      BY <1>6, Zenon
    <2> DEFINE L == lib[t]
               N == [L EXCEPT !.dev_path = d, !.pc = "attach"]
    <2>1. d # None
      BY TestEnvConstants
    <2>2. /\ "attach" \in Steps /\ "attach" \notin {"c_clk", "c_ipc", "exited"}
          /\ "attach" \notin OvlLeft /\ "attach" \notin MntLeft
          /\ "attach" \notin DevLeft /\ "attach" \notin DirLeft
      BY <2>1, Early DEF SetupSteps
    <2>3. lib' = [lib EXCEPT ![t] = N]
      BY <2>0, Zenon
    <2>4. /\ lib'[t] = N /\ N \in Records
          /\ N.dev_path = d /\ N.pc = "attach"
          /\ N.tdev = L.tdev /\ N.device_acquired = L.device_acquired
          /\ N.mntpoint_mounted = L.mntpoint_mounted /\ N.ovl_mounted = L.ovl_mounted
          /\ N.TESTDIR = L.TESTDIR /\ N.conf_saved = L.conf_saved
          /\ N.value = L.value /\ N.clock_saved = L.clock_saved
          /\ N.real_begin = L.real_begin /\ N.fs = L.fs
      BY <1>2, <2>1, <2>2, <2>3, ZenonT(30) DEF Records, TypeOK
    <2> HIDE DEF N
    <2>5. Noted(t)'
      BY <1>1, <1>2, <2>1, <2>2, <2>4, ZenonT(30) DEF Noted, At
    <2>6. Stage(t)'
      BY <1>1, <1>2, <2>1, <2>4 DEF Stage, SetupSteps
    <2>7. Owned(t)'
      BY <1>1, <1>2, <2>1, <2>4, Zenon DEF Owned
    <2> QED BY <1>1, <1>3, <2>2, <2>3, <2>4, <2>5, <2>6, <2>7, QuietKeeps, Zenon DEF Good
  <1> QED BY <1>5, <1>6, Zenon DEF FindFree

\* tst_attach_device(): the device was free.
LEMMA AttachKeeps ==
    ASSUME EnvInv, NEW t \in Tests, Attach(t), want' = want PROVE EnvInv'
  <1>1. /\ lib[t].pc = "attach" /\ lib[t].pc # "crashed"
        /\ UNCHANGED <<mounted, ovl, dir, stuck, robbed>>
    BY DEF Attach, At, history, world
  <1>2. /\ TypeOK /\ lib[t] \in Records /\ want[t].fs \in Nat
        /\ Noted(t) /\ Stage(t) /\ Owned(t)
    BY <1>1, Parts, ZenonT(30)
  <1>4. lib[t].dev_path \in Devs
    BY <1>1, <1>2, ZenonT(30) DEF Noted, Records
  <1>3. WorldOK' /\ Frame(t) /\ UNCHANGED Saves
    <2>1. UNCHANGED <<auto, mounted, ovl, dir, shm, conf, clock, history>> BY Zenon DEF Attach
    <2>2. UNCHANGED <<stuck, kept, denied, robbed, mixed>> BY <2>1, Zenon DEF history
    <2>3. \/ backing' = backing
          \/ /\ backing[lib[t].dev_path] = None
             /\ backing' = [backing EXCEPT ![lib[t].dev_path] = t]
      BY Zenon DEF Attach
    <2>4. /\ backing' \in [Devs -> Tests \cup {None}]
          /\ \A u \in Tests \ {t}, d \in Devs : backing'[d] = u <=> backing[d] = u
      <3>1. backing \in [Devs -> Tests \cup {None}] BY <1>2, ZenonT(30) DEF TypeOK, WorldOK
      <3> QED BY <1>4, <2>3, <3>1, TestEnvConstants
    <2>5. WorldOK BY <1>2, ZenonT(30) DEF TypeOK, WorldOK
    <2>6. WorldOK' BY <2>1, <2>2, <2>4, <2>5, ZenonT(30) DEF WorldOK
    <2>7. UNCHANGED Saves BY <2>1, <2>2, Zenon DEF Saves
    <2>8. Frame(t) BY <2>1, <2>2, <2>4, ZenonT(30) DEF Frame
    <2> QED BY <2>6, <2>7, <2>8
  <1>5. CASE Brk(t) /\ UNCHANGED backing
    BY <1>1, <1>3, <1>5, BreakKeeps DEF Plain, SetupSteps
  <1>6. CASE /\ backing[lib[t].dev_path] = None /\ Goes(t, "status")
             /\ backing' = [backing EXCEPT ![lib[t].dev_path] = t]
    <2> DEFINE p == "status"
    <2>1. /\ p = "status" /\ ~lib[t].device_acquired /\ lib[t].dev_path # None
          /\ \A d \in Devs : backing'[d] = t => d = lib[t].dev_path \/ backing[d] = t
          /\ backing'[lib[t].dev_path] = t
      BY <1>1, <1>2, <1>4, <1>6, ZenonT(30) DEF TypeOK, Stage, Noted, SetupSteps
    <2>2. /\ p \in Steps /\ p \notin {"c_clk", "c_ipc", "exited"}
          /\ p \notin OvlLeft /\ p \notin MntLeft /\ p \notin DevLeft /\ p \notin DirLeft
      BY <2>1, Early DEF SetupSteps
    <2>3. Goes(t, p)
      BY <1>6, ZenonT(30)
    <2> HIDE DEF p
    <2>4. Same(lib'[t], lib[t]) /\ lib'[t].pc = p /\ lib'[t].fs = lib[t].fs
      BY <1>2, <2>2, <2>3, GoesFields, ZenonT(30)
    <2>5. Noted(t)'
      BY <1>1, <1>2, <2>1, <2>2, <2>4, ZenonT(30) DEF Noted, At, Same
    <2>6. Stage(t)'
      BY <1>1, <1>2, <2>1, <2>4 DEF Stage, Same, SetupSteps
    <2>7. Owned(t)'
      BY <1>1, <1>2, <2>1, <2>4, Zenon DEF Owned, Same
    <2> QED BY <1>1, <1>3, <2>2, <2>3, <2>5, <2>6, <2>7, GoesKeeps, ZenonT(30) DEF Good
  <1> QED BY <1>5, <1>6, Zenon DEF Attach

\* LOOP_SET_STATUS
LEMMA SetStatusKeeps ==
    ASSUME EnvInv, NEW t \in Tests, SetStatus(t), want' = want PROVE EnvInv'
  <1>1. /\ lib[t].pc = "status" /\ lib[t].pc # "crashed"
        /\ UNCHANGED <<backing, mounted, ovl, dir, robbed>>
        /\ stuck \subseteq stuck'
    BY DEF SetStatus, At, history, world
  <1>2. /\ TypeOK /\ lib[t] \in Records /\ want[t].fs \in Nat
        /\ Noted(t) /\ Stage(t) /\ Owned(t)
    BY <1>1, Parts, Zenon
  <1>4. lib[t].dev_path \in Devs
    BY <1>1, <1>2, ZenonT(30) DEF Noted, Records
  <1>3. WorldOK' /\ Frame(t) /\ UNCHANGED Saves
    BY <1>2, <1>4 DEF SetStatus, TypeOK, WorldOK, Frame, Saves, history, world
  <1>5. CASE Brk(t) /\ stuck' = stuck \cup {t}
    <2>1. lib' = [lib EXCEPT ![t] = DoExit(lib[t])] /\ lib'[t] = DoExit(lib[t])
      BY <1>2, <1>5, ZenonT(30) DEF Brk, TypeOK
    <2>2. /\ t \in stuck' /\ ~lib[t].device_acquired
          /\ (t \in ovl => lib[t].ovl_mounted) /\ (t \in dir => lib[t].TESTDIR)
      BY <1>1, <1>2, <1>5, ZenonT(30) DEF Noted, Stage, SetupSteps
    <2>3. Good(t)'
      BY <1>1, <1>2, <2>1, <2>2, ExitGood
    <2> QED BY <1>1, <1>2, <1>3, <2>1, <2>3, ExitKeeps, Zenon
  <1>6. CASE lib' = [lib EXCEPT ![t].device_acquired = TRUE, ![t].tdev = lib[t].dev_path,
                    ![t].pc = IF want[t].fs > 0 \/ want[t].kind = "dev" THEN AfterDevice(t)
                              ELSE "mkfs"]
    <2> DEFINE p == IF want[t].fs > 0 \/ want[t].kind = "dev" THEN AfterDevice(t) ELSE "mkfs"
               L == lib[t]
               N == [L EXCEPT !.device_acquired = TRUE, !.tdev = lib[t].dev_path, !.pc = p]
    <2>1. /\ p \in {"overlay", "clock", "mkfs", "test"} /\ lib[t].dev_path # None
          /\ ~lib[t].device_acquired
      BY <1>1, <1>2, <1>4, Places, TestEnvConstants, ZenonT(30) DEF Stage, SetupSteps
    <2>2. /\ p \in Steps /\ p \notin {"c_clk", "c_ipc", "exited"}
          /\ p \notin OvlLeft /\ p \notin MntLeft
          /\ p \notin DevLeft /\ p \notin DirLeft
      BY <2>1, Early DEF SetupSteps
    <2>3. lib' = [lib EXCEPT ![t] = N]
      BY <1>6, Zenon
    <2> HIDE DEF p
    <2>4. /\ lib'[t] = N /\ N \in Records
          /\ N.device_acquired = TRUE /\ N.tdev = lib[t].dev_path
          /\ N.pc = p
          /\ N.dev_path = L.dev_path /\ N.mntpoint_mounted = L.mntpoint_mounted
          /\ N.ovl_mounted = L.ovl_mounted /\ N.TESTDIR = L.TESTDIR
          /\ N.conf_saved = L.conf_saved /\ N.value = L.value
          /\ N.clock_saved = L.clock_saved /\ N.real_begin = L.real_begin
          /\ N.fs = L.fs
      BY <1>2, <2>1, <2>2, <2>3, <1>4, ZenonT(30) DEF Records, TypeOK
    <2> HIDE DEF N
    <2>5. Noted(t)'
      BY <1>1, <1>2, <2>1, <2>2, <2>4, ZenonT(30) DEF Noted, At
    <2>6. Stage(t)'
      BY <1>1, <1>2, <2>1, <2>4 DEF Stage, SetupSteps
    <2>7. Owned(t)'
      BY <1>1, <1>2, <2>1, <2>4, Zenon DEF Owned
    <2> QED BY <1>1, <1>3, <2>2, <2>3, <2>4, <2>5, <2>6, <2>7, QuietKeeps, ZenonT(30) DEF Good
  <1> QED BY <1>5, <1>6, Zenon DEF SetStatus

\* SAFE_MKFS()
LEMMA MkfsKeeps ==
    ASSUME EnvInv, NEW t \in Tests, Mkfs(t), want' = want PROVE EnvInv'
  <1>1. /\ lib[t].pc = "mkfs" /\ lib[t].pc # "crashed"
        /\ UNCHANGED <<backing, mounted, ovl, dir, stuck, robbed>>
    BY DEF Mkfs, At, history, world
  <1>2. /\ TypeOK /\ lib[t] \in Records /\ want[t].fs \in Nat
        /\ Noted(t) /\ Stage(t) /\ Owned(t)
    BY <1>1, Parts, Zenon
  <1>3. WorldOK' /\ Frame(t) /\ UNCHANGED Saves
    BY <1>2, SMTT(20) DEF Mkfs, TypeOK, WorldOK, Frame, Saves, history, world
  <1>5. CASE Brk(t)
    BY <1>1, <1>3, <1>5, BreakKeeps, Zenon DEF Plain, SetupSteps
  <1>6. CASE Goes(t, "mount")
    <2> DEFINE p == "mount"
    <2>1. p = "mount"
      BY <1>1, <1>2, Places
    <2>2. /\ p \in Steps /\ p \notin {"c_clk", "c_ipc", "exited"}
          /\ p \notin OvlLeft /\ p \notin MntLeft /\ p \notin DevLeft /\ p \notin DirLeft
      BY <2>1, Early DEF SetupSteps
    <2>3. Goes(t, p)
      BY <1>6, ZenonT(30)
    <2> HIDE DEF p
    <2>4. Same(lib'[t], lib[t]) /\ lib'[t].pc = p /\ lib'[t].fs = lib[t].fs
      BY <1>2, <2>2, <2>3, GoesFields
    <2>5. Noted(t)'
      BY <1>1, <1>2, <2>1, <2>2, <2>4, ZenonT(30) DEF Noted, At, Same
    <2>6. Stage(t)'
      BY <1>1, <1>2, <2>1, <2>4 DEF Stage, Same, SetupSteps
    <2>7. Owned(t)'
      BY <1>1, <1>2, <2>1, <2>4, Zenon DEF Owned, Same
    <2> QED BY <1>1, <1>3, <2>2, <2>3, <2>5, <2>6, <2>7, GoesKeeps, Zenon DEF Good
  <1> QED BY <1>5, <1>6, Zenon DEF Mkfs

\* SAFE_MOUNT() of the device, or prepare_and_mount_ro_fs().
LEMMA MountDeviceKeeps ==
    ASSUME EnvInv, NEW t \in Tests, MountDevice(t), want' = want PROVE EnvInv'
  <1>1. /\ lib[t].pc = "mount" /\ lib[t].pc # "crashed"
        /\ UNCHANGED <<backing, ovl, dir, stuck, robbed>>
    BY DEF MountDevice, At, history, world
  <1>2. /\ TypeOK /\ lib[t] \in Records /\ want[t].fs \in Nat
        /\ Noted(t) /\ Stage(t) /\ Owned(t)
    BY <1>1, Parts, ZenonT(30)
  <1>4. lib[t].tdev \in Devs
    BY <1>1, <1>2 DEF Noted, Records
  <1>3. WorldOK' /\ Frame(t) /\ UNCHANGED Saves
    BY <1>2, <1>4, ZenonT(30) DEF MountDevice, TypeOK, WorldOK, Frame, Saves, history, world
  <1>5. CASE Brk(t) /\ UNCHANGED mounted
    BY <1>1, <1>3, <1>5, BreakKeeps DEF Plain, SetupSteps
  <1>6. CASE Goes(t, AfterMount(t)) /\ UNCHANGED mounted
    <2> DEFINE p == AfterMount(t)
    <2>1. /\ p \in {"overlay", "clock", "test"} /\ (want[t].fs > 0 => p = "test")
          /\ lib[t].tdev # None /\ UNCHANGED mounted
      BY <1>1, <1>2, <1>4, <1>6, Places, AfterMountTest, TestEnvConstants
    <2>2. /\ p \in Steps /\ p \notin {"c_clk", "c_ipc", "exited"}
          /\ p \notin OvlLeft /\ p \notin MntLeft /\ p \notin DevLeft /\ p \notin DirLeft
      BY <2>1, Early, ZenonT(30) DEF SetupSteps
    <2>3. Goes(t, p)
      BY <1>6, Zenon
    <2> HIDE DEF p
    <2>4. Same(lib'[t], lib[t]) /\ lib'[t].pc = p /\ lib'[t].fs = lib[t].fs
      BY <1>2, <2>2, <2>3, GoesFields
    <2>5. Noted(t)'
      BY <1>1, <1>2, <2>1, <2>2, <2>4, ZenonT(30) DEF Noted, At, Same
    <2>6. Stage(t)'
      BY <1>1, <1>2, <2>1, <2>4 DEF Stage, Same, SetupSteps
    <2>7. Owned(t)'
      BY <1>1, <1>2, <2>1, <2>4, Zenon DEF Owned, Same
    <2> QED BY <1>1, <1>3, <2>2, <2>3, <2>5, <2>6, <2>7, GoesKeeps, ZenonT(30) DEF Good
  <1>7. CASE lib' = [lib EXCEPT ![t].mntpoint_mounted = TRUE, ![t].pc = AfterMount(t)]
    <2> DEFINE L == lib[t]
               N == [L EXCEPT !.mntpoint_mounted = TRUE, !.pc = AfterMount(t)]
    <2>1. /\ AfterMount(t) \in {"overlay", "clock", "test"} /\ lib[t].tdev # None
          /\ want[t].fs > 0 => AfterMount(t) = "test"
      BY <1>1, <1>2, <1>4, Places, AfterMountTest, TestEnvConstants, ZenonT(30)
    <2>2. /\ AfterMount(t) \in Steps /\ AfterMount(t) \notin {"c_clk", "c_ipc", "exited"}
          /\ AfterMount(t) \notin OvlLeft /\ AfterMount(t) \notin MntLeft
          /\ AfterMount(t) \notin DevLeft /\ AfterMount(t) \notin DirLeft
      BY <2>1, Early DEF SetupSteps
    <2>3. lib' = [lib EXCEPT ![t] = N]
      BY <1>7, Zenon
    <2>4. /\ lib'[t] = N /\ N \in Records
          /\ N.mntpoint_mounted = TRUE /\ N.pc = AfterMount(t)
          /\ N.dev_path = L.dev_path /\ N.tdev = L.tdev
          /\ N.device_acquired = L.device_acquired /\ N.ovl_mounted = L.ovl_mounted
          /\ N.TESTDIR = L.TESTDIR /\ N.conf_saved = L.conf_saved
          /\ N.value = L.value /\ N.clock_saved = L.clock_saved
          /\ N.real_begin = L.real_begin /\ N.fs = L.fs
      BY <1>2, <2>1, <2>2, <2>3, ZenonT(30) DEF Records, TypeOK
    <2> HIDE DEF N
    <2>5. Noted(t)'
      BY <1>1, <1>2, <2>1, <2>2, <2>4, ZenonT(30) DEF Noted, At
    <2>6. Stage(t)'
      BY <1>1, <1>2, <2>1, <2>4 DEF Stage, SetupSteps
    <2>7. Owned(t)'
      BY <1>1, <1>2, <2>1, <2>4, Zenon DEF Owned
    <2> QED BY <1>1, <1>3, <2>2, <2>3, <2>4, <2>5, <2>6, <2>7, QuietKeeps, ZenonT(30) DEF Good
  <1>8. CASE lib' = [lib EXCEPT ![t] = DoExit([@ EXCEPT !.mntpoint_mounted = TRUE])]
    <2> DEFINE L == lib[t]
               K == [L EXCEPT !.mntpoint_mounted = TRUE]
    <2>1. lib' = [lib EXCEPT ![t] = DoExit(K)] /\ lib'[t] = DoExit(K)
      BY <1>2, <1>8 DEF TypeOK
    <2>2. /\ K \in Records /\ K.mntpoint_mounted = TRUE
          /\ K.tdev = L.tdev /\ K.device_acquired = L.device_acquired
          /\ K.ovl_mounted = L.ovl_mounted
          /\ K.TESTDIR = L.TESTDIR /\ K.conf_saved = L.conf_saved /\ K.value = L.value
          /\ K.clock_saved = L.clock_saved /\ K.real_begin = L.real_begin
      BY <1>2, ZenonT(30) DEF Records
    <2> HIDE DEF K
    <2>3. lib[t].pc \in Plain /\ Good(t)
      BY <1>1, <1>2 DEF Plain, SetupSteps, Good
    <2>4. /\ mounted'[t] # None => t \in stuck' \/ K.mntpoint_mounted
          /\ t \in ovl' => K.ovl_mounted
          /\ t \in dir' => K.TESTDIR
          /\ K.device_acquired => K.tdev # None
          /\ \A d \in Devs : backing'[d] = t =>
                t \in stuck' \/ (K.device_acquired /\ K.tdev = d)
          /\ K.device_acquired => backing'[K.tdev] = t \/ t \in robbed'
      BY <1>1, <1>2, <2>2, <2>3, PlainFlags, Zenon
    <2>5. Good(t)'
      BY <2>1, <2>2, <2>4, ExitGood, Zenon
    <2> QED BY <1>1, <1>3, <2>1, <2>2, <2>5, ExitKeeps, Zenon
  <1> QED BY <1>5, <1>6, <1>7, <1>8, Zenon DEF MountDevice

\* SAFE_MOUNT_OVERLAY()
LEMMA MountOverlayKeeps ==
    ASSUME EnvInv, NEW t \in Tests, MountOverlay(t), want' = want PROVE EnvInv'
  <1>1. /\ lib[t].pc = "overlay" /\ lib[t].pc # "crashed"
        /\ UNCHANGED <<backing, mounted, dir, stuck, robbed>>
    BY DEF MountOverlay, At, history, world
  <1>2. /\ TypeOK /\ lib[t] \in Records /\ want[t].fs \in Nat
        /\ Noted(t) /\ Stage(t) /\ Owned(t)
    BY <1>1, Parts, Zenon
  <1>3. WorldOK' /\ Frame(t) /\ UNCHANGED Saves
    BY <1>2, ZenonT(30) DEF MountOverlay, TypeOK, WorldOK, Frame, Saves, history, world
  <1>5. CASE Brk(t) /\ UNCHANGED ovl
    BY <1>1, <1>3, <1>5, BreakKeeps DEF Plain, SetupSteps
  <1>6. CASE lib' = [lib EXCEPT ![t].ovl_mounted = TRUE, ![t].pc = AfterOverlay(t)]
    <2> DEFINE L == lib[t]
               N == [L EXCEPT !.ovl_mounted = TRUE, !.pc = AfterOverlay(t)]
    <2>1. /\ AfterOverlay(t) \in {"clock", "mkfs", "test"}
          /\ want[t].fs = 0 => AfterOverlay(t) # "mkfs"
          /\ AfterOverlay(t) = "mkfs" => lib[t].tdev # None
      BY <1>1, <1>2, Places DEF Stage
    <2>2. /\ AfterOverlay(t) \in Steps /\ AfterOverlay(t) \notin {"c_clk", "c_ipc", "exited"}
          /\ AfterOverlay(t) \notin OvlLeft /\ AfterOverlay(t) \notin MntLeft
          /\ AfterOverlay(t) \notin DevLeft /\ AfterOverlay(t) \notin DirLeft
      BY <2>1, Early DEF SetupSteps
    <2>3. lib' = [lib EXCEPT ![t] = N]
      BY <1>6, Zenon
    <2>4. /\ lib'[t] = N /\ N \in Records
          /\ N.ovl_mounted = TRUE /\ N.pc = AfterOverlay(t)
          /\ N.dev_path = L.dev_path /\ N.tdev = L.tdev
          /\ N.device_acquired = L.device_acquired /\ N.mntpoint_mounted = L.mntpoint_mounted
          /\ N.TESTDIR = L.TESTDIR /\ N.conf_saved = L.conf_saved
          /\ N.value = L.value /\ N.clock_saved = L.clock_saved
          /\ N.real_begin = L.real_begin /\ N.fs = L.fs
      BY <1>2, <2>1, <2>2, <2>3, ZenonT(30) DEF Records, TypeOK
    <2> HIDE DEF N
    <2>5. Noted(t)'
      BY <1>1, <1>2, <2>1, <2>2, <2>4, ZenonT(30) DEF Noted, At
    <2>6. Stage(t)'
      BY <1>1, <1>2, <2>1, <2>4, Zenon DEF Stage, SetupSteps
    <2>7. Owned(t)'
      BY <1>1, <1>2, <2>1, <2>4, Zenon DEF Owned
    <2> QED BY <1>1, <1>3, <2>2, <2>3, <2>4, <2>5, <2>6, <2>7, QuietKeeps, Zenon DEF Good
  <1> QED BY <1>5, <1>6, Zenon DEF MountOverlay

\* tst_wallclock_save()
LEMMA SaveClockKeeps ==
    ASSUME EnvInv, NEW t \in Tests, SaveClock(t), want' = want PROVE EnvInv'
  <1>1. /\ lib[t].pc = "clock" /\ lib[t].pc # "crashed"
        /\ UNCHANGED <<backing, mounted, ovl, dir, conf, clock, stuck, denied, robbed>>
    BY DEF SaveClock, At, history, world
  <1>2. /\ TypeOK /\ lib[t] \in Records /\ want[t].fs \in Nat
        /\ Noted(t) /\ Stage(t) /\ Owned(t)
    BY <1>1, Parts, Zenon
  <1>3. WorldOK' /\ Frame(t)
    BY <1>2, ZenonT(30) DEF SaveClock, TypeOK, WorldOK, Frame, history, world
  <1>5. CASE Brk(t) /\ UNCHANGED mixed
    BY <1>1, <1>3, <1>5, BreakKeeps, Zenon DEF Plain, SetupSteps, Saves
  <1>6. CASE /\ lib' = [lib EXCEPT ![t].real_begin = clock, ![t].clock_saved = TRUE,
                                 ![t].pc = Runs(t)]
             /\ mixed' = (mixed \/ \E u \in Tests \ {t} : Holding(u))
    <2> DEFINE L == lib[t]
               N == [L EXCEPT !.real_begin = clock, !.clock_saved = TRUE, !.pc = Runs(t)]
    <2>1. /\ Runs(t) \in {"mkfs", "test"}
          /\ Runs(t) = "mkfs" => want[t].fs > 0 /\ lib[t].tdev # None
      <3>1. want[t].fs > 0 => lib[t].tdev # None
        BY <1>1, <1>2, Zenon DEF Stage
      <3> QED BY <1>2, <3>1, Places
    <2>2. /\ Runs(t) \in Steps /\ Runs(t) \notin {"c_clk", "c_ipc", "exited"}
          /\ Runs(t) \notin OvlLeft /\ Runs(t) \notin MntLeft
          /\ Runs(t) \notin DevLeft /\ Runs(t) \notin DirLeft
      BY <2>1, Early DEF SetupSteps
    <2>3. lib' = [lib EXCEPT ![t] = N]
      BY <1>6, Zenon
    <2>4. /\ lib'[t] = N /\ N \in Records
          /\ N.real_begin = clock /\ N.clock_saved = TRUE
          /\ N.pc = Runs(t)
          /\ N.dev_path = L.dev_path /\ N.tdev = L.tdev
          /\ N.device_acquired = L.device_acquired /\ N.mntpoint_mounted = L.mntpoint_mounted
          /\ N.ovl_mounted = L.ovl_mounted /\ N.TESTDIR = L.TESTDIR
          /\ N.conf_saved = L.conf_saved /\ N.value = L.value
          /\ N.fs = L.fs
      BY <1>2, <2>1, <2>2, <2>3, ZenonT(30) DEF Records, TypeOK
    <2> HIDE DEF N
    <2>5. Noted(t)'
      BY <1>1, <1>2, <2>1, <2>2, <2>4, ZenonT(30) DEF Noted, At
    <2>6. Stage(t)'
      <3>1. want[t].fs > 0 => L.fs > 0 /\ L.tdev # None
        BY <1>1, <1>2, Zenon DEF Stage, SetupSteps
      <3>2. /\ lib'[t].pc \in {"mkfs", "test"} /\ lib'[t].fs = L.fs /\ lib'[t].tdev = L.tdev
            /\ lib'[t].pc = "mkfs" => want[t].fs > 0
        BY <2>1, <2>4, Zenon
      <3>3. CASE lib'[t].pc = "mkfs" BY <3>1, <3>2, <3>3 DEF Stage, SetupSteps
      <3>4. CASE lib'[t].pc = "test" BY <3>1, <3>2, <3>4 DEF Stage, SetupSteps
      <3> QED BY <3>2, <3>3, <3>4
    <2>7. Owned(t)'
      BY <1>1, <1>2, <2>1, <2>4, Zenon DEF Owned
    <2>8. Alone'
      <3> SUFFICES ASSUME Undisturbed' PROVE Alone'
        BY DEF Alone
      <3>1. \A u \in Tests \ {t} : lib'[u] = lib[u]
        BY <1>2, <2>3 DEF TypeOK
      <3>2. Undisturbed /\ Alone /\ \A u \in Tests \ {t} : ~Holding(u)
        <4>1. ~mixed' /\ denied' = {} /\ \A u \in Tests : lib'[u].pc # "crashed"
          BY DEF Undisturbed, At
        <4>2. ~mixed /\ \A u \in Tests \ {t} : ~Holding(u)
          BY <4>1, <1>6, Zenon
        <4>3. denied = {} /\ \A u \in Tests : lib[u].pc # "crashed"
          BY <1>1, <3>1, <4>1, ZenonT(30)
        <4> QED BY <4>2, <4>3, EnvParts DEF Undisturbed, At
      <3>3. ~lib[t].clock_saved
        BY <1>1, <1>2, ZenonT(30) DEF Stage, SetupSteps
      <3>4. clock = None /\ (conf # None => lib[t].conf_saved)
        BY <3>2, <3>3 DEF Alone, Holding
      <3>5. \A u \in Tests \ {t} : ~lib'[u].conf_saved /\ ~lib'[u].clock_saved
        BY <3>1, <3>2 DEF Holding
      <3>6. conf' = conf /\ clock' = clock
        BY <1>1, ZenonT(30)
      <3>7. /\ lib'[t].conf_saved => lib'[t].value = None
            /\ lib'[t].clock_saved => lib'[t].real_begin = None
            /\ conf # None => lib'[t].conf_saved /\ lib'[t].pc \notin {"c_clk", "c_ipc"}
        BY <2>2, <2>4, <3>2, <3>3, <3>4 DEF Alone
      <3> QED BY <3>4, <3>5, <3>6, <3>7, ZenonT(30) DEF Alone, Holding
    <2> QED BY <1>3, <2>3, <2>4, <2>5, <2>6, <2>7, <2>8, StepKeeps, Zenon DEF Good
  <1> QED BY <1>5, <1>6, Zenon DEF SaveClock

=============================================================================
