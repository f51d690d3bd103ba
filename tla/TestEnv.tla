------------------------------- MODULE TestEnv ------------------------------
(***************************************************************************)
(* What the test library prepares for a test and takes back: do_setup()    *)
(* and do_cleanup() of ltp/lib/tst_test.c with the loop devices, mounts    *)
(* and temporary directories of tst_device.c and tst_tmpdir.c, the saved   *)
(* configuration of tst_sys_conf.c and the clock of tst_wallclock.c, for   *)
(* several tests that run on one machine.                                  *)
(*                                                                         *)
(* Every step may fail where the code provides for it; tst_brk() in the    *)
(* library process is do_exit(), and so is tst_brk() during the cleanup.   *)
(* One file of /proc stands for save_restore; LTP_DEV is not set, /dev/shm *)
(* exists and memory does not run out.                                     *)
(***************************************************************************)
EXTENDS Integers

CONSTANTS Tests,      \* library processes
          Devs,       \* loop devices
          Wants,      \* what a test asks for
          MaxTries,   \* 50 in tst_umount(), 40 in tst_detach_device()
          MaxDepth,   \* calls of do_exit() inside each other the stack can hold
          None, Tmpfs \* no device; a mount without a device

\* needs_device, mount_device, needs_overlay, needs_rofs, needs_devfs
Kinds == {"none", "dev", "mount", "ovl", "rofs", "devfs"}

ASSUME TestEnvConstants ==
    /\ Wants \subseteq [kind : Kinds, fs : Nat, conf : BOOLEAN, clock : BOOLEAN,
                        chk : BOOLEAN]
    /\ \A w \in Wants : w.fs > 0 => w.kind \in {"dev", "mount"}
    /\ MaxTries \in Nat \ {0} /\ MaxDepth \in Nat \ {0}
    /\ None \notin Devs \cup Tests /\ Tmpfs \notin Devs /\ None # Tmpfs

VARIABLES
    want,      \* the struct tst_test of each test
    lib,       \* the variables of each library process
    backing,   \* whose file is attached to a loop device
    auto,      \* the devices the kernel detaches when nobody uses them any more
    mounted,   \* what is mounted at the mntpoint of a test
    ovl,       \* the overlay of a test is mounted
    dir, shm,  \* the temporary directory, the file in /dev/shm
    conf,      \* who wrote the configuration file last
    clock,     \* who set the clock last
    stuck,     \* history: tests refused a umount, LOOP_CLR_FD or LOOP_SET_STATUS
    kept,      \* history: tests whose directory or file in /dev/shm could not be removed
    denied,    \* history: tests that could not write back file or clock
    robbed,    \* history: tests whose file was detached while they needed it
    mixed      \* history: a test saved what another one had not restored yet

world == <<backing, auto, mounted, ovl, dir, shm, conf, clock>>
history == <<stuck, kept, denied, robbed, mixed>>
vars == <<want, lib, world, history>>

Start == [pc |-> "ipc", dev_path |-> None, tdev |-> None, device_acquired |-> FALSE,
          mntpoint_mounted |-> FALSE, ovl_mounted |-> FALSE, TESTDIR |-> FALSE,
          conf_saved |-> FALSE, value |-> None, clock_saved |-> FALSE,
          real_begin |-> None, fs |-> 0, tries |-> 0, depth |-> 0]

Init == /\ want \in [Tests -> Wants]
        /\ lib = [t \in Tests |-> [Start EXCEPT !.fs = want[t].fs]]
        /\ backing = [d \in Devs |-> None] /\ mounted = [t \in Tests |-> None]
        /\ auto = {} /\ ovl = {} /\ dir = {} /\ shm = {} /\ conf = None /\ clock = None
        /\ stuck = {} /\ kept = {} /\ denied = {} /\ robbed = {} /\ mixed = FALSE

At(t, p) == lib[t].pc = p
Goes(t, p) == lib' = [lib EXCEPT ![t].pc = p]
Holding(t) == lib[t].conf_saved \/ lib[t].clock_saved

\* do_exit(), also from inside do_cleanup(): the cleanup begins, or the stack
\* overflows.  What the cleanup does not read (fs, dev_path) is forgotten.
DoExit(L) == IF L.depth < MaxDepth
             THEN [L EXCEPT !.pc = "c_ovl", !.depth = @ + 1, !.tries = 0, !.fs = 0,
                            !.dev_path = None]
             ELSE [Start EXCEPT !.pc = "crashed"]
Brk(t) == lib' = [lib EXCEPT ![t] = DoExit(@)]
-----------------------------------------------------------------------------
(* do_setup(), and where it goes on when something is not asked for *)

Runs(t) == IF want[t].fs > 0 /\ want[t].kind # "dev" THEN "mkfs" ELSE "test"
AfterOverlay(t) == IF want[t].clock THEN "clock" ELSE Runs(t)
AfterDevice(t) == IF want[t].kind = "ovl" THEN "overlay" ELSE AfterOverlay(t)
AfterConf(t) == CASE want[t].kind = "none" -> AfterOverlay(t)
                  [] want[t].kind \in {"rofs", "devfs"} -> "tmpfs"
                  [] OTHER -> "find"
AfterTmpdir(t) == IF want[t].conf THEN "conf" ELSE AfterConf(t)
AfterIpc(t) == IF want[t].chk \/ want[t].kind # "none" THEN "tmpdir" ELSE AfterTmpdir(t)

\* setup_ipc(): the file stays only for checkpoints.
SetupIpc(t) ==
    /\ At(t, "ipc")
    /\ \/ Brk(t) /\ shm' \in {shm, shm \cup {t}}
       \/ /\ Goes(t, AfterIpc(t))
          /\ shm' = IF want[t].chk THEN shm \cup {t} ELSE shm
    /\ UNCHANGED <<backing, auto, mounted, ovl, dir, conf, clock, history>>

\* Mutant: the name is noted when the directory is ready.
TmpdirLate(t) ==
    /\ At(t, "tmpdir")
    /\ \/ Brk(t) /\ dir' \in {dir, dir \cup {t}}
       \/ /\ dir' = dir \cup {t}
          /\ lib' = [lib EXCEPT ![t].TESTDIR = TRUE, ![t].pc = AfterTmpdir(t)]
    /\ UNCHANGED <<backing, auto, mounted, ovl, shm, conf, clock, history>>

\* tst_tmpdir(): mkdtemp() fails, or a later step fails (after a failed chdir()
\* the directory is removed again), or all is well.
Tmpdir(t) ==
    /\ At(t, "tmpdir")
    /\ \/ Brk(t) /\ UNCHANGED dir
       \/ /\ lib' = [lib EXCEPT ![t] = DoExit([@ EXCEPT !.TESTDIR = TRUE])]
          /\ dir' \in {dir, dir \cup {t}}
       \/ /\ dir' = dir \cup {t}
          /\ lib' = [lib EXCEPT ![t].TESTDIR = TRUE, ![t].pc = AfterTmpdir(t)]
    /\ UNCHANGED <<backing, auto, mounted, ovl, shm, conf, clock, history>>

\* tst_sys_conf_save(), which fails, leaves out an optional file or keeps the
\* value.
SaveConf(t) ==
    /\ At(t, "conf")
    /\ \/ Brk(t) /\ UNCHANGED mixed
       \/ Goes(t, AfterConf(t)) /\ UNCHANGED mixed
       \/ /\ lib' = [lib EXCEPT ![t].conf_saved = TRUE, ![t].value = conf,
                                ![t].pc = AfterConf(t)]
          /\ mixed' = (mixed \/ \E u \in Tests \ {t} : Holding(u))
    /\ UNCHANGED <<world, stuck, kept, denied, robbed>>

\* The mntpoint and prepare_and_mount_ro_fs() with a tmpfs, which may fail after
\* the mount; without a tmpfs a device is needed.  prepare_and_mount_dev_fs() needs
\* no mount when the directory is good for devices.
MountTmpfs(t) ==
    /\ At(t, "tmpfs")
    /\ \/ Brk(t) /\ UNCHANGED mounted
       \/ /\ Goes(t, IF want[t].kind = "rofs" THEN "find" ELSE AfterDevice(t))
          /\ UNCHANGED mounted
       \/ /\ mounted' = [mounted EXCEPT ![t] = Tmpfs]
          /\ \/ lib' = [lib EXCEPT ![t].mntpoint_mounted = TRUE, ![t].pc = AfterDevice(t)]
             \/ /\ want[t].kind = "rofs"
                /\ lib' = [lib EXCEPT ![t] = DoExit([@ EXCEPT !.mntpoint_mounted = TRUE])]
    /\ UNCHANGED <<backing, auto, ovl, dir, shm, conf, clock, history>>

\* tst_acquire_device__(): the image file, then tst_find_free_loopdev().
FindFree(t) ==
    /\ At(t, "find")
    /\ \/ Brk(t)
       \/ \E d \in Devs : /\ backing[d] = None
                          /\ lib' = [lib EXCEPT ![t].dev_path = d, ![t].pc = "attach"]
    /\ UNCHANGED <<world, history>>

\* tst_attach_device(): LOOP_SET_FD fails on a device that is in use.
Attach(t) ==
    LET d == lib[t].dev_path
    IN /\ At(t, "attach")
       /\ \/ Brk(t) /\ UNCHANGED backing
          \/ /\ backing[d] = None
             /\ backing' = [backing EXCEPT ![d] = t] /\ Goes(t, "status")
       /\ UNCHANGED <<auto, mounted, ovl, dir, shm, conf, clock, history>>

\* LOOP_SET_STATUS; the device counts as acquired afterwards.
SetStatus(t) ==
    LET d == lib[t].dev_path
    IN /\ At(t, "status")
       /\ \/ Brk(t) /\ stuck' = stuck \cup {t}
          \/ /\ backing[d] # None /\ UNCHANGED stuck
             /\ lib' = [lib EXCEPT ![t].device_acquired = TRUE, ![t].tdev = d, ![t].pc =
                            IF want[t].fs > 0 \/ want[t].kind = "dev"
                            THEN AfterDevice(t) ELSE "mkfs"]
       /\ UNCHANGED <<world, kept, denied, robbed, mixed>>

InUse(d) == \E u \in Tests : mounted[u] = d

\* prepare_device(): SAFE_MKFS()
Mkfs(t) ==
    LET d == lib[t].tdev
    IN /\ At(t, "mkfs")
       /\ Brk(t) \/ (backing[d] # None /\ ~InUse(d) /\ Goes(t, "mount"))
       /\ UNCHANGED <<world, history>>

AfterMount(t) == IF want[t].fs > 0 THEN "test" ELSE AfterDevice(t)

\* Mutant: the flag is forgotten.
MountDeviceQuietly(t) ==
    LET d == lib[t].tdev
    IN /\ At(t, "mount")
       /\ \/ /\ UNCHANGED mounted
             /\ IF want[t].kind = "rofs" THEN Goes(t, AfterMount(t)) ELSE Brk(t)
          \/ /\ backing[d] # None
             /\ mounted' = [mounted EXCEPT ![t] = d] /\ Goes(t, AfterMount(t))
       /\ UNCHANGED <<backing, auto, ovl, dir, shm, conf, clock, history>>

\* SAFE_MOUNT(); or prepare_and_mount_ro_fs() again, whose result is not looked
\* at and which may fail after the mount.
MountDevice(t) ==
    LET d == lib[t].tdev
    IN /\ At(t, "mount")
       /\ \/ /\ UNCHANGED mounted
             /\ IF want[t].kind = "rofs" THEN Goes(t, AfterMount(t)) ELSE Brk(t)
          \/ /\ backing[d] # None
             /\ mounted' = [mounted EXCEPT ![t] = d]
             /\ \/ lib' = [lib EXCEPT ![t].mntpoint_mounted = TRUE, ![t].pc = AfterMount(t)]
                \/ /\ want[t].kind = "rofs"
                   /\ lib' = [lib EXCEPT ![t] = DoExit([@ EXCEPT !.mntpoint_mounted = TRUE])]
       /\ UNCHANGED <<backing, auto, ovl, dir, shm, conf, clock, history>>

\* SAFE_MOUNT_OVERLAY()
MountOverlay(t) ==
    /\ At(t, "overlay")
    /\ \/ Brk(t) /\ UNCHANGED ovl
       \/ /\ ovl' = ovl \cup {t}
          /\ lib' = [lib EXCEPT ![t].ovl_mounted = TRUE, ![t].pc = AfterOverlay(t)]
    /\ UNCHANGED <<backing, auto, mounted, dir, shm, conf, clock, history>>

\* tst_wallclock_save()
SaveClock(t) ==
    /\ At(t, "clock")
    /\ \/ Brk(t) /\ UNCHANGED mixed
       \/ /\ lib' = [lib EXCEPT ![t].real_begin = clock, ![t].clock_saved = TRUE,
                                ![t].pc = Runs(t)]
          /\ mixed' = (mixed \/ \E u \in Tests \ {t} : Holding(u))
    /\ UNCHANGED <<world, stuck, kept, denied, robbed>>
-----------------------------------------------------------------------------
(* The test, which changes only what was saved for it *)

TestWrites(t) == /\ At(t, "test") /\ lib[t].conf_saved
                 /\ conf' = t
                 /\ UNCHANGED <<lib, backing, auto, mounted, ovl, dir, shm, clock, history>>

TestSetsClock(t) == /\ At(t, "test") /\ lib[t].clock_saved
                    /\ clock' = t
                    /\ UNCHANGED <<lib, backing, auto, mounted, ovl, dir, shm, conf, history>>

\* The test unmounts the overlay itself.
TestUmounts(t) == /\ At(t, "test") /\ t \in ovl
                  /\ ovl' = ovl \ {t}
                  /\ UNCHANGED <<lib, backing, auto, mounted, dir, shm, conf, clock, history>>

\* fork_testrun() returns, or the test was killed: tst_brk(), with all_filesystems
\* too.
TestEnds(t) == /\ At(t, "test")
               /\ Brk(t) \/ (want[t].fs > 0 /\ Goes(t, "fs_umount"))
               /\ UNCHANGED <<world, history>>

LastTry(t) == lib[t].tries + 1 >= MaxTries

\* Mutant: the tries are not limited.
AgainForever(t, r) == lib' = [lib EXCEPT ![t].tries = (@ + 1) % MaxTries]

\* A try of tst_umount() or LOOP_CLR_FD that the kernel refuses; r is the record
\* after the last one.
Again(t, r) == lib' = [lib EXCEPT ![t] = IF LastTry(t) THEN r
                                         ELSE [lib[t] EXCEPT !.tries = lib[t].tries + 1]]
GivesUp(t) == stuck' = IF LastTry(t) THEN stuck \cup {t} ELSE stuck

\* run_tcases_per_fs() after a run: the mntpoint counts as free in any case; an
\* error of the run ends the loop, as do_exit().
FsUmount(t) ==
    LET L == [lib[t] EXCEPT !.mntpoint_mounted = FALSE, !.tries = 0, !.fs = @ - 1]
        after == {DoExit(L)} \cup IF lib[t].fs > 1 THEN {[L EXCEPT !.pc = Runs(t)]} ELSE {}
    IN /\ At(t, "fs_umount")
       /\ \/ /\ mounted[t] # None /\ lib[t].mntpoint_mounted   \* EBUSY
             /\ \E r \in after : Again(t, r)
             /\ GivesUp(t) /\ UNCHANGED mounted
          \/ /\ \E r \in after : lib' = [lib EXCEPT ![t] = r]
             /\ mounted' = IF lib[t].mntpoint_mounted THEN [mounted EXCEPT ![t] = None]
                           ELSE mounted
             /\ UNCHANGED stuck
       /\ UNCHANGED <<backing, auto, ovl, dir, shm, conf, clock, kept, denied, robbed, mixed>>
-----------------------------------------------------------------------------
(* do_cleanup() *)

\* SAFE_UMOUNT(OVL_MNT): a failure is tst_brk(), that is do_exit().
CleanOvl(t) ==
    LET next == [lib[t] EXCEPT !.pc = "c_mnt", !.tries = 0]
    IN /\ At(t, "c_ovl")
       /\ \/ /\ ~lib[t].ovl_mounted
             /\ lib' = [lib EXCEPT ![t] = next] /\ UNCHANGED ovl
          \/ /\ lib[t].ovl_mounted /\ t \in ovl
             /\ \/ lib' = [lib EXCEPT ![t] = next] /\ ovl' = ovl \ {t}
                \/ Again(t, DoExit(lib[t])) /\ UNCHANGED ovl    \* EBUSY
          \/ /\ lib[t].ovl_mounted /\ t \notin ovl             \* EINVAL
             /\ Brk(t) /\ UNCHANGED ovl
       /\ UNCHANGED <<backing, auto, mounted, dir, shm, conf, clock, history>>

\* tst_umount(mntpoint): a failure is a warning.
CleanMnt(t) ==
    LET next == [lib[t] EXCEPT !.pc = "c_dev", !.tries = 0]
    IN /\ At(t, "c_mnt")
       /\ \/ /\ lib' = [lib EXCEPT ![t] = next] /\ UNCHANGED stuck
             /\ mounted' = IF lib[t].mntpoint_mounted THEN [mounted EXCEPT ![t] = None]
                           ELSE mounted
          \/ /\ mounted[t] # None /\ lib[t].mntpoint_mounted   \* EBUSY
             /\ Again(t, next) /\ GivesUp(t) /\ UNCHANGED mounted
       /\ UNCHANGED <<backing, auto, ovl, dir, shm, conf, clock, kept, denied, robbed, mixed>>

\* Mutant: the device stays acquired.
DetachedStill(L) == [L EXCEPT !.pc = "c_dir", !.tries = 0]

\* The end of tst_release_device().
Detached(L) == [L EXCEPT !.pc = "c_dir", !.tries = 0, !.device_acquired = FALSE]

\* tst_release_device(): only a device that was acquired; or it cannot be opened.
CleanDev(t) ==
    LET release == lib[t].tdev # None /\ lib[t].device_acquired
    IN /\ At(t, "c_dev")
       /\ \/ Goes(t, IF release THEN "clr" ELSE "c_dir") /\ UNCHANGED stuck
          \/ /\ release
             /\ lib' = [lib EXCEPT ![t] = Detached(@)] /\ stuck' = stuck \cup {t}
       /\ UNCHANGED <<world, kept, denied, robbed, mixed>>

\* Somebody who has attached a file and has not begun to detach it.
Needs(u) == At(u, "status") \/ (lib[u].device_acquired /\ ~At(u, "clr"))
Robbed(d) == robbed' = robbed \cup {u \in Tests : u = backing[d] /\ Needs(u)}

\* One turn of the loop of tst_detach_device(): ENXIO ends it; the kernel detaches
\* the file, or will do so when nobody uses the device, or refuses.
Clear(t) ==
    LET d == lib[t].tdev
    IN /\ At(t, "clr")
       /\ \/ /\ backing[d] = None                              \* ENXIO
             /\ lib' = [lib EXCEPT ![t] = Detached(@)]
             /\ UNCHANGED <<backing, auto, stuck, robbed>>
          \/ /\ backing[d] # None /\ ~InUse(d)
             /\ backing' = [backing EXCEPT ![d] = None] /\ auto' = auto \ {d}
             /\ Robbed(d) /\ Again(t, Detached(lib[t])) /\ UNCHANGED stuck
          \/ /\ backing[d] # None
             /\ auto' \in {auto, auto \cup {d}}               \* EBUSY, or later
             /\ Again(t, Detached(lib[t])) /\ GivesUp(t)
             /\ UNCHANGED <<backing, robbed>>
          \/ /\ backing[d] # None                              \* another error
             /\ lib' = [lib EXCEPT ![t] = Detached(@)] /\ stuck' = stuck \cup {t}
             /\ UNCHANGED <<backing, auto, robbed>>
       /\ UNCHANGED <<mounted, ovl, dir, shm, conf, clock, kept, denied, mixed>>

\* The kernel, when the last user of the device is gone.
AutoClear(d) ==
    /\ d \in auto /\ ~InUse(d)
    /\ backing' = [backing EXCEPT ![d] = None] /\ auto' = auto \ {d}
    /\ Robbed(d)
    /\ UNCHANGED <<lib, mounted, ovl, dir, shm, conf, clock, stuck, kept, denied, mixed>>

\* Mutant: the cleanup ends when the directory cannot be removed.
CleanDirOrLeave(t) ==
    /\ At(t, "c_dir")
    /\ \/ (t \in ovl \/ mounted[t] # None) /\ Goes(t, "c_ipc") /\ UNCHANGED dir
       \/ ~(t \in ovl \/ mounted[t] # None) /\ Goes(t, "c_conf") /\ dir' = dir \ {t}
    /\ UNCHANGED <<backing, auto, mounted, ovl, shm, conf, clock, history>>

\* tst_rmdir(), if there is a name: a mount point inside is not removed, and rmobj()
\* may fail otherwise; a failure is a warning.
CleanDir(t) ==
    /\ At(t, "c_dir") /\ Goes(t, "c_conf")
    /\ \/ /\ dir' = IF lib[t].TESTDIR /\ t \notin ovl /\ mounted[t] = None
                    THEN dir \ {t} ELSE dir
          /\ UNCHANGED kept
       \/ t \in dir /\ lib[t].TESTDIR /\ kept' = kept \cup {t} /\ UNCHANGED dir
    /\ UNCHANGED <<backing, auto, mounted, ovl, shm, conf, clock, stuck, denied, robbed, mixed>>

\* tst_sys_conf_restore(); a failure is a warning.
CleanConf(t) ==
    /\ At(t, "c_conf") /\ Goes(t, "c_clk")
    /\ \/ ~lib[t].conf_saved /\ UNCHANGED <<conf, denied>>
       \/ lib[t].conf_saved /\ conf' = lib[t].value /\ UNCHANGED denied
       \/ lib[t].conf_saved /\ denied' = denied \cup {t} /\ UNCHANGED conf
    /\ UNCHANGED <<backing, auto, mounted, ovl, dir, shm, clock, stuck, kept, robbed, mixed>>

\* tst_wallclock_restore(): clock_saved is cleared first; a failure is do_exit().
CleanClock(t) ==
    /\ At(t, "c_clk")
    /\ \/ ~lib[t].clock_saved /\ Goes(t, "c_ipc") /\ UNCHANGED <<clock, denied>>
       \/ /\ lib[t].clock_saved
          /\ lib' = [lib EXCEPT ![t].clock_saved = FALSE, ![t].pc = "c_ipc"]
          /\ clock' = lib[t].real_begin /\ UNCHANGED denied
       \/ /\ lib[t].clock_saved
          /\ lib' = [lib EXCEPT ![t] = DoExit([@ EXCEPT !.clock_saved = FALSE])]
          /\ denied' = denied \cup {t} /\ UNCHANGED clock
    /\ UNCHANGED <<backing, auto, mounted, ovl, dir, shm, conf, stuck, kept, robbed, mixed>>

\* cleanup_ipc(), where a failing unlink() is a warning; then exit().
CleanIpc(t) ==
    /\ At(t, "c_ipc")
    /\ lib' = [lib EXCEPT ![t] = [Start EXCEPT !.pc = "exited"]]
    /\ \/ shm' = shm \ {t} /\ UNCHANGED kept
       \/ t \in shm /\ kept' = kept \cup {t} /\ UNCHANGED shm
    /\ UNCHANGED <<backing, auto, mounted, ovl, dir, conf, clock, stuck, denied, robbed, mixed>>
-----------------------------------------------------------------------------
Setup(t) == \/ SetupIpc(t) \/ Tmpdir(t) \/ SaveConf(t) \/ MountTmpfs(t) \/ FindFree(t)
            \/ Attach(t) \/ SetStatus(t) \/ Mkfs(t) \/ MountDevice(t) \/ MountOverlay(t)
            \/ SaveClock(t)

Cleanup(t) == \/ CleanOvl(t) \/ CleanMnt(t) \/ CleanDev(t) \/ Clear(t) \/ CleanDir(t)
              \/ CleanConf(t) \/ CleanClock(t) \/ CleanIpc(t)

\* What the library does, and the end of the test that its timeout enforces.
Proceeds(t) == UNCHANGED want /\ (Setup(t) \/ TestEnds(t) \/ FsUmount(t) \/ Cleanup(t))

Ended(t) == At(t, "exited") \/ At(t, "crashed")
Over == (\A t \in Tests : Ended(t)) /\ UNCHANGED vars

Next == \/ \E t \in Tests :
              \/ Proceeds(t)
              \/ UNCHANGED want /\ (TestWrites(t) \/ TestSetsClock(t) \/ TestUmounts(t))
        \/ \E d \in Devs : AutoClear(d) /\ UNCHANGED want
        \/ Over

Spec == Init /\ [][Next]_vars

\* Each library process is scheduled, and each test ends.
FairSpec == Spec /\ \A t \in Tests : WF_vars(Proceeds(t))
-----------------------------------------------------------------------------
(* What holds *)

SetupSteps == {"ipc", "tmpdir", "conf", "tmpfs", "find", "attach", "status", "mkfs",
               "mount", "overlay", "clock"}
DirLeft == {"c_conf", "c_clk", "c_ipc", "exited"}   \* do_cleanup() after tst_rmdir()
DevLeft == {"c_dir"} \cup DirLeft                   \* after tst_release_device()
MntLeft == {"c_dev", "clr"} \cup DevLeft            \* after the mntpoint
OvlLeft == {"c_mnt"} \cup MntLeft                   \* after the overlay
Steps == SetupSteps \cup {"test", "fs_umount", "c_ovl", "crashed"} \cup OvlLeft

Records == [pc : Steps, dev_path : Devs \cup {None}, tdev : Devs \cup {None},
            device_acquired : BOOLEAN, mntpoint_mounted : BOOLEAN,
            ovl_mounted : BOOLEAN, TESTDIR : BOOLEAN, conf_saved : BOOLEAN,
            value : Tests \cup {None}, clock_saved : BOOLEAN,
            real_begin : Tests \cup {None}, fs : Nat, tries : Nat, depth : Nat]

TypeOK == /\ want \in [Tests -> Wants] /\ lib \in [Tests -> Records]
          /\ backing \in [Devs -> Tests \cup {None}] /\ auto \subseteq Devs
          /\ mounted \in [Tests -> Devs \cup {None, Tmpfs}]
          /\ ovl \subseteq Tests /\ dir \subseteq Tests /\ shm \subseteq Tests
          /\ conf \in Tests \cup {None} /\ clock \in Tests \cup {None}
          /\ stuck \subseteq Tests /\ kept \subseteq Tests /\ denied \subseteq Tests /\ robbed \subseteq Tests
          /\ mixed \in BOOLEAN

\* The flags of a library process cover what it has in the system, and what the
\* cleanup has passed is gone.
Noted(t) ==
    LET L == lib[t]
    IN /\ mounted[t] # None => t \in stuck \/ (L.mntpoint_mounted /\ L.pc \notin MntLeft)
       /\ t \in ovl => L.ovl_mounted /\ L.pc \notin OvlLeft
       /\ t \in dir => /\ L.pc \in DirLeft => t \in stuck \cup kept
                       /\ L.TESTDIR \/ L.pc = "exited"
       /\ L.device_acquired => L.tdev # None /\ L.pc \notin DevLeft
       /\ L.pc \in {"attach", "status"} => L.dev_path # None
       /\ L.pc \in {"mkfs", "mount", "clr"} => L.tdev # None
       /\ L.pc = "exited" /\ t \in shm => t \in kept
       /\ \A d \in Devs : backing[d] = t =>
             \/ t \in stuck
             \/ At(t, "status") /\ L.dev_path = d
             \/ L.device_acquired /\ L.tdev = d

\* What has not been done yet at each step of do_setup(), and what is over.
Stage(t) ==
    LET L == lib[t]
    IN /\ L.pc \in (SetupSteps \ {"mkfs", "mount", "overlay", "clock"}) \cup {"crashed"} =>
              ~L.device_acquired
       /\ L.pc \in {"ipc", "tmpdir", "conf", "exited"} => ~L.conf_saved
       /\ L.pc \in (SetupSteps \ {"mkfs", "mount"}) \cup {"c_ipc", "exited"} => ~L.clock_saved
       /\ L.pc \in {"mkfs", "mount"} /\ want[t].fs = 0 => ~L.clock_saved
       /\ L.pc = "tmpfs" => want[t].fs = 0
       /\ L.pc \in SetupSteps \cup {"test"} /\ want[t].fs > 0 => L.fs > 0
       /\ L.pc = "fs_umount" => want[t].fs > 0 /\ L.fs > 0
       /\ L.pc \in {"overlay", "clock", "test", "fs_umount"} /\ want[t].fs > 0 => L.tdev # None

\* A file that is attached stays, unless it is taken away.
Owned(t) ==
    LET L == lib[t]
    IN /\ L.pc = "status" => backing[L.dev_path] = t \/ t \in robbed
       /\ L.device_acquired => backing[L.tdev] = t \/ t \in robbed \/ L.pc = "clr"

\* As long as tests do not overlap and nothing failed, there is at most one that has
\* something to restore, and it has the values of the beginning.
Undisturbed == ~mixed /\ denied = {} /\ \A t \in Tests : ~At(t, "crashed")
Alone ==
    Undisturbed =>
        /\ \A t \in Tests : /\ lib[t].conf_saved => lib[t].value = None
                            /\ lib[t].clock_saved => lib[t].real_begin = None
                            /\ \A u \in Tests : Holding(t) /\ Holding(u) => t = u
        /\ conf # None => \E t \in Tests : /\ lib[t].conf_saved
                                          /\ lib[t].pc \notin {"c_clk", "c_ipc"}
        /\ clock # None => \E t \in Tests : lib[t].clock_saved

\* EnvInv: what a library process has mounted, attached, created or saved is in the
\* variables its do_cleanup() reads, in every state of setup and cleanup.  Not so for
\* a test that was refused a umount, LOOP_CLR_FD or LOOP_SET_STATUS (stuck), for what
\* could not be removed (kept), for a file between LOOP_SET_FD and LOOP_SET_STATUS,
\* and after a crash in the cleanup; a file that was detached for another test
\* (robbed) is gone though the flag is set.
EnvInv == /\ TypeOK
          /\ \A t \in Tests : At(t, "crashed") \/ Noted(t)
          /\ \A t \in Tests : Stage(t) /\ Owned(t)
          /\ Alone

\* NothingLeft: after the exit of a library process that went through do_cleanup(),
\* wherever the setup broke off, no mount, overlay, attached file, temporary
\* directory or shared memory file of it is left.  A mount, a file or the directory
\* with the mount stays only if a umount, LOOP_CLR_FD or LOOP_SET_STATUS was refused
\* (a file attached before the last stays attached), a directory or shared memory
\* file only if its removal failed.
NothingLeft ==
    \A t \in Tests : At(t, "exited") =>
        /\ t \notin ovl
        /\ t \in dir => t \in stuck \cup kept
        /\ t \in shm => t \in kept
        /\ t \notin stuck => mounted[t] = None /\ \A d \in Devs : backing[d] # t

\* DeviceIsMine: a device that counts as acquired holds the file of the test, until
\* tst_detach_device(), unless the file was detached for another test: by the retries
\* of its tst_detach_device(), or later by the kernel on their account.
DeviceIsMine ==
    \A t \in Tests : lib[t].device_acquired =>
        backing[lib[t].tdev] = t \/ t \in robbed \/ At(t, "clr")

\* UsesOwnDevice: a test that runs has a device with its own file, as the
\* guidelines say; the retries of tst_detach_device() of another test take it away.
UsesOwnDevice == \A t \in Tests : At(t, "test") /\ lib[t].tdev # None =>
                                    backing[lib[t].tdev] = t

\* RestoredAlone: when all tests that began have exited, and none of them saved file
\* or clock before another had restored them or was refused the write that restores
\* them, both are as they were, whatever else failed in the cleanup.  A test that
\* crashed in its cleanup is not an exited one.
RestoredAlone ==
    (\A t \in Tests : At(t, "ipc") \/ At(t, "exited")) /\ ~mixed /\ denied = {} =>
        conf = None /\ clock = None

\* ConfRestored: the saved file is restored at the end of a test, as the guidelines
\* say; a cleanup that never gets past the overlay does not restore it.
ConfRestored == \A t \in Tests : Ended(t) /\ t \notin denied => conf # t

\* EveryTestEnds: setup, run and cleanup of every test come to an end, and the cleanup
\* gets to its last step after a umount, LOOP_CLR_FD, removal or write that was refused
\* too; only an overlay that cannot be unmounted ends it before, by a crash.
EveryTestEnds ==
    <>(\A t \in Tests : At(t, "exited") \/ (want[t].kind = "ovl" /\ At(t, "crashed")))
=============================================================================
