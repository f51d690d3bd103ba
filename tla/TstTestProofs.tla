--------------------------- MODULE TstTestProofs ----------------------------
(***************************************************************************)
(* The safety properties of TstTest for every number of variants, file     *)
(* systems, iterations, test functions, children, attempts and reports.    *)
(* RunInv is inductive; each property follows from it.                     *)
(***************************************************************************)
EXTENDS TstTest, TLAPS

(* What do_exit() makes of a return value and of the counters.             *)
LEMMA ExitShows ==
    ASSUME NEW r \in SUBSET Flags, NEW res \in [Counters -> Nat]
    PROVE  /\ ExitFlags(r, res) \subseteq Flags
           /\ res["failed"] > 0 => "FAIL" \in ExitFlags(r, res)
           /\ res["warnings"] > 0 => "WARN" \in ExitFlags(r, res)
           /\ "BROK" \in r => "BROK" \in ExitFlags(r, res)
           /\ ExitFlags(r, res) = {} =>
                 /\ r = {} \/ res["passed"] > 0
                 /\ (\E c \in Counters \ {"warnings"} : res[c] > 0)
                       => res["passed"] > 0
PROOF
  <1>1. ExitFlags(r, res) \subseteq Flags
    BY Zenon DEF ExitFlags, Flags
  <1>2. /\ res["failed"] > 0 => "FAIL" \in ExitFlags(r, res)
        /\ res["warnings"] > 0 => "WARN" \in ExitFlags(r, res)
        /\ "BROK" \in r => "BROK" \in ExitFlags(r, res)
    BY DEF ExitFlags
  <1>3. ASSUME ExitFlags(r, res) = {}
        PROVE  /\ r = {} \/ (r = {"CONF"} /\ res["passed"] > 0)
               /\ ~(res["failed"] > 0) /\ (res["skipped"] > 0 => res["passed"] > 0)
    <2>1. (IF res["passed"] > 0 /\ r = {"CONF"} THEN {} ELSE r) = {}
      BY <1>3 DEF ExitFlags
    <2>2. r = {} \/ (r = {"CONF"} /\ res["passed"] > 0)
      BY <2>1
    <2>3. res["skipped"] > 0 /\ res["passed"] = 0 => "CONF" \in ExitFlags(r, res)
      BY DEF ExitFlags
    <2>4. res["passed"] \in Nat
      BY DEF Counters
    <2>5. QED
      BY <1>2, <1>3, <2>2, <2>3, <2>4
  <1>4. ASSUME ExitFlags(r, res) = {}, \E c \in Counters \ {"warnings"} : res[c] > 0
        PROVE  res["passed"] > 0
    BY <1>3, <1>4 DEF Counters
  <1>5. QED
    BY <1>1, <1>2, <1>3, <1>4

(* A SIGKILL for a group and the loss of a parent keep the children's types *)
(* and give no child a new parent; a child that waits for its parent stays. *)
LEMMA KidsStruck ==
    ASSUME kids \in [Kids -> KidTypes], NEW g
    PROVE  /\ Struck(g) \in [Kids -> KidTypes]
           /\ \A k \in Kids : Struck(g)[k].par = kids[k].par
           /\ \A k \in Kids : kids[k].st = "zombie" => Struck(g)[k] = kids[k]
  <1>1. ASSUME NEW k \in Kids
        PROVE  /\ Struck(g)[k] \in KidTypes
               /\ Struck(g)[k].par = kids[k].par
               /\ kids[k].st = "zombie" => Struck(g)[k] = kids[k]
    BY <1>1, Zenon DEF Struck, KidTypes, KidValues
  <1>2. QED
    BY <1>1, Zenon DEF Struck

LEMMA KidsOrphaned ==
    ASSUME NEW K \in [Kids -> KidTypes], NEW b
    PROVE  /\ Orphaned(K, b) \in [Kids -> KidTypes]
           /\ \A k \in Kids : Orphaned(K, b)[k].par \in {0, K[k].par}
           /\ b => \A k \in Kids : K[k].par = run => Orphaned(K, b)[k] = K[k]
  <1>1. ASSUME NEW k \in Kids
        PROVE  /\ Orphaned(K, b)[k] \in KidTypes
               /\ Orphaned(K, b)[k].par \in {0, K[k].par}
               /\ b /\ K[k].par = run => Orphaned(K, b)[k] = K[k]
    BY <1>1 DEF Orphaned, NoKid, KidTypes, KidValues
  <1>2. QED
    BY <1>1 DEF Orphaned

(* RunInv holds when the test library starts.                              *)
LEMMA InitInv == Init => RunInv
  <1> SUFFICES ASSUME Init PROVE RunInv
    OBVIOUS
  <1>1. TypeOK
    <2>1. kids \in [Kids -> KidTypes]
      BY DEF Init, NoKid, KidTypes, KidValues
    <2>2. plan \in Plans /\ left \in Int \X Int
      BY TstTestConstants DEF Init
    <2>3. results \in [Counters -> Nat] /\ saved \in [Counters -> Nat]
      BY DEF Init, NoResults
    <2>4. retries \in 0 .. MaxRetries + 1 /\ tstat \in SUBSET Flags
      BY TstTestConstants DEF Init
    <2>5. QED
      BY <2>1, <2>2, <2>3, <2>4, Zenon DEF Init, TypeOK
  <1>2. Phases /\ Carried /\ Earned
    BY TstTestConstants DEF Init, Phases, Carried, Earned, NoResults, Ended, Counters
  <1>3. QED
    BY <1>1, <1>2 DEF RunInv

\* Where a break is does not change in a step that moves a process and neither
\* ends the test nor begins another one.
LEMMA BreakStays ==
    ASSUME BreakKnown, ~Ended, UNCHANGED <<plan, masked, run, tstat>>,
           TestLives => \A k \in Kids : Broken(k) => Broken(k)',
           tpc' = tpc \/ (tpc # "clean" /\ TestLives /\ TestLives'),
           lpc \in {"cleanup", "exited"} => lpc' \in {"cleanup", "exited"}
    PROVE  BreakKnown'
  BY ZenonT(30) DEF BreakKnown, TestLives

LEMMA BrokenStays ==
    ASSUME UNCHANGED <<run, kids>> PROVE \A k \in Kids : Broken(k)' = Broken(k)
  BY Zenon DEF Broken

LEMMA QuietCarried ==
    ASSUME RunInv, ~Ended, UNCHANGED <<plan, masked, heard, kids, run, tstat, results, code>>,
           \A c \in Counters : saved'[c] <= results'[c],
           tpc' = tpc \/ (tpc # "clean" /\ TestLives /\ TestLives'),
           IF lpc = "cleanup" THEN lpc' \in {"cleanup", "exited"}
                              ELSE lpc' \notin {"cleanup", "exited"}
    PROVE  Carried'
  <1>1. "BROK" \in heard => BreakKnown'
    <2>1. "BROK" \in heard => BreakKnown
      BY Zenon DEF RunInv, Carried
    <2>2. lpc \in {"cleanup", "exited"} => lpc' \in {"cleanup", "exited"}
      BY Zenon DEF Ended
    <2>3. QED
      BY <2>1, <2>2, BreakStays, BrokenStays, Zenon
  <1>2. lpc' \in {"cleanup", "exited"} =>
            /\ heard' \ code' \subseteq Unheard'
            /\ code' = {} /\ plan'.iterations > 0 => results'["passed"] > 0
    BY Zenon DEF RunInv, Carried, Unheard
  <1>3. QED
    BY <1>1, <1>2, Zenon DEF RunInv, Carried

(* Steps of the library process keep RunInv.  The first is the step that *)
(* looks at the status of the test process.                                *)
LEMMA ReapedInv == RunInv /\ ~Ended /\ UNCHANGED plan /\ Reaped => RunInv'
  <1> SUFFICES ASSUME RunInv, ~Ended, UNCHANGED plan, Reaped PROVE RunInv'
    OBVIOUS
  <1> USE TstTestConstants DEF RunInv
  <1> DEFINE fs == plan.fs > 0
             skip == fs /\ tstat = {"CONF"}
             res == IF skip THEN [results EXCEPT !["skipped"] = @ + 1] ELSE results
  <1>1. /\ lpc = "reaped" /\ tpc = "zombie" /\ ~usr1 /\ tpc' = "none" /\ alarm' = FALSE
        /\ run > 0 /\ retries <= MaxRetries /\ tstat' = {}
        /\ "BROK" \in heard => \/ masked \/ plan.iterations = 0
                               \/ tstat \in {{"BROK"}} \cup Deaths
        /\ UNCHANGED <<test_pid, run, usr1, retries, timeout, saved, calls, stuck>>
        /\ UNCHANGED <<doomed, kids, nrep, nint, heard, masked>>
    BY DEF Reaped, Phases, Carried, BreakKnown, TestLives, Ended, bounds, history
  <1>2. /\ res \in [Counters -> Nat] /\ \A c \in Counters : results[c] <= res[c]
        /\ results' \in {results, res}
    BY DEF TypeOK, Reaped, Returned, Counters
  <1> DEFINE lost == masked \/ plan.iterations = 0
  <1>3. \/ /\ lpc' = "arm" /\ ("BROK" \in heard => lost)
           /\ ret' \subseteq Flags /\ code' = code
        \/ \E r \in SUBSET Flags :
              /\ lpc' = "cleanup" /\ code' = ExitFlags(r, results') /\ ret' \subseteq Flags
              /\ "BROK" \in heard => lost \/ "BROK" \in r
              /\ r = {} => tstat = {}
    <2>1. CASE tstat \in Deaths
      <3>1. {"BROK"} \in SUBSET Flags
        BY DEF Flags
      <3>2. /\ lpc' = "cleanup" /\ code' = ExitFlags({"BROK"}, results')
            /\ ret' = ret
        BY <2>1 DEF Reaped, DoExit
      <3>3. QED
        BY <3>1, <3>2, Zenon DEF TypeOK
    <2>2. CASE tstat \notin Deaths
      <3>1. tstat \in SUBSET Flags /\ ret \in SUBSET Flags
        BY <2>2 DEF TypeOK
      <3>2. "BROK" \in heard => lost \/ tstat = {"BROK"}
        BY <1>1, <2>2
      <3>3. results' = res
        BY <2>2 DEF Reaped, Returned
      <3>4. CASE DoExit(tstat, res) /\ UNCHANGED ret
        BY <3>1, <3>2, <3>3, <3>4 DEF DoExit
      <3>5. CASE DoExit(ret \cup tstat, res) /\ ret' = ret \cup tstat
        <4>1. ret \cup tstat \in SUBSET Flags
          BY <3>1
        <4>2. ret \cup tstat = {} => tstat = {}
          OBVIOUS
        <4>3. QED
          BY <3>2, <3>3, <3>5, <4>1, <4>2, Zenon DEF DoExit
      <3>6. CASE lpc' = "arm" /\ tstat # {"BROK"} /\ UNCHANGED code
                 /\ ret' \in {ret, ret \cup tstat}
        BY <3>1, <3>2, <3>6
      <3>7. QED
        BY <2>2, <3>4, <3>5, <3>6 DEF Reaped, Returned
    <2>3. QED
      BY <2>1, <2>2
  <1>4. left' \in Int \X Int
    BY DEF Reaped, Returned, TypeOK
  <1>5. TypeOK'
    <2>1. code' \subseteq Flags /\ ret' \subseteq Flags /\ lpc' \in {"arm", "cleanup"}
      <3>1. results' \in [Counters -> Nat]
        BY <1>2 DEF TypeOK
      <3>2. QED
        BY <1>3, <3>1, ExitShows, Zenon DEF TypeOK
    <2>2. tstat' \in SUBSET Flags
      BY <1>1
    <2>3. results' \in [Counters -> Nat]
      BY <1>2 DEF TypeOK
    <2>4. QED
      BY <1>1, <1>4, <2>1, <2>2, <2>3, Zenon DEF TypeOK
  <1>6. Phases'
    BY <1>1, <1>3 DEF Phases, Ended
  <1>7. Carried'
    <2>1. /\ results' \in [Counters -> Nat]
          /\ \A c \in Counters : results[c] <= results'[c] /\ saved'[c] <= results'[c]
      BY <1>1, <1>2 DEF TypeOK, Carried
    <2>2. /\ "FAIL" \in heard' => results'["failed"] > 0
          /\ "WARN" \in heard' => results'["warnings"] > 0
      BY <1>1, <2>1 DEF TypeOK, Carried, Counters
    <2>3. CASE lpc' = "arm" /\ ("BROK" \in heard => lost)
      BY <1>1, <2>1, <2>2, <2>3 DEF Carried, BreakKnown
    <2>4. ASSUME NEW r \in SUBSET Flags,
                 lpc' = "cleanup", code' = ExitFlags(r, results'),
                 "BROK" \in heard => lost \/ "BROK" \in r, r = {} => tstat = {}
          PROVE  Carried'
      <3>0. /\ results'["failed"] > 0 => "FAIL" \in code'
            /\ results'["warnings"] > 0 => "WARN" \in code'
            /\ "BROK" \in r => "BROK" \in code'
            /\ code' = {} =>
                 /\ r = {} \/ results'["passed"] > 0
                 /\ (\E c \in Counters \ {"warnings"} : results'[c] > 0)
                       => results'["passed"] > 0
        BY <2>1, <2>4, ExitShows, Zenon
      <3>1. heard' \ code' \subseteq Unheard'
        BY <1>1, <2>2, <2>4, <3>0 DEF TypeOK, Unheard
      <3>2. ASSUME r = {}, plan.iterations > 0
            PROVE  \E c \in Counters \ {"warnings"} : results'[c] > 0
        BY <1>1, <2>1, <2>4, <3>2 DEF Earned, TypeOK
      <3>3. code' = {} /\ plan'.iterations > 0 => results'["passed"] > 0
        BY <3>0, <3>2
      <3>4. QED
        BY <1>1, <2>1, <2>2, <2>4, <3>1, <3>3 DEF Carried, BreakKnown
    <2>5. QED
      BY <1>3, <2>3, <2>4
  <1>8. Earned'
    BY <1>1 DEF Earned
  <1>9. QED
    BY <1>5, <1>6, <1>7, <1>8

LEMMA LibraryInv == RunInv /\ ~Ended /\ UNCHANGED plan /\ Library => RunInv'
  <1> SUFFICES ASSUME RunInv, ~Ended, UNCHANGED plan, Library PROVE RunInv'
    OBVIOUS
  <1> USE TstTestConstants
  <1>1. ASSUME SetTimeout PROVE RunInv'
    <2>1. TypeOK'
      BY <1>1 DEF SetTimeout, libvars, testvars, shared, bounds, history, RunInv, TypeOK
    <2>2. Phases'
      BY <1>1 DEF SetTimeout, libvars, testvars, shared, bounds, history, RunInv, Phases,
         TypeOK, Ended
    <2>3. Carried'
      <3>1. \A c \in Counters : saved'[c] <= results'[c]
        BY <1>1, Zenon DEF SetTimeout, testvars, shared, RunInv, Carried
      <3>2. QED
        BY <1>1, <3>1, QuietCarried, ZenonT(30) DEF SetTimeout, libvars, testvars, shared, history
    <2>4. Earned'
      BY <1>1 DEF SetTimeout, libvars, testvars, shared, bounds, history, RunInv, Earned,
         TypeOK, Phases
    <2>5. QED
      BY <2>1, <2>2, <2>3, <2>4 DEF RunInv
  <1>2. ASSUME Fork PROVE RunInv'
    <2>0. saved' \in [Counters -> Nat] /\ tstat' \in SUBSET Flags /\ run' \in Nat
      BY <1>2 DEF Fork, NoResults, RunInv, TypeOK
    <2>1. TypeOK'
      BY <1>2, <2>0, Zenon DEF Fork, libvars, testvars, shared, bounds, history, RunInv, TypeOK
    <2>2. Phases'
      BY <1>2 DEF Fork, libvars, testvars, shared, bounds, history, RunInv, Phases, TypeOK, Ended
    <2>3. Carried'
      <3>1. \A c \in Counters : saved'[c] <= results'[c]
        BY <1>2 DEF Fork, NoResults, shared, RunInv, TypeOK
      <3>2. "BROK" \in heard => BreakKnown'
        BY <1>2, ZenonT(30) DEF Fork, history, RunInv, Carried, BreakKnown, TestLives, Phases
      <3>3. QED
        BY <1>2, <3>1, <3>2, ZenonT(30) DEF Fork, shared, history, RunInv, Carried
    <2>4. Earned'
      BY <1>2 DEF Fork, libvars, testvars, shared, bounds, history, RunInv, Earned
    <2>5. QED
      BY <2>1, <2>2, <2>3, <2>4 DEF RunInv
  <1>3. ASSUME ForkFails PROVE RunInv'
    <2>0. LET e == ExitFlags({"BROK"}, results)
          IN /\ e \subseteq Flags /\ "BROK" \in e
             /\ results["failed"] > 0 => "FAIL" \in e
             /\ results["warnings"] > 0 => "WARN" \in e
      BY ExitShows, Zenon DEF RunInv, TypeOK, Flags
    <2>1. TypeOK'
      BY <1>3, <2>0 DEF ForkFails, DoExit, libvars, testvars, shared, bounds, history, RunInv,
         TypeOK
    <2>2. Phases'
      BY <1>3 DEF ForkFails, DoExit, libvars, testvars, shared, bounds, history, RunInv, Phases,
         TypeOK, Ended
    <2>3. Carried'
      <3>1. /\ lpc' = "cleanup" /\ code' = ExitFlags({"BROK"}, results)
            /\ heard' = heard \cup {"BROK"} /\ UNCHANGED <<saved, results>>
        BY <1>3 DEF ForkFails, DoExit, testvars, shared
      <3>2. heard' \subseteq code' /\ code' # {}
        BY <2>0, <3>1 DEF RunInv, Carried, TypeOK
      <3>3. BreakKnown' /\ heard' \ code' \subseteq Unheard'
        BY <3>1, <3>2, Zenon DEF BreakKnown
      <3>4. QED
        BY <3>1, <3>2, <3>3 DEF RunInv, Carried
    <2>4. Earned'
      BY <1>3 DEF ForkFails, DoExit, libvars, testvars, shared, bounds, history, RunInv, Earned,
         Phases
    <2>5. QED
      BY <2>1, <2>2, <2>3, <2>4 DEF RunInv
  <1>4. ASSUME Assign PROVE RunInv'
    <2>1. TypeOK'
      BY <1>4 DEF Assign, libvars, testvars, shared, bounds, history, RunInv, TypeOK
    <2>2. Phases'
      BY <1>4 DEF Assign, libvars, testvars, shared, bounds, history, RunInv, Phases, TypeOK, Ended
    <2>3. Carried'
      <3>1. \A c \in Counters : saved'[c] <= results'[c]
        BY <1>4, Zenon DEF Assign, testvars, shared, RunInv, Carried
      <3>2. QED
        BY <1>4, <3>1, QuietCarried, ZenonT(30) DEF Assign, libvars, testvars, shared, history
    <2>4. Earned'
      BY <1>4 DEF Assign, libvars, testvars, shared, bounds, history, RunInv, Earned
    <2>5. QED
      BY <2>1, <2>2, <2>3, <2>4 DEF RunInv
  <1>5. ASSUME Waitpid PROVE RunInv'
    <2>1. TypeOK'
      BY <1>5 DEF Waitpid, libvars, testvars, shared, bounds, history, RunInv, TypeOK
    <2>2. Phases'
      BY <1>5 DEF Waitpid, libvars, testvars, shared, bounds, history, RunInv, Phases, TypeOK, Ended
    <2>3. Carried'
      <3>1. \A c \in Counters : saved'[c] <= results'[c]
        BY <1>5, Zenon DEF Waitpid, testvars, shared, RunInv, Carried
      <3>2. QED
        BY <1>5, <3>1, QuietCarried, ZenonT(30) DEF Waitpid, libvars, testvars, shared, history
    <2>4. Earned'
      BY <1>5 DEF Waitpid, libvars, testvars, shared, bounds, history, RunInv, Earned
    <2>5. QED
      BY <2>1, <2>2, <2>3, <2>4 DEF RunInv
  <1>6. ASSUME Exit PROVE RunInv'
    <2>1. TypeOK'
      BY <1>6 DEF Exit, libvars, testvars, shared, bounds, history, RunInv, TypeOK
    <2>2. Phases'
      BY <1>6 DEF Exit, libvars, testvars, shared, bounds, history, RunInv, Phases, TypeOK, Ended
    <2>3. Carried'
      <3>1. \A c \in Counters : saved'[c] <= results'[c]
        BY <1>6, Zenon DEF Exit, testvars, shared, RunInv, Carried
      <3>2. QED
        BY <1>6, <3>1, QuietCarried, ZenonT(30) DEF Exit, libvars, testvars, shared, history
    <2>4. Earned'
      BY <1>6 DEF Exit, libvars, testvars, shared, bounds, history, RunInv, Earned, Phases
    <2>5. QED
      BY <2>1, <2>2, <2>3, <2>4 DEF RunInv
  <1>7. CASE Reaped
    BY <1>7, ReapedInv
  <1>8. QED
    BY <1>1, <1>2, <1>3, <1>4, <1>5, <1>6, <1>7 DEF Library

\* A blow: a signal may end the test process, and its children may lose it.
Blow ==
    /\ kids' \in [Kids -> KidTypes]
    /\ \A k \in Kids : kids'[k].par \in {0, kids[k].par}
    /\ stuck' \in BOOLEAN /\ doomed' \in BOOLEAN
    /\ \/ /\ UNCHANGED <<tpc, tstat, saved, calls, run>>
          /\ TestLives => \A k \in Kids : Broken(k) => Broken(k)'
          /\ \/ UNCHANGED heard
             \/ heard' = heard \cup {"BROK"} /\ TestLives /\ \E k \in Kids : Broken(k)'
       \/ /\ TestLives /\ tpc' = "zombie" /\ tstat' \in Deaths
          /\ saved' = NoResults /\ calls' = 0 /\ heard' = heard \cup {"BROK"}

LEMMA BlowInv ==
    ASSUME RunInv, ~Ended, Blow,
           UNCHANGED <<plan, test_pid, run, alarm, usr1, left, ret, code>>,
           UNCHANGED <<results, timeout, nrep, masked>>,
           lpc' \in {lpc, "unclean", "killed"}, nint' \in Nat,
           retries' \in 0 .. MaxRetries + 1, Ended' \/ retries' <= MaxRetries
    PROVE  RunInv'
  <1> USE DEF RunInv
  <1>1. NoResults \in [Counters -> Nat] /\ \A c \in Counters : NoResults[c] = 0
    BY DEF NoResults
  <1>2. \A s \in Deaths : s # {} /\ s # {"BROK"}
    BY DEF Deaths
  <1>3. TypeOK'
    <2>1. /\ saved' \in [Counters -> Nat] /\ calls' \in Nat
          /\ tstat' \in (SUBSET Flags) \cup Deaths
      BY <1>1 DEF Blow, TypeOK
    <2>0. heard' \subseteq {"FAIL", "BROK", "WARN"}
      BY Zenon DEF Blow, TypeOK
    <2>2. /\ tpc' \in {"none", "forked", "dfl", "start", "setup", "test", "reap",
                       "clean", "zombie"}
          /\ kids' \in [Kids -> KidTypes] /\ stuck' \in BOOLEAN /\ doomed' \in BOOLEAN
      BY DEF Blow, TypeOK
    <2>3. QED
      BY <2>0, <2>1, <2>2 DEF TypeOK
  <1>4. Phases'
    BY DEF Blow, Phases, TestLives, TypeOK, Ended
  <1>5. Carried'
    <2>1. \A c \in Counters : saved'[c] <= results'[c]
      BY <1>1 DEF Blow, Carried, TypeOK
    <2>2. /\ "FAIL" \in heard' => results'["failed"] > 0
          /\ "WARN" \in heard' => results'["warnings"] > 0
      BY DEF Blow, Carried
    <2>3. ASSUME "BROK" \in heard' PROVE BreakKnown'
      <3>1. CASE tpc' = "zombie" /\ tstat' \in Deaths
        BY <3>1, Zenon DEF BreakKnown
      <3>2. CASE TestLives /\ tpc' = tpc /\ \E k \in Kids : Broken(k)'
        BY <3>2, Zenon DEF BreakKnown, TestLives
      <3>3. CASE /\ UNCHANGED <<tpc, tstat, heard>>
                 /\ TestLives => \A k \in Kids : Broken(k) => Broken(k)'
        BY <2>3, <3>3, ZenonT(30) DEF BreakKnown, Carried, TestLives, Ended
      <3>4. QED
        BY <3>1, <3>2, <3>3, Zenon DEF Blow
    <2>4. lpc' \in {"cleanup", "exited"} => UNCHANGED heard
      BY DEF Blow, Phases, TestLives
    <2>5. QED
      BY <2>1, <2>2, <2>3, <2>4 DEF Carried, Unheard, Ended
  <1>6. Earned'
    <2>1. CASE tpc' = "zombie" /\ tstat' \in Deaths
      BY <1>2, <2>1, Zenon DEF Earned
    <2>2. CASE UNCHANGED <<tpc, tstat>>
      BY <2>2 DEF Blow, Earned, Phases, TypeOK
    <2>3. QED
      BY <2>1, <2>2, Zenon DEF Blow
  <1>7. QED
    BY <1>3, <1>4, <1>5, <1>6

\* A child that has broken and waits for a living parent is still there when
\* others have been struck.
LEMMA BrokenStruck ==
    ASSUME TypeOK, NEW g, NEW b, kids' = Orphaned(Struck(g), b), b, run' = run,
           NEW k \in Kids, Broken(k)
    PROVE  Broken(k)'
  <1>1. Struck(g) \in [Kids -> KidTypes] /\ Struck(g)[k] = kids[k]
    BY KidsStruck, Zenon DEF TypeOK, Broken
  <1>2. Struck(g)[k].par = run
    BY <1>1, Zenon DEF Broken
  <1>3. kids'[k] = kids[k]
    BY <1>1, <1>2, KidsOrphaned, Zenon
  <1>4. QED
    BY <1>3, Zenon DEF Broken

\* What SIGKILL does is a blow.
LEMMA KillIsBlow == ASSUME RunInv, NEW g, KillGroup(g), run' = run PROVE Blow
  <1>0. TypeOK /\ kids \in [Kids -> KidTypes] /\ stuck \in BOOLEAN /\ doomed \in BOOLEAN
    BY Zenon DEF RunInv, TypeOK
  <1>1. /\ Struck(g) \in [Kids -> KidTypes]
        /\ \A k \in Kids : Struck(g)[k].par = kids[k].par
    BY <1>0, KidsStruck, Zenon
  <1>2. ASSUME NEW b
        PROVE  /\ Orphaned(Struck(g), b) \in [Kids -> KidTypes]
               /\ \A k \in Kids : Orphaned(Struck(g), b)[k].par \in {0, kids[k].par}
    <2>1. /\ Orphaned(Struck(g), b) \in [Kids -> KidTypes]
          /\ \A k \in Kids : Orphaned(Struck(g), b)[k].par \in {0, Struck(g)[k].par}
      BY <1>1, KidsOrphaned, Zenon
    <2>2. QED
      BY <1>1, <2>1, Zenon
  <1>3. CASE InGroup(g) /\ TestEnds({"KILL"}, Struck(g)) /\ heard' = heard \cup {"BROK"}
    BY <1>0, <1>2, <1>3, Zenon DEF Blow, InGroup, TestEnds, Deaths
  <1>4. CASE /\ doomed' = TRUE /\ kids' = Orphaned(Struck(g), TRUE)
             /\ UNCHANGED <<tpc, tstat, saved, calls, stuck, heard>>
    <2>1. \A k \in Kids : Broken(k) => Broken(k)'
      BY <1>0, <1>4, BrokenStruck, Zenon
    <2>2. QED
      BY <1>0, <1>2, <1>4, <2>1, ZenonT(30) DEF Blow
  <1>5. CASE kids' = Orphaned(Struck(g), TestLives) /\ UNCHANGED <<testvars, heard>>
    <2>1. TestLives => \A k \in Kids : Broken(k) => Broken(k)'
      BY <1>0, <1>5, BrokenStruck, Zenon
    <2>2. QED
      BY <1>0, <1>2, <1>5, <2>1, ZenonT(30) DEF Blow, testvars
  <1>6. QED
    BY <1>3, <1>4, <1>5, Zenon DEF KillGroup

\* Signals that reach the library process keep RunInv.
LEMMA AlarmInv == RunInv /\ ~Ended /\ UNCHANGED plan /\ AlarmHandler => RunInv'
  <1> SUFFICES ASSUME RunInv, ~Ended, UNCHANGED plan, AlarmHandler PROVE RunInv'
    OBVIOUS
  <1> USE TstTestConstants
  <1>1. retries' \in 0 .. MaxRetries + 1
    BY DEF AlarmHandler, RunInv, TypeOK, Phases
  <1>2. CASE test_pid = 0
    <2>1. /\ lpc' = "killed" /\ tpc' \in {"none", tpc}
          /\ UNCHANGED <<test_pid, run, alarm, usr1, left, ret, code, shared, bounds>>
          /\ UNCHANGED <<tstat, saved, calls, stuck, doomed, kids, heard, masked>>
      BY <1>2 DEF AlarmHandler, KillOwnGroup
    <2>2. TypeOK'
      BY <1>1, <2>1 DEF RunInv, TypeOK, shared, bounds
    <2>3. Phases' /\ Carried'
      BY <2>1 DEF RunInv, Phases, Carried, BreakKnown, Ended, shared
    <2>5. Earned'
      <3>1. tpc' # tpc => tstat = {}
        BY <2>1, <1>2 DEF AlarmHandler, KillOwnGroup, RunInv, Earned
      <3>2. QED
        BY <2>1, <3>1 DEF RunInv, Earned, shared
    <2>4. QED
      BY <2>2, <2>3, <2>5 DEF RunInv
  <1>3. CASE test_pid # 0
    <2>1. /\ KillGroup(test_pid) /\ lpc' = IF retries' > MaxRetries THEN "unclean" ELSE lpc
          /\ UNCHANGED <<test_pid, run, alarm, usr1, left, ret, code, shared, bounds>>
          /\ UNCHANGED masked
      BY <1>3 DEF AlarmHandler
    <2>2. Ended' \/ retries' <= MaxRetries
      BY <1>1, <2>1 DEF Ended
    <2>3. nint' \in Nat /\ UNCHANGED masked
      BY <2>1 DEF RunInv, TypeOK, bounds
    <2>4. QED
      BY <1>1, <2>1, <2>2, <2>3, KillIsBlow, BlowInv DEF shared, bounds
  <1>4. QED
    BY <1>2, <1>3

LEMMA InterruptInv == RunInv /\ ~Ended /\ UNCHANGED plan /\ Interrupt => RunInv'
  <1> SUFFICES ASSUME RunInv, ~Ended, UNCHANGED plan, Interrupt PROVE RunInv'
    OBVIOUS
  <1> USE TstTestConstants
  <1>1. /\ lpc' \in {lpc, "killed"} /\ nint' \in Nat
        /\ retries' = retries /\ retries \in 0 .. MaxRetries + 1 /\ retries <= MaxRetries
        /\ UNCHANGED <<test_pid, run, alarm, usr1, left, ret, code>>
        /\ UNCHANGED <<results, timeout, nrep>> /\ UNCHANGED masked
    BY DEF Interrupt, RunInv, TypeOK, Phases, shared
  <1>2. Blow
    <2>1. ASSUME NEW K \in {kids, Struck(test_pid)}, tpc = "dfl",
                 TestEnds({"SIGNAL"}, K), heard' = heard \cup {"BROK"}
          PROVE  Blow
      <3>0. kids \in [Kids -> KidTypes]
        BY Zenon DEF RunInv, TypeOK
      <3>1. /\ K \in [Kids -> KidTypes]
            /\ \A k \in Kids : K[k].par = kids[k].par
        BY <3>0, KidsStruck, Zenon
      <3>4. /\ Orphaned(K, FALSE) \in [Kids -> KidTypes]
            /\ \A k \in Kids : Orphaned(K, FALSE)[k].par \in {0, K[k].par}
        BY <3>1, KidsOrphaned, Zenon
      <3>2. /\ Orphaned(K, FALSE) \in [Kids -> KidTypes]
            /\ \A k \in Kids : Orphaned(K, FALSE)[k].par \in {0, kids[k].par}
        BY <3>1, <3>4, Zenon
      <3>3. QED
        BY <2>1, <3>2, Zenon DEF Blow, TestEnds, TestLives, Deaths, RunInv, TypeOK
    <2>2. CASE UNCHANGED <<testvars, kids, heard>>
      <3>1. \A k \in Kids : Broken(k)' = Broken(k)
        BY <1>1, <2>2, BrokenStays, Zenon
      <3>2. kids \in [Kids -> KidTypes] /\ stuck \in BOOLEAN /\ doomed \in BOOLEAN
        BY Zenon DEF RunInv, TypeOK
      <3>3. QED
        BY <1>1, <2>2, <3>1, <3>2, ZenonT(30) DEF Blow, testvars
    <2>3. QED
      BY <1>1, <2>1, <2>2, KillIsBlow DEF Interrupt
  <1>3. QED
    BY <1>1, <1>2, BlowInv

LEMMA HeartbeatInv == RunInv /\ ~Ended /\ UNCHANGED plan /\ HeartbeatHandler => RunInv'
  <1> SUFFICES ASSUME RunInv, ~Ended, UNCHANGED plan, HeartbeatHandler PROVE RunInv'
    OBVIOUS
  <1> USE TstTestConstants DEF HeartbeatHandler, RunInv, testvars, shared, bounds, history
  <1>1. TypeOK'
    <2>1. retries' \in 0 .. MaxRetries + 1
      OBVIOUS
    <2>2. alarm' \in BOOLEAN /\ usr1' \in BOOLEAN
      BY Zenon DEF TypeOK
    <2>3. QED
      BY <2>1, <2>2 DEF TypeOK
  <1>2. Phases'
    BY DEF Phases, TypeOK, Ended
  <1>5. Carried'
    <2>1. \A c \in Counters : saved'[c] <= results'[c]
      BY Zenon DEF Carried
    <2>2. lpc \notin {"exited"}
      BY DEF Ended
    <2>3. QED
      BY <2>1, <2>2, QuietCarried, ZenonT(30)
  <1>3. Earned'
    BY ZenonT(30) DEF Earned
  <1>4. QED
    BY <1>1, <1>2, <1>3, <1>5

\* A result that is counted keeps RunInv, whoever reports it.
LEMMA CountInv ==
    ASSUME RunInv, ~Ended, NEW f \in {"PASS", "FAIL", "WARN", "CONF"}, Count(f),
           heard' \in {heard, heard \cup Lasting(f)}, TestLives \/ UNCHANGED heard,
           UNCHANGED <<plan, libvars, testvars, timeout, kids, nint, masked>>
    PROVE  RunInv'
  <1> USE DEF RunInv, libvars, testvars
  <1>1. /\ results' \in [Counters -> Nat] /\ nrep' \in Nat
        /\ \A c \in Counters : results[c] <= results'[c]
        /\ results'[CounterOf(f)] > 0
    <2>1. CounterOf(f) \in Counters
      BY DEF CounterOf, Counters
    <2>2. QED
      BY <2>1 DEF Count, TypeOK
  <1>2. "FAIL" \in heard' \ heard => results'["failed"] > 0
    BY <1>1 DEF Lasting, CounterOf
  <1>3. "WARN" \in heard' \ heard => results'["warnings"] > 0
    BY <1>1 DEF Lasting, CounterOf
  <1>4. "BROK" \in heard' => "BROK" \in heard
    BY DEF Lasting
  <1>5. heard' \subseteq {"FAIL", "BROK", "WARN"}
    BY DEF Lasting, TypeOK
  <1>6. TypeOK'
    BY <1>1, <1>5 DEF TypeOK
  <1>7. Phases'
    BY DEF Phases, Ended
  <1>8. Carried'
    <2>1. /\ "failed" \in Counters /\ "warnings" \in Counters /\ "passed" \in Counters
      BY DEF Counters
    <2>2. lpc \in {"cleanup", "exited"} => UNCHANGED heard
      BY DEF Phases, TestLives
    <2>3. "BROK" \in heard' => BreakKnown'
      <3>1. "BROK" \in heard' => BreakKnown
        BY <1>4, Zenon DEF Carried
      <3>2. QED
        BY <3>1, BreakStays, BrokenStays, ZenonT(30)
    <2>4. QED
      BY <1>1, <1>2, <1>3, <2>1, <2>2, <2>3 DEF Carried, Unheard, TypeOK
  <1>9. Earned'
    BY <1>1 DEF Earned, TypeOK
  <1>10. QED
    BY <1>6, <1>7, <1>8, <1>9

\* Steps of the children keep RunInv.
LEMMA KidInv == ASSUME RunInv, ~Ended, UNCHANGED plan, NEW k \in Kids, Kid(k) PROVE RunInv'
  <1>1. ASSUME NEW f \in {"PASS", "FAIL", "WARN", "CONF"}, KidReports(k, f) PROVE RunInv'
    BY <1>1, CountInv DEF KidReports
  <1>2. ASSUME \/ \E s \in KidValues : KidEnds(k, s)
               \/ KidLeaves(k)
        PROVE  RunInv'
    <2>0. kids \in [Kids -> KidTypes] /\ stuck \in BOOLEAN /\ doomed \in BOOLEAN
      BY Zenon DEF RunInv, TypeOK
    <2>1. Blow /\ UNCHANGED <<libvars, testvars, shared, bounds, masked>>
      <3>0. UNCHANGED <<libvars, testvars, shared, bounds, masked>>
        BY <1>2, Zenon DEF KidEnds, KidLeaves, history
      <3>1. ASSUME NEW s \in KidValues, KidEnds(k, s) PROVE Blow
        <4> DEFINE K == [kids EXCEPT ![k].st = "zombie", ![k].out = s]
        <4>1. /\ K \in [Kids -> KidTypes] /\ \A j \in Kids : K[j].par = kids[j].par
              /\ \A j \in Kids : j # k => K[j] = kids[j]
              /\ K[k].st = "zombie" /\ K[k].out = s
          BY <2>0, ZenonT(30) DEF KidTypes
        <4>2. kids' = Orphaned(K, TestLives) /\ kids[k].st = "run"
          BY <3>1 DEF KidEnds
        <4> HIDE DEF K
        <4>3. /\ kids' \in [Kids -> KidTypes]
              /\ \A j \in Kids : kids'[j].par \in {0, kids[j].par}
              /\ TestLives => \A j \in Kids : K[j].par = run => kids'[j] = K[j]
          BY <4>1, <4>2, KidsOrphaned
        <4>4. ASSUME TestLives, NEW j \in Kids, Broken(j) PROVE Broken(j)'
          <5>1. j # k
            BY <4>2, <4>4, Zenon DEF Broken
          <5>2. kids'[j] = kids[j]
            BY <4>1, <4>3, <4>4, <5>1, Zenon DEF Broken
          <5>3. QED
            BY <3>0, <4>4, <5>2, Zenon DEF Broken, libvars
        <4>5. ASSUME TestLives, k \in Mine, Bad(s) PROVE Broken(k)'
          <5>1. kids[k].par = run
            BY <4>5, Zenon DEF Mine
          <5>2. kids'[k] = K[k]
            BY <4>1, <4>3, <4>5, <5>1, Zenon
          <5>3. QED
            BY <3>0, <4>1, <4>5, <5>1, <5>2, Zenon DEF Broken, libvars
        <4>6. \/ UNCHANGED heard
              \/ heard' = heard \cup {"BROK"} /\ TestLives /\ \E j \in Kids : Broken(j)'
          BY <3>1, <4>5, Zenon DEF KidEnds
        <4>7. QED
          BY <2>0, <3>0, <4>3, <4>4, <4>6, ZenonT(30) DEF Blow, testvars, libvars
      <3>2. ASSUME KidLeaves(k) PROVE Blow
        <4>1. /\ kids' \in [Kids -> KidTypes]
              /\ \A j \in Kids : kids'[j].par \in {0, kids[j].par}
              /\ \A j \in Kids : j # k => kids'[j] = kids[j]
          BY <2>0, <3>2 DEF KidLeaves, KidTypes
        <4>2. ASSUME NEW j \in Kids, Broken(j) PROVE Broken(j)'
          BY <3>0, <3>2, <4>1, <4>2, Zenon DEF Broken, KidLeaves, libvars
        <4>3. UNCHANGED heard
          BY <3>2, Zenon DEF KidLeaves, history
        <4>4. QED
          BY <2>0, <3>0, <4>1, <4>2, <4>3, ZenonT(30) DEF Blow, testvars, libvars
      <3>3. QED
        BY <1>2, <3>0, <3>1, <3>2, Zenon
    <2>2. /\ nint' \in Nat /\ retries' \in 0 .. MaxRetries + 1 /\ retries' <= MaxRetries
      BY <2>1 DEF RunInv, TypeOK, Phases, bounds, libvars
    <2>3. QED
      BY <2>1, <2>2, BlowInv DEF libvars, shared, bounds
  <1>3. QED
    BY <1>1, <1>2, ZenonT(30) DEF Kid

\* Steps of the test process keep RunInv.
LEMMA MovesInv ==
    ASSUME RunInv, ~Ended, UNCHANGED plan,
           ResetSignals \/ Setpgid \/ Start \/ SetupTimeout \/ SetupDone \/ TestReturns
               \/ GetsStuck
    PROVE  RunInv'
  <1>1. /\ UNCHANGED <<lpc, test_pid, run, alarm, retries, left, ret, code, tstat>>
        /\ UNCHANGED <<results, kids, nrep, nint, heard, masked, doomed>>
        /\ usr1' \in {usr1, TRUE} /\ timeout' \in {timeout, TRUE} /\ stuck' \in {stuck, TRUE}
        /\ saved' \in {saved, results} /\ calls' \in {calls, 1}
        /\ tpc \in {"forked", "dfl", "start", "setup", "test"}
        /\ \/ tpc' \in {"dfl", "start", "setup", "test", "reap"}
           \/ tpc' = "clean" /\ ~(plan.iterations > 0)
    BY ZenonT(30) DEF RunInv, TestAt, libvars, testvars, shared, bounds, history,
                      ResetSignals, Setpgid, Start, SetupTimeout, SetupDone, TestReturns,
                      GetsStuck, TestMoves, CallTest
  <1>0. TypeOK /\ Phases /\ Carried /\ Earned
    BY DEF RunInv
  <1>2. TypeOK'
    <2>1. usr1' \in BOOLEAN /\ timeout' \in BOOLEAN /\ stuck' \in BOOLEAN
      BY <1>0, <1>1, ZenonT(30) DEF TypeOK
    <2>2. saved' \in [Counters -> Nat]
      BY <1>0, <1>1, Zenon DEF TypeOK
    <2>3. calls' \in Nat
      <3>1. calls \in Nat /\ calls' \in {calls, 1}
        BY <1>0, <1>1, Zenon DEF TypeOK
      <3>2. QED
        BY <3>1
    <2>4. QED
      BY <1>0, <1>1, <2>1, <2>2, <2>3 DEF TypeOK
  <1>3. Phases'
    BY <1>0, <1>1 DEF Phases, Ended
  <1>4. Carried'
    <2>1. \A c \in Counters : saved'[c] <= results'[c]
      BY <1>0, <1>1 DEF Carried, TypeOK
    <2>2. tpc # "clean" /\ TestLives /\ TestLives' /\ lpc # "exited"
      BY <1>1 DEF TestLives, Ended
    <2>3. QED
      BY <1>1, <2>1, <2>2, QuietCarried, ZenonT(30)
  <1>5. Earned'
    <2>1. tstat = {} /\ tstat' = {}
      BY <1>0, <1>1 DEF Earned
    <2>2. QED
      BY <1>1, <2>1 DEF Earned
  <1>6. QED
    BY <1>2, <1>3, <1>4, <1>5 DEF RunInv

\* tst_brk() in the test process.
LEMMA BrkInv ==
    ASSUME RunInv, ~Ended, tpc \in {"setup", "test", "reap"},
           NEW f \in {"BROK", "CONF"}, Brk(f), heard' \in {heard, heard \cup ({f} \cap {"BROK"})},
           kids' \in [Kids -> KidTypes],
           f = "CONF" => \A k \in Kids : Broken(k) => Broken(k)',
           UNCHANGED <<plan, libvars, saved, calls, stuck, doomed, shared, bounds, masked>>
    PROVE  RunInv'
  <1> USE DEF RunInv, Brk, libvars, shared, bounds
  <1>1. {f} \in SUBSET Flags /\ {f} # {} /\ {f} \in {{}, {"BROK"}, {"CONF"}}
    BY DEF Flags
  <1>2. heard' \subseteq {"FAIL", "BROK", "WARN"}
    BY DEF TypeOK
  <1>3. TypeOK'
    BY <1>1, <1>2 DEF TypeOK
  <1>4. Phases'
    BY DEF Phases, Ended
  <1>5. Carried'
    <2>1. "BROK" \in heard' => BreakKnown'
      <3>1. CASE f = "BROK"
        BY <3>1, Zenon DEF BreakKnown
      <3>2. CASE f = "CONF"
        <4>1. "BROK" \in heard' => "BROK" \in heard
          BY <3>2
        <4>2. "BROK" \in heard' => BreakKnown
          BY <4>1, Zenon DEF Carried
        <4>3. tpc \notin {"clean", "zombie"} /\ tpc' = "clean"
          BY Zenon
        <4>4. QED
          BY <3>2, <4>2, <4>3, ZenonT(30) DEF BreakKnown, TestLives, Ended
      <3>3. QED
        BY <3>1, <3>2
    <2>2. lpc' \notin {"cleanup", "exited"}
      BY Zenon DEF Phases
    <2>3. /\ "FAIL" \in heard' => "FAIL" \in heard
          /\ "WARN" \in heard' => "WARN" \in heard
      OBVIOUS
    <2>4. QED
      BY <2>1, <2>2, <2>3, ZenonT(30) DEF Carried
  <1>6. Earned'
    BY <1>1, Zenon DEF Earned
  <1>7. QED
    BY <1>3, <1>4, <1>5, <1>6

LEMMA ReapChildInv ==
    ASSUME RunInv, ~Ended, UNCHANGED plan, NEW k \in Kids, ReapChild(k)
    PROVE  RunInv'
  <1>0. kids \in [Kids -> KidTypes] /\ stuck \in BOOLEAN /\ doomed \in BOOLEAN
    BY Zenon DEF RunInv, TypeOK
  <1>1. /\ kids' \in [Kids -> KidTypes]
        /\ \A j \in Kids : kids'[j].par \in {0, kids[j].par}
        /\ \A j \in Kids : j # k => kids'[j] = kids[j]
    BY <1>0 DEF ReapChild, NoKid, KidTypes, KidValues
  <1>2. UNCHANGED <<libvars, saved, calls, stuck, doomed, shared, bounds, heard, masked>>
    BY Zenon DEF ReapChild, history
  <1>7. ASSUME ~Bad(kids[k].out), NEW j \in Kids, Broken(j) PROVE Broken(j)'
    <2>1. j # k
      BY <1>7, Zenon DEF Broken
    <2>2. kids'[j] = kids[j]
      BY <1>1, <2>1, Zenon
    <2>3. QED
      BY <1>2, <1>7, <2>2, Zenon DEF Broken, libvars
  <1>3. CASE kids[k].out = {}
    <2>0. ~Bad(kids[k].out) /\ UNCHANGED <<tpc, tstat>>
      BY <1>3 DEF ReapChild, CheckChildStatus, Bad
    <2>1. Blow
      BY <1>0, <1>1, <1>2, <1>7, <2>0, ZenonT(30) DEF Blow, libvars
    <2>2. retries' \in 0 .. MaxRetries + 1 /\ retries' <= MaxRetries /\ nint' \in Nat
      BY <1>2 DEF RunInv, TypeOK, Phases, libvars, bounds
    <2>3. QED
      BY <1>2, <2>1, <2>2, BlowInv DEF libvars, shared, bounds
  <1>4. CASE kids[k].out = {"CONF"}
    <2>0. ~Bad(kids[k].out)
      BY <1>4 DEF Bad
    <2>1. Brk("CONF") /\ tpc = "reap"
      BY <1>4 DEF ReapChild, CheckChildStatus, TestAt
    <2>3. QED
      BY <1>1, <1>2, <1>7, <2>0, <2>1, BrkInv
  <1>5. CASE kids[k].out \notin {{}, {"CONF"}}
    <2>1. Brk("BROK") /\ tpc = "reap"
      BY <1>5 DEF ReapChild, CheckChildStatus, TestAt
    <2>3. QED
      BY <1>1, <1>2, <2>1, BrkInv
  <1>6. QED
    BY <1>3, <1>4, <1>5

LEMMA ChildrenReapedInv ==
    ASSUME RunInv, ~Ended, UNCHANGED plan, ChildrenReaped PROVE RunInv'
  <1>1. CASE Brk("BROK") /\ heard' = heard \cup {"BROK"} /\ UNCHANGED <<usr1, saved, calls>>
    <2>1. heard' = heard \cup ({"BROK"} \cap {"BROK"})
      BY <1>1, ZenonT(30)
    <2>2. /\ tpc \in {"setup", "test", "reap"} /\ kids' \in [Kids -> KidTypes]
          /\ UNCHANGED masked
          /\ UNCHANGED <<plan, libvars, saved, calls, stuck, doomed, shared, bounds>>
      BY <1>1 DEF ChildrenReaped, TestAt, RunInv, TypeOK, libvars
    <2>3. QED
      BY <1>1, <2>1, <2>2, BrkInv, Zenon
  <1>2. ASSUME ~ResultsEqual(saved, results), UNCHANGED <<tstat, heard>>,
               usr1' \in {usr1, TRUE},
               CallTest(calls + 1) \/ (tpc' = "clean" /\ UNCHANGED <<saved, calls>>)
        PROVE  RunInv'
    <2> USE <1>2 DEF RunInv
    <2>1. /\ tpc = "reap" /\ Mine = {} /\ tpc' \in {"test", "clean"}
          /\ UNCHANGED <<lpc, test_pid, run, alarm, retries, left, ret, code>>
          /\ UNCHANGED <<stuck, doomed, results, timeout, kids, nrep, nint, masked>>
          /\ saved' \in {saved, results} /\ calls' \in {calls, calls + 1}
      BY DEF ChildrenReaped, TestAt, CallTest, shared, bounds
    <2>2. \E c \in Counters \ {"warnings"} : results[c] > 0
      BY DEF ResultsEqual, Carried, TypeOK
    <2>3. \A k \in Kids : kids[k].par # run
      BY <2>1, ZenonT(30) DEF Mine
    <2>4. TypeOK'
      <3>1. usr1' \in BOOLEAN
        BY Zenon DEF TypeOK
      <3>2. saved' \in [Counters -> Nat] /\ calls' \in Nat
        BY <2>1 DEF TypeOK
      <3>3. QED
        BY <2>1, <3>1, <3>2 DEF TypeOK
    <2>5. Phases'
      BY <2>1, ZenonT(30) DEF Phases, Ended
    <2>6. Carried'
      <3>1. \A c \in Counters : saved'[c] <= results'[c]
        BY <2>1 DEF Carried, TypeOK
      <3>2. tpc # "clean" /\ TestLives /\ TestLives' /\ lpc # "exited"
        BY <2>1 DEF TestLives, Ended
      <3>3. QED
        BY <2>1, <3>1, <3>2, QuietCarried, ZenonT(30)
    <2>7. Earned'
      BY <2>1, <2>2, <2>3 DEF Earned
    <2>8. QED
      BY <2>4, <2>5, <2>6, <2>7
  <1>3. QED
    BY <1>1, <1>2, Zenon DEF ChildrenReaped

LEMMA TestInv == RunInv /\ ~Ended /\ UNCHANGED plan /\ Test => RunInv'
  <1> SUFFICES ASSUME RunInv, ~Ended, UNCHANGED plan, Test PROVE RunInv'
    OBVIOUS
  <1>1. ASSUME NEW f \in {"PASS", "FAIL", "WARN", "CONF"}, Report(f) \/ CleanReports(f)
        PROVE  RunInv'
    <2>1. /\ Count(f) /\ heard' = heard \cup Lasting(f) /\ TestLives
          /\ UNCHANGED <<plan, libvars, testvars, timeout, kids, nint, masked>>
      BY <1>1 DEF Report, CleanReports, TestAt, TestLives
    <2>2. QED
      BY <2>1, CountInv
  <1>2. ASSUME NEW f \in {"BROK", "CONF"}, TestBreaks(f) PROVE RunInv'
    <2>1. kids' \in [Kids -> KidTypes]
      BY <1>2, Zenon DEF TestBreaks, RunInv, TypeOK
    <2>2. \A k \in Kids : Broken(k) => Broken(k)'
      BY <1>2, BrokenStays, Zenon DEF TestBreaks, libvars
    <2>3. QED
      BY <1>2, <2>1, <2>2, BrkInv DEF TestBreaks
  <1>3. ASSUME NEW k \in Kids, ForkKid(k) PROVE RunInv'
    <2> USE <1>3 DEF ForkKid, TestAt, libvars, testvars, shared, bounds, history, RunInv
    <2>1. TypeOK'
      <3>1. kids' \in [Kids -> KidTypes]
        BY ZenonT(30) DEF TypeOK, KidTypes, KidValues
      <3>2. QED
        BY <3>1, ZenonT(30) DEF TypeOK
    <2>2. Phases'
      BY DEF Phases, Ended
    <2>4. Carried'
      <3>1. ASSUME NEW j \in Kids, Broken(j) PROVE Broken(j)'
        <4>1. j # k /\ kids \in [Kids -> KidTypes]
          BY <3>1, Zenon DEF Broken, TypeOK
        <4>2. kids'[j] = kids[j]
          BY <4>1
        <4>3. QED
          BY <3>1, <4>2, Zenon DEF Broken
      <3>2. "BROK" \in heard => BreakKnown
        BY Zenon DEF Carried
      <3>3. "BROK" \in heard => BreakKnown'
        BY <3>1, <3>2, BreakStays, ZenonT(30)
      <3>4. lpc' \notin {"cleanup", "exited"}
        BY Zenon DEF Phases
      <3>5. QED
        BY <3>3, <3>4, ZenonT(30) DEF Carried
    <2>5. Earned'
      BY ZenonT(30) DEF Earned
    <2>3. QED
      BY <2>1, <2>2, <2>4, <2>5, ZenonT(30)
  <1>4. /\ Orphaned(kids, FALSE) \in [Kids -> KidTypes]
        /\ \A k \in Kids : Orphaned(kids, FALSE)[k].par \in {0, kids[k].par}
    BY KidsOrphaned, Zenon DEF RunInv, TypeOK
  <1>5. CASE TestCrashes \/ ComesBack
    <2>1. Blow
      <3>1. CASE TestCrashes
        BY <1>4, <3>1, Zenon DEF TestCrashes, TestEnds, Blow, TestLives, Deaths, RunInv, TypeOK
      <3>2. CASE ComesBack
        <4>1. CASE doomed
          BY <1>4, <3>2, <4>1, ZenonT(30) DEF ComesBack, Blow, Deaths
        <4>2. CASE ~doomed
          <5>1. /\ UNCHANGED <<tpc, tstat, saved, calls, kids, heard, run>>
                /\ stuck' = FALSE /\ doomed' = FALSE
            BY <3>2, <4>2, Zenon DEF ComesBack, libvars
          <5>2. kids \in [Kids -> KidTypes] /\ \A k \in Kids : Broken(k)' = Broken(k)
            BY <5>1, BrokenStays, Zenon DEF RunInv, TypeOK
          <5>3. QED
            BY <5>1, <5>2, ZenonT(30) DEF Blow
        <4>3. QED
          BY <4>1, <4>2
      <3>3. QED
        BY <1>5, <3>1, <3>2
    <2>2. UNCHANGED <<libvars, shared, bounds, masked>>
      BY <1>5, Zenon DEF TestCrashes, ComesBack
    <2>3. /\ nint' \in Nat /\ retries' \in 0 .. MaxRetries + 1 /\ retries' <= MaxRetries
          /\ UNCHANGED masked
      BY <2>2 DEF RunInv, TypeOK, Phases, bounds, libvars
    <2>4. QED
      BY <2>1, <2>2, <2>3, BlowInv DEF libvars, shared, bounds
  <1>6. CASE TestExits
    <2> USE DEF libvars, shared, bounds, RunInv
    <2>1. /\ tpc = "clean" /\ tpc' = "zombie" /\ tstat' = tstat
          /\ saved' = NoResults /\ calls' = 0 /\ kids' = Orphaned(kids, FALSE)
          /\ masked' = (masked \/ (tstat = {"CONF"} /\ \E k \in Kids : Broken(k)))
          /\ UNCHANGED <<stuck, doomed, libvars, shared, bounds, heard>>
      BY <1>6, Zenon DEF TestExits, TestAt, TestEnds
    <2>2. NoResults \in [Counters -> Nat] /\ \A c \in Counters : NoResults[c] = 0
      BY DEF NoResults
    <2>3. TypeOK'
      <3>1. /\ saved' \in [Counters -> Nat] /\ calls' \in Nat /\ kids' \in [Kids -> KidTypes]
            /\ UNCHANGED <<stuck, doomed, tstat>>
        BY <1>4, <2>1, <2>2, Zenon
      <3>0. masked' \in BOOLEAN
        BY <2>1, Zenon DEF TypeOK
      <3>2. QED
        BY <2>1, <3>0, <3>1, ZenonT(30) DEF TypeOK
    <2>4. Phases'
      BY <2>1 DEF Phases, Ended
    <2>5. Carried'
      <3>1. \A c \in Counters : saved'[c] <= results'[c]
        BY <2>1, <2>2 DEF TypeOK
      <3>2. ASSUME "BROK" \in heard, ~masked, plan.iterations # 0
            PROVE  tstat \in {{"BROK"}} \cup Deaths \/ masked'
        <4>1. \/ tstat \in {{"BROK"}} \cup Deaths
              \/ \E k \in Kids : Broken(k)
          BY <2>1, <3>2, ZenonT(30) DEF Carried, BreakKnown, Phases
        <4>2. tstat = {} => \A k \in Kids : ~Broken(k)
          <5>1. plan.iterations > 0
            BY <3>2, TstTestConstants DEF TypeOK
          <5>2. QED
            BY <2>1, <5>1, ZenonT(30) DEF Earned, Broken
        <4>3. tstat \in {{}, {"BROK"}, {"CONF"}}
          BY <2>1, Zenon DEF Earned
        <4>4. QED
          BY <2>1, <4>1, <4>2, <4>3, ZenonT(30)
      <3>3. "BROK" \in heard => BreakKnown'
        BY <2>1, <3>2, ZenonT(30) DEF BreakKnown
      <3>4. lpc' \notin {"cleanup", "exited"}
        BY <2>1, Zenon DEF Phases
      <3>5. QED
        BY <2>1, <3>1, <3>3, <3>4, ZenonT(30) DEF Carried
    <2>6. Earned'
      <3>0. run # 0
        BY <2>1 DEF Phases, TypeOK
      <3>1. ASSUME NEW k \in Kids, kids[k].par # run PROVE kids'[k].par # run
        BY <1>4, <2>1, <3>0, <3>1, Zenon
      <3>2. UNCHANGED <<run, results, tstat, plan>>
        BY <2>1
      <3>3. ASSUME tstat = {}, plan.iterations > 0
            PROVE  /\ \E c \in Counters \ {"warnings"} : results[c] > 0
                   /\ \A k \in Kids : kids'[k].par # run
        BY <2>1, <3>1, <3>3, ZenonT(30) DEF Earned
      <3>4. QED
        BY <2>1, <3>2, <3>3, ZenonT(30) DEF Earned
    <2>7. QED
      BY <2>3, <2>4, <2>5, <2>6, ZenonT(30)
  <1>7. QED
    BY <1>1, <1>2, <1>3, <1>5, <1>6, MovesInv, ReapChildInv, ChildrenReapedInv DEF Test

\* A stuttering step.
LEMMA StutterInv == RunInv /\ UNCHANGED vars => RunInv'
  <1> SUFFICES ASSUME RunInv, UNCHANGED vars PROVE RunInv'
    OBVIOUS
  <1> USE DEF RunInv, vars, libvars, testvars, shared, bounds, history
  <1>1. TypeOK' /\ Phases' /\ Earned'
    BY DEF TypeOK, Phases, Earned, Ended, KidTypes
  <1>2. BreakKnown' = BreakKnown
    BY ZenonT(30) DEF BreakKnown, Broken, TestLives, Ended
  <1>3. Carried'
    BY <1>2, ZenonT(30) DEF Carried, Unheard
  <1>4. QED
    BY <1>1, <1>3

(* RunInv is an invariant, for every plan, every number of children and all *)
(* bounds: the inductive argument behind the properties below.             *)
THEOREM RunInvariant == Spec => []RunInv
  <1>1. RunInv /\ [Next]_vars => RunInv'
    <2> SUFFICES ASSUME RunInv, [Next]_vars PROVE RunInv'
      OBVIOUS
    <2>1. CASE Next /\ ~Ended /\ UNCHANGED plan
      BY <2>1, LibraryInv, TestInv, KidInv, AlarmInv, HeartbeatInv, InterruptInv
         DEF Next, Over, Ended
    <2>2. CASE UNCHANGED vars
      BY <2>2, StutterInv
    <2>3. QED
      BY <2>1, <2>2 DEF Next, Over
  <1>2. QED
    BY <1>1, InitInv, PTL DEF Spec

(* Every failure and warning reported while the test process lived, and     *)
(* every break of that process or of a child it had then, is in the exit    *)
(* value (do_exit), in any number of variants and file systems.  What can   *)
(* be missing is exactly the break of a child nobody waited for: the test   *)
(* process ended with TCONF first, or there was no iteration.               *)
THEOREM ReportsShow == Spec => []HeardShows
  <1>1. RunInv => HeardShows
    BY DEF RunInv, Carried, HeardShows
  <1>2. QED
    BY <1>1, RunInvariant, PTL

(* If there is at least one iteration, a test library that exits with 0 has *)
(* counted a pass (run_tests, do_exit).                                     *)
THEOREM SuccessIsEarned == Spec => []ZeroMeansPassed
  <1>1. RunInv => ZeroMeansPassed
    BY DEF RunInv, Carried, ZeroMeansPassed
  <1>2. QED
    BY <1>1, RunInvariant, PTL

(* If there is at least one iteration, a test process that ends with 0 has  *)
(* waited for all the children of its setup() and of its test functions.    *)
THEOREM ChildrenAwaited == Spec => []NoSurvivors
  <1>1. RunInv => NoSurvivors
    BY DEF RunInv, Earned, NoSurvivors
  <1>2. QED
    BY <1>1, RunInvariant, PTL

(* The window in which a timeout kills the library's own group is its first *)
(* fork_testrun(), up to the assignment of test_pid; there is no other one. *)
THEOREM LibrarySpared == Spec => OwnGroupSpared
  <1> DEFINE Spared == \/ lpc = "killed"
                       \/ lpc \in {"fork", "assign"} /\ run <= 1 /\ test_pid = 0
                       \/ lpc \in {"arm", "cleanup"} /\ nint' > nint
  <1>1. RunInv /\ [Next]_vars => (lpc' = "killed" => Spared)
    <2> SUFFICES ASSUME RunInv, [Next]_vars, lpc' = "killed", lpc # "killed" PROVE Spared
      OBVIOUS
    <2>1. CASE Library
      BY <2>1 DEF Library, SetTimeout, Fork, ForkFails, Assign, Waitpid, Reaped, Returned,
                  DoExit, Exit
    <2>2. CASE Test
      BY <2>2, Zenon DEF Test, ResetSignals, Setpgid, Start, SetupTimeout, SetupDone, TestReturns,
                  ChildrenReaped, TestExits, TestCrashes, GetsStuck, ComesBack, Report,
                  CleanReports, TestBreaks, ForkKid, ReapChild, TestMoves, libvars
    <2>3. CASE \E k \in Kids : Kid(k)
      BY <2>3, Zenon DEF Kid, KidReports, KidEnds, KidLeaves, libvars
    <2>4. CASE AlarmHandler
      <3>1. alarm /\ ~Ended /\ test_pid = 0
        BY <2>4 DEF AlarmHandler
      <3>2. lpc \in {"fork", "assign"} /\ run \in {0, 1}
        BY <3>1, Zenon DEF RunInv, Phases
      <3>3. QED
        BY <3>1, <3>2
    <2>5. CASE HeartbeatHandler
      BY <2>5 DEF HeartbeatHandler
    <2>6. CASE Interrupt
      <3>1. /\ nint' = nint + 1 /\ nint \in Nat /\ ~Ended
            /\ lpc \notin {"fork", "assign", "wait", "reaped"}
        BY <2>6 DEF Interrupt, RunInv, TypeOK
      <3>2. lpc \in {"arm", "cleanup"}
        BY <3>1 DEF RunInv, TypeOK, Ended
      <3>3. QED
        BY <3>1, <3>2
    <2>7. CASE UNCHANGED vars
      BY <2>7 DEF vars, libvars
    <2>8. QED
      BY <2>1, <2>2, <2>3, <2>4, <2>5, <2>6, <2>7 DEF Next, Over
  <1>2. QED
    BY <1>1, RunInvariant, PTL DEF Spec, OwnGroupSpared

(* The library cleans up undisturbed by its own timeout (alarm(0), after    *)
(* the last heartbeat), unless fork() failed.                              *)
THEOREM CleansUpInPeace == Spec => []QuietCleanup
  <1>1. RunInv => QuietCleanup
    BY DEF RunInv, Phases, QuietCleanup
  <1>2. QED
    BY <1>1, RunInvariant, PTL
=============================================================================
