-------------------------- MODULE CheckpointProofs --------------------------
(***************************************************************************)
(* For any number of processes, checkpoints, calls and signals: a wake     *)
(* that succeeds ended exactly nr_wake waits, a wait that succeeds was     *)
(* ended by exactly one wake.                                              *)
(***************************************************************************)
EXTENDS Checkpoint, FiniteSetTheorems, TLAPS

\* What a wake has ended can be counted.
LEMMA EndedFinite ==
    ASSUME NEW c PROVE IsFiniteSet(EndedBy(c)) /\ Cardinality(EndedBy(c)) \in Nat
  <1>1. IsFiniteSet(1 .. MaxCalls) BY CheckpointConstants, FS_Interval
  <1>2. IsFiniteSet(Calls) BY <1>1, CheckpointConstants, FS_Product DEF Calls
  <1>3. EndedBy(c) \in SUBSET Calls BY DEF EndedBy
  <1> QED BY <1>2, <1>3, FS_Subset, FS_CardinalityType

\* The size of a disjoint union.
LEMMA DisjointUnion ==
    ASSUME NEW S, NEW T, IsFiniteSet(S), IsFiniteSet(T), S \cap T = {}
    PROVE  Cardinality(S \cup T) = Cardinality(S) + Cardinality(T)
  <1>1. Cardinality(S \cup T) = Cardinality(S) + Cardinality(T) - Cardinality(S \cap T)
    BY FS_Union, Zenon
  <1>2. Cardinality(S \cap T) = 0 BY FS_EmptySet, Zenon
  <1>3. Cardinality(S) \in Nat /\ Cardinality(T) \in Nat BY FS_CardinalityType, Zenon
  <1> QED BY <1>1, <1>2, <1>3

\* Counting sleepers is counting their waits.
LEMMA SleepersAreWaits ==
    ASSUME TypeOK, NEW W \in SUBSET Procs
    PROVE  LET C == {Call(q) : q \in W}
           IN IsFiniteSet(C) /\ Cardinality(C) = Cardinality(W)
              /\ Cardinality(W) \in Nat
  <1> DEFINE C == {Call(q) : q \in W}
             f == [q \in W |-> Call(q)]
  <1>1. IsFiniteSet(W) /\ Cardinality(W) \in Nat
    BY CheckpointConstants, FS_Subset, FS_CardinalityType
  <1>2. f \in [W -> C] OBVIOUS
  <1>3. \A a, b \in W : f[a] = f[b] => a = b BY DEF Call
  <1>4. \A y \in C : \E a \in W : f[a] = y OBVIOUS
  <1>5. f \in Bijection(W, C)
    BY <1>2, <1>3, <1>4 DEF Bijection, Injection, Surjection, IsInjective
  <1>6. ExistsBijection(W, C) BY <1>5 DEF ExistsBijection
  <1> QED BY <1>1, <1>6, FS_Bijection

LEMMA InitInv == Init => CheckpointInv
  <1> SUFFICES ASSUME Init PROVE CheckpointInv OBVIOUS
  <1>1. TypeOK
    BY CheckpointConstants DEF Init, TypeOK, Ids, Rest, Calls
  <1>2. ASSUME NEW p \in Procs PROVE InCall(p) BY DEF Init, InCall
  <1> QED BY <1>1, <1>2 DEF Init, CheckpointInv, PastCalls, WakeExact

\* A step that ends no wait leaves what every wake has ended.
LEMMA EndedSame ==
    ASSUME UNCHANGED woke PROVE \A c : EndedBy(c)' = EndedBy(c)
  BY DEF EndedBy

\* A process begins a wait or a wake: the new call has no past.
LEMMA BeginInv ==
    ASSUME CheckpointInv, NEW p \in Procs, NEW i \in Ids,
           Wait(p, i) \/ \E n \in NrWakes, w \in BOOLEAN : Wake(p, i, n, w)
    PROVE  CheckpointInv'
  <1> USE CheckpointConstants DEF CheckpointInv
  <1>1. /\ UNCHANGED history /\ calls[p] < MaxCalls /\ pc[p] = "test" /\ calls[p] \in Nat
        /\ calls' = [calls EXCEPT ![p] = @ + 1] /\ waked' = waked
        /\ pc'[p] \in {"wait", "wake", "toolarge"} /\ calls'[p] = calls[p] + 1
        /\ \A q \in Procs \ {p} : /\ pc'[q] = pc[q] /\ calls'[q] = calls[q]
                                  /\ andWait'[q] = andWait[q] /\ nr_wake'[q] = nr_wake[q]
    BY DEF Wait, Wake, TypeOK, Rest
  <1>2. TypeOK'
    BY <1>1 DEF Wait, Wake, TypeOK, Rest, Ids, history
  <1>3. \A c : EndedBy(c)' = EndedBy(c) BY <1>1, EndedSame DEF history
  <1>4. PastCalls'
    BY <1>1 DEF PastCalls, history, TypeOK, Calls
  <1>5. WakeExact' BY <1>1, <1>3 DEF WakeExact, history
  <1>6. ASSUME NEW q \in Procs PROVE InCall(q)'
    <2>1. CASE q # p
      <3>1. Call(q)' = Call(q) BY <1>1, <2>1 DEF Call
      <3> QED BY <1>1, <1>3, <2>1, <3>1 DEF InCall, history
    <2>2. CASE q = p
      <3>1. /\ \A v \in woke : v[1] # Call(p)' /\ v[2] # Call(p)'
            /\ \A r \in returned : r[1] # Call(p)'
        BY <1>1 DEF Call, PastCalls, TypeOK, Calls
      <3>2. EndedBy(Call(p)') = {} BY <3>1 DEF EndedBy
      <3>3. EndedBy(Call(p))' = {} BY <3>2, <1>3 DEF EndedBy, history
      <3>4. Cardinality(EndedBy(Call(p)))' = 0 BY <3>3, FS_EmptySet
      <3>5. waked[p] = 0 BY <1>1 DEF InCall
      <3>6. pc'[p] = "wake" /\ andWait'[p] => calls'[p] < MaxCalls
        BY <1>1 DEF Wait, Wake, TypeOK
      <3> QED BY <1>1, <2>2, <3>1, <3>4, <3>5, <3>6 DEF InCall, history
    <2> QED BY <2>1, <2>2
  <1> QED BY <1>2, <1>4, <1>5, <1>6

\* A wait goes to sleep, is interrupted, runs out of time or returns.
LEMMA WaitInv ==
    ASSUME CheckpointInv, NEW p \in Procs,
           FutexWait(p) \/ Interrupt(p) \/ WaitTimeout(p) \/ WaitReturns(p)
    PROVE  CheckpointInv'
  <1> USE CheckpointConstants DEF CheckpointInv
  <1>1. /\ woke' = woke /\ returned' = returned /\ calls' = calls /\ waked' = waked
        /\ nr_wake' = nr_wake /\ andWait' = andWait
        /\ pc[p] \in {"wait", "asleep", "woken"}
        /\ pc'[p] \in {"wait", "asleep", "expired", "test"}
        /\ pc'[p] \in {"wait", "asleep"} => pc[p] \in {"wait", "asleep"}
        /\ \A q \in Procs \ {p} : pc'[q] = pc[q]
        /\ passed' \subseteq passed \cup {Call(p)}
        /\ passed' # passed => pc[p] = "woken"
    BY DEF FutexWait, Interrupt, WaitTimeout, WaitReturns, TypeOK, Rest, history
  <1>2. Call(p) \in Calls BY <1>1 DEF Call, Calls, InCall, TypeOK
  <1>3. TypeOK'
    BY <1>1, <1>2 DEF FutexWait, Interrupt, WaitTimeout, WaitReturns, TypeOK, Rest, Ids, history
  <1>4. \A c : EndedBy(c)' = EndedBy(c) BY <1>1, EndedSame
  <1>5. PastCalls' BY <1>1 DEF PastCalls, InCall
  <1>6. WakeExact' BY <1>1, <1>4 DEF WakeExact
  <1>7. ASSUME NEW q \in Procs PROVE InCall(q)'
    <2>1. Call(q)' = Call(q) BY <1>1 DEF Call
    <2>2. CASE q # p BY <1>1, <1>4, <2>1, <2>2 DEF InCall
    <2>3. CASE q = p BY <1>1, <2>1, <2>3 DEF InCall
    <2> QED BY <2>2, <2>3
  <1> QED BY <1>3, <1>5, <1>6, <1>7

\* FUTEX_WAKE: the sleepers are added to what the call has ended.
LEMMA FutexWakeInv ==
    ASSUME CheckpointInv, NEW p \in Procs, FutexWake(p) PROVE CheckpointInv'
  <1> USE CheckpointConstants DEF CheckpointInv
  <1> DEFINE W == Asleep(id[p])
             C == {Call(q) : q \in W}
  <1>1. /\ pc[p] = "wake" /\ UNCHANGED <<id, nr_wake, andWait, calls, passed, returned>>
        /\ waked' = [waked EXCEPT ![p] = @ + Cardinality(W)]
        /\ woke' = woke \cup {<<Call(q), Call(p)>> : q \in W}
        /\ pc'[p] = "compare" /\ p \notin W /\ W \subseteq Procs
        /\ \A q \in W : pc[q] = "asleep" /\ pc'[q] = "woken"
        /\ \A q \in Procs \ W : q # p => pc'[q] = pc[q]
    BY DEF FutexWake, Asleep
  <1>2. \A q \in Procs : Call(q)' = Call(q) BY <1>1 DEF Call
  <1>3. Call(p) \in Calls /\ C \subseteq Calls
    BY <1>1 DEF Call, Calls, InCall, TypeOK
  <1>4. Cardinality(W) \in Nat /\ IsFiniteSet(C) /\ Cardinality(C) = Cardinality(W)
    BY <1>1, SleepersAreWaits, Zenon
  <1>5. \A c : c # Call(p) => EndedBy(c)' = EndedBy(c) BY <1>1 DEF EndedBy
  <1>6. EndedBy(Call(p))' = EndedBy(Call(p)) \cup C
    <2>1. \A w \in Calls : <<w, Call(p)>> \in woke' <=> <<w, Call(p)>> \in woke \/ w \in C
      BY <1>1
    <2> QED BY <1>2, <1>3, <2>1 DEF EndedBy
  <1>7. EndedBy(Call(p)) \cap C = {}
    <2>1. \A q \in W : \A v \in woke : v[1] # Call(q) BY <1>1 DEF InCall
    <2>2. \A q \in W : Call(q) \notin EndedBy(Call(p)) BY <2>1 DEF EndedBy
    <2> QED BY <2>2
  <1>8. Cardinality(EndedBy(Call(p)))' = waked[p] + Cardinality(W)
    <2>1. Cardinality(EndedBy(Call(p)) \cup C) = Cardinality(EndedBy(Call(p))) + Cardinality(C)
      <3>1. IsFiniteSet(EndedBy(Call(p))) /\ Cardinality(EndedBy(Call(p))) \in Nat
        BY EndedFinite, Zenon
      <3> QED BY <1>4, <1>7, <3>1, DisjointUnion, Zenon
    <2>2. Cardinality(EndedBy(Call(p))) = waked[p] BY <1>1 DEF InCall
    <2> QED BY <1>4, <1>6, <2>1, <2>2
  <1>9. TypeOK'
    <2>1. pc' \in [Procs -> {"test", "wait", "asleep", "woken", "wake", "compare"} \cup Rest]
      BY DEF TypeOK, FutexWake
    <2>2. waked' \in [Procs -> Nat] BY <1>1, <1>4 DEF TypeOK
    <2>3. woke' \subseteq Calls \X Calls BY <1>1, <1>3 DEF TypeOK
    <2> QED BY <1>1, <2>1, <2>2, <2>3 DEF TypeOK, FutexWake
  <1>10. \A q \in W : \A v \in woke : v[1] # Call(q) BY <1>1 DEF InCall
  <1>11. PastCalls'
    <2>1. \A v \in woke' : v \in woke \/ \E q \in W : v = <<Call(q), Call(p)>>
      BY <1>1
    <2>2. \A v \in woke' : v[1][2] <= calls'[v[1][1]] /\ v[2][2] <= calls'[v[2][1]]
      BY <1>1, <2>1 DEF PastCalls, Call, TypeOK
    <2>3. \A u, v \in woke' : u[1] = v[1] => u = v
      BY <1>10, <2>1 DEF PastCalls
    <2> QED BY <1>1, <2>2, <2>3 DEF PastCalls
  <1>12. WakeExact'
    <2>1. \A r \in returned : r[1] # Call(p) BY <1>1 DEF InCall
    <2> QED BY <1>1, <1>5, <2>1 DEF WakeExact
  <1>13. ASSUME NEW q \in Procs PROVE InCall(q)'
    <2>1. CASE q = p
      <3>1. pc'[p] = "compare" /\ waked'[p] = waked[p] + Cardinality(W)
        BY <1>1, <1>4 DEF TypeOK
      <3>2. Cardinality(EndedBy(Call(p)))' = waked'[p] BY <1>8, <3>1, ZenonT(30)
      <3>3. calls[p] > 0 /\ (andWait[p] => calls[p] < MaxCalls) BY <1>1 DEF InCall
      <3>4. \A r \in returned : r[1] # Call(p) BY <1>1 DEF InCall
      <3> QED BY <1>1, <1>2, <2>1, <3>1, <3>2, <3>3, <3>4 DEF InCall
    <2>2. CASE q \in W
      <3>1. waked'[q] = 0 /\ calls'[q] > 0 BY <1>1, <2>2 DEF InCall, TypeOK
      <3>2. \E v \in woke' : v[1] = Call(q)
        <4>1. <<Call(q), Call(p)>> \in woke' BY <1>1, <2>2
        <4> QED BY <4>1, ZenonT(30)
      <3> QED BY <1>1, <1>2, <2>2, <3>1, <3>2 DEF InCall
    <2>3. CASE q \notin W /\ q # p
      <3>1. Call(q) # Call(p) BY <2>3 DEF Call
      <3>2. EndedBy(Call(q))' = EndedBy(Call(q)) BY <1>2, <1>5, <3>1
      <3>3. \A x \in W : Call(x) # Call(q) BY <2>3 DEF Call
      <3>4. waked'[q] = waked[q] /\ pc'[q] = pc[q] BY <1>1, <2>3 DEF TypeOK
      <3>5. \A v \in woke' : v[1] = Call(q) => v \in woke BY <1>1, <3>3
      <3> QED BY <1>1, <1>2, <3>2, <3>4, <3>5 DEF InCall
    <2> QED BY <2>1, <2>2, <2>3
  <1> QED BY <1>9, <1>11, <1>12, <1>13

\* A wake has ended as many as it was asked to, or counts another millisecond.
LEMMA CompareInv ==
    ASSUME CheckpointInv, NEW p \in Procs, WakeReturns(p) \/ WakeRetry(p)
    PROVE  CheckpointInv'
  <1> USE CheckpointConstants DEF CheckpointInv
  <1>1. /\ pc[p] = "compare" /\ woke' = woke /\ passed' = passed
        /\ \A q \in Procs \ {p} : /\ pc'[q] = pc[q] /\ calls'[q] = calls[q] /\ waked'[q] = waked[q]
                                  /\ andWait'[q] = andWait[q] /\ nr_wake'[q] = nr_wake[q]
        /\ \A q \in Procs : calls'[q] \in Nat /\ calls[q] <= calls'[q] /\ calls[q] \in Nat
    BY DEF WakeReturns, WakeRetry, TypeOK, history
  <1>2. Call(p) \in Calls BY <1>1 DEF Call, Calls, InCall, TypeOK
  <1>3. TypeOK'
    <2>1. CASE WakeReturns(p)
      <3>1. calls' \in [Procs -> 0 .. MaxCalls] BY <1>1, <2>1 DEF WakeReturns, InCall, TypeOK
      <3>2. returned' \subseteq Calls \X Nat BY <1>2, <2>1 DEF WakeReturns, TypeOK
      <3>3. andWait' \in [Procs -> BOOLEAN] BY <2>1, Zenon DEF WakeReturns, TypeOK
      <3> QED BY <2>1, <3>1, <3>2, <3>3 DEF WakeReturns, TypeOK, Rest, Ids
    <2>2. CASE WakeRetry(p) BY <2>2 DEF WakeRetry, TypeOK, Rest, Ids, history
    <2> QED BY <2>1, <2>2
  <1>4. \A c : EndedBy(c)' = EndedBy(c) BY <1>1, EndedSame
  <1>5. returned' = returned \/ returned' = returned \cup {<<Call(p), nr_wake[p]>>}
    BY DEF WakeReturns, WakeRetry, history
  <1>6. PastCalls'
    <2>1. \A v \in woke' : v[1][2] <= calls'[v[1][1]] /\ v[2][2] <= calls'[v[2][1]]
      BY <1>1 DEF PastCalls, TypeOK, Calls
    <2>2. \A r \in returned' : r[1][2] <= calls'[r[1][1]]
      BY <1>1, <1>5 DEF PastCalls, TypeOK, Calls, Call
    <2> QED BY <1>1, <2>1, <2>2 DEF PastCalls
  <1>7. WakeExact'
    <2>1. CASE WakeReturns(p)
      <3>1. Cardinality(EndedBy(Call(p))) = nr_wake[p] BY <1>1, <2>1 DEF InCall, WakeReturns
      <3> QED BY <1>4, <1>5, <3>1 DEF WakeExact
    <2>2. CASE WakeRetry(p) BY <1>4, <2>2 DEF WakeExact, WakeRetry, history
    <2> QED BY <2>1, <2>2
  <1>8. ASSUME NEW q \in Procs PROVE InCall(q)'
    <2>1. CASE q # p
      <3>1. Call(q)' = Call(q) /\ Call(q) # Call(p) BY <1>1, <2>1, SMTT(20) DEF Call
      <3> QED BY <1>1, <1>4, <1>5, <2>1, <3>1 DEF InCall
    <2>2. CASE q = p /\ WakeReturns(p)
      <3>1. /\ pc'[p] \in {"wait", "test"} /\ waked'[p] = 0 /\ calls'[p] > 0
            /\ pc'[p] = "wait" => calls'[p] = calls[p] + 1
        BY <1>1, <2>2 DEF WakeReturns, TypeOK, InCall
      <3>2. pc'[p] = "wait" => \A v \in woke : v[1] # Call(p)'
        BY <1>1, <3>1 DEF PastCalls, Call, TypeOK, Calls
      <3> QED BY <1>1, <2>2, <3>1, <3>2, ZenonT(30) DEF InCall
    <2>3. CASE q = p /\ WakeRetry(p)
      <3>1. /\ pc'[p] \in {"wake", "gaveup"} /\ waked' = waked /\ calls' = calls
            /\ andWait' = andWait /\ nr_wake' = nr_wake /\ returned' = returned
            /\ waked[p] # nr_wake[p]
        BY <2>3 DEF WakeRetry, TypeOK, history
      <3>2. Call(p)' = Call(p) BY <3>1 DEF Call
      <3> QED BY <1>1, <1>4, <2>3, <3>1, <3>2 DEF InCall
    <2> QED BY <2>1, <2>2, <2>3, ZenonT(30)
  <1> QED BY <1>3, <1>6, <1>7, <1>8

\* The invariant says what the laws say.
LEMMA InvLaws == CheckpointInv => WakeExact /\ OneWakeEach /\ GaveUpShort
  <1> SUFFICES ASSUME CheckpointInv PROVE OneWakeEach /\ GaveUpShort BY DEF CheckpointInv
  <1>1. OneWakeEach
    <2> SUFFICES ASSUME NEW w \in passed
                 PROVE  \E v \in woke : {u \in woke : u[1] = w} = {v}
      BY DEF OneWakeEach
    <2>1. PICK v \in woke : v[1] = w BY DEF CheckpointInv, PastCalls
    <2>2. \A u \in woke : u[1] = w => u = v BY <2>1 DEF CheckpointInv, PastCalls
    <2> QED BY <2>1, <2>2
  <1>2. GaveUpShort BY DEF GaveUpShort, CheckpointInv, InCall
  <1> QED BY <1>1, <1>2

\* For every instance, the inductive invariant of the checkpoint calls.
THEOREM CheckpointInvariant == Spec => []CheckpointInv
  <1>1. CheckpointInv /\ [Next]_vars => CheckpointInv'
    <2> SUFFICES ASSUME CheckpointInv, [Next]_vars PROVE CheckpointInv' OBVIOUS
    <2>1. CASE \E p \in Procs : \/ \E i \in Ids : Wait(p, i)
                                \/ \E i \in Ids, n \in NrWakes, w \in BOOLEAN : Wake(p, i, n, w)
      BY <2>1, BeginInv
    <2>2. CASE \E p \in Procs : FutexWait(p) \/ Interrupt(p) \/ WaitTimeout(p) \/ WaitReturns(p)
      BY <2>2, WaitInv
    <2>3. CASE \E p \in Procs : FutexWake(p) BY <2>3, FutexWakeInv
    <2>4. CASE \E p \in Procs : WakeReturns(p) \/ WakeRetry(p) BY <2>4, CompareInv
    <2>5. CASE UNCHANGED vars
      <3>1. \A p \in Procs : Call(p)' = Call(p) BY <2>5 DEF vars, Call
      <3>2. \A c : EndedBy(c)' = EndedBy(c) BY <2>5, EndedSame DEF vars, history
      <3> QED BY <2>5, <3>1, <3>2
              DEF vars, history, CheckpointInv, TypeOK, InCall, PastCalls, WakeExact
    <2> QED BY <2>1, <2>2, <2>3, <2>4, <2>5 DEF Next, Proceed, Over
  <1> QED BY <1>1, InitInv, PTL DEF Spec

\* A successful wake ended exactly nr_wake waits, whatever ran beside it.
THEOREM WakesAreExact == Spec => []WakeExact
  BY CheckpointInvariant, InvLaws, PTL

\* A successful wait was ended by exactly one wake, signals or not.
THEOREM WaitsAreWoken == Spec => []OneWakeEach
  BY CheckpointInvariant, InvLaws, PTL

\* A wake reports a failure only if it did not do what it was asked to.
THEOREM GivesUpShort == Spec => []GaveUpShort
  BY CheckpointInvariant, InvLaws, PTL
=============================================================================
