------------------------------ MODULE ZooSteps ------------------------------
(***************************************************************************)
(* Every step of zoolib.c keeps the inductive invariant of the active      *)
(* file: how marking and clearing a line changes the counts, and one lemma *)
(* per action.                                                             *)
(***************************************************************************)
EXTENDS Zoo, FiniteSetTheorems, SequenceTheorems, TLAPS

-----------------------------------------------------------------------------
(* Counting lines *)

\* Line k of the file is rewritten, or appended, and no other is touched.
Rewrites(k, line) == /\ DOMAIN file' = DOMAIN file \cup {k}
                     /\ file'[k] = line
                     /\ \A i \in DOMAIN file : i # k => file'[i] = file[i]

LinesAt(p) == {i \in InUse : file[i].pid = p}
Listers(p) == {t \in Pans : p \in listed[t]}

\* The lines of the file are finitely many.
LEMMA LinesFinite ==
    ASSUME file \in Seq(Lines)
    PROVE  /\ IsFiniteSet(InUse) /\ Cardinality(InUse) \in Nat
           /\ Cardinality(InUse) <= Len(file) /\ Len(file) \in Nat
           /\ Cardinality(InUse) = Len(file) <=> InUse = DOMAIN file
           /\ \A p : IsFiniteSet(LinesAt(p)) /\ LinesOf(p) = Cardinality(LinesAt(p))
                     /\ LinesOf(p) \in Nat
  <1>1. Len(file) \in Nat /\ DOMAIN file = 1 .. Len(file) BY LenProperties
  <1>2. IsFiniteSet(1 .. Len(file)) /\ Cardinality(1 .. Len(file)) = Len(file)
    BY <1>1, FS_Interval
  <1>3. InUse \in SUBSET (1 .. Len(file)) BY <1>1 DEF InUse
  <1>4. /\ IsFiniteSet(InUse) /\ Cardinality(InUse) <= Len(file)
        /\ Cardinality(InUse) = Len(file) => InUse = DOMAIN file
    BY <1>1, <1>2, <1>3, FS_Subset, ZenonT(30)
  <1>5. Cardinality(InUse) \in Nat BY <1>4, FS_CardinalityType
  <1>6. ASSUME NEW p
        PROVE  IsFiniteSet(LinesAt(p)) /\ LinesOf(p) = Cardinality(LinesAt(p)) /\ LinesOf(p) \in Nat
    <2>1. LinesAt(p) \in SUBSET InUse BY DEF LinesAt
    <2>2. IsFiniteSet(LinesAt(p)) BY <1>4, <2>1, FS_Subset
    <2> QED BY <2>2, FS_CardinalityType DEF LinesOf, LinesAt
  <1> QED BY <1>1, <1>2, <1>4, <1>5, <1>6

\* The ltp-pans that have a pid listed are finitely many.
LEMMA ListersFinite ==
    \A p : IsFiniteSet(Listers(p)) /\ Cardinality(Listers(p)) \in Nat
  <1> TAKE p
  <1>1. Listers(p) \in SUBSET Pans BY DEF Listers
  <1>2. IsFiniteSet(Listers(p)) BY <1>1, ZooConstants, FS_Subset
  <1> QED BY <1>2, FS_CardinalityType

\* A line written where none was in use is one more for its pid and for no other.
LEMMA MarkCounts ==
    ASSUME file \in Seq(Lines), NEW k, NEW line \in Marked, k \notin InUse, Rewrites(k, line)
    PROVE  /\ InUse' = InUse \cup {k} /\ Cardinality(InUse') = Cardinality(InUse) + 1
           /\ \A p : LinesOf(p)' = IF p = line.pid THEN LinesOf(p) + 1 ELSE LinesOf(p)
  <1>1. line # Free BY FreeLine
  <1>2. InUse' = InUse \cup {k} BY <1>1 DEF Rewrites, InUse
  <1>3. Cardinality(InUse') = Cardinality(InUse) + 1
    <2>1. IsFiniteSet(InUse) BY LinesFinite
    <2> QED BY <1>2, <2>1, FS_AddElement, Zenon
  <1>4. ASSUME NEW p
        PROVE  LinesOf(p)' = IF p = line.pid THEN LinesOf(p) + 1 ELSE LinesOf(p)
    <2>1. \A i \in InUse : i # k /\ file'[i] = file[i] BY DEF InUse, Rewrites
    <2>2. LinesAt(p)' = IF p = line.pid THEN LinesAt(p) \cup {k} ELSE LinesAt(p)
      BY <1>2, <2>1 DEF LinesAt, Rewrites
    <2>3. LinesOf(p)' = Cardinality(LinesAt(p)') BY DEF LinesOf, LinesAt
    <2>4. k \notin LinesAt(p) BY DEF LinesAt
    <2>5. IsFiniteSet(LinesAt(p)) /\ LinesOf(p) = Cardinality(LinesAt(p)) BY LinesFinite
    <2>6. Cardinality(LinesAt(p) \cup {k}) = Cardinality(LinesAt(p)) + 1
      BY <2>4, <2>5, FS_AddElement, Zenon
    <2> QED BY <2>2, <2>3, <2>5, <2>6
  <1> QED BY <1>2, <1>3, <1>4

\* A line freed is one less for its pid and for no other.
LEMMA ClearCounts ==
    ASSUME file \in Seq(Lines), NEW k \in InUse, Rewrites(k, Free)
    PROVE  /\ Cardinality(InUse') <= Cardinality(InUse)
           /\ LinesOf(file[k].pid) > 0
           /\ \A p : LinesOf(p)' = IF p = file[k].pid THEN LinesOf(p) - 1 ELSE LinesOf(p)
  <1>2. InUse' = InUse \ {k} BY DEF Rewrites, InUse
  <1>3. Cardinality(InUse') <= Cardinality(InUse)
    <2>1. IsFiniteSet(InUse) /\ Cardinality(InUse) \in Nat BY LinesFinite
    <2>2. Cardinality(InUse \ {k}) = Cardinality(InUse) - 1 BY <2>1, FS_RemoveElement, Zenon
    <2> QED BY <1>2, <2>1, <2>2
  <1>4. ASSUME NEW p
        PROVE  LinesOf(p)' = IF p = file[k].pid THEN LinesOf(p) - 1 ELSE LinesOf(p)
    <2>1. \A i \in InUse \ {k} : file'[i] = file[i] BY DEF InUse, Rewrites
    <2>2. LinesAt(p)' = IF p = file[k].pid THEN LinesAt(p) \ {k} ELSE LinesAt(p)
      BY <1>2, <2>1 DEF LinesAt
    <2>3. LinesOf(p)' = Cardinality(LinesAt(p)') BY DEF LinesOf, LinesAt
    <2>4. p = file[k].pid => k \in LinesAt(p) BY DEF LinesAt
    <2>5. IsFiniteSet(LinesAt(p)) /\ LinesOf(p) = Cardinality(LinesAt(p)) BY LinesFinite
    <2>6. k \in LinesAt(p) => Cardinality(LinesAt(p) \ {k}) = Cardinality(LinesAt(p)) - 1
      BY <2>5, FS_RemoveElement, Zenon
    <2> QED BY <2>2, <2>3, <2>4, <2>5, <2>6
  <1>5. LinesOf(file[k].pid) > 0
    <2>1. k \in LinesAt(file[k].pid) BY DEF LinesAt
    <2> QED BY <2>1, LinesFinite, FS_EmptySet
  <1> QED BY <1>3, <1>4, <1>5

Less == {ss \in Nat \X Nat : ss[1] < ss[2]}

\* If a line matches, one of them is the first.
LEMMA FirstOf ==
    ASSUME NEW T \in SUBSET Nat, T # {}
    PROVE  \E i \in T : \A j \in T : i <= j
  <1>1. IsWellFoundedOn(Less, Nat)
    <2>1. Less = OpToRel(<, Nat) BY Zenon DEF OpToRel, Less
    <2> QED BY <2>1, NatLessThanWellFounded, Zenon
  <1>2. PICK i \in T : \A j \in T : ~ (<<j, i>> \in Less) BY <1>1, WFMin, ZenonT(30)
  <1>3. ASSUME NEW j \in T PROVE i <= j
    <2>1. i \in Nat /\ j \in Nat OBVIOUS
    <2>2. j < i => <<j, i>> \in Less BY <2>1 DEF Less
    <2> QED BY <1>2, <2>1, <2>2
  <1> QED BY <1>3
-----------------------------------------------------------------------------
(* Operations, and what a step of one tool leaves to the others *)

\* The fields of an operation.
LEMMA OpFields ==
    ASSUME NEW o \in Ops
    PROVE  /\ o.do \in {"none", "mark", "clear", "getpid"}
           /\ o.do = "none" => o = NoOp
           /\ o.do # "none" => o.at \in At
           /\ o.do \in {"mark", "clear"} => o.pid \in Pids
           /\ o.do = "mark" => o.tag \in Pans \cup {"cmd", "panorphan"}
           /\ o.do = "getpid" => o.tag \in Pans
  BY DEF Ops, NoOp

\* An operation that goes on is the same operation.
LEMMA OpGoesOn ==
    ASSUME NEW o \in Ops, o.do # "none", NEW a \in At, NEW n, n = [o EXCEPT !.at = a]
    PROVE  /\ n \in Ops /\ n.at = a /\ n.do = o.do
           /\ o.do \in {"mark", "clear"} => n.pid = o.pid
           /\ o.do \in {"mark", "getpid"} => n.tag = o.tag
  <1>1. CASE o \in [do : {"mark"}, at : At, pid : Pids, tag : Pans \cup {"cmd", "panorphan"}]
    BY <1>1 DEF Ops
  <1>2. CASE o \in [do : {"clear"}, at : At, pid : Pids] BY <1>2 DEF Ops
  <1>3. CASE o \in [do : {"getpid"}, at : At, tag : Pans] BY <1>3 DEF Ops
  <1> QED BY <1>1, <1>2, <1>3 DEF Ops, NoOp

\* The state of x is not touched.
Keeps(x) == /\ op'[x] = op[x] /\ stage'[x] = stage[x] /\ pos'[x] = pos[x]
            /\ c'[x] = c[x] /\ cpid'[x] = cpid[x]
            /\ x \in Pans => orphans'[x] = orphans[x]

Types == ZooTypeOK /\ op \in [Tools -> Ops]

\* A step of one tool preserves the invariant if it keeps the types, the counts and
\* what is said of the tool itself, and touches the file only under the lock.
LEMMA StepKeeps ==
    ASSUME ZooInv, NEW t \in Tools, Types', \A x \in Tools \ {t} : Keeps(x),
           used \subseteq used', stage[t] = "dead" => stage'[t] = "dead",
           (lock' = lock /\ file' = file) \/ lock \in {t, Nobody},
           \A x \in Pans \ {t} : \/ listed'[x] = listed[x]
                                 \/ stage[x] = "dead" /\ listed'[x] \subseteq listed[x],
           Locked(t)', t \in Pans => PanKnows(t)', t \in Bumps => BumpKnows(t)',
           Registered', NoWaste'
    PROVE  ZooInv'
  <1>1. ASSUME NEW x \in Tools, x # t PROVE Locked(x)'
    <2>1. Keeps(x) /\ Locked(x) /\ x # Nobody BY <1>1, ZooConstants DEF ZooInv, Tools
    <2>2. CASE lock # x BY <2>1, <2>2 DEF Locked, Keeps
    <2>3. CASE lock = x
      <3>1. lock' = lock /\ file' = file BY <1>1, <2>1, <2>3
      <3> QED BY <2>1, <3>1 DEF Locked, Keeps
    <2> QED BY <2>2, <2>3
  <1>2. ASSUME NEW x \in Pans, x # t PROVE PanKnows(x)'
    <2>1. Keeps(x) /\ PanKnows(x) /\ orphans'[x] = orphans[x]
      BY <1>2, SMTT(20) DEF ZooInv, Tools, Keeps
    <2>2. CASE listed'[x] = listed[x]
      <3>1. Expected(x)' = Expected(x) BY <2>1, <2>2, SMTT(20) DEF Expected, Keeps
      <3> QED BY <2>1, <2>2, <3>1 DEF PanKnows, Keeps, Idle
    <2>3. CASE stage[x] = "dead" /\ listed'[x] \subseteq listed[x]
      <3>1. op'[x].do = "none" /\ stage'[x] = "dead" BY <2>1, <2>3 DEF PanKnows, Keeps, Idle
      <3>2. Expected(x)' = listed'[x] BY <3>1 DEF Expected
      <3> QED BY <2>1, <2>3, <3>1, <3>2, SMTT(20) DEF PanKnows, Idle
    <2> QED BY <1>2, <2>2, <2>3
  <1>3. ASSUME NEW x \in Bumps, x # t PROVE BumpKnows(x)'
    <2>1. Keeps(x) /\ BumpKnows(x) BY <1>3 DEF ZooInv, Tools
    <2>2. \A n \in Pans : stage[n] = "dead" => stage'[n] = "dead" BY DEF Keeps, Tools
    <2> QED BY <2>1, <2>2 DEF BumpKnows, Keeps
  <1> QED BY <1>1, <1>2, <1>3 DEF ZooInv, Types, Tools

\* The counts stand while the file and the entries stand.
LEMMA CountsStand ==
    ASSUME Registered, NoWaste, UNCHANGED <<file, listed, peak>>
    PROVE  Registered' /\ NoWaste'
  <1>1. \A p : LinesOf(p)' = LinesOf(p) BY DEF LinesOf, InUse
  <1> QED BY <1>1 DEF Registered, NoWaste
-----------------------------------------------------------------------------
(* zoolib.c *)

\* An operation goes on: nothing is known anew of its tool.
LEMMA Advances ==
    ASSUME ZooInv, NEW t \in Tools, NEW a \in At, op[t].do # "none",
           op' = [op EXCEPT ![t].at = a], UNCHANGED <<stage, mine, listed>>
    PROVE  /\ op' \in [Tools -> Ops] /\ \A x \in Tools \ {t} : op'[x] = op[x]
           /\ op'[t].at = a
           /\ \A line : Matches(op'[t], line) <=> Matches(op[t], line)
           /\ t \in Pans => PanKnows(t)'
           /\ t \in Bumps => BumpKnows(t)'
  <1>1. op \in [Tools -> Ops] /\ op[t] \in Ops BY DEF ZooInv
  <1>2. op' = [op EXCEPT ![t] = [op[t] EXCEPT !.at = a]] OBVIOUS
  <1>3. op'[t] = [op[t] EXCEPT !.at = a] BY <1>1, <1>2
  <1>4. /\ op'[t] \in Ops /\ op'[t].at = a /\ op'[t].do = op[t].do
        /\ op[t].do \in {"mark", "clear"} => op'[t].pid = op[t].pid
        /\ op[t].do \in {"mark", "getpid"} => op'[t].tag = op[t].tag
    BY <1>1, <1>3, OpGoesOn
  <1>5. op' \in [Tools -> Ops] /\ \A x \in Tools \ {t} : op'[x] = op[x]
    BY <1>1, <1>2, <1>3, <1>4
  <1>6. op[t].do \in {"mark", "clear", "getpid"} BY <1>1, OpFields
  <1>7. \A line : Matches(op'[t], line) <=> Matches(op[t], line)
    BY <1>4, <1>6 DEF Matches
  <1>8. ASSUME t \in Pans PROVE PanKnows(t)'
    <2>1. Expected(t)' = Expected(t) BY <1>4 DEF Expected
    <2>2. PanKnows(t) BY <1>8 DEF ZooInv
    <2> QED BY <1>4, <2>1, <2>2 DEF PanKnows, Idle, mine
  <1>9. ASSUME t \in Bumps PROVE BumpKnows(t)'
    <2>1. BumpKnows(t) BY <1>9 DEF ZooInv
    <2> QED BY <1>4, <2>1 DEF BumpKnows
  <1> QED BY <1>4, <1>5, <1>7, <1>8, <1>9

\* zoo_lock()
LEMMA ZooLockKeeps == ASSUME ZooInv, NEW t \in Tools, ZooLock(t) PROVE ZooInv'
  <1>1. /\ op[t].do # "none" /\ lock = Nobody /\ lock' = t /\ op' = [op EXCEPT ![t].at = "scan"]
        /\ UNCHANGED <<file, pos, stage, mine, listed, peak>>
    BY DEF ZooLock
  <1>2. "scan" \in At BY DEF At
  <1>3. /\ op' \in [Tools -> Ops] /\ \A x \in Tools \ {t} : op'[x] = op[x]
        /\ op'[t].at = "scan"
        /\ t \in Pans => PanKnows(t)'
        /\ t \in Bumps => BumpKnows(t)'
    BY <1>1, <1>2, Advances, ZenonT(30)
  <1>4. Types'
    <2>1. ZooTypeOK BY DEF ZooInv
    <2>2. \A x \in Tools : op'[x].do \in {"none", "mark", "clear", "getpid"} BY <1>3, OpFields
    <2> QED BY <1>1, <1>3, <2>1, <2>2 DEF Types, ZooTypeOK, mine
  <1>5. Locked(t)' BY <1>1, <1>3 DEF Locked
  <1>6. \A x \in Tools \ {t} : Keeps(x) BY <1>1, <1>3 DEF Keeps, mine
  <1>7. Registered' /\ NoWaste' BY <1>1, CountsStand DEF ZooInv
  <1> QED BY <1>1, <1>3, <1>4, <1>5, <1>6, <1>7, StepKeeps, SMTT(20) DEF mine

\* The loop over fgets().
LEMMA ScanKeeps == ASSUME ZooInv, NEW t \in Tools, Scan(t) PROVE ZooInv'
  <1> DEFINE found == {i \in DOMAIN file : Matches(op[t], file[i])}
             i0 == IF found = {} THEN 0 ELSE CHOOSE i \in found : \A j \in found : i <= j
  <1>1. /\ op[t].do # "none" /\ op[t].at = "scan" /\ op' = [op EXCEPT ![t].at = "write"]
        /\ pos' = [pos EXCEPT ![t] = i0]
        /\ UNCHANGED <<file, lock, stage, mine, listed, peak>>
    BY DEF Scan
  <1>2. "write" \in At BY DEF At
  <1>3. /\ op' \in [Tools -> Ops] /\ \A x \in Tools \ {t} : op'[x] = op[x]
        /\ op'[t].at = "write"
        /\ \A line : Matches(op'[t], line) <=> Matches(op[t], line)
        /\ t \in Pans => PanKnows(t)'
        /\ t \in Bumps => BumpKnows(t)'
    BY <1>1, <1>2, Advances, ZenonT(30)
  <1>4. Types /\ Locked(t) BY DEF ZooInv, Types
  <1>5. Len(file) \in Nat /\ DOMAIN file = 1 .. Len(file)
    BY <1>4, LenProperties DEF Types, ZooTypeOK
  <1>6. found # {} => i0 \in found
    <2>1. found \in SUBSET Nat BY <1>5
    <2>2. found # {} => \E i \in found : \A j \in found : i <= j
      <3> HIDE DEF found
      <3> QED BY <2>1, FirstOf
    <2> HIDE DEF found
    <2> QED BY <2>2
  <1>7. i0 \in 0 .. Len(file) BY <1>5, <1>6
  <1>8. pos'[t] = i0 /\ \A x \in Tools \ {t} : pos'[x] = pos[x]
    <2> HIDE DEF i0
    <2> QED BY <1>1, <1>4 DEF Types, ZooTypeOK
  <1>9. Types'
    <2> HIDE DEF i0
    <2>2. \A x \in Tools : op'[x].do \in {"none", "mark", "clear", "getpid"} BY <1>3, OpFields
    <2>3. pos' \in [Tools -> 0 .. Len(file)] BY <1>1, <1>4, <1>7 DEF Types, ZooTypeOK
    <2> QED BY <1>1, <1>3, <1>4, <2>2, <2>3 DEF Types, ZooTypeOK, mine
  <1>10. Locked(t)'
    <2>1. lock' = t BY <1>1, <1>4 DEF Locked
    <2>2. CASE found = {}
      <3>1. pos'[t] = 0 /\ \A i \in DOMAIN file : ~Matches(op'[t], file[i]) BY <1>3, <1>8, <2>2
      <3> QED BY <1>1, <2>1, <3>1 DEF Locked
    <2>3. CASE found # {}
      <3>0. pos'[t] \in found BY <1>6, <1>8, <2>3
      <3>1. pos'[t] \in DOMAIN file /\ Matches(op'[t], file[pos'[t]]) /\ pos'[t] # 0
        BY <1>3, <1>5, <3>0
      <3> QED BY <1>1, <2>1, <3>1 DEF Locked
    <2> QED BY <2>2, <2>3
  <1> HIDE DEF found, i0
  <1>11. \A x \in Tools \ {t} : Keeps(x) BY <1>1, <1>3, <1>8 DEF Keeps, mine
  <1>12. Registered' /\ NoWaste' BY <1>1, CountsStand DEF ZooInv
  <1> QED BY <1>1, <1>3, <1>9, <1>10, <1>11, <1>12, StepKeeps DEF mine

\* zoo_unlock(): the tool is between two operations again.
LEMMA Unlocked ==
    ASSUME ZooInv, NEW t \in Tools, ZooUnlock(t)
    PROVE  /\ op' \in [Tools -> Ops] /\ op'[t] = NoOp /\ op'[t].do = "none"
           /\ \A x \in Tools \ {t} : op'[x] = op[x] /\ pos'[x] = pos[x]
           /\ pos' \in [Tools -> 0 .. Len(file)]
           /\ \A x \in Tools : op'[x].do \in {"none", "mark", "clear", "getpid"}
           /\ Locked(t)' /\ BumpKnows(t)'
  <1>1. /\ op \in [Tools -> Ops] /\ pos \in [Tools -> 0 .. Len(file)] /\ Len(file) \in Nat
    BY LenProperties DEF ZooInv, ZooTypeOK
  <1>2. NoOp \in Ops /\ NoOp.do = "none" BY DEF Ops, NoOp
  <1>3. op' \in [Tools -> Ops] /\ op'[t] = NoOp /\ \A x \in Tools \ {t} : op'[x] = op[x]
    BY <1>1, <1>2 DEF ZooUnlock
  <1>4. pos' \in [Tools -> 0 .. Len(file)] /\ \A x \in Tools \ {t} : pos'[x] = pos[x]
    BY <1>1 DEF ZooUnlock
  <1>5. Locked(t)' /\ BumpKnows(t)' BY <1>2, <1>3 DEF Locked, BumpKnows
  <1> QED BY <1>2, <1>3, <1>4, <1>5, OpFields, SMTT(20)

\* What the ltp-pan wanted to be listed is listed.
LEMMA PanReturns ==
    ASSUME NEW t \in Pans, PanKnows(t), op'[t].do = "none", listed'[t] = Expected(t),
           UNCHANGED <<stage, mine>>
    PROVE  PanKnows(t)'
  <1>1. Expected(t)' = Expected(t) BY DEF Expected
  <1> QED BY <1>1 DEF PanKnows, Idle, mine

\* zoo_mark() has found a free line, or appends one.
LEMMA MarkWrites ==
    ASSUME ZooInv, NEW t \in Tools, WriteMark(t)
    PROVE  \E k : \E line \in Marked :
             /\ line.pid = op[t].pid /\ k \notin InUse /\ Rewrites(k, line)
             /\ file' \in Seq(Lines) /\ Len(file') >= Len(file) /\ Len(file) \in Nat
             /\ \/ k \in DOMAIN file /\ Len(file') = Len(file)
                \/ InUse = DOMAIN file /\ Len(file') = Len(file) + 1
  <1> DEFINE line == [pid |-> op[t].pid, tag |-> op[t].tag]
  <1>1. /\ op[t].do = "mark" /\ op[t].at = "write"
        /\ file' = IF pos[t] = 0 THEN Append(file, line) ELSE [file EXCEPT ![pos[t]] = line]
    BY DEF WriteMark
  <1>2. /\ file \in Seq(Lines) /\ op[t] \in Ops /\ Len(file) \in Nat /\ DOMAIN file = 1 .. Len(file)
    BY LenProperties DEF ZooInv, ZooTypeOK
  <1>3. line \in Marked /\ line \in Lines /\ line.pid = op[t].pid
    BY <1>1, <1>2, OpFields DEF Marked, Lines
  <1>4. IF pos[t] = 0 THEN \A i \in DOMAIN file : file[i] # Free
                      ELSE pos[t] \in DOMAIN file /\ file[pos[t]] = Free
    BY <1>1, ZenonT(30) DEF ZooInv, Locked, Matches
  <1> HIDE DEF line
  <1>5. CASE pos[t] = 0
    <2> DEFINE k == Len(file) + 1
    <2>1. file' = Append(file, line) BY <1>1, <1>5
    <2>2. /\ file' \in Seq(Lines) /\ Len(file') = Len(file) + 1 /\ file'[k] = line
          /\ \A i \in 1 .. Len(file) : file'[i] = file[i]
      BY <1>2, <1>3, <2>1, AppendProperties
    <2>3. DOMAIN file' = 1 .. Len(file) + 1 BY <2>2, LenProperties
    <2>4. Rewrites(k, line) BY <1>2, <2>2, <2>3 DEF Rewrites
    <2>5. InUse = DOMAIN file /\ k \notin InUse BY <1>2, <1>4, <1>5 DEF InUse
    <2> QED BY <1>2, <1>3, <2>2, <2>4, <2>5
  <1>6. CASE pos[t] # 0
    <2>1. file' = [file EXCEPT ![pos[t]] = line] /\ pos[t] \in 1 .. Len(file)
      BY <1>1, <1>2, <1>4, <1>6
    <2>2. /\ file' \in Seq(Lines) /\ Len(file') = Len(file)
          /\ \A j \in 1 .. Len(file) : file'[j] = IF j = pos[t] THEN line ELSE file[j]
      BY <1>2, <1>3, <2>1, ExceptSeq
    <2>3. DOMAIN file' = 1 .. Len(file) BY <2>2, LenProperties
    <2>4. Rewrites(pos[t], line) BY <1>2, <2>1, <2>2, <2>3 DEF Rewrites
    <2>5. pos[t] \notin InUse BY <1>4, <1>6 DEF InUse
    <2>6. Len(file') >= Len(file) /\ pos[t] \in DOMAIN file BY <1>2, <2>1, <2>2
    <2> QED BY <1>2, <1>3, <2>2, <2>4, <2>5, <2>6, Zenon
  <1> QED BY <1>5, <1>6

\* One line more is one entry more.
LEMMA WriteMarkKeeps == ASSUME ZooInv, NEW t \in Tools, WriteMark(t) PROVE ZooInv'
  <1>1. /\ op[t].do = "mark" /\ op[t].at = "write" /\ ZooUnlock(t)
        /\ listed' = [listed EXCEPT ![t] = listed[t] \cup {op[t].pid}]
        /\ peak' = IF Cardinality(InUse') > peak THEN Cardinality(InUse') ELSE peak
        /\ UNCHANGED <<stage, mine>>
    BY DEF WriteMark
  <1>2. /\ op[t] \in Ops /\ ZooTypeOK /\ Registered /\ NoWaste /\ Locked(t)
        /\ file \in Seq(Lines) /\ listed \in [Pans -> SUBSET Pids] /\ peak \in Nat
    BY ZenonT(30) DEF ZooInv, ZooTypeOK
  <1>3. t \in Pans /\ PanKnows(t) /\ op[t].pid \notin listed[t] /\ op[t].pid \in Pids /\ lock = t
    <2>1. t \in Pans BY <1>1 DEF ZooInv, BumpKnows, Tools
    <2>2. PanKnows(t) BY <2>1 DEF ZooInv
    <2> QED BY <1>1, <1>2, <2>1, <2>2, OpFields, ZenonT(30) DEF PanKnows, Locked
  <1>4. PICK k : \E line \in Marked :
             /\ line.pid = op[t].pid /\ k \notin InUse /\ Rewrites(k, line)
             /\ file' \in Seq(Lines) /\ Len(file') >= Len(file) /\ Len(file) \in Nat
             /\ \/ k \in DOMAIN file /\ Len(file') = Len(file)
                \/ InUse = DOMAIN file /\ Len(file') = Len(file) + 1
    BY MarkWrites
  <1>5. PICK line \in Marked :
             /\ line.pid = op[t].pid /\ k \notin InUse /\ Rewrites(k, line)
             /\ file' \in Seq(Lines) /\ Len(file') >= Len(file) /\ Len(file) \in Nat
             /\ \/ k \in DOMAIN file /\ Len(file') = Len(file)
                \/ InUse = DOMAIN file /\ Len(file') = Len(file) + 1
    BY <1>4
  <1>6. /\ InUse' = InUse \cup {k} /\ Cardinality(InUse') = Cardinality(InUse) + 1
        /\ \A p : LinesOf(p)' = IF p = op[t].pid THEN LinesOf(p) + 1 ELSE LinesOf(p)
    BY <1>2, <1>5, MarkCounts, SMTT(20)
  <1>7. /\ listed' \in [Pans -> SUBSET Pids] /\ listed'[t] = listed[t] \cup {op[t].pid}
        /\ \A x \in Pans \ {t} : listed'[x] = listed[x]
    BY <1>1, <1>2, <1>3, SMTT(20)
  <1>8. Registered'
    <2> SUFFICES ASSUME NEW p \in Pids PROVE LinesOf(p)' = Cardinality(Listers(p)')
      BY DEF Registered, Listers
    <2>1. LinesOf(p) = Cardinality(Listers(p)) BY <1>2 DEF Registered, Listers
    <2>2. Listers(p)' = IF p = op[t].pid THEN Listers(p) \cup {t} ELSE Listers(p)
      BY <1>3, <1>7 DEF Listers
    <2>3. t \notin Listers(op[t].pid) BY <1>3 DEF Listers
    <2>4. IsFiniteSet(Listers(p)) BY ListersFinite
    <2>5. p = op[t].pid => Cardinality(Listers(p) \cup {t}) = Cardinality(Listers(p)) + 1
      BY <2>3, <2>4, FS_AddElement, Zenon
    <2> QED BY <1>6, <2>1, <2>2, <2>5, SMTT(20)
  <1>9. NoWaste' /\ peak' \in Nat
    <2>1. /\ Cardinality(InUse) \in Nat /\ Cardinality(InUse) <= Len(file)
          /\ Cardinality(InUse) = Len(file) <=> InUse = DOMAIN file
      BY <1>2, LinesFinite
    <2>2. Len(file) = peak BY <1>2 DEF NoWaste
    <2>3. CASE InUse = DOMAIN file /\ Len(file') = Len(file) + 1
      BY <1>1, <1>2, <1>6, <2>1, <2>2, <2>3 DEF NoWaste
    <2>4. CASE k \in DOMAIN file /\ Len(file') = Len(file)
      <3>1. InUse # DOMAIN file BY <1>5, <2>4, ZenonT(30)
      <3> QED BY <1>1, <1>2, <1>6, <2>1, <2>2, <2>4, <3>1 DEF NoWaste
    <2> QED BY <1>5, <2>3, <2>4
  <1>10. PanKnows(t)'
    <2>1. Expected(t) = listed[t] \cup {op[t].pid} BY <1>1 DEF Expected
    <2>2. op'[t].do = "none" BY <1>1, Unlocked
    <2> QED BY <1>1, <1>3, <1>7, <2>1, <2>2, PanReturns
  <1>11. /\ op' \in [Tools -> Ops] /\ Locked(t)' /\ BumpKnows(t)'
         /\ \A x \in Tools \ {t} : op'[x] = op[x] /\ pos'[x] = pos[x]
         /\ pos' \in [Tools -> 0 .. Len(file)]
         /\ \A x \in Tools : op'[x].do \in {"none", "mark", "clear", "getpid"}
    BY <1>1, Unlocked, ZenonT(30)
  <1>12. Types'
    <2>1. pos' \in [Tools -> 0 .. Len(file')]
      <3>1. Len(file') \in Nat BY <1>5, LenProperties
      <3>2. 0 .. Len(file) \subseteq 0 .. Len(file') BY <1>5, <3>1
      <3> QED BY <1>11, <3>2
    <2>2. lock' \in Tools \cup {Nobody} BY <1>1 DEF ZooUnlock
    <2> QED BY <1>1, <1>2, <1>5, <1>7, <1>9, <1>11, <2>1, <2>2, ZenonT(30)
        DEF Types, ZooTypeOK, mine
  <1>13. \A x \in Tools \ {t} : Keeps(x) BY <1>1, <1>11 DEF Keeps, mine
  <1>14. used \subseteq used' /\ stage' = stage BY <1>1 DEF mine
  <1> QED BY <1>3, <1>7, <1>8, <1>9, <1>10, <1>11, <1>12, <1>13, <1>14, StepKeeps, ZenonT(30)

\* zoo_clear() has found a line: it is in use and holds the pid.
LEMMA ClearWrites ==
    ASSUME ZooInv, NEW t \in Tools, WriteClear(t)
    PROVE  /\ pos[t] \in InUse /\ file[pos[t]].pid = op[t].pid /\ Rewrites(pos[t], Free)
           /\ file' \in Seq(Lines) /\ Len(file') = Len(file)
  <1>1. /\ op[t].do = "clear" /\ op[t].at = "write" /\ pos[t] # 0
        /\ file' = [file EXCEPT ![pos[t]] = Free]
    BY DEF WriteClear
  <1>2. /\ file \in Seq(Lines) /\ Len(file) \in Nat /\ DOMAIN file = 1 .. Len(file)
    BY LenProperties DEF ZooInv, ZooTypeOK
  <1>3. pos[t] \in DOMAIN file /\ file[pos[t]] # Free /\ file[pos[t]].pid = op[t].pid
    BY <1>1, ZenonT(30) DEF ZooInv, Locked, Matches
  <1>4. Free \in Lines BY DEF Lines
  <1>5. /\ file' \in Seq(Lines) /\ Len(file') = Len(file)
        /\ \A j \in 1 .. Len(file) : file'[j] = IF j = pos[t] THEN Free ELSE file[j]
    BY <1>1, <1>2, <1>3, <1>4, ExceptSeq
  <1>6. DOMAIN file' = 1 .. Len(file) BY <1>5, LenProperties
  <1>7. Rewrites(pos[t], Free) BY <1>2, <1>3, <1>5, <1>6 DEF Rewrites
  <1> QED BY <1>3, <1>5, <1>7 DEF InUse

\* The entry that a clear takes away is there: an ltp-pan clears what it has listed,
\* and only a dead ltp-pan can have listed its own pid.
LEMMA ClearOwned ==
    ASSUME ZooInv, NEW t \in Tools, op[t].do = "clear", LinesOf(op[t].pid) > 0
    PROVE  /\ Owner(t) \in Pans /\ op[t].pid \in listed[Owner(t)] /\ op[t].pid \in Pids
           /\ t \in Bumps => stage[Owner(t)] = "dead" /\ Owner(t) # t
  <1>1. op[t].pid \in Pids BY OpFields DEF ZooInv
  <1>2. CASE t \in Pans
    <2>1. op[t].pid \in listed[t] BY <1>2 DEF ZooInv, PanKnows
    <2> QED BY <1>1, <1>2, <2>1, ZooConstants, ZenonT(30) DEF Owner
  <1>3. CASE t \in Bumps
    <2>1. op[t].pid \in Pans /\ stage[op[t].pid] = "dead" BY <1>3 DEF ZooInv, BumpKnows
    <2>2. Owner(t) = op[t].pid BY <1>3, ZooConstants DEF Owner
    <2>3. Listers(op[t].pid) # {}
      <3>1. LinesOf(op[t].pid) = Cardinality(Listers(op[t].pid))
        BY <1>1 DEF ZooInv, Registered, Listers
      <3> QED BY <3>1, FS_EmptySet
    <2>4. PICK x \in Pans : op[t].pid \in listed[x] BY <2>3, ZenonT(30) DEF Listers
    <2>5. x = op[t].pid BY <2>1, <2>4, ZenonT(30) DEF ZooInv, PanKnows
    <2> QED BY <1>1, <1>3, <2>1, <2>2, <2>4, <2>5, ZooConstants, ZenonT(30)
  <1> QED BY <1>2, <1>3 DEF Tools

\* One line less is one entry less.
LEMMA WriteClearKeeps == ASSUME ZooInv, NEW t \in Tools, WriteClear(t) PROVE ZooInv'
  <1> DEFINE own == Owner(t)  q == op[t].pid
  <1>1. /\ op[t].do = "clear" /\ op[t].at = "write" /\ ZooUnlock(t)
        /\ listed' = [listed EXCEPT ![own] = listed[own] \ {q}]
        /\ UNCHANGED <<stage, mine, peak>>
    BY DEF WriteClear
  <1>2. /\ ZooTypeOK /\ Registered /\ NoWaste /\ Locked(t)
        /\ file \in Seq(Lines) /\ listed \in [Pans -> SUBSET Pids]
    BY DEF ZooInv, ZooTypeOK
  <1>3. /\ pos[t] \in InUse /\ file[pos[t]].pid = q /\ Rewrites(pos[t], Free)
        /\ file' \in Seq(Lines) /\ Len(file') = Len(file)
    BY ClearWrites, ZenonT(30)
  <1>4. /\ LinesOf(q) > 0
        /\ \A p : LinesOf(p)' = IF p = q THEN LinesOf(p) - 1 ELSE LinesOf(p)
    BY <1>2, <1>3, ClearCounts, ZenonT(30)
  <1>5. /\ own \in Pans /\ q \in listed[own] /\ q \in Pids
        /\ t \in Bumps => stage[own] = "dead" /\ own # t
        /\ t \in Pans => own = t
    BY <1>1, <1>4, ClearOwned, SMTT(20) DEF Owner
  <1>6. lock = t BY <1>1, <1>2 DEF Locked
  <1> HIDE DEF own, q
  <1>7. /\ listed' \in [Pans -> SUBSET Pids] /\ listed'[own] = listed[own] \ {q}
        /\ \A x \in Pans \ {own} : listed'[x] = listed[x]
    BY <1>1, <1>2, <1>5
  <1>8. Registered'
    <2> SUFFICES ASSUME NEW p \in Pids PROVE LinesOf(p)' = Cardinality(Listers(p)')
      BY DEF Registered, Listers
    <2>1. LinesOf(p) = Cardinality(Listers(p)) BY <1>2 DEF Registered, Listers
    <2>2. Listers(p)' = IF p = q THEN Listers(p) \ {own} ELSE Listers(p)
      BY <1>5, <1>7 DEF Listers
    <2>3. own \in Listers(q) BY <1>5 DEF Listers
    <2>4. IsFiniteSet(Listers(p)) BY ListersFinite
    <2>5. p = q => Cardinality(Listers(p) \ {own}) = Cardinality(Listers(p)) - 1
      BY <2>3, <2>4, FS_RemoveElement, Zenon
    <2> QED BY <1>4, <2>1, <2>2, <2>5
  <1>9. NoWaste' BY <1>1, <1>2, <1>3, ZenonT(30) DEF NoWaste
  <1>11. /\ op' \in [Tools -> Ops] /\ Locked(t)' /\ BumpKnows(t)' /\ op'[t].do = "none"
         /\ \A x \in Tools \ {t} : op'[x] = op[x] /\ pos'[x] = pos[x]
         /\ pos' \in [Tools -> 0 .. Len(file)]
         /\ \A x \in Tools : op'[x].do \in {"none", "mark", "clear", "getpid"}
    BY <1>1, Unlocked, ZenonT(30)
  <1>10. ASSUME t \in Pans PROVE PanKnows(t)'
    <2>1. Expected(t) = listed[t] \ {q} BY <1>1 DEF Expected, q
    <2>2. PanKnows(t) BY <1>10, ZenonT(30) DEF ZooInv
    <2> QED BY <1>1, <1>5, <1>7, <1>10, <1>11, <2>1, <2>2, PanReturns, ZenonT(30)
  <1>12. Types'
    <2>1. pos' \in [Tools -> 0 .. Len(file')] BY <1>3, <1>11
    <2>2. lock' \in Tools \cup {Nobody} BY <1>1, ZenonT(30) DEF ZooUnlock
    <2> QED BY <1>1, <1>2, <1>3, <1>7, <1>11, <2>1, <2>2, ZenonT(30) DEF Types, ZooTypeOK, mine
  <1>13. \A x \in Tools \ {t} : Keeps(x) BY <1>1, <1>11, ZenonT(30) DEF Keeps, mine
  <1>14. used \subseteq used' /\ stage' = stage BY <1>1 DEF mine
  <1>15. \A x \in Pans \ {t} : \/ listed'[x] = listed[x]
                               \/ stage[x] = "dead" /\ listed'[x] \subseteq listed[x]
    BY <1>5, <1>7, SMTT(20) DEF Tools
  <1> QED BY <1>6, <1>8, <1>9, <1>10, <1>11, <1>12, <1>13, <1>14, <1>15, StepKeeps, ZenonT(30)

\* Only an ltp-bump can find that the line is gone.
LEMMA NotFoundKeeps == ASSUME ZooInv, NEW t \in Tools, NotFound(t) PROVE ZooInv'
  <1>1. /\ op[t].do = "clear" /\ op[t].at = "write" /\ pos[t] = 0 /\ ZooUnlock(t)
        /\ UNCHANGED <<file, mine, listed, peak>>
        /\ stage' \in {stage, [stage EXCEPT ![t] = "dead"]}
    BY DEF NotFound
  <1>2. /\ ZooTypeOK /\ Registered /\ NoWaste /\ Locked(t) /\ op[t] \in Ops
        /\ file \in Seq(Lines)
    BY DEF ZooInv, ZooTypeOK
  <1>3. t \notin Pans
    <2> SUFFICES ASSUME t \in Pans PROVE FALSE OBVIOUS
    <2>1. op[t].pid \in listed[t] /\ op[t].pid \in Pids
      BY <1>1, <1>2, OpFields, ZenonT(30) DEF ZooInv, PanKnows
    <2>2. t \in Listers(op[t].pid) BY <2>1 DEF Listers
    <2>3. Cardinality(Listers(op[t].pid)) # 0 BY <2>2, ListersFinite, FS_EmptySet, SMTT(20)
    <2>4. LinesOf(op[t].pid) # 0 BY <1>2, <2>1, <2>3 DEF Registered, Listers
    <2>5. \A i \in DOMAIN file : ~(file[i] # Free /\ file[i].pid = op[t].pid)
      BY <1>1, <1>2 DEF Locked, Matches
    <2>6. LinesAt(op[t].pid) = {} BY <2>5, ZenonT(30) DEF LinesAt, InUse
    <2> QED BY <1>2, <2>4, <2>6, LinesFinite, FS_EmptySet
  <1>4. /\ op' \in [Tools -> Ops] /\ Locked(t)' /\ BumpKnows(t)' /\ op'[t].do = "none"
        /\ \A x \in Tools \ {t} : op'[x] = op[x] /\ pos'[x] = pos[x]
        /\ pos' \in [Tools -> 0 .. Len(file)]
        /\ \A x \in Tools : op'[x].do \in {"none", "mark", "clear", "getpid"}
    BY <1>1, Unlocked, ZenonT(30)
  <1>5. Types'
    <2>1. lock' \in Tools \cup {Nobody} BY <1>1, SMTT(20) DEF ZooUnlock
    <2> QED BY <1>1, <1>2, <1>4, <2>1, ZenonT(30) DEF Types, ZooTypeOK, mine
  <1>6. \A x \in Tools \ {t} : Keeps(x) BY <1>1, <1>2, <1>4, ZenonT(30) DEF Keeps, mine, ZooTypeOK
  <1>7. Registered' /\ NoWaste' BY <1>1, <1>2, CountsStand, ZenonT(30)
  <1>8. stage[t] = "dead" => stage'[t] = "dead" BY <1>1, <1>2, ZenonT(30) DEF ZooTypeOK
  <1>9. lock = t /\ used \subseteq used' BY <1>1, <1>2, ZenonT(30) DEF Locked, mine
  <1> QED BY <1>1, <1>3, <1>4, <1>5, <1>6, <1>7, <1>8, <1>9, StepKeeps, ZenonT(30)

\* zoo_getpid()
LEMMA GetPidKeeps == ASSUME ZooInv, NEW t \in Tools, GetPid(t) PROVE ZooInv'
  <1>1. /\ op[t].do = "getpid" /\ op[t].at = "write" /\ ZooUnlock(t)
        /\ cpid' = [cpid EXCEPT ![t] = IF pos[t] = 0 THEN Nobody ELSE file[pos[t]].pid]
        /\ UNCHANGED <<file, stage, c, orphans, used, listed, peak>>
    BY DEF GetPid
  <1>2. ZooTypeOK /\ Registered /\ NoWaste /\ Locked(t) /\ file \in Seq(Lines)
    BY ZenonT(30) DEF ZooInv, ZooTypeOK
  <1>3. t \notin Pans BY <1>1, ZenonT(30) DEF ZooInv, PanKnows
  <1>4. /\ op' \in [Tools -> Ops] /\ Locked(t)' /\ BumpKnows(t)' /\ op'[t].do = "none"
        /\ \A x \in Tools \ {t} : op'[x] = op[x] /\ pos'[x] = pos[x]
        /\ pos' \in [Tools -> 0 .. Len(file)]
        /\ \A x \in Tools : op'[x].do \in {"none", "mark", "clear", "getpid"}
    BY <1>1, Unlocked, ZenonT(30)
  <1>5. cpid' \in [Tools -> Pids \cup {Nobody}] /\ \A x \in Tools \ {t} : cpid'[x] = cpid[x]
    <2>1. pos[t] # 0 => pos[t] \in DOMAIN file /\ file[pos[t]] # Free
      BY <1>1, <1>2 DEF Locked, Matches
    <2>2. pos[t] # 0 => file[pos[t]] \in Marked
      BY <1>2, <2>1, LenProperties DEF Lines
    <2>3. pos[t] # 0 => file[pos[t]].pid \in Pids BY <2>2, ZenonT(30) DEF Marked
    <2> QED BY <1>1, <1>2, <2>3 DEF ZooTypeOK
  <1>6. Types'
    <2>1. lock' \in Tools \cup {Nobody} BY <1>1, ZenonT(30) DEF ZooUnlock
    <2> QED BY <1>1, <1>2, <1>4, <1>5, <2>1, ZenonT(30) DEF Types, ZooTypeOK
  <1>7. \A x \in Tools \ {t} : Keeps(x) BY <1>1, <1>4, <1>5, ZenonT(30) DEF Keeps
  <1>8. Registered' /\ NoWaste' BY <1>1, <1>2, CountsStand, ZenonT(30)
  <1>9. lock = t BY <1>1, <1>2 DEF Locked
  <1> QED BY <1>1, <1>3, <1>4, <1>6, <1>7, <1>8, <1>9, StepKeeps, ZenonT(30)
=============================================================================
