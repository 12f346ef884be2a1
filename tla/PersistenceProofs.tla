-------------------------- MODULE PersistenceProofs --------------------------
(***************************************************************************)
(* What is on disk is what was secured: theorems about Persistence, for    *)
(* boards and records of any size, any number of handlers, any buffer and   *)
(* any length of time.                                                     *)
(***************************************************************************)
EXTENDS Persistence, OthelloLemmas, SequenceTheorems

Boards == [Coord -> Cell]

-----------------------------------------------------------------------------
(* Folds.  FoldLeft is a recursive function on sets of indices; that there  *)
(* is one is a fact of its own, here for a step that is a function F.       *)

(* The greatest of some of the indices up to n.                             *)
LEMMA MaxIndex ==
  ASSUME NEW n \in Nat, NEW S \in SUBSET (1 .. n), S # {}
  PROVE  Max(S) \in S /\ \A x \in S : x <= Max(S)
<1> DEFINE T == {n - x : x \in S}
<1>1. T \subseteq Nat /\ T # {}
  <2>1. \A x \in S : x \in 1 .. n /\ n - x \in Nat
    OBVIOUS
  <2> QED BY <2>1
<1>2. PICK least \in T : \A y \in T : least <= y
  <2> HIDE DEF T
  <2> QED BY <1>1, LeastNatural
<1>3. PICK x \in S : least = n - x
  BY <1>2
<1>4. \A y \in S : n - x <= n - y
  BY <1>2, <1>3
<1>5. \A y \in S : x >= y
  BY <1>4
<1> QED BY <1>5 DEF Max

(* The greatest index up to n is n.                                         *)
LEMMA MaxInterval ==
  ASSUME NEW n \in Nat \ {0}
  PROVE  Max(1 .. n) = n /\ (1 .. n) \ {Max(1 .. n)} = 1 .. n - 1
<1>1. Max(1 .. n) \in 1 .. n /\ \A x \in 1 .. n : x <= Max(1 .. n)
  <2>1. PICK S : S = 1 .. n
    OBVIOUS
  <2>2. S \in SUBSET (1 .. n) /\ n \in S
    BY <2>1
  <2>3. Max(S) \in S /\ \A x \in S : x <= Max(S)
    <3> HIDE DEF Max
    <3> QED BY <2>2, MaxIndex
  <2> QED BY <2>1, <2>3
<1> HIDE DEF Max
<1>2. Max(1 .. n) = n
  BY <1>1
<1> QED BY <1>2

(* What holds at 0 and is passed on holds everywhere up to n: the set of    *)
(* the numbers where it fails has no least element.                         *)
LEMMA PassedOn ==
  ASSUME NEW n \in Nat, NEW S, 0 \in S, \A k \in 1 .. n : k - 1 \in S => k \in S
  PROVE  \A k \in 0 .. n : k \in S
<1> SUFFICES ASSUME {k \in 0 .. n : k \notin S} # {} PROVE FALSE
  OBVIOUS
<1>1. {k \in 0 .. n : k \notin S} \in SUBSET Nat
  OBVIOUS
<1>2. PICK k \in {i \in 0 .. n : i \notin S} : \A y \in {i \in 0 .. n : i \notin S} : k <= y
  BY <1>1, LeastNatural
<1>3. k \in 1 .. n
  BY <1>2
<1>4. k - 1 \in S
  BY <1>2, <1>3
<1> QED BY <1>2, <1>3, <1>4

(* The fold of a step F over sets of indices up to n, the greatest last.    *)
IsFold(g, n, base, F) ==
  \A s \in SUBSET (1 .. n) : g[s] = IF s = {} THEN base ELSE F[g[s \ {Max(s)}]][Max(s)]

(* It exists.                                                               *)
LEMMA FoldExists ==
  ASSUME NEW n \in Nat, NEW V, NEW base \in V, NEW F \in [V -> [1 .. n -> V]]
  PROVE  \E g \in [SUBSET (1 .. n) -> V] : IsFold(g, n, base, F)
<1> DEFINE Right(g, s) == g[s] = IF s = {} THEN base ELSE F[g[s \ {Max(s)}]][Max(s)]
           Good == {k \in 0 .. n : \E g \in [SUBSET (1 .. n) -> V] :
                                     \A s \in SUBSET (1 .. k) : Right(g, s)}
<1>1. 0 \in Good
  <2>1. PICK g : g = [s \in SUBSET (1 .. n) |-> base]
    OBVIOUS
  <2>2. g \in [SUBSET (1 .. n) -> V] /\ g[{}] = base
    BY <2>1
  <2>3. \A s \in SUBSET (1 .. 0) : s = {}
    OBVIOUS
  <2>4. \A s \in SUBSET (1 .. 0) : Right(g, s)
    BY <2>2, <2>3
  <2>5. \E f \in [SUBSET (1 .. n) -> V] : \A s \in SUBSET (1 .. 0) : Right(f, s)
    BY <2>2, <2>4
  <2>6. 0 \in 0 .. n
    OBVIOUS
  <2> QED BY <2>5, <2>6
<1>2. ASSUME NEW k \in 1 .. n, k - 1 \in Good
      PROVE  k \in Good
  <2>1. PICK g \in [SUBSET (1 .. n) -> V] : \A s \in SUBSET (1 .. k - 1) : Right(g, s)
    BY <1>2
  <2>2. PICK h : h = [s \in SUBSET (1 .. n) |->
                        IF s = {} THEN base ELSE F[g[s \ {Max(s)}]][Max(s)]]
    OBVIOUS
  <2>3. \A s \in SUBSET (1 .. n) : s # {} => Max(s) \in s /\ \A x \in s : x <= Max(s)
    BY MaxIndex
  <2> HIDE DEF Max
  <2>4. h \in [SUBSET (1 .. n) -> V]
    <3>1. \A s \in SUBSET (1 .. n) : s # {} => s \ {Max(s)} \in SUBSET (1 .. n) /\ Max(s) \in 1 .. n
      BY <2>3
    <3>2. \A s \in SUBSET (1 .. n) : s # {} => g[s \ {Max(s)}] \in V /\ Max(s) \in 1 .. n
      BY <3>1
    <3>3. \A v \in V, i \in 1 .. n : F[v][i] \in V
      OBVIOUS
    <3>4. \A s \in SUBSET (1 .. n) : s # {} => F[g[s \ {Max(s)}]][Max(s)] \in V
      BY <3>2, <3>3
    <3> QED BY <2>2, <3>4
  <2>5. ASSUME NEW s \in SUBSET (1 .. k)
        PROVE  Right(h, s)
    <3>1. CASE s = {}
      BY <2>2, <3>1
    <3>2. CASE s # {}
      <4>1. s \in SUBSET (1 .. n) /\ Max(s) \in s /\ \A x \in s : x <= Max(s)
        <5>1. s \in SUBSET (1 .. n)
          OBVIOUS
        <5> QED BY <5>1, <2>3, <3>2
      <4>2. PICK t : t = s \ {Max(s)}
        OBVIOUS
      <4>3. t \in SUBSET (1 .. k - 1) /\ t \in SUBSET (1 .. n)
        <5>1. \A x \in t : x \in 1 .. k /\ x # Max(s) /\ x <= Max(s) /\ Max(s) \in 1 .. k
          BY <4>1, <4>2
        <5>2. \A x \in t : x \in 1 .. k - 1
          BY <5>1
        <5>3. 1 .. k - 1 \subseteq 1 .. n
          OBVIOUS
        <5> QED BY <5>2, <5>3
      <4>4. g[t] = IF t = {} THEN base ELSE F[g[t \ {Max(t)}]][Max(t)]
        BY <2>1, <4>3
      <4>5. h[t] = g[t]
        BY <2>2, <4>3, <4>4
      <4>6. h[s] = F[g[t]][Max(s)]
        BY <2>2, <3>2, <4>1, <4>2
      <4> QED BY <3>2, <4>2, <4>5, <4>6
    <3> QED BY <3>1, <3>2
  <2>6. \E f \in [SUBSET (1 .. n) -> V] : \A s \in SUBSET (1 .. k) : Right(f, s)
    BY <2>4, <2>5
  <2>7. k \in 0 .. n
    OBVIOUS
  <2> QED BY <2>6, <2>7
<1>3. n \in Good
  <2> HIDE DEF Good
  <2>1. \A k \in 0 .. n : k \in Good
    BY <1>1, <1>2, PassedOn
  <2> QED BY <2>1
<1> QED BY <1>3 DEF IsFold

(* The runs of a step F from a base, and what follows F wherever it is in W. *)
IsRun(R, it, n, base, F) ==
  R[0] = base /\ (\A i \in 1 .. n : R[i] = F[R[i - 1]][i]) /\ R[n] = it[1 .. n]

Follows(it, n, base, F, W) ==
  it[{}] = base /\ \A s \in SUBSET (1 .. n) : s # {} /\ it[s \ {Max(s)}] \in W
    => it[s] = F[it[s \ {Max(s)}]][Max(s)]

(* What satisfies the equation of the fold on sets has, on the intervals     *)
(* from 1, a run of the step.                                               *)
LEMMA FoldRun ==
  ASSUME NEW n \in Nat, NEW W, NEW base \in W, NEW F \in [W -> [1 .. n -> W]], NEW it,
         Follows(it, n, base, F, W)
  PROVE  \E R \in [0 .. n -> W] : IsRun(R, it, n, base, F)
<1>1. PICK R : R = [i \in 0 .. n |-> it[1 .. i]]
  OBVIOUS
<1>2. R[0] = base
  <2>1. 1 .. 0 = {} /\ 0 \in 0 .. n
    OBVIOUS
  <2> QED BY <2>1, <1>1 DEF Follows
<1>3. \A i \in 1 .. n : R[i - 1] \in W => R[i] = F[R[i - 1]][i]
  <2> TAKE i \in 1 .. n
  <2> HAVE R[i - 1] \in W
  <2>1. PICK s : s = 1 .. i
    OBVIOUS
  <2>2. s \in SUBSET (1 .. n) /\ s # {} /\ i \in 0 .. n /\ i - 1 \in 0 .. n /\ i \in Nat \ {0}
    <3>1. i \in 0 .. n /\ i - 1 \in 0 .. n /\ i \in Nat \ {0} /\ i \in 1 .. i
      OBVIOUS
    <3>2. \A x \in 1 .. i : x \in 1 .. n
      OBVIOUS
    <3> QED BY <2>1, <3>1, <3>2
  <2>3. Max(s) = i /\ s \ {Max(s)} = 1 .. i - 1
    BY <2>1, <2>2, MaxInterval
  <2>4. it[s \ {Max(s)}] = R[i - 1] /\ it[s] = R[i]
    BY <1>1, <2>1, <2>2, <2>3
  <2>5. it[s] = F[it[s \ {Max(s)}]][Max(s)]
    BY <2>2, <2>4 DEF Follows
  <2> QED BY <2>3, <2>4, <2>5
<1>4. \A i \in 0 .. n : R[i] \in W
  <2>1. PICK S : S = {i \in 0 .. n : R[i] \in W}
    OBVIOUS
  <2>2. 0 \in S
    BY <1>2, <2>1
  <2>3. \A k \in 1 .. n : k - 1 \in S => k \in S
    <3> TAKE k \in 1 .. n
    <3> HAVE k - 1 \in S
    <3>1. R[k] = F[R[k - 1]][k] /\ R[k - 1] \in W
      BY <2>1, <1>3
    <3>2. \A w \in W, i \in 1 .. n : F[w][i] \in W
      OBVIOUS
    <3> QED BY <2>1, <3>1, <3>2
  <2>4. \A k \in 0 .. n : k \in S
    BY <2>2, <2>3, PassedOn
  <2> QED BY <2>1, <2>4
<1>5. R \in [0 .. n -> W] /\ R[n] = it[1 .. n]
  BY <1>1, <1>4
<1>6. \A i \in 1 .. n : R[i] = F[R[i - 1]][i]
  <2>1. \A i \in 1 .. n : i - 1 \in 0 .. n
    OBVIOUS
  <2> QED BY <1>3, <1>4, <2>1
<1> QED BY <1>2, <1>5, <1>6 DEF IsRun

-----------------------------------------------------------------------------
(* The folds of the model, as runs.                                         *)

(* What CompactAfter keeps of a group, and of the log.                       *)
KeptStep(k, group, bad) == IF Keeps(ReadAs(group, bad).ts) THEN k \o group ELSE k

KeptOf(groups, bad) ==
  FoldLeft(LAMBDA k, group : IF Keeps(ReadAs(group, bad).ts) THEN k \o group ELSE k,
           <<>>, groups)

IsKept(R, n, groups, bad) ==
  /\ R[0] = <<>>
  /\ \A i \in 1 .. n : R[i] = KeptStep(R[i - 1], groups[i], bad)
  /\ KeptOf(groups, bad) = R[n]

(* It is put together group by group.                                       *)
LEMMA KeptRuns ==
  ASSUME NEW n \in Nat, NEW V, NEW groups \in [1 .. n -> V], NEW bad, NEW W, <<>> \in W,
         \A k \in W, group \in V : KeptStep(k, group, bad) \in W
  PROVE  \E R \in [0 .. n -> W] : IsKept(R, n, groups, bad)
<1> DEFINE Eq(it) ==
             it = [s \in SUBSET (1 .. n) |->
                    IF s = {} THEN <<>> ELSE KeptStep(it[s \ {Max(s)}], groups[Max(s)], bad)]
<1>1. \A i \in 1 .. n : groups[i] \in V
  OBVIOUS
<1>2. \A w \in W, i \in 1 .. n : KeptStep(w, groups[i], bad) \in W
  BY <1>1
<1>3. PICK F : F = [w \in W |-> [i \in 1 .. n |-> KeptStep(w, groups[i], bad)]]
  OBVIOUS
<1>4. F \in [W -> [1 .. n -> W]]
  BY <1>2, <1>3
<1>5. PICK g \in [SUBSET (1 .. n) -> W] : IsFold(g, n, <<>>, F)
  BY <1>4, FoldExists
<1>6. \A s \in SUBSET (1 .. n) : s # {} => Max(s) \in s
  BY MaxIndex
<1>7. \A it : \A s \in SUBSET (1 .. n) : s # {} /\ it[s \ {Max(s)}] \in W
        => F[it[s \ {Max(s)}]][Max(s)] = KeptStep(it[s \ {Max(s)}], groups[Max(s)], bad)
  BY <1>3, <1>6
<1>8. Eq(g)
  <2>1. \A s \in SUBSET (1 .. n) : s # {} => g[s \ {Max(s)}] \in W
    OBVIOUS
  <2> QED BY <1>5, <1>7, <2>1 DEF IsFold
<1>9. PICK it : it = (CHOOSE x : Eq(x))
  OBVIOUS
<1>10. Eq(it)
  <2> HIDE DEF Eq
  <2> QED BY <1>8, <1>9
<1>11. DOMAIN groups = 1 .. n
  OBVIOUS
<1>12. KeptOf(groups, bad) = it[1 .. n]
  BY <1>9, <1>11 DEF KeptOf, KeptStep, FoldLeft, MapThenFoldSet
<1>13. it[{}] = <<>>
  BY <1>10
<1>14. Follows(it, n, <<>>, F, W)
  BY <1>7, <1>10, <1>13 DEF Follows
<1>15. PICK R \in [0 .. n -> W] : IsRun(R, it, n, <<>>, F)
  BY <1>4, <1>14, FoldRun
<1>16. \A i \in 1 .. n : R[i] = KeptStep(R[i - 1], groups[i], bad)
  <2>1. \A i \in 1 .. n : R[i - 1] \in W
    OBVIOUS
  <2> QED BY <1>3, <1>15, <2>1 DEF IsRun
<1>17. R \in [0 .. n -> W] /\ R[0] = <<>> /\ R[n] = it[1 .. n]
  BY <1>15 DEF IsRun
<1> QED BY <1>12, <1>16, <1>17 DEF IsKept

(* restoreFromDisk applies record by record; ReplayWAL is Replay of the      *)
(* records of the log.                                                      *)
Applied(c, r, since) ==
  IF Skipped(r.ts, since) THEN c ELSE replayCommittedPlacement(c, r)

Replay(b, since, recs) ==
  FoldLeft(LAMBDA c, r : IF Skipped(r.ts, since) THEN c ELSE replayCommittedPlacement(c, r),
           b, recs)

IsReplay(R, n, b, since, recs) ==
  /\ R[0] = b
  /\ \A i \in 1 .. n : R[i] = Applied(R[i - 1], recs[i], since)
  /\ Replay(b, since, recs) = R[n]

(* It goes record by record too.                                            *)
LEMMA ReplayRuns ==
  ASSUME NEW n \in Nat, NEW V, NEW recs \in [1 .. n -> V], NEW since, NEW b, NEW W, b \in W,
         \A c \in W, r \in V : Applied(c, r, since) \in W
  PROVE  \E R \in [0 .. n -> W] : IsReplay(R, n, b, since, recs)
<1> DEFINE Eq(it) ==
             it = [s \in SUBSET (1 .. n) |->
                    IF s = {} THEN b ELSE Applied(it[s \ {Max(s)}], recs[Max(s)], since)]
<1>1. \A i \in 1 .. n : recs[i] \in V
  OBVIOUS
<1>2. \A w \in W, i \in 1 .. n : Applied(w, recs[i], since) \in W
  BY <1>1
<1>3. PICK F : F = [w \in W |-> [i \in 1 .. n |-> Applied(w, recs[i], since)]]
  OBVIOUS
<1>4. F \in [W -> [1 .. n -> W]]
  BY <1>2, <1>3
<1>5. PICK g \in [SUBSET (1 .. n) -> W] : IsFold(g, n, b, F)
  BY <1>4, FoldExists
<1>6. \A s \in SUBSET (1 .. n) : s # {} => Max(s) \in s
  BY MaxIndex
<1>7. \A it : \A s \in SUBSET (1 .. n) : s # {} /\ it[s \ {Max(s)}] \in W
        => F[it[s \ {Max(s)}]][Max(s)] = Applied(it[s \ {Max(s)}], recs[Max(s)], since)
  BY <1>3, <1>6
<1>8. Eq(g)
  <2>1. \A s \in SUBSET (1 .. n) : s # {} => g[s \ {Max(s)}] \in W
    OBVIOUS
  <2> QED BY <1>5, <1>7, <2>1 DEF IsFold
<1>9. PICK it : it = (CHOOSE x : Eq(x))
  OBVIOUS
<1>10. Eq(it)
  <2> HIDE DEF Eq
  <2> QED BY <1>8, <1>9
<1>11. DOMAIN recs = 1 .. n
  OBVIOUS
<1>12. Replay(b, since, recs) = it[1 .. n]
  BY <1>9, <1>11 DEF Replay, Applied, FoldLeft, MapThenFoldSet
<1>13. it[{}] = b
  BY <1>10
<1>14. Follows(it, n, b, F, W)
  BY <1>7, <1>10, <1>13 DEF Follows
<1>15. PICK R \in [0 .. n -> W] : IsRun(R, it, n, b, F)
  BY <1>4, <1>14, FoldRun
<1>16. \A i \in 1 .. n : R[i] = Applied(R[i - 1], recs[i], since)
  <2>1. \A i \in 1 .. n : R[i - 1] \in W
    OBVIOUS
  <2> QED BY <1>3, <1>15, <2>1 DEF IsRun
<1>17. R \in [0 .. n -> W] /\ R[0] = b /\ R[n] = it[1 .. n]
  BY <1>15 DEF IsRun
<1> QED BY <1>12, <1>16, <1>17 DEF IsReplay

(* A byte is put together digit by digit ...                                *)
WithDigit(byte, i, cells, count) == 4 * byte + Code(cells, i, count)

Byte(numbers, cells, count) ==
  FoldLeft(LAMBDA byte, i : 4 * byte + Code(cells, i, count), 0, numbers)

IsByte(R, n, numbers, cells, count) ==
  /\ R[0] = 0
  /\ \A i \in 1 .. n : R[i] = WithDigit(R[i - 1], numbers[i], cells, count)
  /\ Byte(numbers, cells, count) = R[n]

(* ... as a run.                                                            *)
LEMMA ByteRuns ==
  ASSUME NEW n \in Nat, NEW V, NEW numbers \in [1 .. n -> V], NEW cells, NEW count, NEW W, 0 \in W,
         \A byte \in W, x \in V : WithDigit(byte, x, cells, count) \in W
  PROVE  \E R \in [0 .. n -> W] : IsByte(R, n, numbers, cells, count)
<1> DEFINE Eq(it) ==
             it = [s \in SUBSET (1 .. n) |->
                    IF s = {} THEN 0 ELSE WithDigit(it[s \ {Max(s)}], numbers[Max(s)], cells, count)]
<1>1. \A i \in 1 .. n : numbers[i] \in V
  OBVIOUS
<1>2. \A w \in W, i \in 1 .. n : WithDigit(w, numbers[i], cells, count) \in W
  BY <1>1
<1>3. PICK F : F = [w \in W |-> [i \in 1 .. n |-> WithDigit(w, numbers[i], cells, count)]]
  OBVIOUS
<1>4. F \in [W -> [1 .. n -> W]]
  BY <1>2, <1>3
<1>5. PICK g \in [SUBSET (1 .. n) -> W] : IsFold(g, n, 0, F)
  BY <1>4, FoldExists
<1>6. \A s \in SUBSET (1 .. n) : s # {} => Max(s) \in s
  BY MaxIndex
<1>7. \A it : \A s \in SUBSET (1 .. n) : s # {} /\ it[s \ {Max(s)}] \in W
        => F[it[s \ {Max(s)}]][Max(s)] = WithDigit(it[s \ {Max(s)}], numbers[Max(s)], cells, count)
  BY <1>3, <1>6
<1>8. Eq(g)
  <2>1. \A s \in SUBSET (1 .. n) : s # {} => g[s \ {Max(s)}] \in W
    OBVIOUS
  <2> QED BY <1>5, <1>7, <2>1 DEF IsFold
<1>9. PICK it : it = (CHOOSE x : Eq(x))
  OBVIOUS
<1>10. Eq(it)
  <2> HIDE DEF Eq
  <2> QED BY <1>8, <1>9
<1>11. DOMAIN numbers = 1 .. n
  OBVIOUS
<1>12. Byte(numbers, cells, count) = it[1 .. n]
  BY <1>9, <1>11 DEF Byte, WithDigit, FoldLeft, MapThenFoldSet
<1>13. it[{}] = 0
  BY <1>10
<1>14. Follows(it, n, 0, F, W)
  BY <1>7, <1>10, <1>13 DEF Follows
<1>15. PICK R \in [0 .. n -> W] : IsRun(R, it, n, 0, F)
  BY <1>4, <1>14, FoldRun
<1>16. \A i \in 1 .. n : R[i] = WithDigit(R[i - 1], numbers[i], cells, count)
  <2>1. \A i \in 1 .. n : R[i - 1] \in W
    OBVIOUS
  <2> QED BY <1>3, <1>15, <2>1 DEF IsRun
<1>17. R \in [0 .. n -> W] /\ R[0] = 0 /\ R[n] = it[1 .. n]
  BY <1>15 DEF IsRun
<1> QED BY <1>12, <1>16, <1>17 DEF IsByte

(* A byte is shifted down digit by digit ...                                *)
OneDown(byte, j) == byte \div 4

Down(byte, steps) == FoldLeft(LAMBDA v, j : v \div 4, byte, steps)

IsDown(R, n, byte, steps) ==
  /\ R[0] = byte
  /\ \A i \in 1 .. n : R[i] = OneDown(R[i - 1], steps[i])
  /\ Down(byte, steps) = R[n]

(* ... as a run.                                                            *)
LEMMA DownRuns ==
  ASSUME NEW n \in Nat, NEW V, NEW steps \in [1 .. n -> V], NEW byte, NEW W, byte \in W,
         \A v \in W, j \in V : OneDown(v, j) \in W
  PROVE  \E R \in [0 .. n -> W] : IsDown(R, n, byte, steps)
<1> DEFINE Eq(it) ==
             it = [s \in SUBSET (1 .. n) |->
                    IF s = {} THEN byte ELSE OneDown(it[s \ {Max(s)}], steps[Max(s)])]
<1>1. \A i \in 1 .. n : steps[i] \in V
  OBVIOUS
<1>2. \A w \in W, i \in 1 .. n : OneDown(w, steps[i]) \in W
  BY <1>1
<1>3. PICK F : F = [w \in W |-> [i \in 1 .. n |-> OneDown(w, steps[i])]]
  OBVIOUS
<1>4. F \in [W -> [1 .. n -> W]]
  BY <1>2, <1>3
<1>5. PICK g \in [SUBSET (1 .. n) -> W] : IsFold(g, n, byte, F)
  BY <1>4, FoldExists
<1>6. \A s \in SUBSET (1 .. n) : s # {} => Max(s) \in s
  BY MaxIndex
<1>7. \A it : \A s \in SUBSET (1 .. n) : s # {} /\ it[s \ {Max(s)}] \in W
        => F[it[s \ {Max(s)}]][Max(s)] = OneDown(it[s \ {Max(s)}], steps[Max(s)])
  BY <1>3, <1>6
<1>8. Eq(g)
  <2>1. \A s \in SUBSET (1 .. n) : s # {} => g[s \ {Max(s)}] \in W
    OBVIOUS
  <2> QED BY <1>5, <1>7, <2>1 DEF IsFold
<1>9. PICK it : it = (CHOOSE x : Eq(x))
  OBVIOUS
<1>10. Eq(it)
  <2> HIDE DEF Eq
  <2> QED BY <1>8, <1>9
<1>11. DOMAIN steps = 1 .. n
  OBVIOUS
<1>12. Down(byte, steps) = it[1 .. n]
  BY <1>9, <1>11 DEF Down, OneDown, FoldLeft, MapThenFoldSet
<1>13. it[{}] = byte
  BY <1>10
<1>14. Follows(it, n, byte, F, W)
  BY <1>7, <1>10, <1>13 DEF Follows
<1>15. PICK R \in [0 .. n -> W] : IsRun(R, it, n, byte, F)
  BY <1>4, <1>14, FoldRun
<1>16. \A i \in 1 .. n : R[i] = OneDown(R[i - 1], steps[i])
  <2>1. \A i \in 1 .. n : R[i - 1] \in W
    OBVIOUS
  <2> QED BY <1>3, <1>15, <2>1 DEF IsRun
<1>17. R \in [0 .. n -> W] /\ R[0] = byte /\ R[n] = it[1 .. n]
  BY <1>15 DEF IsRun
<1> QED BY <1>12, <1>16, <1>17 DEF IsDown

-----------------------------------------------------------------------------
(* The codec of snapshot files.                                             *)

(* Division with remainder.                                                 *)
LEMMA DivMod ==
  ASSUME NEW n \in Nat \ {0}, NEW v \in Nat
  PROVE  /\ v \div n \in Nat /\ v % n \in 0 .. n - 1
         /\ v = (v \div n) * n + (v % n)
<1>1. v \div n \in Nat /\ v % n \in 0 .. n - 1
  OBVIOUS
<1>2. v = (v \div n) * n + (v % n)
  OBVIOUS
<1> QED BY <1>1, <1>2

(* It is unique.                                                            *)
LEMMA DivModUnique ==
  ASSUME NEW n \in Nat \ {0}, NEW a \in Nat, NEW r \in 0 .. n - 1
  PROVE  (a * n + r) \div n = a /\ (a * n + r) % n = r
<1>1. PICK v : v = a * n + r
  OBVIOUS
<1>2. v \in Nat
  BY <1>1
<1>3. PICK b, s : b = v \div n /\ s = v % n
  OBVIOUS
<1>4. b \in Nat /\ s \in 0 .. n - 1 /\ v = b * n + s
  BY <1>2, <1>3, DivMod
<1>5. a * n + r = b * n + s
  BY <1>1, <1>4
<1>6. ~(a < b)
  <2> SUFFICES ASSUME a + 1 <= b PROVE FALSE
    BY <1>4
  <2>1. (a + 1) * n <= b * n
    BY <1>4
  <2>2. (a + 1) * n = a * n + n
    OBVIOUS
  <2>3. a * n \in Int /\ b * n \in Int
    BY <1>4
  <2> QED BY <1>4, <1>5, <2>1, <2>2, <2>3
<1>7. ~(b < a)
  <2> SUFFICES ASSUME b + 1 <= a PROVE FALSE
    BY <1>4
  <2>1. (b + 1) * n <= a * n
    BY <1>4
  <2>2. (b + 1) * n = b * n + n
    BY <1>4
  <2>3. a * n \in Int /\ b * n \in Int
    BY <1>4
  <2> QED BY <1>4, <1>5, <2>1, <2>2, <2>3
<1>8. a = b
  BY <1>4, <1>6, <1>7
<1>9. r = s
  <2>1. a * n \in Int
    OBVIOUS
  <2> QED BY <1>4, <1>5, <1>8, <2>1
<1> QED BY <1>1, <1>3, <1>8, <1>9

(* A cell has a digit of its own.                                           *)
LEMMA CodeOfCell ==
  ASSUME NEW cell \in Cell
  PROVE  CodeOf(cell) \in 0 .. 2 /\ CellOf(CodeOf(cell)) = cell
BY DEF Cell, Team, CodeOf, CellOf, Empty, Black, White

(* The cell numbers of a byte, and their digits.                            *)
LEMMA NumbersType ==
  ASSUME NEW k \in Nat \ {0}
  PROVE  /\ Numbers(k) \in [1 .. CellsPerByte -> Nat]
         /\ \A j \in 1 .. CellsPerByte : Numbers(k)[j] = (k - 1) * CellsPerByte + j - 1
<1>1. CellsPerByte \in Nat \ {0}
  BY GeometryAssumption
<1>2. (k - 1) * CellsPerByte \in Nat
  BY <1>1
<1>3. \A j \in 1 .. CellsPerByte : (k - 1) * CellsPerByte + j - 1 \in Nat
  BY <1>1, <1>2
<1> QED BY <1>3 DEF Numbers

(* The digit of a cell number is one of four.                               *)
LEMMA CodeType ==
  ASSUME NEW count \in Nat, NEW cells \in [0 .. count - 1 -> Cell], NEW x \in Nat
  PROVE  Code(cells, x, count) \in 0 .. 3
<1>1. CASE x < count
  <2>1. x \in 0 .. count - 1
    BY <1>1
  <2>2. cells[x] \in Cell
    BY <2>1
  <2> QED BY <1>1, <2>2, CodeOfCell DEF Code
<1>2. CASE ~(x < count)
  BY <1>2 DEF Code
<1> QED BY <1>1, <1>2

(* A digit of a packed byte is the cell that was packed there.              *)
LEMMA DigitOfPacked ==
  ASSUME NEW count \in Nat, NEW cells \in [0 .. count - 1 -> Cell], NEW i \in 0 .. count - 1
  PROVE  Digit(Packed(count, cells), i) = CodeOf(cells[i])
<1> DEFINE n == CellsPerByte
           k == i \div n + 1
           D(x) == Code(cells, x, count)
<1>1. n \in Nat \ {0} /\ i \in Nat
  BY GeometryAssumption
<1>2. i \div n \in Nat /\ i % n \in 0 .. n - 1 /\ i = (i \div n) * n + (i % n)
  BY <1>1, DivMod
<1>3. k \in 1 .. PackedBytes(count)
  <2>1. PICK top : top = (count + n - 1) \div n
    OBVIOUS
  <2>2. PICK rest : rest = (count + n - 1) % n
    OBVIOUS
  <2>3. top \in Nat /\ rest \in 0 .. n - 1 /\ count + n - 1 = top * n + rest
    <3>1. PICK v : v = count + n - 1
      OBVIOUS
    <3>2. v \in Nat
      BY <1>1, <3>1
    <3>3. v \div n \in Nat /\ v % n \in 0 .. n - 1 /\ v = (v \div n) * n + (v % n)
      BY <1>1, <3>2, DivMod
    <3> QED BY <2>1, <2>2, <3>1, <3>3
  <2>4. PICK a : a = i \div n
    OBVIOUS
  <2>5. a \in Nat /\ a * n <= i /\ a * n \in Int
    BY <1>1, <1>2, <2>4
  <2>6. ~(top <= a)
    <3> SUFFICES ASSUME top <= a PROVE FALSE
      OBVIOUS
    <3>1. top * n <= a * n
      BY <1>1, <2>3, <2>5
    <3>2. top * n \in Int
      BY <1>1, <2>3
    <3> QED BY <1>1, <2>3, <2>5, <3>1, <3>2
  <2>7. a + 1 \in 1 .. top
    BY <2>3, <2>5, <2>6
  <2> QED BY <2>1, <2>4, <2>7 DEF PackedBytes
<1>4. Packed(count, cells)[k] = Byte(Numbers(k), cells, count)
  BY <1>3 DEF Packed, Byte
<1>5. \A x \in Nat : D(x) \in 0 .. 3
  BY CodeType
<1>6. Numbers(k) \in [1 .. n -> Nat] /\ \A j \in 1 .. n : Numbers(k)[j] = (k - 1) * n + j - 1
  <2>1. k \in Nat \ {0}
    BY <1>2
  <2> QED BY <2>1, NumbersType
<1> HIDE DEF k
<1>7. \A v \in Nat, x \in Nat : WithDigit(v, x, cells, count) \in Nat
  BY <1>5 DEF WithDigit
<1>8. PICK R \in [0 .. n -> Nat] :
        /\ R[0] = 0
        /\ \A j \in 1 .. n : R[j] = WithDigit(R[j - 1], Numbers(k)[j], cells, count)
        /\ Byte(Numbers(k), cells, count) = R[n]
  <2>1. PICK N : N = Nat
    OBVIOUS
  <2>2. /\ n \in Nat /\ 0 \in N /\ Numbers(k) \in [1 .. n -> N]
        /\ \A v \in N, x \in N : WithDigit(v, x, cells, count) \in N
    BY <1>1, <1>6, <1>7, <2>1
  <2>3. \E R \in [0 .. n -> N] : IsByte(R, n, Numbers(k), cells, count)
    BY <2>2, ByteRuns
  <2> QED BY <2>1, <2>3 DEF IsByte
<1>9. PICK s : s = n - 1 - (i % n)
  OBVIOUS
<1>10. s \in 0 .. n - 1 /\ s \in Nat
  BY <1>1, <1>2, <1>9
<1>11. Shifts(i) \in [1 .. s -> Nat]
  BY <1>9 DEF Shifts
<1>12. R[n] \in Nat
  BY <1>1
<1>13. \A v \in Nat, x \in Nat : OneDown(v, x) \in Nat
  BY DEF OneDown
<1>14. PICK S \in [0 .. s -> Nat] :
         /\ S[0] = R[n]
         /\ \A j \in 1 .. s : S[j] = OneDown(S[j - 1], Shifts(i)[j])
         /\ Down(R[n], Shifts(i)) = S[s]
  <2>1. PICK N : N = Nat
    OBVIOUS
  <2>2. /\ s \in Nat /\ R[n] \in N /\ Shifts(i) \in [1 .. s -> N]
        /\ \A v \in N, x \in N : OneDown(v, x) \in N
    BY <1>10, <1>11, <1>12, <1>13, <2>1
  <2>3. \E S \in [0 .. s -> N] : IsDown(S, s, R[n], Shifts(i))
    BY <2>2, DownRuns
  <2> QED BY <2>1, <2>3 DEF IsDown
<1>15. \A j \in 0 .. s : S[j] = R[n - j]
  <2>1. PICK T : T = {j \in 0 .. s : S[j] = R[n - j]}
    OBVIOUS
  <2>2. 0 \in T
    BY <1>1, <1>10, <1>14, <2>1
  <2>3. ASSUME NEW j \in 1 .. s, j - 1 \in T PROVE j \in T
    <3>1. S[j] = R[n - (j - 1)] \div 4
      BY <1>14, <2>1, <2>3 DEF OneDown
    <3>2. n - (j - 1) \in 1 .. n /\ n - j \in 0 .. n /\ (n - (j - 1)) - 1 = n - j
      BY <1>1, <1>10
    <3>3. R[n - (j - 1)] = 4 * R[n - j] + D(Numbers(k)[n - (j - 1)])
      BY <1>8, <3>2 DEF WithDigit
    <3>4. R[n - j] \in Nat /\ D(Numbers(k)[n - (j - 1)]) \in 0 .. 3
      BY <1>5, <1>6, <3>2
    <3>5. (4 * R[n - j] + D(Numbers(k)[n - (j - 1)])) \div 4 = R[n - j]
      <4>1. \A x \in Nat, y \in 0 .. 3 : (4 * x + y) \div 4 = x
        OBVIOUS
      <4> HIDE DEF D
      <4> QED BY <3>4, <4>1
    <3> QED BY <2>1, <3>1, <3>3, <3>5
  <2>4. \A j \in 0 .. s : j \in T
    BY <1>10, <2>2, <2>3, PassedOn
  <2> QED BY <2>1, <2>4
<1>16. PICK m : m = (i % n) + 1
  OBVIOUS
<1>17. S[s] = R[m] /\ m \in 1 .. n /\ m - 1 = i % n
  <2>1. n - s = m /\ s \in 0 .. s
    BY <1>1, <1>2, <1>9, <1>10, <1>16
  <2> QED BY <1>1, <1>2, <1>15, <1>16, <2>1
<1>18. Numbers(k)[m] = i
  <2>1. Numbers(k)[m] = (i \div n) * n + (i % n)
    <3>1. (k - 1) = i \div n
      BY <1>2 DEF k
    <3>2. Numbers(k)[m] = (k - 1) * n + m - 1
      BY <1>6, <1>17
    <3>3. (i \div n) * n \in Int
      BY <1>1, <1>2
    <3> QED BY <1>2, <1>16, <3>1, <3>2, <3>3
  <2> QED BY <1>2, <2>1
<1>19. R[m] = 4 * R[m - 1] + D(i) /\ R[m - 1] \in Nat /\ D(i) \in 0 .. 3
  <2>1. m - 1 \in 0 .. n
    BY <1>1, <1>17
  <2> QED BY <1>1, <1>5, <1>8, <1>17, <1>18, <2>1 DEF WithDigit
<1>20. R[m] % 4 = D(i)
  <2> HIDE DEF D
  <2> QED BY <1>19
<1>21. Digit(Packed(count, cells), i)
         = Down(Packed(count, cells)[i \div n + 1], Shifts(i)) % 4
  BY DEF Digit, Down
<1>22. Packed(count, cells)[i \div n + 1] = R[n]
  BY <1>4, <1>8 DEF k
<1>23. Digit(Packed(count, cells), i) = D(i)
  BY <1>14, <1>17, <1>20, <1>21, <1>22
<1>24. D(i) = CodeOf(cells[i])
  BY DEF Code
<1> QED BY <1>23, <1>24

(* The cells of a board, row by row.                                        *)
LEMMA CellsOfBoard ==
  ASSUME NEW b \in Boards
  PROVE  [i \in 0 .. BoardCells - 1 |-> b[<<i % BoardSize, i \div BoardSize>>]]
           \in [0 .. BoardCells - 1 -> Cell]
<1>1. BoardSize \in Nat \ {0}
  BY GeometryAssumption
<1>2. \A i \in 0 .. BoardCells - 1 : <<i % BoardSize, i \div BoardSize>> \in Coord
  <2> TAKE i \in 0 .. BoardCells - 1
  <2>1. PICK a, r : a = i \div BoardSize /\ r = i % BoardSize
    OBVIOUS
  <2>2. i \in Nat /\ a \in Nat /\ r \in 0 .. BoardSize - 1 /\ i = a * BoardSize + r
    <3>1. i \in Nat
      OBVIOUS
    <3>2. /\ i \div BoardSize \in Nat /\ i % BoardSize \in 0 .. BoardSize - 1
          /\ i = (i \div BoardSize) * BoardSize + (i % BoardSize)
      BY <1>1, <3>1, DivMod
    <3> QED BY <2>1, <3>1, <3>2
  <2>3. ~(BoardSize <= a)
    <3> SUFFICES ASSUME BoardSize <= a PROVE FALSE
      OBVIOUS
    <3>1. BoardSize * BoardSize <= a * BoardSize
      BY <1>1, <2>2
    <3>2. BoardSize * BoardSize \in Nat /\ a * BoardSize \in Nat
      BY <1>1, <2>2
    <3>3. i < BoardSize * BoardSize
      BY <3>2 DEF BoardCells
    <3> QED BY <1>1, <2>2, <3>1, <3>2, <3>3
  <2>4. a \in 0 .. BoardSize - 1
    BY <1>1, <2>2, <2>3
  <2> QED BY <2>1, <2>2, <2>4 DEF Coord, Axis
<1> QED BY <1>2 DEF Boards

(* A board read back from its snapshot file is the board: encodeBoard and   *)
(* decodeBoardInto agree, whatever the number of cells in a byte.           *)
THEOREM DecodeEncode ==
  ASSUME NEW b \in Boards
  PROVE  decodeBoard(encodeBoard(b)) = b
<1>1. BoardSize \in Nat \ {0}
  BY GeometryAssumption
<1>2. BoardCells \in Nat
  BY <1>1 DEF BoardCells
<1>3. PICK cells : cells = [i \in 0 .. BoardCells - 1 |-> b[<<i % BoardSize, i \div BoardSize>>]]
  OBVIOUS
<1>4. \A q \in Coord : /\ q[2] * BoardSize + q[1] \in 0 .. BoardCells - 1
                       /\ (q[2] * BoardSize + q[1]) % BoardSize = q[1]
                       /\ (q[2] * BoardSize + q[1]) \div BoardSize = q[2]
  <2> TAKE q \in Coord
  <2>1. q[1] \in 0 .. BoardSize - 1 /\ q[2] \in 0 .. BoardSize - 1
    BY DEF Coord, Axis
  <2>2. q[2] \in Nat
    BY <1>1, <2>1
  <2>3. q[2] * BoardSize <= (BoardSize - 1) * BoardSize
    BY <1>1, <2>1
  <2>4. (BoardSize - 1) * BoardSize = BoardSize * BoardSize - BoardSize
    BY <1>1
  <2>5. q[2] * BoardSize \in Nat /\ BoardSize * BoardSize \in Nat
    BY <1>1, <2>2
  <2>6. q[2] * BoardSize + q[1] \in 0 .. BoardCells - 1
    BY <1>1, <2>1, <2>3, <2>4, <2>5 DEF BoardCells
  <2> QED BY <1>1, <2>1, <2>2, <2>6, DivModUnique
<1>6. cells \in [0 .. BoardCells - 1 -> Cell]
  BY <1>3, CellsOfBoard
<1>7. \A q \in Coord : Digit(encodeBoard(b), q[2] * BoardSize + q[1]) = CodeOf(b[q])
  <2> TAKE q \in Coord
  <2>1. PICK i : i = q[2] * BoardSize + q[1]
    OBVIOUS
  <2>2. i \in 0 .. BoardCells - 1 /\ i % BoardSize = q[1] /\ i \div BoardSize = q[2]
    BY <1>4, <2>1
  <2>3. q = <<q[1], q[2]>>
    BY DEF Coord
  <2>4. cells[i] = b[q]
    BY <1>3, <2>2, <2>3
  <2>5. encodeBoard(b) = Packed(BoardCells, cells)
    BY <1>3 DEF encodeBoard
  <2>6. Digit(Packed(BoardCells, cells), i) = CodeOf(cells[i])
    BY <1>2, <1>6, <2>2, DigitOfPacked
  <2> QED BY <2>1, <2>4, <2>5, <2>6
<1>8. \A q \in Coord : decodeBoard(encodeBoard(b))[q] = b[q]
  <2> TAKE q \in Coord
  <2>1. decodeBoard(encodeBoard(b))[q] = CellOf(Digit(encodeBoard(b), q[2] * BoardSize + q[1]))
    BY DEF decodeBoard
  <2>2. b[q] \in Cell
    BY DEF Boards
  <2> QED BY <1>7, <2>1, <2>2, CodeOfCell
<1>9. b \in [Coord -> Cell] /\ DOMAIN decodeBoard(encodeBoard(b)) = Coord
  BY DEF Boards, decodeBoard
<1> QED BY <1>8, <1>9 DEF decodeBoard

(* What is read from a file is a board, whatever the file is.               *)
LEMMA DecodeType ==
  ASSUME NEW bytes
  PROVE  decodeBoard(bytes) \in Boards
BY DEF decodeBoard, Boards, CellOf, Cell, Team

(* A snapshot file is not empty.                                            *)
LEMMA EncodeType ==
  ASSUME NEW b \in Boards
  PROVE  encodeBoard(b) \in Seq(Nat) /\ encodeBoard(b) # NoFile
<1>1. /\ BoardSize \in Nat \ {0} /\ CellsPerByte \in Nat \ {0}
  BY GeometryAssumption
<1>2. BoardCells \in Nat \ {0}
  BY <1>1 DEF BoardCells
<1>3. PackedBytes(BoardCells) \in Nat \ {0}
  <2>1. PICK top, rest : /\ top = (BoardCells + CellsPerByte - 1) \div CellsPerByte
                         /\ rest = (BoardCells + CellsPerByte - 1) % CellsPerByte
    OBVIOUS
  <2>2. BoardCells + CellsPerByte - 1 \in Nat
    BY <1>1, <1>2
  <2>3. /\ top \in Nat /\ rest \in 0 .. CellsPerByte - 1
        /\ BoardCells + CellsPerByte - 1 = top * CellsPerByte + rest
    BY <1>1, <2>1, <2>2, DivMod
  <2>4. top # 0
    <3> SUFFICES ASSUME top = 0 PROVE FALSE
      OBVIOUS
    <3> QED BY <1>1, <1>2, <2>3
  <2> QED BY <2>1, <2>3, <2>4 DEF PackedBytes
<1>4. PICK cells : cells = [i \in 0 .. BoardCells - 1 |-> b[<<i % BoardSize, i \div BoardSize>>]]
  OBVIOUS
<1>5. cells \in [0 .. BoardCells - 1 -> Cell]
  BY <1>4, CellsOfBoard
<1>6. encodeBoard(b) = Packed(BoardCells, cells)
  BY <1>4 DEF encodeBoard
<1>7. \A k \in 1 .. PackedBytes(BoardCells) :
        Byte(Numbers(k), cells, BoardCells) \in Nat
  <2> TAKE k \in 1 .. PackedBytes(BoardCells)
  <2>1. k \in Nat \ {0}
    BY <1>3
  <2>2. Numbers(k) \in [1 .. CellsPerByte -> Nat]
    BY <2>1, NumbersType
  <2>3. \A v \in Nat, x \in Nat : WithDigit(v, x, cells, BoardCells) \in Nat
    <3> TAKE v \in Nat, x \in Nat
    <3>1. Code(cells, x, BoardCells) \in 0 .. 3
      BY <1>2, <1>5, CodeType
    <3> QED BY <3>1 DEF WithDigit
  <2>4. PICK R \in [0 .. CellsPerByte -> Nat] :
          /\ R[0] = 0
          /\ \A j \in 1 .. CellsPerByte :
               R[j] = WithDigit(R[j - 1], Numbers(k)[j], cells, BoardCells)
          /\ Byte(Numbers(k), cells, BoardCells) = R[CellsPerByte]
    <3>1. PICK N : N = Nat
      OBVIOUS
    <3>2. /\ CellsPerByte \in Nat /\ 0 \in N /\ Numbers(k) \in [1 .. CellsPerByte -> N]
          /\ \A v \in N, x \in N : WithDigit(v, x, cells, BoardCells) \in N
      BY <1>1, <2>2, <2>3, <3>1
    <3>3. \E R \in [0 .. CellsPerByte -> N] : IsByte(R, CellsPerByte, Numbers(k), cells, BoardCells)
      BY <3>2, ByteRuns
    <3> QED BY <3>1, <3>3 DEF IsByte
  <2> QED BY <1>1, <2>4
<1>8. Packed(BoardCells, cells) \in [1 .. PackedBytes(BoardCells) -> Nat]
  BY <1>7 DEF Packed, Byte
<1>9. Packed(BoardCells, cells) \in Seq(Nat) /\ Len(Packed(BoardCells, cells)) # 0
  BY <1>3, <1>8
<1> QED BY <1>6, <1>9 DEF NoFile

-----------------------------------------------------------------------------
(* The log in groups.                                                       *)

(* The sizes of records and of the buffer.                                  *)
LEMMA Sizes ==
  RecordUnits \in Nat \ {0} /\ BufferUnits \in Nat \ {0} /\ RecordUnits <= BufferUnits
BY PersistenceAssumption

(* Where a group is.                                                        *)
LEMMA GroupPlace ==
  ASSUME NEW units, Len(units) \in Nat, NEW g \in 1 .. GroupCount(units)
  PROVE  /\ GroupCount(units) \in Nat /\ g \in Nat \ {0}
         /\ (g - 1) * RecordUnits \in Nat
         /\ g * RecordUnits = (g - 1) * RecordUnits + RecordUnits
         /\ g * RecordUnits <= Len(units)
<1>1. PICK n : n = GroupCount(units)
  OBVIOUS
<1>2. n \in Nat /\ Len(units) = n * RecordUnits + (Len(units) % RecordUnits)
      /\ Len(units) % RecordUnits \in 0 .. RecordUnits - 1
  BY <1>1, Sizes, DivMod DEF GroupCount
<1>3. g \in Nat \ {0} /\ g <= n
  BY <1>1, <1>2
<1>4. g * RecordUnits <= n * RecordUnits
  BY <1>2, <1>3, Sizes
<1>5. (g - 1) * RecordUnits \in Nat /\ g * RecordUnits = (g - 1) * RecordUnits + RecordUnits
  BY <1>3, Sizes
<1>6. n * RecordUnits \in Nat
  BY <1>2, Sizes
<1> QED BY <1>1, <1>2, <1>3, <1>4, <1>5, <1>6, Sizes

(* A sequence has a number of whole groups.                                 *)
LEMMA GroupCountType ==
  ASSUME NEW units, Len(units) \in Nat
  PROVE  GroupCount(units) \in Nat
BY Sizes, DivMod DEF GroupCount

(* Where a group ends within a sequence there is one.                       *)
LEMMA GroupThere ==
  ASSUME NEW units, Len(units) \in Nat, NEW g \in Nat \ {0}, g * RecordUnits <= Len(units)
  PROVE  g \in 1 .. GroupCount(units)
<1>1. PICK n : n = GroupCount(units)
  OBVIOUS
<1>2. n \in Nat /\ Len(units) = n * RecordUnits + (Len(units) % RecordUnits)
      /\ Len(units) % RecordUnits \in 0 .. RecordUnits - 1
  BY <1>1, Sizes, DivMod DEF GroupCount
<1>3. ~(n + 1 <= g)
  <2> SUFFICES ASSUME n + 1 <= g PROVE FALSE
    OBVIOUS
  <2>1. (n + 1) * RecordUnits <= g * RecordUnits
    BY <1>2, Sizes
  <2>2. (n + 1) * RecordUnits = n * RecordUnits + RecordUnits
    BY <1>2, Sizes
  <2>3. n * RecordUnits \in Nat /\ g * RecordUnits \in Nat
    BY <1>2, Sizes
  <2> QED BY <1>2, <2>1, <2>2, <2>3, Sizes
<1> QED BY <1>1, <1>2, <1>3

(* What a group is.                                                         *)
LEMMA GroupType ==
  ASSUME NEW X, NEW units \in Seq(X), NEW g \in 1 .. GroupCount(units)
  PROVE  /\ Group(units, g) \in Seq(X) /\ Len(Group(units, g)) = RecordUnits
         /\ \A j \in 1 .. RecordUnits : /\ (g - 1) * RecordUnits + j \in 1 .. Len(units)
                                        /\ Group(units, g)[j] = units[(g - 1) * RecordUnits + j]
<1>1. PICK a : a = (g - 1) * RecordUnits
  OBVIOUS
<1>2. Len(units) \in Nat
  OBVIOUS
<1>3. a \in Nat /\ g * RecordUnits = a + RecordUnits /\ a + RecordUnits <= Len(units)
  BY <1>1, <1>2, GroupPlace
<1>4. Group(units, g) = SubSeq(units, a + 1, a + RecordUnits)
  BY <1>1, <1>3 DEF Group
<1>5. \A j \in 1 .. RecordUnits : a + j \in 1 .. Len(units)
  BY <1>3, Sizes
<1>6. \A j \in a + 1 .. a + RecordUnits : units[j] \in X
  BY <1>3, Sizes
<1>7. /\ SubSeq(units, a + 1, a + RecordUnits) \in Seq(X)
      /\ Len(SubSeq(units, a + 1, a + RecordUnits)) = RecordUnits
      /\ \A j \in 1 .. RecordUnits :
           SubSeq(units, a + 1, a + RecordUnits)[j] = units[a + j]
  <2>1. a + 1 \in Int /\ a + RecordUnits \in Int /\ a + 1 <= a + RecordUnits
        /\ (a + RecordUnits) - (a + 1) + 1 = RecordUnits
    BY <1>3, Sizes
  <2>2. \A j \in 1 .. RecordUnits : (a + 1) + j - 1 = a + j
    BY <1>3, Sizes
  <2> QED BY <1>6, <2>1, <2>2, SubSeqProperties
<1> QED BY <1>1, <1>4, <1>5, <1>7

(* A sequence begins with another.                                          *)
Begins(a, b) == Len(a) <= Len(b) /\ \A i \in 1 .. Len(a) : b[i] = a[i]

(* A sequence begins what it is the first part of.                          *)
LEMMA BeginsConcat ==
  ASSUME NEW X, NEW a \in Seq(X), NEW b \in Seq(X)
  PROVE  a \o b \in Seq(X) /\ Begins(a, a \o b)
BY DEF Begins

(* What is cut off behind a place begins the sequence.                      *)
LEMMA BeginsSubSeq ==
  ASSUME NEW X, NEW a \in Seq(X), NEW n \in 0 .. Len(a)
  PROVE  SubSeq(a, 1, n) \in Seq(X) /\ Len(SubSeq(a, 1, n)) = n /\ Begins(SubSeq(a, 1, n), a)
BY DEF Begins

(* It has the groups of the other.                                          *)
LEMMA BeginsGroups ==
  ASSUME NEW X, NEW a \in Seq(X), NEW b \in Seq(X), Begins(a, b)
  PROVE  /\ GroupCount(a) \in Nat /\ GroupCount(b) \in Nat /\ GroupCount(a) <= GroupCount(b)
         /\ \A g \in 1 .. GroupCount(a) : g \in 1 .. GroupCount(b) /\ Group(b, g) = Group(a, g)
<1>1. Len(a) \in Nat /\ Len(b) \in Nat /\ Len(a) <= Len(b)
  BY DEF Begins
<1>2. GroupCount(a) \in Nat /\ GroupCount(b) \in Nat
  BY <1>1, GroupCountType
<1>3. \A g \in 1 .. GroupCount(a) : g \in 1 .. GroupCount(b)
  <2> TAKE g \in 1 .. GroupCount(a)
  <2>1. g \in Nat \ {0} /\ g * RecordUnits <= Len(a) /\ g * RecordUnits \in Nat
    BY <1>1, Sizes, GroupPlace
  <2>2. g * RecordUnits <= Len(b)
    BY <1>1, <2>1
  <2> QED BY <1>1, <2>1, <2>2, GroupThere
<1>4. \A g \in 1 .. GroupCount(a) : Group(b, g) = Group(a, g)
  <2> TAKE g \in 1 .. GroupCount(a)
  <2>1. g \in 1 .. GroupCount(b)
    BY <1>3
  <2>2. /\ Group(a, g) \in Seq(X) /\ Len(Group(a, g)) = RecordUnits
        /\ \A j \in 1 .. RecordUnits : /\ (g - 1) * RecordUnits + j \in 1 .. Len(a)
                                       /\ Group(a, g)[j] = a[(g - 1) * RecordUnits + j]
    BY GroupType
  <2>3. /\ Group(b, g) \in Seq(X) /\ Len(Group(b, g)) = RecordUnits
        /\ \A j \in 1 .. RecordUnits : Group(b, g)[j] = b[(g - 1) * RecordUnits + j]
    BY <2>1, GroupType
  <2>4. \A j \in 1 .. RecordUnits : Group(b, g)[j] = Group(a, g)[j]
    BY <2>2, <2>3 DEF Begins
  <2> QED BY <2>2, <2>3, <2>4, SeqEqual
<1>5. GroupCount(a) <= GroupCount(b)
  BY <1>2, <1>3
<1> QED BY <1>2, <1>3, <1>4, <1>5

(* The record of a group, and a sequence all of whose groups are records.   *)
RecordAt(units, g) == Group(units, g)[1].rec
Whole(units) == \A g \in 1 .. GroupCount(units) : WholeGroup(Group(units, g))

(* The record of a group is a record.                                       *)
LEMMA RecordAtType ==
  ASSUME NEW units \in Seq(Unit), NEW g \in 1 .. GroupCount(units)
  PROVE  RecordAt(units, g) \in Record
<1>1. Group(units, g) \in Seq(Unit) /\ Len(Group(units, g)) = RecordUnits
  BY GroupType
<1>2. Group(units, g)[1] \in Unit
  BY <1>1, Sizes
<1> QED BY <1>2 DEF RecordAt, Unit

(* The units of a record are a whole group.                                 *)
LEMMA UnitsOfType ==
  ASSUME NEW r \in Record
  PROVE  /\ UnitsOf(r) \in Seq(Unit) /\ Len(UnitsOf(r)) = RecordUnits
         /\ UnitsOf(r)[1].rec = r /\ WholeGroup(UnitsOf(r))
<1>1. \A i \in 1 .. RecordUnits : [rec |-> r, part |-> i] \in Unit
  BY DEF Unit
<1>2. UnitsOf(r) \in [1 .. RecordUnits -> Unit]
  BY <1>1 DEF UnitsOf
<1>3. UnitsOf(r) \in Seq(Unit) /\ Len(UnitsOf(r)) = RecordUnits
  BY <1>2, Sizes
<1>4. UnitsOf(r)[1].rec = r
  BY Sizes DEF UnitsOf
<1> QED BY <1>3, <1>4 DEF WholeGroup

(* A record appended behind whole records is one more group.                *)
LEMMA AddedRecord ==
  ASSUME NEW a \in Seq(Unit), ~Torn(a), NEW r \in Record, NEW b, b = a \o UnitsOf(r)
  PROVE  /\ b \in Seq(Unit) /\ Begins(a, b) /\ ~Torn(b)
         /\ GroupCount(b) = GroupCount(a) + 1
         /\ Group(b, GroupCount(a) + 1) = UnitsOf(r)
<1>1. UnitsOf(r) \in Seq(Unit) /\ Len(UnitsOf(r)) = RecordUnits
  BY UnitsOfType
<1>2. b \in Seq(Unit) /\ Begins(a, b)
  BY <1>1, BeginsConcat
<1>3. PICK n : n = GroupCount(a)
  OBVIOUS
<1>4. n \in Nat /\ Len(a) = n * RecordUnits
  <2>1. Len(a) \in Nat /\ Len(a) % RecordUnits = 0
    BY DEF Torn
  <2>2. n \in Nat /\ Len(a) = n * RecordUnits + (Len(a) % RecordUnits)
    BY <1>3, <2>1, Sizes, DivMod DEF GroupCount
  <2>3. n * RecordUnits \in Nat
    BY <2>2, Sizes
  <2> QED BY <2>1, <2>2, <2>3
<1>5. Len(b) = n * RecordUnits + RecordUnits /\ n * RecordUnits \in Nat
  <2>1. Len(b) = Len(a) + RecordUnits
    BY <1>1, ConcatProperties
  <2> QED BY <1>4, <2>1, Sizes
<1>6. Len(b) = (n + 1) * RecordUnits + 0 /\ n + 1 \in Nat /\ 0 \in 0 .. RecordUnits - 1
  BY <1>4, <1>5, Sizes
<1>7. GroupCount(b) = n + 1 /\ ~Torn(b)
  <2>1. PICK m : m = n + 1
    OBVIOUS
  <2>2. Len(b) = m * RecordUnits + 0
    BY <1>6, <2>1
  <2>3. (m * RecordUnits + 0) \div RecordUnits = m /\ (m * RecordUnits + 0) % RecordUnits = 0
    BY <1>6, <2>1, Sizes, DivModUnique
  <2> QED BY <2>1, <2>2, <2>3 DEF GroupCount, Torn
<1>8. Group(b, n + 1) = UnitsOf(r)
  <2>1. n + 1 \in 1 .. GroupCount(b)
    BY <1>4, <1>7
  <2>2. /\ Group(b, n + 1) \in Seq(Unit) /\ Len(Group(b, n + 1)) = RecordUnits
        /\ \A j \in 1 .. RecordUnits : Group(b, n + 1)[j] = b[n * RecordUnits + j]
    <3>1. PICK m : m = n + 1
      OBVIOUS
    <3>2. m - 1 = n /\ m \in 1 .. GroupCount(b)
      BY <1>4, <2>1, <3>1
    <3>3. /\ Group(b, m) \in Seq(Unit) /\ Len(Group(b, m)) = RecordUnits
          /\ \A j \in 1 .. RecordUnits : Group(b, m)[j] = b[(m - 1) * RecordUnits + j]
      BY <1>2, <3>2, GroupType
    <3> QED BY <3>1, <3>2, <3>3
  <2>4. \A j \in 1 .. RecordUnits : b[n * RecordUnits + j] = UnitsOf(r)[j]
    BY <1>1, <1>4, <1>5, Sizes
  <2>5. \A j \in 1 .. RecordUnits : Group(b, n + 1)[j] = UnitsOf(r)[j]
    BY <2>2, <2>4
  <2> QED BY <1>1, <2>2, <2>5, SeqEqual
<1> QED BY <1>2, <1>3, <1>7, <1>8

(* How a group of a whole log is read.                                      *)
LEMMA WholeRecord ==
  ASSUME NEW units \in Seq(Unit), Whole(units), NEW g \in 1 .. GroupCount(units), NEW bad
  PROVE  /\ Group(units, g) = UnitsOf(RecordAt(units, g))
         /\ ReadAs(Group(units, g), bad) = RecordAt(units, g)
         /\ RecordsOf(units, bad)[g] = RecordAt(units, g)
BY DEF Whole, WholeGroup, ReadAs, RecordAt, RecordsOf

(* k has those of the first n groups of units whose records CompactAfter    *)
(* keeps, in their order; f says where they come from.                      *)
Filters(f, k, units, n) ==
  /\ k \in Seq(Unit) /\ ~Torn(k)
  /\ f \in [1 .. GroupCount(k) -> 1 .. n]
  /\ \A i, j \in 1 .. GroupCount(k) : i < j => f[i] < f[j]
  /\ \A i \in 1 .. GroupCount(k) : /\ Group(k, i) = Group(units, f[i])
                                   /\ Keeps(RecordAt(units, f[i]).ts)
  /\ \A g \in 1 .. n : Keeps(RecordAt(units, g).ts) => \E i \in 1 .. GroupCount(k) : f[i] = g

(* Of no groups nothing is kept.                                            *)
LEMMA FiltersNone ==
  ASSUME NEW units
  PROVE  \E f : Filters(f, <<>>, units, 0)
<1>1. <<>> \in Seq(Unit) /\ Len(<<>>) = 0
  OBVIOUS
<1>2. 0 = 0 * RecordUnits + 0 /\ 0 \in 0 .. RecordUnits - 1
  BY Sizes
<1>3. (0 * RecordUnits + 0) \div RecordUnits = 0 /\ (0 * RecordUnits + 0) % RecordUnits = 0
  BY <1>2, Sizes, DivModUnique
<1>4. GroupCount(<<>>) = 0 /\ ~Torn(<<>>)
  BY <1>1, <1>2, <1>3 DEF GroupCount, Torn
<1>5. PICK f : f = [i \in 1 .. 0 |-> i]
  OBVIOUS
<1>6. f \in [1 .. 0 -> 1 .. 0]
  BY <1>5
<1>7. Filters(f, <<>>, units, 0)
  BY <1>1, <1>4, <1>6 DEF Filters
<1> QED BY <1>7

(* A record that is not kept leaves what is kept.                           *)
LEMMA FiltersSkip ==
  ASSUME NEW f, NEW k, NEW units, NEW n \in Nat \ {0}, Filters(f, k, units, n - 1),
         ~Keeps(RecordAt(units, n).ts)
  PROVE  Filters(f, k, units, n)
<1>1. f \in [1 .. GroupCount(k) -> 1 .. n]
  BY DEF Filters
<1>2. \A g \in 1 .. n : Keeps(RecordAt(units, g).ts) => g \in 1 .. n - 1
  OBVIOUS
<1> QED BY <1>1, <1>2 DEF Filters

(* A record that is kept adds its group.                                    *)
LEMMA FiltersAdd ==
  ASSUME NEW f, NEW k, NEW units \in Seq(Unit), Whole(units), NEW n \in 1 .. GroupCount(units),
         Filters(f, k, units, n - 1), Keeps(RecordAt(units, n).ts)
  PROVE  \E e : Filters(e, k \o Group(units, n), units, n)
<1>1. PICK r : r = RecordAt(units, n)
  OBVIOUS
<1>2. PICK b : b = k \o UnitsOf(r)
  OBVIOUS
<1>3. PICK m : m = GroupCount(k)
  OBVIOUS
<1>4. r \in Record /\ Group(units, n) = UnitsOf(r)
  BY <1>1, RecordAtType, WholeRecord
<1>5. k \in Seq(Unit) /\ ~Torn(k)
  BY DEF Filters
<1>6. /\ b \in Seq(Unit) /\ Begins(k, b) /\ ~Torn(b)
      /\ GroupCount(b) = m + 1 /\ Group(b, m + 1) = UnitsOf(r)
  BY <1>2, <1>3, <1>4, <1>5, AddedRecord
<1>7. m \in Nat /\ \A i \in 1 .. m : Group(b, i) = Group(k, i)
  BY <1>3, <1>5, <1>6, BeginsGroups
<1>8. f \in [1 .. m -> 1 .. n - 1] /\ n \in Nat \ {0}
  <2>1. Len(units) \in Nat
    OBVIOUS
  <2> QED BY <1>3, <2>1, GroupCountType DEF Filters
<1>9. PICK e : e = [i \in 1 .. m + 1 |-> IF i = m + 1 THEN n ELSE f[i]]
  OBVIOUS
<1>10. e[m + 1] = n /\ \A i \in 1 .. m : e[i] = f[i] /\ e[i] \in 1 .. n - 1
  BY <1>7, <1>8, <1>9
<1>11. \A i \in 1 .. m + 1 : i = m + 1 \/ i \in 1 .. m
  BY <1>7
<1>12. e \in [1 .. m + 1 -> 1 .. n]
  BY <1>8, <1>9, <1>10, <1>11
<1>13. \A i, j \in 1 .. m + 1 : i < j => e[i] < e[j]
  <2> TAKE i, j \in 1 .. m + 1
  <2> HAVE i < j
  <2>1. i \in 1 .. m
    BY <1>7
  <2>2. CASE j = m + 1
    BY <1>8, <1>10, <2>1, <2>2
  <2>3. CASE j \in 1 .. m
    <3>1. f[i] < f[j]
      BY <1>3, <2>1, <2>3 DEF Filters
    <3> QED BY <1>10, <2>1, <2>3, <3>1
  <2> QED BY <1>11, <2>2, <2>3
<1>14. \A i \in 1 .. m + 1 : /\ Group(b, i) = Group(units, e[i])
                             /\ Keeps(RecordAt(units, e[i]).ts)
  <2> TAKE i \in 1 .. m + 1
  <2>1. CASE i = m + 1
    BY <1>4, <1>6, <1>10, <2>1
  <2>2. CASE i \in 1 .. m
    <3>1. Group(k, i) = Group(units, f[i]) /\ Keeps(RecordAt(units, f[i]).ts)
      BY <1>3, <2>2 DEF Filters
    <3> QED BY <1>7, <1>10, <2>2, <3>1
  <2> QED BY <1>11, <2>1, <2>2
<1>15. \A g \in 1 .. n : Keeps(RecordAt(units, g).ts) => \E i \in 1 .. m + 1 : e[i] = g
  <2> TAKE g \in 1 .. n
  <2> HAVE Keeps(RecordAt(units, g).ts)
  <2>1. CASE g = n
    BY <1>7, <1>10, <2>1
  <2>2. CASE g # n
    <3>1. g \in 1 .. n - 1
      BY <1>8, <2>2
    <3>2. PICK i \in 1 .. m : f[i] = g
      BY <1>3, <3>1 DEF Filters
    <3>3. i \in 1 .. m + 1 /\ e[i] = g
      BY <1>7, <1>10, <3>2
    <3> QED BY <3>3
  <2> QED BY <2>1, <2>2
<1>16. Filters(e, b, units, n)
  BY <1>6, <1>12, <1>13, <1>14, <1>15 DEF Filters
<1> QED BY <1>2, <1>4, <1>16

(* So does what CompactAfter keeps of a whole log; of any log it keeps some  *)
(* units.                                                                   *)
LEMMA GroupsType ==
  ASSUME NEW units \in Seq(Unit)
  PROVE  /\ GroupCount(units) \in Nat
         /\ Groups(units) \in [1 .. GroupCount(units) -> Seq(Unit)]
         /\ \A g \in 1 .. GroupCount(units) : Groups(units)[g] = Group(units, g)
<1>1. Len(units) \in Nat
  OBVIOUS
<1>2. \A g \in 1 .. GroupCount(units) : Group(units, g) \in Seq(Unit)
  BY GroupType
<1> QED BY <1>1, <1>2, GroupCountType DEF Groups

(* What is kept of a log is put together group by group.                    *)
LEMMA KeptRun ==
  ASSUME NEW units \in Seq(Unit), NEW bad
  PROVE  \E R \in [0 .. GroupCount(units) -> Seq(Unit)] :
           IsKept(R, GroupCount(units), Groups(units), bad)
<1>1. PICK n, W, groups : n = GroupCount(units) /\ W = Seq(Unit) /\ groups = Groups(units)
  OBVIOUS
<1>2. n \in Nat /\ groups \in [1 .. n -> W]
  BY <1>1, GroupsType
<1>3. <<>> \in W
  BY <1>1
<1>4. \A k \in W, group \in W : KeptStep(k, group, bad) \in W
  BY <1>1 DEF KeptStep
<1>5. \E R \in [0 .. n -> W] : IsKept(R, n, groups, bad)
  BY <1>2, <1>3, <1>4, KeptRuns
<1> QED BY <1>1, <1>5

(* It is a sequence of units, whatever the log is.                          *)
LEMMA KeptType ==
  ASSUME NEW units \in Seq(Unit), NEW bad
  PROVE  KeptOf(Groups(units), bad) \in Seq(Unit)
<1>1. PICK R \in [0 .. GroupCount(units) -> Seq(Unit)] :
        IsKept(R, GroupCount(units), Groups(units), bad)
  BY KeptRun
<1>2. GroupCount(units) \in 0 .. GroupCount(units)
  BY GroupsType
<1> QED BY <1>1, <1>2 DEF IsKept

(* Of a whole log it has the groups whose records are kept.                 *)
LEMMA KeptFilters ==
  ASSUME NEW units \in Seq(Unit), Whole(units), NEW bad
  PROVE  \E f : Filters(f, KeptOf(Groups(units), bad), units, GroupCount(units))
<1>1. PICK n : n = GroupCount(units)
  OBVIOUS
<1>2. PICK R \in [0 .. n -> Seq(Unit)] : IsKept(R, n, Groups(units), bad)
  BY <1>1, KeptRun
<1>3. n \in Nat
  BY <1>1, GroupsType
<1>4. PICK S : S = {i \in 0 .. n : \E f : Filters(f, R[i], units, i)}
  OBVIOUS
<1>5. 0 \in S
  <2>1. R[0] = <<>> /\ 0 \in 0 .. n
    BY <1>2, <1>3 DEF IsKept
  <2> QED BY <1>4, <2>1, FiltersNone
<1>6. ASSUME NEW i \in 1 .. n, i - 1 \in S PROVE i \in S
  <2>1. PICK f : Filters(f, R[i - 1], units, i - 1)
    BY <1>4, <1>6
  <2>2. R[i] = KeptStep(R[i - 1], Groups(units)[i], bad)
    BY <1>2 DEF IsKept
  <2>3. Groups(units)[i] = Group(units, i) /\ i \in 1 .. GroupCount(units)
    BY <1>1, GroupsType
  <2>4. ReadAs(Group(units, i), bad) = RecordAt(units, i)
    BY <2>3, WholeRecord
  <2>5. CASE Keeps(RecordAt(units, i).ts)
    <3>1. R[i] = R[i - 1] \o Group(units, i)
      BY <2>2, <2>3, <2>4, <2>5 DEF KeptStep
    <3>2. \E e : Filters(e, R[i - 1] \o Group(units, i), units, i)
      BY <2>1, <2>3, <2>5, FiltersAdd
    <3>3. i \in 0 .. n
      BY <1>3
    <3> QED BY <1>4, <3>1, <3>2, <3>3
  <2>6. CASE ~Keeps(RecordAt(units, i).ts)
    <3>1. R[i] = R[i - 1]
      BY <2>2, <2>3, <2>4, <2>6 DEF KeptStep
    <3>2. i \in Nat \ {0}
      OBVIOUS
    <3>3. Filters(f, R[i - 1], units, i)
      BY <2>1, <2>6, <3>2, FiltersSkip
    <3> QED BY <1>3, <1>4, <3>1, <3>3
  <2> QED BY <2>5, <2>6
<1>7. \A i \in 0 .. n : i \in S
  BY <1>3, <1>5, <1>6, PassedOn
<1>8. n \in S
  BY <1>3, <1>7
<1> QED BY <1>1, <1>2, <1>4, <1>8 DEF IsKept

-----------------------------------------------------------------------------
(* The replay.                                                              *)

(* Stones are not empty cells.                                              *)
LEMMA Stones == \A t \in Team : t # Empty /\ Opponent(t) # Empty
BY DEF Team, Opponent, Empty, Black, White

(* Only stones are turned over.                                             *)
LEMMA FlipsStones ==
  ASSUME NEW b, NEW p, NEW team \in Team, NEW q \in Flips(b, p, team)
  PROVE  b[q] # Empty
<1>1. PICK i \in DOMAIN Directions : q \in RayFlips(b, p, Directions[i], team)
  BY DEF Flips
<1>2. PICK k \in 1 .. MaxFlipDistance :
        /\ Brackets(b, p, Directions[i], k, team)
        /\ \E j \in 1 .. k - 1 : q = Along(p, Directions[i], j)
  BY <1>1 DEF RayFlips
<1> QED BY <1>2, Stones DEF Brackets

(* A placement occupies its cell and no other.                              *)
LEMMA PlacedOccupied ==
  ASSUME NEW b \in Boards, NEW p \in Coord, NEW team \in Team
  PROVE  Placed(b, p, team) \in Boards /\ Occupied(Placed(b, p, team)) = Occupied(b) \cup {p}
<1>1. Placed(b, p, team) \in Boards
  BY DEF Placed, Boards, Cell
<1>2. \A q \in Coord : Placed(b, p, team)[q] # Empty <=> (b[q] # Empty \/ q = p)
  BY Stones, FlipsStones DEF Placed
<1> QED BY <1>1, <1>2 DEF Occupied

(* What the replay makes of a record.                                       *)
LEMMA AppliedType ==
  ASSUME NEW c \in Boards, NEW r, NEW since
  PROVE  /\ Applied(c, r, since) \in Boards
         /\ Occupied(c) \subseteq Occupied(Applied(c, r, since))
         /\ Occupied(Applied(c, r, since)) \subseteq Occupied(c) \cup {r.at}
<1>1. CASE Skipped(r.ts, since)
  BY <1>1 DEF Applied
<1>2. CASE ~Skipped(r.ts, since)
  <2>1. Applied(c, r, since) = replayCommittedPlacement(c, r)
    BY <1>2 DEF Applied
  <2>2. CASE InBounds(r.at) /\ r.team \in Team /\ Flips(c, r.at, r.team) # {}
    <3>1. replayCommittedPlacement(c, r) = Placed(c, r.at, r.team)
      BY <2>2 DEF replayCommittedPlacement
    <3>2. Placed(c, r.at, r.team) \in Boards
      BY <2>2 DEF Placed, Boards, Cell
    <3>3. \A q \in Coord : /\ c[q] # Empty => Placed(c, r.at, r.team)[q] # Empty
                           /\ Placed(c, r.at, r.team)[q] # Empty => c[q] # Empty \/ q = r.at
      BY <2>2, Stones, FlipsStones DEF Placed
    <3> QED BY <2>1, <3>1, <3>2, <3>3 DEF Occupied
  <2>3. CASE ~(InBounds(r.at) /\ r.team \in Team /\ Flips(c, r.at, r.team) # {})
    BY <2>1, <2>3 DEF replayCommittedPlacement
  <2> QED BY <2>2, <2>3
<1> QED BY <1>1, <1>2

(* The replay of records one after the other.                               *)
LEMMA ReplayRun ==
  ASSUME NEW n \in Nat, NEW b \in Boards, NEW since, NEW recs, DOMAIN recs = 1 .. n,
         recs = [i \in 1 .. n |-> recs[i]]
  PROVE  \E R \in [0 .. n -> Boards] : IsReplay(R, n, b, since, recs)
<1>1. PICK V : V = {recs[i] : i \in 1 .. n}
  OBVIOUS
<1>2. recs \in [1 .. n -> V]
  BY <1>1
<1>3. \A c \in Boards, r \in V : Applied(c, r, since) \in Boards
  BY AppliedType
<1> QED BY <1>2, <1>3, ReplayRuns

(* What is restored is a board.                                             *)
LEMMA SeedType == FreshBoard \in Boards
<1>1. \A q \in Coord : SeedBoard[q] \in Cell
  BY DEF SeedBoard, Cell, Team
<1> QED BY <1>1 DEF FreshBoard, SeedBoard, Boards

(* Whatever the log is, a board is restored.                                *)
LEMMA RestoredType ==
  ASSUME log \in Seq(Unit), NEW bad
  PROVE  Restored(bad) \in Boards
<1>1. CASE ~Loadable
  BY <1>1, SeedType DEF Restored
<1>2. CASE Loadable
  <2>1. PICK b, since, recs, n : /\ b = decodeBoard(files[meta.file]) /\ since = meta.ts
                                 /\ recs = RecordsOf(log, bad) /\ n = GroupCount(log)
    OBVIOUS
  <2>2. n \in Nat /\ b \in Boards
    BY <2>1, GroupsType, DecodeType
  <2>3. DOMAIN recs = 1 .. n /\ recs = [i \in 1 .. n |-> recs[i]]
    BY <2>1 DEF RecordsOf
  <2>4. PICK R \in [0 .. n -> Boards] : IsReplay(R, n, b, since, recs)
    BY <2>2, <2>3, ReplayRun
  <2>5. R[n] \in Boards /\ Replay(b, since, recs) = R[n]
    BY <2>2, <2>4 DEF IsReplay
  <2>6. Restored(bad) = Replay(b, since, recs)
    BY <1>2, <2>1 DEF Restored, ReplayWAL, Replay
  <2> QED BY <2>5, <2>6
<1> QED BY <1>1, <1>2

-----------------------------------------------------------------------------
(* The types.  A handler that has committed holds a record; the rest is      *)
(* inductive by itself.                                                     *)

Busy == \A h \in Handlers : pc[h] # "idle" => rec[h] \in Record

Typed == TypeOK /\ Busy

(* The types hold at first.                                                 *)
LEMMA TypedInit == Init => Typed
<1> SUFFICES ASSUME Init PROVE Typed
  OBVIOUS
<1>1. FreshBoard \in Boards /\ encodeBoard(FreshBoard) \in Seq(Nat)
  BY SeedType, EncodeType
<1>2. MaxClock \in Nat \ {0} /\ MaxLives \in Nat \ {0} /\ OldLogs \subseteq Seq(Unit)
  BY PersistenceAssumption
<1>3. <<>> \in Seq(Unit) /\ Len(<<>>) = 0 /\ <<>> \in Seq(Nat) /\ <<FreshBoard>> \in Seq([Coord -> Cell])
  BY <1>1 DEF Boards
<1>4. [ts |-> 0, file |-> 0] \in [ts : Time, file : Time]
  BY <1>2 DEF Time
<1>5. /\ rec \in [Handlers -> Record \cup {None}] /\ pc \in [Handlers -> {"idle", "stamp", "append"}]
      /\ order \in [Handlers -> Nat] /\ Busy
  BY DEF Init, Busy
<1>6. files \in [Time -> Seq(Nat)]
  BY <1>1, <1>3 DEF Init, NoFile
<1>7. meta \in {NoMeta} \cup [ts : Time, file : Time]
  BY <1>4 DEF Init
<1>8. log \in Seq(Unit) /\ buffer \in Seq(Unit) /\ Len(buffer) <= BufferUnits /\ kept \in Seq(Unit)
      /\ image \in Seq(Nat) /\ trail \in Seq([Coord -> Cell])
  BY <1>2, <1>3, Sizes DEF Init, NoFile
<1>9. /\ board \in [Coord -> Cell] /\ phase \in {"up", "closed", "down"}
      /\ clock \in Time /\ fired \in Time /\ cut \in Time /\ lives \in 1 .. MaxLives
      /\ broken \in BOOLEAN
      /\ writer \in {"wait", "image", "data", "meta", "compact", "truncate", "rewrite"}
      /\ secured \subseteq Coord /\ appended \subseteq Targets
      /\ mishaps \subseteq {"same time", "overtaken", "log cut", "torn"}
  <2>1. 0 \in Time /\ 1 \in Time /\ 1 \in 1 .. MaxLives
    BY <1>2 DEF Time
  <2>2. board \in [Coord -> Cell]
    BY <1>1 DEF Init, Boards
  <2>3. mishaps \subseteq {"same time", "overtaken", "log cut", "torn"}
    BY DEF Init
  <2> QED BY <2>1, <2>2, <2>3 DEF Init
<1> QED BY <1>5, <1>6, <1>7, <1>8, <1>9 DEF Typed, TypeOK

(* The two parts of what is written out as far as it goes.                  *)
LEMMA CutType ==
  ASSUME NEW l \in Seq(Unit), NEW all \in Seq(Unit), NEW n \in 0 .. Len(all), NEW m \in 0 .. Len(all)
  PROVE  /\ l \o SubSeq(all, 1, n) \in Seq(Unit)
         /\ SubSeq(all, n + 1, m) \in Seq(Unit)
         /\ Len(SubSeq(all, n + 1, m)) = IF n < m THEN m - n ELSE 0
OBVIOUS

(* What a flush, or a part of one, leaves.                                  *)
LEMMA FlushTyped ==
  ASSUME Typed, FlushSucceeds \/ FlushFails
  PROVE  log' \in Seq(Unit) /\ buffer' \in Seq(Unit) /\ Len(buffer') <= BufferUnits
         /\ broken' \in BOOLEAN
<1>0. log \in Seq(Unit) /\ buffer \in Seq(Unit) /\ Len(buffer) <= BufferUnits /\ broken \in BOOLEAN
  BY DEF Typed, TypeOK
<1>1. log \in Seq(Unit) /\ buffer \in Seq(Unit) /\ Len(buffer) <= BufferUnits /\ broken \in BOOLEAN
      /\ Len(buffer) \in Nat
  BY <1>0
<1>2. CASE FlushSucceeds
  BY <1>1, <1>2, Sizes DEF FlushSucceeds
<1>3. CASE FlushFails
  <2>1. PICK n \in 0 .. Len(buffer) - 1 : /\ log' = log \o SubSeq(buffer, 1, n)
                                          /\ buffer' = SubSeq(buffer, n + 1, Len(buffer))
    BY <1>3 DEF FlushFails
  <2>2. n \in 0 .. Len(buffer) /\ Len(buffer) \in 0 .. Len(buffer)
    BY <1>1
  <2>3. /\ log' \in Seq(Unit) /\ buffer' \in Seq(Unit) 
        /\ Len(buffer') = IF n < Len(buffer) THEN Len(buffer) - n ELSE 0
    BY <1>1, <2>1, <2>2, CutType
  <2>4. Len(buffer') <= BufferUnits
    BY <1>1, <2>2, <2>3, Sizes
  <2> QED BY <1>3, <2>3, <2>4 DEF FlushFails
<1> QED BY <1>2, <1>3

(* What an append leaves.                                                   *)
LEMMA AppendTyped ==
  ASSUME Typed, NEW h \in Handlers, AppendRecord(h)
  PROVE  log' \in Seq(Unit) /\ buffer' \in Seq(Unit) /\ Len(buffer') <= BufferUnits
         /\ broken' \in BOOLEAN /\ appended' \subseteq Targets
<1>1. log \in Seq(Unit) /\ buffer \in Seq(Unit) /\ Len(buffer) <= BufferUnits /\ broken \in BOOLEAN
      /\ appended \subseteq Targets
  BY DEF Typed, TypeOK
<1>2. rec[h] \in Record
  BY DEF Typed, Busy, AppendRecord
<1>3. rec[h].at \in Targets
  BY <1>2 DEF Record
<1>4. UnitsOf(rec[h]) \in Seq(Unit) /\ Len(UnitsOf(rec[h])) = RecordUnits
  BY <1>2, UnitsOfType
<1>5. PICK all : all = buffer \o UnitsOf(rec[h])
  OBVIOUS
<1>6. all \in Seq(Unit) /\ Len(all) = Len(buffer) + RecordUnits /\ Len(all) \in Nat
      /\ Len(all) <= BufferUnits + BufferUnits
  <2>1. all \in Seq(Unit) /\ Len(all) = Len(buffer) + RecordUnits
    BY <1>1, <1>4, <1>5, ConcatProperties
  <2>2. Len(buffer) \in Nat
    BY <1>1
  <2> QED BY <1>1, <2>1, <2>2, Sizes
<1>7. CASE broken /\ UNCHANGED <<buffer, broken, log, appended>>
  BY <1>1, <1>7
<1>8. CASE /\ ~broken /\ Fits(all)
           /\ buffer' = all
           /\ appended' = appended \cup {rec[h].at}
           /\ UNCHANGED <<broken, log>>
  BY <1>1, <1>3, <1>6, <1>8 DEF Fits
<1>9. CASE /\ ~broken /\ ~Fits(all) /\ phase = "up"
           /\ log' = log \o SubSeq(all, 1, BufferUnits)
           /\ buffer' = SubSeq(all, BufferUnits + 1, Len(all))
           /\ appended' = appended \cup {rec[h].at}
           /\ UNCHANGED broken
  <2>1. BufferUnits \in 0 .. Len(all) /\ Len(all) \in 0 .. Len(all)
    BY <1>6, <1>9, Sizes DEF Fits
  <2>2. log' \in Seq(Unit) /\ buffer' \in Seq(Unit)
        /\ Len(buffer') = IF BufferUnits < Len(all) THEN Len(all) - BufferUnits ELSE 0
    BY <1>1, <1>6, <1>9, <2>1, CutType
  <2>3. Len(buffer') <= BufferUnits
    BY <1>6, <2>1, <2>2, Sizes
  <2> QED BY <1>1, <1>3, <1>9, <2>2, <2>3
<1>10. CASE /\ ~broken /\ ~Fits(all)
            /\ \E n \in 0 .. IF phase = "up" THEN BufferUnits - 1 ELSE 0 :
                 /\ log' = log \o SubSeq(all, 1, n)
                 /\ buffer' = SubSeq(all, n + 1, BufferUnits)
            /\ broken' = TRUE
            /\ UNCHANGED appended
  <2>1. PICK n \in 0 .. IF phase = "up" THEN BufferUnits - 1 ELSE 0 :
                 /\ log' = log \o SubSeq(all, 1, n)
                 /\ buffer' = SubSeq(all, n + 1, BufferUnits)
    BY <1>10
  <2>2. BufferUnits \in 0 .. Len(all) /\ n \in 0 .. Len(all) /\ n < BufferUnits
    BY <1>6, <1>10, Sizes DEF Fits
  <2>3. log' \in Seq(Unit) /\ buffer' \in Seq(Unit)
        /\ Len(buffer') = IF n < BufferUnits THEN BufferUnits - n ELSE 0
    BY <1>1, <1>6, <2>1, <2>2, CutType
  <2>4. Len(buffer') <= BufferUnits
    BY <2>2, <2>3, Sizes
  <2> QED BY <1>1, <1>10, <2>3, <2>4
<1> QED BY <1>5, <1>7, <1>8, <1>9, <1>10 DEF AppendRecord

(* What compaction keeps.                                                   *)
LEMMA CompactTyped ==
  ASSUME Typed, Compact
  PROVE  kept' \in Seq(Unit)
<1>1. log' \in Seq(Unit)
  BY FlushTyped DEF Compact
<1>2. PICK bad \in Garbage : kept' = KeptOf(Groups(log'), bad)
  BY DEF Compact, KeptOf
<1> QED BY <1>1, <1>2, KeptType

(* Every step keeps the types.                                              *)
LEMMA TypedStep == Typed /\ [Next]_vars => Typed'
<1> SUFFICES ASSUME Typed, [Next]_vars PROVE Typed'
  OBVIOUS
<1>0. TypeOK /\ Busy
  BY DEF Typed
<1>1. /\ MaxClock \in Nat \ {0} /\ MaxLives \in Nat \ {0} /\ Targets \subseteq Coord
      /\ TeamOf \in [Handlers -> Team]
  BY PersistenceAssumption
<1>2. \A b \in Boards, q \in Targets, h \in Handlers : Placed(b, q, TeamOf[h]) \in Boards
  BY <1>1, PlacedOccupied
<1>3. <<>> \in Seq(Unit) /\ <<>> \in Seq(Nat) /\ Len(<<>>) = 0 /\ 0 \in Time
  BY <1>1 DEF Time
<1> USE DEF NoFile
<1>4. CASE Tick
  <2>1. clock' \in Time
    <3>1. clock \in 0 .. MaxClock
      BY <1>0 DEF TypeOK, Time
    <3> QED BY <1>1, <1>4, <3>1 DEF Tick, Time
  <2> QED BY <1>0, <1>4, <2>1 DEF Tick, Typed, TypeOK, Busy, memory, taking, disk, history
<1>5. ASSUME NEW h \in Handlers, Commit(h) PROVE Typed'
  <2>1. PICK q \in Targets :
          /\ board' = Placed(board, q, TeamOf[h])
          /\ rec' = [rec EXCEPT ![h] = [None EXCEPT !.at = q, !.team = TeamOf[h]]]
    BY <1>5 DEF Commit
  <2>2. board' \in [Coord -> Cell]
    BY <1>0, <1>2, <2>1 DEF TypeOK, Boards
  <2>3. [None EXCEPT !.at = q, !.team = TeamOf[h]] \in Record
    <3>1. TeamOf[h] \in Team /\ 0 \in Time
      BY <1>1 DEF Time
    <3>2. None \in [at : {<<0, 0>>} \cup Targets, team : {Empty} \cup Team, ts : Time]
      BY <3>1 DEF None
    <3> QED BY <3>1, <3>2 DEF Record
  <2>4. /\ rec' \in [Handlers -> Record \cup {None}] /\ rec'[h] \in Record
        /\ \A i \in Handlers : i = h \/ rec'[i] = rec[i]
    BY <1>0, <2>1, <2>3 DEF TypeOK
  <2>5. /\ pc' \in [Handlers -> {"idle", "stamp", "append"}]
        /\ \A i \in Handlers : i = h \/ pc'[i] = pc[i]
    BY <1>0, <1>5 DEF Commit, TypeOK
  <2>6. trail' \in Seq([Coord -> Cell]) /\ Len(trail') \in Nat
    <3>1. trail \in Seq([Coord -> Cell]) /\ trail' = Append(trail, board')
      BY <1>0, <1>5 DEF Commit, TypeOK
    <3> QED BY <2>2, <3>1
  <2>7. order' \in [Handlers -> Nat]
    BY <1>0, <1>5, <2>6 DEF Commit, TypeOK
  <2>8. Busy'
    BY <1>0, <2>4, <2>5 DEF Busy
  <2> QED BY <1>0, <1>5, <2>2, <2>4, <2>5, <2>6, <2>7, <2>8
          DEF Commit, Typed, TypeOK, taking, disk
<1>6. ASSUME NEW h \in Handlers, Stamp(h) PROVE Typed'
  <2>1. rec[h] \in Record
    BY <1>0, <1>6 DEF Stamp, Busy
  <2>2. [rec[h] EXCEPT !.ts = clock] \in Record
    BY <1>0, <2>1 DEF Record, TypeOK
  <2>3. /\ rec' \in [Handlers -> Record \cup {None}] /\ rec'[h] \in Record
        /\ \A i \in Handlers : i = h \/ rec'[i] = rec[i]
    BY <1>0, <1>6, <2>2 DEF Stamp, TypeOK
  <2>4. /\ pc' \in [Handlers -> {"idle", "stamp", "append"}]
        /\ \A i \in Handlers : i = h \/ pc'[i] = pc[i]
    BY <1>0, <1>6 DEF Stamp, TypeOK
  <2>5. Busy'
    BY <1>0, <2>3, <2>4 DEF Busy
  <2>6. mishaps' \subseteq {"same time", "overtaken", "log cut", "torn"}
    BY <1>0, <1>6 DEF Stamp, TypeOK
  <2> QED BY <1>0, <1>6, <2>3, <2>4, <2>5, <2>6 DEF Stamp, Typed, TypeOK, taking, disk
<1>7. ASSUME NEW h \in Handlers, AppendRecord(h) PROVE Typed'
  <2>1. /\ log' \in Seq(Unit) /\ buffer' \in Seq(Unit) /\ Len(buffer') <= BufferUnits
        /\ broken' \in BOOLEAN /\ appended' \subseteq Targets
    BY <1>7, AppendTyped
  <2>2. /\ rec' \in [Handlers -> Record \cup {None}]
        /\ pc' \in [Handlers -> {"idle", "stamp", "append"}] /\ pc'[h] = "idle"
        /\ \A i \in Handlers : i = h \/ (pc'[i] = pc[i] /\ rec'[i] = rec[i])
    BY <1>0, <1>7 DEF AppendRecord, TypeOK
  <2>3. Busy'
    BY <1>0, <2>2 DEF Busy
  <2>4. mishaps' \subseteq {"same time", "overtaken", "log cut", "torn"}
    BY <1>0, <1>7 DEF AppendRecord, TypeOK
  <2> QED BY <1>0, <1>7, <2>1, <2>2, <2>3, <2>4 DEF AppendRecord, Typed, TypeOK, taking
<1>8. CASE SyncWAL
  <2>1. log' \in Seq(Unit) /\ buffer' \in Seq(Unit) /\ Len(buffer') <= BufferUnits
        /\ broken' \in BOOLEAN
    BY <1>8, FlushTyped DEF SyncWAL
  <2>2. secured' \subseteq Coord
    BY <1>0, <1>1, <1>8 DEF SyncWAL, TypeOK
  <2> QED BY <1>0, <1>8, <2>1, <2>2 DEF SyncWAL, Typed, TypeOK, Busy, taking
<1>9. CASE CloseWAL
  <2>1. log' \in Seq(Unit) /\ buffer' \in Seq(Unit) /\ Len(buffer') <= BufferUnits
        /\ broken' \in BOOLEAN
    BY <1>0, <1>9, FlushTyped DEF CloseWAL, TypeOK
  <2>2. secured' \subseteq Coord
    BY <1>0, <1>1, <1>9 DEF CloseWAL, TypeOK
  <2> QED BY <1>0, <1>9, <2>1, <2>2 DEF CloseWAL, Typed, TypeOK, Busy, taking
<1>10. CASE TakeTime
  BY <1>0, <1>10 DEF TakeTime, WriterAt, Typed, TypeOK, Busy, memory, disk, history
<1>11. CASE EncodeBoard
  <2>1. image' \in Seq(Nat)
    BY <1>0, <1>11, EncodeType DEF EncodeBoard, TypeOK, Boards
  <2> QED BY <1>0, <1>11, <2>1 DEF EncodeBoard, WriterAt, Typed, TypeOK, Busy, memory, disk, history
<1>12. CASE WriteData
  BY <1>0, <1>12 DEF WriteData, WriterAt, Typed, TypeOK, Busy, memory, history
<1>13. CASE WriteMeta
  <2>1. secured' \subseteq Coord
    BY <1>0, <1>13 DEF WriteMeta, TypeOK, Occupied
  <2>2. meta' \in {NoMeta} \cup [ts : Time, file : Time]
    BY <1>0, <1>13 DEF WriteMeta, TypeOK
  <2> QED BY <1>0, <1>13, <2>1, <2>2 DEF WriteMeta, WriterAt, Typed, TypeOK, Busy, memory
<1>14. CASE WriteSnapshotFails
  BY <1>0, <1>1, <1>3, <1>14 DEF WriteSnapshotFails, RoundEnds, WriterAt, Typed, TypeOK, Busy,
                                 memory, disk, history
<1>15. CASE CompactFails
  <2>1. log' \in Seq(Unit) /\ buffer' \in Seq(Unit) /\ Len(buffer') <= BufferUnits
        /\ broken' \in BOOLEAN
    BY <1>0, <1>15, FlushTyped DEF CompactFails, TypeOK
  <2> QED BY <1>0, <1>1, <1>3, <1>15, <2>1
          DEF CompactFails, RoundEnds, WriterAt, Typed, TypeOK, Busy, history
<1>16. CASE Compact
  <2>1. log' \in Seq(Unit) /\ buffer' \in Seq(Unit) /\ Len(buffer') <= BufferUnits
        /\ broken' \in BOOLEAN /\ kept' \in Seq(Unit)
    BY <1>0, <1>16, FlushTyped, CompactTyped DEF Compact
  <2> QED BY <1>0, <1>16, <2>1 DEF Compact, WriterAt, Typed, TypeOK, Busy, history
<1>17. CASE Truncate
  BY <1>0, <1>3, <1>17 DEF Truncate, WriterAt, Typed, TypeOK, Busy, memory, history
<1>18. CASE Rewrite
  <2>1. log' \in Seq(Unit)
    <3>1. CASE log' = kept
      BY <1>0, <3>1 DEF TypeOK
    <3>2. CASE \E n \in 0 .. Len(kept) - 1 : log' = SubSeq(kept, 1, n)
      <4>1. PICK n \in 0 .. Len(kept) - 1 : log' = SubSeq(kept, 1, n)
        BY <3>2
      <4>2. kept \in Seq(Unit) /\ n \in 0 .. Len(kept)
        <5>1. kept \in Seq(Unit)
          BY <1>0 DEF TypeOK
        <5> QED BY <5>1
      <4> QED BY <4>1, <4>2, BeginsSubSeq
    <3> QED BY <1>18, <3>1, <3>2 DEF Rewrite
  <2>2. mishaps' \subseteq {"same time", "overtaken", "log cut", "torn"}
    BY <1>0, <1>18 DEF Rewrite, TypeOK
  <2> QED BY <1>0, <1>1, <1>3, <1>18, <2>1, <2>2
          DEF Rewrite, RoundEnds, WriterAt, Typed, TypeOK, Busy, memory
<1>19. ASSUME NEW g, Stop(g) PROVE Typed'
  <2>1. mishaps' \subseteq {"same time", "overtaken", "log cut", "torn"}
    BY <1>0, <1>19 DEF Stop, TypeOK
  <2>2. Busy'
    BY <1>19 DEF Stop, Busy
  <2>3. /\ pc' \in [Handlers -> {"idle", "stamp", "append"}]
        /\ rec' \in [Handlers -> Record \cup {None}] /\ order' \in [Handlers -> Nat]
    BY <1>19 DEF Stop
  <2>4. buffer' \in Seq(Unit) /\ Len(buffer') <= BufferUnits /\ kept' \in Seq(Unit)
    <3>1. buffer' = <<>> /\ kept' = <<>>
      BY <1>19 DEF Stop
    <3>2. Len(<<>>) <= BufferUnits
      BY <1>3, Sizes
    <3> QED BY <1>3, <3>1, <3>2
  <2> QED BY <1>0, <1>3, <1>19, <2>1, <2>2, <2>3, <2>4 DEF Stop, Typed, TypeOK, disk
<1>20. CASE Exit
  BY <1>19, <1>20 DEF Exit
<1>21. CASE Crash
  BY <1>19, <1>21 DEF Crash
<1>22. CASE Restart
  <2>1. board' \in [Coord -> Cell]
    BY <1>0, <1>22, RestoredType DEF Restart, TypeOK, Boards
  <2>2. trail' \in Seq([Coord -> Cell])
    BY <1>22, <2>1 DEF Restart
  <2>3. clock' \in Time /\ fired' \in Time /\ lives' \in 1 .. MaxLives
    <3>1. clock \in 0 .. MaxClock /\ lives \in 1 .. MaxLives
      BY <1>0 DEF TypeOK, Time
    <3> QED BY <1>1, <1>22, <3>1 DEF Restart, Time
  <2>4. mishaps' \subseteq {"same time", "overtaken", "log cut", "torn"} /\ secured' \subseteq Coord
    BY <1>0, <1>22 DEF Restart, TypeOK
  <2> QED BY <1>0, <1>22, <2>1, <2>2, <2>3, <2>4
          DEF Restart, Typed, TypeOK, Busy, memory, disk
<1>23. CASE UNCHANGED vars
  BY <1>0, <1>23 DEF vars, Typed, TypeOK, Busy, memory, taking, disk, history
<1> QED BY <1>4, <1>5, <1>6, <1>7, <1>8, <1>9, <1>10, <1>11, <1>12, <1>13, <1>14, <1>15, <1>16,
           <1>17, <1>18, <1>20, <1>21, <1>22, <1>23 DEF Next

(* The types hold at all times.                                             *)
LEMMA TypedAlways == Spec => []Typed
<1>1. Typed /\ [Next]_vars => Typed'
  BY TypedStep
<1> QED BY <1>1, TypedInit, PTL DEF Spec

(* Every variable has its type.                                             *)
THEOREM TypeCorrect == Spec => []TypeOK
<1>1. Typed => TypeOK
  BY DEF Typed
<1> QED BY <1>1, TypedAlways, PTL

-----------------------------------------------------------------------------
(* How far the writer of snapshots is, and the order of the times.          *)

Stages ==
  /\ meta.ts <= fired /\ fired <= clock
  /\ meta # NoMeta => meta.file = meta.ts /\ files[meta.file] # NoFile
  /\ writer # "wait" => cut = fired
  /\ writer \in {"image", "data", "meta"} => meta.ts < cut
  /\ writer \in {"wait", "image"} <=> image = NoFile
  /\ writer \in {"meta", "compact", "truncate", "rewrite"} => files[cut] = image
  /\ writer \in {"compact", "truncate", "rewrite"} => meta = [ts |-> cut, file |-> cut]
  /\ writer \in {"truncate", "rewrite"} => buffer = <<>> /\ ~broken
  /\ writer \notin {"truncate", "rewrite"} => kept = <<>>
  /\ writer = "rewrite" => log = <<>>
  /\ phase = "down" => /\ writer = "wait" /\ buffer = <<>> /\ ~broken /\ appended = {}
                       /\ \A h \in Handlers : pc[h] = "idle"
  /\ \A h \in Handlers : rec[h].ts <= clock

(* The writer waits at first.                                               *)
LEMMA StagesInit == Init => Stages
<1> SUFFICES ASSUME Init PROVE Stages
  OBVIOUS
<1>1. encodeBoard(FreshBoard) # NoFile
  BY SeedType, EncodeType
<1>2. 0 \in Time
  BY PersistenceAssumption DEF Time
<1>3. files[0] # NoFile
  BY <1>1, <1>2 DEF Init
<1>4. meta.ts = 0
  BY DEF Init, NoMeta
<1>5. meta # NoMeta => meta.file = meta.ts /\ files[meta.file] # NoFile
  BY <1>3 DEF Init
<1>6. \A h \in Handlers : rec[h].ts <= clock
  BY DEF Init, None
<1> QED BY <1>4, <1>5, <1>6 DEF Init, Stages

(* The values a stage compares.                                             *)
LEMMA TimesType ==
  ASSUME Typed
  PROVE  /\ meta.ts \in Nat /\ fired \in Nat /\ clock \in Nat /\ cut \in Nat
         /\ \A h \in Handlers : rec[h].ts \in Nat
         /\ \A t \in Time : t \in Nat
<1>1. \A t \in Time : t \in Nat
  BY PersistenceAssumption DEF Time
<1>2. meta.ts \in Nat
  <2>1. meta = NoMeta \/ meta \in [ts : Time, file : Time]
    BY DEF Typed, TypeOK
  <2> QED BY <1>1, <2>1 DEF NoMeta
<1>3. \A h \in Handlers : rec[h].ts \in Nat
  <2> TAKE h \in Handlers
  <2>1. rec[h] \in Record \cup {None}
    BY DEF Typed, TypeOK
  <2> QED BY <1>1, <2>1 DEF Record, None
<1> QED BY <1>1, <1>2, <1>3 DEF Typed, TypeOK

(* Every step keeps the stages of the writer.                               *)
LEMMA StagesStep == Typed /\ Stages /\ [Next]_vars => Stages'
<1> SUFFICES ASSUME Typed, Stages, [Next]_vars PROVE Stages'
  OBVIOUS
<1>0. /\ meta.ts \in Nat /\ fired \in Nat /\ clock \in Nat /\ cut \in Nat
      /\ \A h \in Handlers : rec[h].ts \in Nat
  BY TimesType
<1>t. /\ rec \in [Handlers -> Record \cup {None}] /\ pc \in [Handlers -> {"idle", "stamp", "append"}]
      /\ files \in [Time -> Seq(Nat)] /\ cut \in Time /\ fired \in Time /\ clock \in Time
      /\ board \in Boards /\ writer \in {"wait", "image", "data", "meta", "compact", "truncate", "rewrite"}
  BY DEF Typed, TypeOK, Boards
<1>1. CASE Tick
  BY <1>0, <1>1 DEF Tick, Stages, memory, taking, disk, history, Loadable
<1>2. ASSUME NEW h \in Handlers, Commit(h) PROVE Stages'
  <2>1. PICK q \in Targets : rec' = [rec EXCEPT ![h] = [None EXCEPT !.at = q, !.team = TeamOf[h]]]
    BY <1>2 DEF Commit
  <2>2. [None EXCEPT !.at = q, !.team = TeamOf[h]].ts = 0
    BY DEF None
  <2>3. \A i \in Handlers : rec'[i].ts <= clock
    BY <1>0, <1>t, <2>1, <2>2 DEF Stages
  <2>4. phase # "down"
    BY <1>2 DEF Commit, Running
  <2> QED BY <1>2, <2>3, <2>4 DEF Commit, Stages, taking, disk
<1>3. ASSUME NEW h \in Handlers, Stamp(h) PROVE Stages'
  <2>1. rec' = [rec EXCEPT ![h] = [rec[h] EXCEPT !.ts = clock]]
    BY <1>3 DEF Stamp
  <2>2. [rec[h] EXCEPT !.ts = clock].ts = clock
    BY <1>t, <1>3 DEF Record, None, Stamp, Typed, Busy
  <2>3. \A i \in Handlers : rec'[i].ts <= clock
    BY <1>0, <1>t, <2>1, <2>2 DEF Stages
  <2>4. phase # "down"
    BY <1>3 DEF Stamp, Running
  <2> QED BY <1>3, <2>3, <2>4 DEF Stamp, Stages, taking, disk
<1>4. ASSUME NEW h \in Handlers, AppendRecord(h) PROVE Stages'
  <2>1. rec' = [rec EXCEPT ![h] = None] /\ None.ts = 0
    BY <1>4 DEF AppendRecord, None
  <2>2. \A i \in Handlers : rec'[i].ts <= clock
    BY <1>0, <1>t, <2>1 DEF Stages
  <2>3. phase # "down" /\ writer \notin {"truncate", "rewrite"}
    BY <1>4 DEF AppendRecord, Running, Unlocked
  <2> QED BY <1>4, <2>2, <2>3 DEF AppendRecord, Stages, taking
<1>5. CASE SyncWAL
  <2>1. phase # "down" /\ writer \notin {"truncate", "rewrite"}
    BY <1>5 DEF SyncWAL, FlushSucceeds, FlushFails, Unlocked
  <2> QED BY <1>5, <2>1 DEF SyncWAL, Stages, taking
<1>6. CASE CloseWAL
  <2>1. phase # "down" /\ phase' # "down" /\ writer \notin {"truncate", "rewrite"}
    BY <1>6 DEF CloseWAL, Unlocked
  <2> QED BY <1>6, <2>1 DEF CloseWAL, Stages, taking
<1>7. CASE TakeTime
  BY <1>0, <1>7 DEF TakeTime, WriterAt, Running, Stages, memory, disk, history
<1>8. CASE EncodeBoard
  <2>1. image' # NoFile
    BY <1>t, <1>8, EncodeType DEF EncodeBoard
  <2> QED BY <1>8, <2>1 DEF EncodeBoard, WriterAt, Running, Stages, memory, disk, history
<1>9. CASE WriteData
  <2>1. files'[cut] = image /\ \A t \in Time : files'[t] = IF t = cut THEN image ELSE files[t]
    BY <1>t, <1>9 DEF WriteData
  <2>2. meta # NoMeta => meta.file \in Time /\ meta.file # cut
    <3>1. meta = NoMeta \/ meta \in [ts : Time, file : Time]
      BY DEF Typed, TypeOK
    <3>2. meta # NoMeta => meta.file = meta.ts /\ meta.ts < cut
      BY <1>9 DEF WriteData, WriterAt, Stages
    <3> QED BY <1>0, <3>1, <3>2
  <2> QED BY <1>9, <2>1, <2>2 DEF WriteData, WriterAt, Running, Stages, memory, history
<1>10. CASE WriteMeta
  <2>1. meta' = [ts |-> cut, file |-> cut] /\ cut = fired /\ image # NoFile /\ files[cut] = image
    BY <1>10 DEF WriteMeta, WriterAt, Stages
  <2> QED BY <1>0, <1>10, <2>1 DEF WriteMeta, WriterAt, Running, Stages, memory
<1>11. CASE WriteSnapshotFails
  BY <1>11 DEF WriteSnapshotFails, RoundEnds, WriterAt, Running, Stages, memory, disk, history
<1>12. CASE CompactFails
  BY <1>12 DEF CompactFails, RoundEnds, WriterAt, Running, Stages, history
<1>13. CASE Compact
  BY <1>13 DEF Compact, FlushSucceeds, WriterAt, Running, Stages, history
<1>14. CASE Truncate
  BY <1>14 DEF Truncate, WriterAt, Running, Stages, memory, history
<1>15. CASE Rewrite
  BY <1>15 DEF Rewrite, RoundEnds, WriterAt, Running, Stages, memory
<1>16. ASSUME NEW g, Stop(g) PROVE Stages'
  <2>1. \A h \in Handlers : rec'[h].ts <= clock /\ pc'[h] = "idle"
    <3>1. None.ts = 0
      BY DEF None
    <3>2. \A h \in Handlers : rec'[h] = None /\ pc'[h] = "idle"
      BY <1>16 DEF Stop
    <3>3. 0 <= clock
      BY <1>0
    <3> QED BY <3>1, <3>2, <3>3
  <2> QED BY <1>16, <2>1 DEF Stop, Stages, disk
<1>17. CASE Exit
  BY <1>16, <1>17 DEF Exit
<1>18. CASE Crash
  BY <1>16, <1>18 DEF Crash
<1>19. CASE Restart
  <2>1. clock' = clock + 1 /\ fired' = clock + 1
    BY <1>19 DEF Restart
  <2>2. \A h \in Handlers : rec'[h].ts <= clock'
    BY <1>0, <1>19, <2>1 DEF Restart, Stages, memory
  <2> QED BY <1>0, <1>19, <2>1, <2>2 DEF Restart, Stages, memory, disk
<1>20. CASE UNCHANGED vars
  BY <1>20 DEF vars, Stages, memory, taking, disk, history
<1> QED BY <1>1, <1>2, <1>3, <1>4, <1>5, <1>6, <1>7, <1>8, <1>9, <1>10, <1>11, <1>12, <1>13, <1>14,
           <1>15, <1>17, <1>18, <1>19, <1>20 DEF Next

-----------------------------------------------------------------------------
(* What the log will be when it is flushed, and what each step makes of it. *)

Stream == IF broken THEN log ELSE log \o buffer

(* Whether the stream ends with a record: the others are whole anyway.       *)
Streaming == ~broken /\ phase # "down"

(* The stream is a sequence of units that begins with the log.              *)
LEMMA StreamType ==
  ASSUME Typed
  PROVE  Stream \in Seq(Unit) /\ log \in Seq(Unit) /\ kept \in Seq(Unit) /\ Begins(log, Stream)
<1>1. log \in Seq(Unit) /\ buffer \in Seq(Unit) /\ kept \in Seq(Unit)
  BY DEF Typed, TypeOK
<1>2. log \o buffer \in Seq(Unit) /\ Begins(log, log \o buffer)
  BY <1>1, BeginsConcat
<1>3. Begins(log, log)
  BY <1>1 DEF Begins
<1> QED BY <1>1, <1>2, <1>3 DEF Stream

(* A flush leaves the stream, or cuts it behind what was written.           *)
LEMMA FlushStream ==
  ASSUME Typed, FlushSucceeds \/ FlushFails
  PROVE  /\ Begins(log, log') /\ Begins(log', Stream) /\ Begins(Stream', Stream)
         /\ FlushSucceeds => log' = Stream /\ Stream' = Stream /\ ~broken' /\ buffer' = <<>>
         /\ FlushFails => Stream' = log' /\ broken'
<1>1. log \in Seq(Unit) /\ buffer \in Seq(Unit) /\ ~broken /\ Stream = log \o buffer
  BY DEF Typed, TypeOK, FlushSucceeds, FlushFails, Stream
<1>2. CASE FlushSucceeds
  <2>1. log' = log \o buffer /\ buffer' = <<>> /\ broken' = broken
    BY <1>2 DEF FlushSucceeds
  <2>2. log' \in Seq(Unit) /\ Begins(log, log')
    BY <1>1, <2>1, BeginsConcat
  <2>3. Stream' = log'
    BY <2>1, <2>2, ConcatEmptySeq DEF Stream
  <2>4. Begins(log', log')
    BY <2>2 DEF Begins
  <2>5. ~FlushFails
    BY <1>1, <1>2, <2>1 DEF FlushFails
  <2> QED BY <1>1, <2>1, <2>2, <2>3, <2>4, <2>5
<1>3. CASE FlushFails
  <2>1. PICK n \in 0 .. Len(buffer) - 1 : log' = log \o SubSeq(buffer, 1, n)
    BY <1>3 DEF FlushFails
  <2>2. broken' = TRUE
    BY <1>3 DEF FlushFails
  <2>3. n \in 0 .. Len(buffer)
    BY <1>1
  <2>4. SubSeq(buffer, 1, n) \in Seq(Unit)
    BY <1>1, <2>3, BeginsSubSeq
  <2>5. Begins(log, log')
    BY <1>1, <2>1, <2>4, BeginsConcat
  <2>6. Begins(log', log \o buffer)
    BY <1>1, <2>1, <2>3 DEF Begins
  <2>7. Stream' = log'
    BY <2>2 DEF Stream
  <2>8. ~FlushSucceeds
    BY <1>1, <2>2 DEF FlushSucceeds
  <2> QED BY <1>1, <2>2, <2>5, <2>6, <2>7, <2>8
<1> QED BY <1>2, <1>3

(* Appending adds a record to the stream, or cuts it.                       *)
LEMMA AppendStream ==
  ASSUME Typed, NEW h \in Handlers, AppendRecord(h)
  PROVE  /\ rec[h] \in Record
         /\ \/ broken /\ Stream' = Stream /\ UNCHANGED <<log, broken, buffer, appended>>
            \/ /\ ~broken /\ ~broken'
               /\ Stream' = Stream \o UnitsOf(rec[h]) /\ Begins(log, log')
               /\ appended' = appended \cup {rec[h].at}
            \/ /\ ~broken /\ broken'
               /\ Stream' = log' /\ Begins(log, log')
               /\ Begins(Stream', Stream \o UnitsOf(rec[h]))
               /\ UNCHANGED appended
<1>1. log \in Seq(Unit) /\ buffer \in Seq(Unit)
  BY DEF Typed, TypeOK
<1>2. rec[h] \in Record
  BY DEF Typed, Busy, AppendRecord
<1>3. UnitsOf(rec[h]) \in Seq(Unit)
  BY <1>2, UnitsOfType
<1>4. PICK all : all = buffer \o UnitsOf(rec[h])
  OBVIOUS
<1>5. all \in Seq(Unit)
  BY <1>1, <1>3, <1>4
<1>6. ~broken => Stream \o UnitsOf(rec[h]) = log \o all
  BY <1>1, <1>3, <1>4, ConcatAssociative DEF Stream
<1>7. CASE broken /\ UNCHANGED <<buffer, broken, log, appended>>
  BY <1>2, <1>7 DEF Stream
<1>8. CASE /\ ~broken /\ Fits(all)
           /\ buffer' = all
           /\ appended' = appended \cup {rec[h].at}
           /\ UNCHANGED <<broken, log>>
  <2>1. Begins(log, log)
    BY <1>1 DEF Begins
  <2> QED BY <1>2, <1>6, <1>8, <2>1 DEF Stream
<1>9. CASE /\ ~broken /\ ~Fits(all) /\ phase = "up"
           /\ log' = log \o SubSeq(all, 1, BufferUnits)
           /\ buffer' = SubSeq(all, BufferUnits + 1, Len(all))
           /\ appended' = appended \cup {rec[h].at}
           /\ UNCHANGED broken
  <2>1. BufferUnits \in 0 .. Len(all) /\ BufferUnits \in Nat
    BY <1>5, <1>9, Sizes DEF Fits
  <2>2. PICK a, c : a = SubSeq(all, 1, BufferUnits) /\ c = SubSeq(all, BufferUnits + 1, Len(all))
    OBVIOUS
  <2>3. a \in Seq(Unit) /\ c \in Seq(Unit)
    BY <1>5, <2>1, <2>2
  <2>4. a \o c = all
    <3>1. Len(all) \in Nat /\ 1 \in 1 .. Len(all) + 1 /\ BufferUnits \in 1 - 1 .. Len(all)
          /\ Len(all) \in BufferUnits .. Len(all)
      BY <1>5, <2>1
    <3>2. SubSeq(all, 1, BufferUnits) \o SubSeq(all, BufferUnits + 1, Len(all))
            = SubSeq(all, 1, Len(all))
      BY <1>5, <3>1, ConcatAdjacentSubSeq
    <3> QED BY <1>5, <2>2, <3>2, SubSeqFull
  <2>5. Begins(log, log') /\ log' \o buffer' = log \o all
    <3>1. log' = log \o a /\ buffer' = c
      BY <1>9, <2>2
    <3>2. Begins(log, log \o a)
      BY <1>1, <2>3, BeginsConcat
    <3>3. (log \o a) \o c = log \o (a \o c)
      BY <1>1, <2>3, ConcatAssociative
    <3> QED BY <2>4, <3>1, <3>2, <3>3
  <2> QED BY <1>2, <1>6, <1>9, <2>5 DEF Stream
<1>10. CASE /\ ~broken /\ ~Fits(all)
            /\ \E n \in 0 .. IF phase = "up" THEN BufferUnits - 1 ELSE 0 :
                 /\ log' = log \o SubSeq(all, 1, n)
                 /\ buffer' = SubSeq(all, n + 1, BufferUnits)
            /\ broken' = TRUE
            /\ UNCHANGED appended
  <2>1. PICK n \in 0 .. IF phase = "up" THEN BufferUnits - 1 ELSE 0 :
                 log' = log \o SubSeq(all, 1, n)
    BY <1>10
  <2>2. n \in 0 .. Len(all)
    BY <1>5, <1>10, Sizes DEF Fits
  <2>3. SubSeq(all, 1, n) \in Seq(Unit)
    BY <1>5, <2>2, BeginsSubSeq
  <2>4. Begins(log, log')
    BY <1>1, <2>1, <2>3, BeginsConcat
  <2>5. Begins(log', log \o all)
    BY <1>1, <1>5, <2>1, <2>2 DEF Begins
  <2> QED BY <1>2, <1>6, <1>10, <2>4, <2>5 DEF Stream
<1> QED BY <1>4, <1>7, <1>8, <1>9, <1>10 DEF AppendRecord

-----------------------------------------------------------------------------
(* Unless the log is torn, the groups of the stream are records, and none is *)
(* of a later time.                                                         *)

Sound(units, time) == /\ Whole(units)
                      /\ \A g \in 1 .. GroupCount(units) : RecordAt(units, g).ts <= time

Streams == "torn" \notin mishaps =>
  /\ Sound(Stream, clock) /\ (Streaming => ~Torn(Stream))
  /\ Sound(kept, clock) /\ ~Torn(kept)

(* What begins a sequence has its records.                                  *)
LEMMA BeginsWhole ==
  ASSUME NEW a \in Seq(Unit), NEW b \in Seq(Unit), Begins(a, b)
  PROVE  /\ GroupCount(a) \in Nat /\ GroupCount(b) \in Nat /\ GroupCount(a) <= GroupCount(b)
         /\ \A g \in 1 .. GroupCount(a) :
              g \in 1 .. GroupCount(b) /\ RecordAt(a, g) = RecordAt(b, g)
         /\ Whole(b) => Whole(a)
BY BeginsGroups DEF RecordAt, Whole

(* An appended record comes after those that were there.                    *)
LEMMA AddedWhole ==
  ASSUME NEW a \in Seq(Unit), ~Torn(a), NEW r \in Record, NEW b, b = a \o UnitsOf(r)
  PROVE  /\ b \in Seq(Unit) /\ Begins(a, b) /\ ~Torn(b)
         /\ GroupCount(a) \in Nat /\ GroupCount(b) = GroupCount(a) + 1
         /\ RecordAt(b, GroupCount(a) + 1) = r
         /\ \A g \in 1 .. GroupCount(a) : RecordAt(b, g) = RecordAt(a, g)
         /\ Whole(a) => Whole(b)
<1>1. /\ b \in Seq(Unit) /\ Begins(a, b) /\ ~Torn(b)
      /\ GroupCount(b) = GroupCount(a) + 1
      /\ Group(b, GroupCount(a) + 1) = UnitsOf(r)
  BY AddedRecord
<1>2. GroupCount(a) \in Nat /\ \A g \in 1 .. GroupCount(a) : Group(b, g) = Group(a, g)
  BY <1>1, BeginsGroups
<1>3. UnitsOf(r)[1].rec = r /\ WholeGroup(UnitsOf(r))
  BY UnitsOfType
<1>4. \A g \in 1 .. GroupCount(a) + 1 : g \in 1 .. GroupCount(a) \/ g = GroupCount(a) + 1
  BY <1>2
<1>5. ASSUME Whole(a) PROVE Whole(b)
  BY <1>1, <1>2, <1>3, <1>4, <1>5 DEF Whole
<1> QED BY <1>1, <1>2, <1>3, <1>5 DEF RecordAt

(* Nothing is whole.                                                        *)
LEMMA NoneWhole == Whole(<<>>) /\ ~Torn(<<>>) /\ GroupCount(<<>>) = 0
<1>1. PICK f : Filters(f, <<>>, <<>>, 0)
  BY FiltersNone
<1>2. ~Torn(<<>>)
  BY <1>1 DEF Filters
<1>3. GroupCount(<<>>) = 0
  <2>1. GroupCount(<<>>) \in Nat
    BY GroupCountType
  <2>2. f \in [1 .. GroupCount(<<>>) -> 1 .. 0]
    BY <1>1 DEF Filters
  <2> QED BY <2>1, <2>2
<1> QED BY <1>2, <1>3 DEF Whole

(* What CompactAfter keeps is sound if the log is.                          *)
LEMMA KeptSound ==
  ASSUME NEW units \in Seq(Unit), Whole(units), NEW bad, NEW k, k = KeptOf(Groups(units), bad),
         NEW f, Filters(f, k, units, GroupCount(units))
  PROVE  /\ k \in Seq(Unit) /\ ~Torn(k) /\ Whole(k)
         /\ \A i \in 1 .. GroupCount(k) : /\ f[i] \in 1 .. GroupCount(units)
                                          /\ RecordAt(k, i) = RecordAt(units, f[i])
<1>1. k \in Seq(Unit) /\ ~Torn(k)
  BY DEF Filters
<1>2. \A i \in 1 .. GroupCount(k) : /\ f[i] \in 1 .. GroupCount(units)
                                    /\ Group(k, i) = Group(units, f[i])
  BY DEF Filters
<1> QED BY <1>1, <1>2 DEF Whole, RecordAt

(* The time of a record can be compared.                                    *)
LEMMA RecordTimes ==
  ASSUME NEW units \in Seq(Unit), NEW g \in 1 .. GroupCount(units)
  PROVE  RecordAt(units, g).ts \in Nat
<1>1. RecordAt(units, g) \in Record
  BY RecordAtType
<1>2. \A t \in Time : t \in Nat
  BY PersistenceAssumption DEF Time
<1> QED BY <1>1, <1>2 DEF Record

(* What begins a sound sequence of units is sound, then and later.          *)
LEMMA SoundBegins ==
  ASSUME NEW a \in Seq(Unit), NEW b \in Seq(Unit), Begins(a, b),
         NEW t \in Nat, NEW u \in Nat, t <= u, Sound(b, t)
  PROVE  Sound(a, u)
<1>1. \A g \in 1 .. GroupCount(a) : g \in 1 .. GroupCount(b) /\ RecordAt(a, g) = RecordAt(b, g)
  BY BeginsWhole
<1>2. Whole(a)
  BY BeginsWhole DEF Sound
<1>3. ASSUME NEW g \in 1 .. GroupCount(a) PROVE RecordAt(a, g).ts <= u
  <2>1. RecordAt(a, g).ts \in Nat
    BY RecordTimes
  <2>2. RecordAt(a, g).ts <= t
    BY <1>1 DEF Sound
  <2> QED BY <2>1, <2>2
<1> QED BY <1>2, <1>3 DEF Sound

(* A record of that time can follow.                                        *)
LEMMA SoundAdded ==
  ASSUME NEW a \in Seq(Unit), ~Torn(a), NEW r \in Record, NEW b, b = a \o UnitsOf(r),
         NEW t \in Nat, Sound(a, t), r.ts <= t
  PROVE  b \in Seq(Unit) /\ ~Torn(b) /\ Sound(b, t)
<1>0. Whole(a)
  BY DEF Sound
<1>a. Whole(a) => Whole(b)
  BY AddedWhole
<1>b. \A g \in 1 .. GroupCount(a) : RecordAt(a, g) = RecordAt(b, g)
  <2>1. b \in Seq(Unit) /\ Begins(a, b)
    BY AddedWhole
  <2> QED BY <2>1, BeginsWhole
<1>1. /\ b \in Seq(Unit) /\ ~Torn(b) /\ Whole(b)
      /\ GroupCount(a) \in Nat /\ GroupCount(b) = GroupCount(a) + 1
      /\ RecordAt(b, GroupCount(a) + 1) = r
  BY <1>0, <1>a, AddedWhole
<1>2. \A g \in 1 .. GroupCount(b) : g \in 1 .. GroupCount(a) \/ g = GroupCount(a) + 1
  BY <1>1
<1> QED BY <1>1, <1>2, <1>b DEF Sound

(* What CompactAfter keeps of a sound log is sound.                         *)
LEMMA SoundKept ==
  ASSUME NEW units \in Seq(Unit), NEW t, Sound(units, t), NEW bad, NEW k,
         k = KeptOf(Groups(units), bad)
  PROVE  k \in Seq(Unit) /\ ~Torn(k) /\ Sound(k, t)
<1>1. PICK f : Filters(f, k, units, GroupCount(units))
  BY KeptFilters DEF Sound
<1>2. /\ k \in Seq(Unit) /\ ~Torn(k) /\ Whole(k)
      /\ \A i \in 1 .. GroupCount(k) : /\ f[i] \in 1 .. GroupCount(units)
                                       /\ RecordAt(k, i) = RecordAt(units, f[i])
  BY <1>1, KeptSound DEF Sound
<1> QED BY <1>2 DEF Sound

(* Nothing is sound.                                                        *)
LEMMA NoneSound ==
  ASSUME NEW t
  PROVE  Sound(<<>>, t) /\ ~Torn(<<>>)
BY NoneWhole DEF Sound

(* An old log that is not torn is sound.                                    *)
LEMMA StreamsInit == Init => Streams
<1> SUFFICES ASSUME Init, "torn" \notin mishaps PROVE Streams
  BY DEF Streams
<1>1. log \in OldLogs /\ buffer = <<>> /\ broken = FALSE /\ kept = <<>> /\ clock = 1 /\ ~Torn(log)
  BY DEF Init
<1>2. log \in Seq(Unit)
  BY <1>1, PersistenceAssumption
<1>3. Stream = log
  BY <1>1, <1>2 DEF Stream
<1>4. Sound(log, clock)
  BY <1>1, PersistenceAssumption DEF Sound, Whole, RecordAt
<1> QED BY <1>1, <1>3, <1>4, NoneSound DEF Streams

(* A stream that is unchanged, or cut while nothing is appended any more.    *)
LEMMA StreamsCut ==
  ASSUME Typed, Streams, Stream' \in Seq(Unit), Begins(Stream', Stream),
         Stream' = Stream \/ broken' \/ phase' = "down", Streaming' => Streaming,
         kept' = kept \/ kept' = <<>>, clock' \in Nat, clock <= clock', mishaps \subseteq mishaps'
  PROVE  Streams'
<1> SUFFICES ASSUME "torn" \notin mishaps' PROVE Streams'
  BY DEF Streams
<1>1. /\ Sound(Stream, clock) /\ (Streaming => ~Torn(Stream))
      /\ Sound(kept, clock) /\ ~Torn(kept)
  BY DEF Streams
<1>2. Stream \in Seq(Unit) /\ kept \in Seq(Unit) /\ clock \in Nat /\ Begins(kept, kept)
  BY StreamType, TimesType DEF Begins
<1>3. Sound(Stream', clock')
  BY <1>1, <1>2, SoundBegins
<1>4. Sound(kept', clock') /\ ~Torn(kept')
  BY <1>1, <1>2, SoundBegins, NoneSound
<1>5. Streaming' => ~Torn(Stream')
  BY <1>1 DEF Streaming
<1> QED BY <1>3, <1>4, <1>5 DEF Streams

(* Every step keeps the stream whole while nothing was torn.                *)
LEMMA StreamsStep == Typed /\ Stages /\ Streams /\ [Next]_vars => Streams'
<1> SUFFICES ASSUME Typed, Stages, Streams, [Next]_vars PROVE Streams'
  OBVIOUS
<1>0. /\ Stream \in Seq(Unit) /\ log \in Seq(Unit) /\ kept \in Seq(Unit) /\ Begins(log, Stream)
      /\ Begins(Stream, Stream) /\ clock \in Nat /\ <<>> \in Seq(Unit)
  BY StreamType, TimesType DEF Begins
<1>1. ASSUME UNCHANGED <<log, buffer, broken, phase, kept, mishaps>>, clock' \in Nat, clock <= clock'
      PROVE  Streams'
  <2>1. Stream' = Stream /\ Streaming' = Streaming
    BY <1>1 DEF Stream, Streaming
  <2> QED BY <1>0, <1>1, <2>1, StreamsCut
<1>2. CASE Tick
  BY <1>0, <1>1, <1>2 DEF Tick, memory, taking, disk, history
<1>3. ASSUME NEW h \in Handlers, Commit(h) PROVE Streams'
  BY <1>0, <1>1, <1>3 DEF Commit, taking, disk
<1>4. ASSUME NEW h \in Handlers, Stamp(h) PROVE Streams'
  <2>1. Stream' = Stream /\ Streaming' = Streaming /\ kept' = kept /\ clock' = clock
        /\ mishaps \subseteq mishaps'
    BY <1>4 DEF Stamp, Stream, Streaming, taking, disk
  <2> QED BY <1>0, <2>1, StreamsCut
<1>5. ASSUME NEW h \in Handlers, AppendRecord(h) PROVE Streams'
  <2>1. /\ kept' = kept /\ clock' = clock /\ phase' = phase /\ phase # "down"
        /\ mishaps \subseteq mishaps'
    BY <1>5 DEF AppendRecord, Running, taking
  <2>2. rec[h] \in Record
    BY <1>5, AppendStream
  <2>3. CASE broken /\ Stream' = Stream /\ UNCHANGED <<log, broken, buffer, appended>>
    <3>1. Streaming' = Streaming
      BY <2>1, <2>3 DEF Streaming
    <3> QED BY <1>0, <2>1, <2>3, <3>1, StreamsCut
  <2>4. CASE ~broken /\ ~broken' /\ Stream' = Stream \o UnitsOf(rec[h])
    <3> SUFFICES ASSUME "torn" \notin mishaps' PROVE Streams'
      BY DEF Streams
    <3>1. /\ Sound(Stream, clock) /\ ~Torn(Stream) /\ Sound(kept, clock) /\ ~Torn(kept)
      BY <2>1, <2>4 DEF Streams, Streaming
    <3>2. rec[h].ts <= clock
      BY DEF Stages
    <3>3. ~Torn(Stream') /\ Sound(Stream', clock)
      BY <1>0, <2>2, <2>4, <3>1, <3>2, SoundAdded
    <3> QED BY <2>1, <3>1, <3>3 DEF Streams
  <2>5. CASE ~broken /\ broken' /\ Stream' = log' /\ Begins(Stream', Stream \o UnitsOf(rec[h]))
    <3> SUFFICES ASSUME "torn" \notin mishaps' PROVE Streams'
      BY DEF Streams
    <3>1. /\ Sound(Stream, clock) /\ ~Torn(Stream) /\ Sound(kept, clock) /\ ~Torn(kept)
      BY <2>1, <2>5 DEF Streams, Streaming
    <3>2. rec[h].ts <= clock
      BY DEF Stages
    <3>3. PICK all : all = Stream \o UnitsOf(rec[h])
      OBVIOUS
    <3>4. all \in Seq(Unit) /\ Sound(all, clock)
      BY <1>0, <2>2, <3>1, <3>2, <3>3, SoundAdded
    <3>5. log' \in Seq(Unit)
      BY <1>5, AppendTyped
    <3>6. Sound(Stream', clock)
      <4>1. Stream' \in Seq(Unit) /\ Begins(Stream', all) /\ clock <= clock
        BY <1>0, <2>5, <3>3, <3>5
      <4> QED BY <1>0, <3>4, <4>1, SoundBegins
    <3> QED BY <2>1, <2>5, <3>1, <3>6 DEF Streams, Streaming
  <2> QED BY <1>5, <2>3, <2>4, <2>5, AppendStream
<1>6. ASSUME FlushSucceeds \/ FlushFails, kept' = kept \/ kept' = <<>>, clock' = clock,
             mishaps \subseteq mishaps', phase # "down"
      PROVE  Streams'
  <2>1. Begins(Stream', Stream) /\ (Stream' = Stream \/ broken') /\ ~broken
    BY <1>6, FlushStream DEF FlushSucceeds, FlushFails
  <2>2. Stream' \in Seq(Unit)
    <3>1. log' \in Seq(Unit)
      BY <1>6, FlushTyped
    <3> QED BY <1>0, <1>6, <3>1, FlushStream
  <2>3. Streaming
    BY <1>6, <2>1 DEF Streaming
  <2> QED BY <1>0, <1>6, <2>1, <2>2, <2>3, StreamsCut
<1>7. CASE SyncWAL
  BY <1>6, <1>7 DEF SyncWAL, taking, FlushSucceeds, FlushFails
<1>8. CASE CloseWAL
  <2>1. CASE FlushSucceeds \/ FlushFails
    BY <1>6, <1>8, <2>1 DEF CloseWAL, taking
  <2>2. CASE broken /\ UNCHANGED <<log, buffer, broken, secured>>
    <3>1. Stream' = Stream /\ broken'
      BY <2>2 DEF Stream
    <3> QED BY <1>0, <1>8, <2>2, <3>1, StreamsCut DEF CloseWAL, taking, Streaming
  <2> QED BY <1>8, <2>1, <2>2 DEF CloseWAL
<1>9. CASE TakeTime
  BY <1>0, <1>1, <1>9 DEF TakeTime, memory, disk, history
<1>10. CASE EncodeBoard
  BY <1>0, <1>1, <1>10 DEF EncodeBoard, memory, disk, history
<1>11. CASE WriteData
  BY <1>0, <1>1, <1>11 DEF WriteData, memory, history
<1>12. CASE WriteMeta
  BY <1>0, <1>1, <1>12 DEF WriteMeta, memory
<1>13. CASE WriteSnapshotFails
  <2>1. Stream' = Stream /\ Streaming' = Streaming /\ kept' = <<>> /\ clock' = clock
        /\ mishaps' = mishaps
    BY <1>13 DEF WriteSnapshotFails, RoundEnds, memory, disk, history, Stream, Streaming
  <2> QED BY <1>0, <2>1, StreamsCut
<1>14. CASE CompactFails
  <2>1. kept' = <<>> /\ clock' = clock /\ mishaps' = mishaps /\ phase' = phase /\ phase # "down"
    BY <1>14 DEF CompactFails, RoundEnds, WriterAt, Running, history
  <2>2. CASE FlushFails
    BY <1>6, <2>1, <2>2
  <2>3. CASE UNCHANGED <<log, buffer, broken>>
    <3>1. Stream' = Stream /\ Streaming' = Streaming
      BY <2>1, <2>3 DEF Stream, Streaming
    <3> QED BY <1>0, <2>1, <3>1, StreamsCut
  <2> QED BY <1>14, <2>2, <2>3 DEF CompactFails
<1>15. CASE Compact
  <2> SUFFICES ASSUME "torn" \notin mishaps' PROVE Streams'
    BY DEF Streams
  <2>1. FlushSucceeds /\ clock' = clock /\ mishaps' = mishaps /\ ~broken /\ phase = "up"
    BY <1>15 DEF Compact, FlushSucceeds, history
  <2>2. log' = Stream /\ Stream' = Stream
    BY <2>1, FlushStream
  <2>3. Sound(Stream, clock) /\ ~Torn(Stream)
    BY <2>1 DEF Streams, Streaming
  <2>4. PICK bad \in Garbage : kept' = KeptOf(Groups(log'), bad)
    BY <1>15 DEF Compact, KeptOf
  <2>5. Sound(kept', clock) /\ ~Torn(kept')
    BY <1>0, <2>2, <2>3, <2>4, SoundKept
  <2> QED BY <2>1, <2>2, <2>3, <2>5 DEF Streams
<1>16. CASE Truncate
  <2> SUFFICES ASSUME "torn" \notin mishaps' PROVE Streams'
    BY DEF Streams
  <2>1. buffer = <<>> /\ ~broken /\ log' = <<>> /\ UNCHANGED <<buffer, broken, clock, mishaps, kept>>
    BY <1>16 DEF Truncate, WriterAt, Stages, memory, history
  <2>2. Stream' = <<>>
    BY <1>0, <2>1 DEF Stream
  <2>3. Sound(kept, clock) /\ ~Torn(kept)
    BY <2>1 DEF Streams
  <2> QED BY <2>1, <2>2, <2>3, NoneSound DEF Streams
<1>17. CASE Rewrite
  <2> SUFFICES ASSUME "torn" \notin mishaps' PROVE Streams'
    BY DEF Streams
  <2>1. buffer = <<>> /\ ~broken /\ kept' = <<>> /\ UNCHANGED <<buffer, broken, clock>>
        /\ mishaps \subseteq mishaps'
    BY <1>17 DEF Rewrite, RoundEnds, WriterAt, Stages, memory
  <2>2. Sound(kept, clock) /\ ~Torn(kept)
    BY <2>1 DEF Streams
  <2>3. log' \in Seq(Unit) /\ Begins(log', kept) /\ ~Torn(log')
    <3>1. CASE log' = kept
      BY <1>0, <2>2, <3>1 DEF Begins
    <3>2. CASE /\ \E n \in 0 .. Len(kept) - 1 : log' = SubSeq(kept, 1, n)
               /\ mishaps' = mishaps \cup IF Torn(log') THEN {"log cut", "torn"} ELSE {"log cut"}
      <4>1. PICK n \in 0 .. Len(kept) - 1 : log' = SubSeq(kept, 1, n)
        BY <3>2
      <4>2. n \in 0 .. Len(kept)
        BY <1>0
      <4>3. ~Torn(log')
        BY <3>2
      <4> QED BY <1>0, <4>1, <4>2, <4>3, BeginsSubSeq
    <3> QED BY <1>17, <3>1, <3>2 DEF Rewrite
  <2>4. Stream' = log'
    BY <2>1, <2>3 DEF Stream
  <2>5. Sound(log', clock)
    BY <1>0, <2>2, <2>3, SoundBegins
  <2> QED BY <2>1, <2>3, <2>4, <2>5, NoneSound DEF Streams
<1>18. ASSUME NEW g, Stop(g) PROVE Streams'
  <2>1. buffer' = <<>> /\ ~broken' /\ log' = log /\ phase' = "down" /\ kept' = <<>> /\ clock' = clock
        /\ mishaps \subseteq mishaps'
    BY <1>18 DEF Stop, disk
  <2>2. Stream' = log
    BY <1>0, <2>1 DEF Stream
  <2> QED BY <1>0, <2>1, <2>2, StreamsCut DEF Streaming
<1>19. CASE Exit
  BY <1>18, <1>19 DEF Exit
<1>20. CASE Crash
  BY <1>18, <1>20 DEF Crash
<1>21. CASE Restart
  <2> SUFFICES ASSUME "torn" \notin mishaps' PROVE Streams'
    BY DEF Streams
  <2>1. /\ UNCHANGED <<log, buffer, broken, kept>> /\ clock' = clock + 1 /\ phase = "down"
        /\ mishaps \subseteq mishaps' /\ ~Torn(log)
    BY <1>21 DEF Restart, memory, disk
  <2>2. buffer = <<>> /\ ~broken
    BY <2>1 DEF Stages
  <2>3. Stream = log /\ Stream' = log
    BY <1>0, <2>1, <2>2 DEF Stream
  <2>4. Sound(Stream, clock) /\ Sound(kept, clock) /\ ~Torn(kept)
    BY <2>1 DEF Streams
  <2>5. Sound(Stream, clock') /\ Sound(kept, clock')
    <3>1. Begins(kept, kept) /\ clock' \in Nat /\ clock <= clock'
      BY <1>0, <2>1 DEF Begins
    <3> QED BY <1>0, <2>4, <3>1, SoundBegins
  <2> QED BY <2>1, <2>3, <2>4, <2>5 DEF Streams
<1>22. CASE UNCHANGED vars
  BY <1>0, <1>1, <1>22 DEF vars, memory, taking, disk, history
<1> QED BY <1>2, <1>3, <1>4, <1>5, <1>7, <1>8, <1>9, <1>10, <1>11, <1>12, <1>13, <1>14, <1>15,
           <1>16, <1>17, <1>19, <1>20, <1>21, <1>22 DEF Next

-----------------------------------------------------------------------------
(* What was synced, appended or pictured was placed on.                     *)

Present ==
  /\ secured \cup appended \subseteq Occupied(board)
  /\ \A h \in Handlers : pc[h] # "idle" => rec[h].at \in Occupied(board)
  /\ image # NoFile => Occupied(decodeBoard(image)) \subseteq Occupied(board)

(* Nothing is synced at first.                                              *)
LEMMA PresentInit == Init => Present
BY DEF Init, Present

(* The stones of a board stay, so what a step adds is all there is to see.   *)
LEMMA PresentKept ==
  ASSUME Present, Occupied(board) \subseteq Occupied(board'),
         secured' \cup appended' \subseteq secured \cup appended, image' = image \/ image' = NoFile,
         \A h \in Handlers : pc'[h] # "idle" => pc[h] # "idle" /\ rec'[h].at = rec[h].at
  PROVE  Present'
BY DEF Present

(* Every step keeps what is synced, appended and pictured on the board.     *)
LEMMA PresentStep == Typed /\ Stages /\ Present /\ [Next]_vars => Present'
<1> SUFFICES ASSUME Typed, Stages, Present, [Next]_vars PROVE Present'
  OBVIOUS
<1>0. /\ rec \in [Handlers -> Record \cup {None}] /\ pc \in [Handlers -> {"idle", "stamp", "append"}]
      /\ board \in Boards
  BY DEF Typed, TypeOK, Boards
<1>1. CASE Tick
  BY <1>1, PresentKept DEF Tick, memory, taking, history
<1>2. ASSUME NEW h \in Handlers, Commit(h) PROVE Present'
  <2>1. PICK q \in Targets :
          /\ board' = Placed(board, q, TeamOf[h])
          /\ rec' = [rec EXCEPT ![h] = [None EXCEPT !.at = q, !.team = TeamOf[h]]]
    BY <1>2 DEF Commit
  <2>2. q \in Coord /\ TeamOf[h] \in Team
    BY PersistenceAssumption
  <2>3. Occupied(board') = Occupied(board) \cup {q}
    BY <1>0, <2>1, <2>2, PlacedOccupied
  <2>4. rec'[h].at = q /\ \A i \in Handlers : i = h \/ (rec'[i] = rec[i] /\ pc'[i] = pc[i])
    <3>1. [None EXCEPT !.at = q, !.team = TeamOf[h]].at = q
      BY DEF None
    <3> QED BY <1>0, <1>2, <2>1, <3>1 DEF Commit
  <2>5. \A i \in Handlers : pc'[i] # "idle" => rec'[i].at \in Occupied(board')
    BY <2>3, <2>4 DEF Present
  <2> QED BY <1>2, <2>3, <2>5 DEF Commit, Present, taking
<1>3. ASSUME NEW h \in Handlers, Stamp(h) PROVE Present'
  <2>1. rec[h] \in Record
    BY <1>3 DEF Stamp, Typed, Busy
  <2>2. [rec[h] EXCEPT !.ts = clock].at = rec[h].at
    BY <2>1 DEF Record
  <2>3. \A i \in Handlers : pc'[i] # "idle" => pc[i] # "idle" /\ rec'[i].at = rec[i].at
    BY <1>0, <1>3, <2>2 DEF Stamp
  <2> QED BY <1>3, <2>3, PresentKept DEF Stamp, taking
<1>4. ASSUME NEW h \in Handlers, AppendRecord(h) PROVE Present'
  <2>1. appended' = appended \/ appended' = appended \cup {rec[h].at}
    BY <1>4, AppendStream
  <2>2. pc[h] = "append" /\ rec[h].at \in Occupied(board)
    BY <1>4 DEF AppendRecord, Present
  <2>3. \A i \in Handlers : pc'[i] # "idle" => pc[i] # "idle" /\ rec'[i].at = rec[i].at
    BY <1>0, <1>4 DEF AppendRecord
  <2> QED BY <1>4, <2>1, <2>2, <2>3 DEF AppendRecord, Present, taking
<1>5. CASE SyncWAL
  BY <1>5, PresentKept DEF SyncWAL, taking
<1>6. CASE CloseWAL
  BY <1>6, PresentKept DEF CloseWAL, taking
<1>7. CASE TakeTime
  BY <1>7, PresentKept DEF TakeTime, memory, history
<1>8. CASE EncodeBoard
  <2>1. decodeBoard(image') = board
    BY <1>0, <1>8, DecodeEncode DEF EncodeBoard
  <2> QED BY <1>8, <2>1 DEF EncodeBoard, Present, memory, history
<1>9. CASE WriteData
  BY <1>9, PresentKept DEF WriteData, memory, history
<1>10. CASE WriteMeta
  <2>1. image # NoFile
    BY <1>10 DEF WriteMeta, WriterAt, Stages
  <2> QED BY <1>10, <2>1 DEF WriteMeta, Present, memory
<1>11. CASE WriteSnapshotFails
  BY <1>11, PresentKept DEF WriteSnapshotFails, RoundEnds, memory, history
<1>12. CASE CompactFails
  BY <1>12, PresentKept DEF CompactFails, RoundEnds, history
<1>13. CASE Compact
  BY <1>13, PresentKept DEF Compact, history
<1>14. CASE Truncate
  BY <1>14, PresentKept DEF Truncate, memory, history
<1>15. CASE Rewrite
  BY <1>15, PresentKept DEF Rewrite, RoundEnds, memory
<1>16. ASSUME NEW g, Stop(g) PROVE Present'
  <2>1. \A h \in Handlers : pc'[h] = "idle"
    BY <1>16 DEF Stop
  <2> QED BY <1>16, <2>1, PresentKept DEF Stop
<1>17. CASE Exit
  BY <1>16, <1>17 DEF Exit
<1>18. CASE Crash
  BY <1>16, <1>18 DEF Crash
<1>19. CASE Restart
  <2>1. /\ appended' = {} /\ image' = NoFile /\ \A h \in Handlers : pc'[h] = "idle"
        /\ secured' = secured \cap Occupied(board')
    BY <1>19 DEF Restart, Stages, memory
  <2> QED BY <2>1 DEF Present
<1>20. CASE UNCHANGED vars
  BY <1>20, PresentKept DEF vars, memory, taking, history
<1> QED BY <1>1, <1>2, <1>3, <1>4, <1>5, <1>6, <1>7, <1>8, <1>9, <1>10, <1>11, <1>12, <1>13, <1>14,
           <1>15, <1>17, <1>18, <1>19, <1>20 DEF Next

-----------------------------------------------------------------------------
(* Where a cell can be found again: in a snapshot, or in a record of the log *)
(* of a later time.  What is loadable is held since its time, else nothing   *)
(* is, since before all times.                                              *)

Found(snap, units, time) ==
  (IF snap # NoFile THEN Occupied(decodeBoard(snap)) ELSE {}) \cup
  {RecordAt(units, g).at : g \in {n \in 1 .. GroupCount(units) : RecordAt(units, n).ts > time}}

Held  == IF Loadable THEN files[meta.file] ELSE NoFile
Since == IF Loadable THEN meta.ts ELSE -1

(* More units, more to find.                                                *)
LEMMA FoundBegins ==
  ASSUME NEW a \in Seq(Unit), NEW b \in Seq(Unit), Begins(a, b), NEW snap, NEW t
  PROVE  Found(snap, a, t) \subseteq Found(snap, b, t)
<1>1. \A g \in 1 .. GroupCount(a) : g \in 1 .. GroupCount(b) /\ RecordAt(a, g) = RecordAt(b, g)
  BY BeginsWhole
<1> QED BY <1>1 DEF Found

(* A record that is added is found.                                         *)
LEMMA FoundAdded ==
  ASSUME NEW a \in Seq(Unit), ~Torn(a), NEW r \in Record, NEW b, b = a \o UnitsOf(r), NEW snap, NEW t
  PROVE  /\ b \in Seq(Unit) /\ Begins(a, b) /\ Found(snap, a, t) \subseteq Found(snap, b, t)
         /\ r.ts > t => r.at \in Found(snap, b, t)
<1>1. b \in Seq(Unit) /\ Begins(a, b)
  BY AddedWhole
<1>2. PICK n : n = GroupCount(b)
  OBVIOUS
<1>3. n \in 1 .. n /\ RecordAt(b, n) = r
  <2>1. GroupCount(a) \in Nat /\ GroupCount(b) = GroupCount(a) + 1
    BY AddedWhole
  <2>2. RecordAt(b, GroupCount(a) + 1) = r
    BY AddedWhole
  <2> QED BY <1>2, <2>1, <2>2
<1>4. Found(snap, a, t) \subseteq Found(snap, b, t)
  BY <1>1, FoundBegins
<1>5. ASSUME r.ts > t PROVE r.at \in Found(snap, b, t)
  BY <1>2, <1>3, <1>5 DEF Found
<1> QED BY <1>1, <1>4, <1>5

(* What compaction drops is found in the snapshot.                          *)
LEMMA FoundKept ==
  ASSUME NEW units \in Seq(Unit), Whole(units), NEW bad, NEW k, k = KeptOf(Groups(units), bad),
         NEW snap
  PROVE  Found(snap, units, cut) \subseteq Found(snap, k, cut)
<1>1. PICK f : Filters(f, k, units, GroupCount(units))
  BY KeptFilters
<1>2. \A i \in 1 .. GroupCount(k) : RecordAt(k, i) = RecordAt(units, f[i])
  BY <1>1, KeptSound
<1>3. \A g \in 1 .. GroupCount(units) : RecordAt(units, g).ts > cut =>
        \E i \in 1 .. GroupCount(k) : f[i] = g
  BY <1>1 DEF Filters, Keeps
<1> QED BY <1>2, <1>3 DEF Found

-----------------------------------------------------------------------------
(* Nothing falls between the snapshot and the log: what was synced is found  *)
(* in the log as it is, what was appended in the stream, unless the buffer   *)
(* is broken; while a snapshot is under way, both are found with its image   *)
(* too, and while the log is rewritten, in what is kept.                    *)

Clean == mishaps \cap {"same time", "log cut", "torn"} = {}

FoundInLog ==
  writer # "rewrite" => /\ secured \subseteq Found(Held, log, Since)
                        /\ ~broken => appended \subseteq Found(Held, Stream, Since)
FoundInKept ==
  writer \in {"truncate", "rewrite"} => secured \cup appended \subseteq Found(Held, kept, Since)
FoundWithImage ==
  writer \in {"data", "meta"} => /\ secured \subseteq Found(image, log, cut)
                                 /\ ~broken => appended \subseteq Found(image, Stream, cut)

(* A record whose time a snapshot covers is of a cell the snapshot has.      *)
Covered(snap, time) ==
  snap # NoFile => \A h \in Handlers : pc[h] = "append" /\ rec[h].ts <= time =>
                     rec[h].at \in Occupied(decodeBoard(snap))

Safe == Clean => /\ FoundInLog /\ FoundInKept /\ FoundWithImage
                 /\ Covered(image, cut) /\ Covered(Held, Since)

(* Nothing is secured at first.                                             *)
LEMMA SafeInit == Init => Safe
<1> SUFFICES ASSUME Init PROVE Safe
  OBVIOUS
<1>1. /\ secured = {} /\ appended = {} /\ writer = "wait" /\ \A h \in Handlers : pc[h] = "idle"
  BY DEF Init
<1>2. FoundInLog /\ FoundInKept /\ FoundWithImage
  BY <1>1 DEF FoundInLog, FoundInKept, FoundWithImage
<1>3. Covered(image, cut) /\ Covered(Held, Since)
  BY <1>1 DEF Covered
<1> QED BY <1>2, <1>3 DEF Safe

(* Before a snapshot is there, it is not the file that is held.              *)
LEMMA HeldFile ==
  ASSUME Typed, Stages
  PROVE  /\ Loadable <=> meta # NoMeta
         /\ Loadable => Held # NoFile /\ Held = files[meta.ts] /\ meta.ts \in Time /\ Since = meta.ts
         /\ ~Loadable => Held = NoFile /\ Since = -1 
         /\ Since \in Int /\ Since <= clock
<1>1. meta = NoMeta \/ meta \in [ts : Time, file : Time]
  BY DEF Typed, TypeOK
<1>2. meta.ts \in Nat /\ fired \in Nat /\ clock \in Nat /\ meta.ts <= fired /\ fired <= clock
  BY TimesType DEF Stages
<1>3. meta # NoMeta => meta.file = meta.ts /\ files[meta.file] # NoFile
  BY DEF Stages
<1> QED BY <1>1, <1>2, <1>3 DEF Loadable, Held, Since

(* The sources are untouched and so is where they are found.                *)
LEMMA SafeSame ==
  ASSUME Safe, mishaps \subseteq mishaps', UNCHANGED <<log, buffer, broken, kept, secured, appended>>,
         Held' = Held, Since' = Since, writer' = writer, image' = image, cut' = cut,
         Clean' => Covered(image, cut)' /\ Covered(Held, Since)'
  PROVE  Safe'
<1> SUFFICES ASSUME Clean' PROVE Safe'
  BY DEF Safe
<1>1. Clean
  BY DEF Clean
<1>2. Stream' = Stream
  BY DEF Stream
<1>3. FoundInLog /\ FoundInKept /\ FoundWithImage
  BY <1>1 DEF Safe
<1>4. FoundInLog' /\ FoundInKept' /\ FoundWithImage'
  BY <1>2, <1>3 DEF FoundInLog, FoundInKept, FoundWithImage
<1> QED BY <1>4 DEF Safe

(* No handler comes to append.                                              *)
LEMMA CoveredSame ==
  ASSUME NEW snap, NEW time, Covered(snap, time),
         \A h \in Handlers : pc'[h] = "append" => pc[h] = "append" /\ rec'[h] = rec[h]
  PROVE  snap # NoFile => \A h \in Handlers : pc'[h] = "append" /\ rec'[h].ts <= time =>
                            rec'[h].at \in Occupied(decodeBoard(snap))
BY DEF Covered

(* The round of the writer ends, before it has a log to keep.               *)
LEMMA SafeEnds ==
  ASSUME Typed, Safe, mishaps \subseteq mishaps',
         Held' = Held, Since' = Since, writer' = "wait", image' = NoFile,
         secured' \subseteq Found(Held, log', Since),
         ~broken' => appended' \subseteq Found(Held, Stream', Since),
         \A h \in Handlers : pc'[h] = "append" => pc[h] = "append" /\ rec'[h] = rec[h]
  PROVE  Safe'
<1> SUFFICES ASSUME Clean' PROVE Safe'
  BY DEF Safe
<1>1. Clean
  BY DEF Clean
<1>2. FoundInLog' /\ FoundInKept' /\ FoundWithImage'
  BY DEF FoundInLog, FoundInKept, FoundWithImage
<1>3. Covered(Held, Since)
  BY <1>1 DEF Safe
<1>4. Covered(Held, Since)'
  BY <1>3, CoveredSame DEF Covered
<1>5. Covered(image, cut)'
  BY DEF Covered
<1> QED BY <1>2, <1>4, <1>5 DEF Safe

(* A flush, or its failure.                                                 *)
LEMMA SafeFlush ==
  ASSUME Typed, Safe, mishaps \subseteq mishaps', writer \notin {"truncate", "rewrite"},
         UNCHANGED <<Held, Since, writer, image, cut, appended>>,
         log' \in Seq(Unit), Begins(log, log'),
         \/ secured' = secured
         \/ secured' = secured \cup appended /\ ~broken /\ log' = Stream,
         ~broken' => ~broken /\ Stream' = Stream,
         \A h \in Handlers : pc'[h] = "append" => pc[h] = "append" /\ rec'[h] = rec[h]
  PROVE  Safe'
<1> SUFFICES ASSUME Clean' PROVE Safe'
  BY DEF Safe
<1>1. Clean
  BY DEF Clean
<1>2. FoundInLog /\ FoundWithImage /\ Covered(image, cut) /\ Covered(Held, Since)
  BY <1>1 DEF Safe
<1>3. \A snap, t : Found(snap, log, t) \subseteq Found(snap, log', t)
  BY StreamType, FoundBegins
<1>4. FoundInLog' /\ FoundWithImage'
  BY <1>2, <1>3 DEF FoundInLog, FoundWithImage
<1>5. FoundInKept'
  BY DEF FoundInKept
<1>6. Covered(image, cut)' /\ Covered(Held, Since)'
  BY <1>2, CoveredSame DEF Covered
<1> QED BY <1>4, <1>5, <1>6 DEF Safe

(* A record is appended.                                                    *)
LEMMA SafeAppend ==
  ASSUME Typed, Stages, Streams, Safe, NEW h \in Handlers, AppendRecord(h)
  PROVE  Safe'
<1> SUFFICES ASSUME Clean' PROVE Safe'
  BY DEF Safe
<1>1. /\ UNCHANGED <<writer, image, cut, files, meta, secured, phase>> /\ mishaps \subseteq mishaps'
      /\ writer \notin {"truncate", "rewrite"} /\ pc[h] = "append" /\ phase # "down"
  BY DEF AppendRecord, Unlocked, taking, Running
<1>2. UNCHANGED <<Held, Since>>
  BY <1>1 DEF Held, Since, Loadable
<1>3. Clean
  BY <1>1 DEF Clean
<1>4. FoundInLog /\ FoundWithImage /\ Covered(image, cut) /\ Covered(Held, Since)
  BY <1>3 DEF Safe
<1>5. /\ Stream \in Seq(Unit) /\ log \in Seq(Unit) /\ log' \in Seq(Unit)
      /\ rec[h] \in Record /\ (~broken => ~Torn(Stream))
  BY <1>1, <1>3, StreamType, AppendTyped, AppendStream DEF Clean, Streams, Streaming
<1>6. Begins(log, log')
  BY <1>5, AppendStream DEF Begins
<1>7. \A snap, t : Found(snap, log, t) \subseteq Found(snap, log', t)
  BY <1>5, <1>6, FoundBegins
<1>8. ASSUME ~broken'
      PROVE  /\ ~broken /\ appended' = appended \cup {rec[h].at}
             /\ \A snap, t : /\ Found(snap, Stream, t) \subseteq Found(snap, Stream', t)
                             /\ rec[h].ts > t => rec[h].at \in Found(snap, Stream', t)
  <2>1. ~broken /\ Stream' = Stream \o UnitsOf(rec[h]) /\ appended' = appended \cup {rec[h].at}
    BY <1>8, AppendStream
  <2> QED BY <1>5, <2>1, FoundAdded
<1>9. rec[h].ts \in Nat /\ cut \in Nat /\ Since \in Int
  BY TimesType, HeldFile
<1>10. ASSUME ~broken' PROVE rec[h].at \in Found(Held, Stream', Since)
  <2>1. CASE rec[h].ts > Since
    BY <1>8, <1>10, <2>1
  <2>2. CASE rec[h].ts <= Since
    <3>1. Held # NoFile
      BY <1>9, <2>2, HeldFile
    <3> QED BY <1>1, <1>4, <2>2, <3>1 DEF Covered, Found
  <2> QED BY <1>9, <2>1, <2>2
<1>11. ASSUME ~broken', writer \in {"data", "meta"} PROVE rec[h].at \in Found(image, Stream', cut)
  <2>1. CASE rec[h].ts > cut
    BY <1>8, <1>11, <2>1
  <2>2. CASE rec[h].ts <= cut
    <3>1. image # NoFile
      BY <1>11 DEF Stages
    <3> QED BY <1>1, <1>4, <2>2, <3>1 DEF Covered, Found
  <2> QED BY <1>9, <2>1, <2>2
<1>12. FoundInLog'
  BY <1>1, <1>2, <1>4, <1>7, <1>8, <1>10 DEF FoundInLog
<1>13. FoundWithImage'
  BY <1>1, <1>2, <1>4, <1>7, <1>8, <1>11 DEF FoundWithImage
<1>14. FoundInKept'
  BY <1>1 DEF FoundInKept
<1>15. \A i \in Handlers : pc'[i] = "append" => pc[i] = "append" /\ rec'[i] = rec[i]
  BY DEF AppendRecord, Typed, TypeOK
<1>16. Covered(image, cut)' /\ Covered(Held, Since)'
  BY <1>1, <1>2, <1>4, <1>15, CoveredSame DEF Covered
<1> QED BY <1>12, <1>13, <1>14, <1>16 DEF Safe

(* A handler reads the time.                                                *)
LEMMA SafeStamp ==
  ASSUME Typed, Stages, Safe, Present, NEW h \in Handlers, Stamp(h)
  PROVE  Safe'
<1>1. /\ UNCHANGED <<writer, image, cut, fired, clock, files, meta, kept, secured, appended,
                     log, buffer, broken>>
      /\ mishaps \subseteq mishaps'
  BY DEF Stamp, taking, disk
<1>2. UNCHANGED <<Held, Since>>
  BY <1>1 DEF Held, Since, Loadable
<1>3. /\ rec'[h].ts = clock /\ rec'[h].at = rec[h].at
      /\ \A i \in Handlers : i # h => pc'[i] = pc[i] /\ rec'[i] = rec[i]
  <2>1. rec[h] \in Record
    BY DEF Typed, Busy, Stamp
  <2>2. [rec[h] EXCEPT !.ts = clock].ts = clock /\ [rec[h] EXCEPT !.ts = clock].at = rec[h].at
    BY <2>1 DEF Record
  <2>3. rec' = [rec EXCEPT ![h] = [rec[h] EXCEPT !.ts = clock]]
        /\ pc' = [pc EXCEPT ![h] = "append"]
    BY DEF Stamp
  <2> QED BY <2>2, <2>3 DEF Typed, TypeOK
<1>4. rec[h].at \in Coord
  BY DEF Present, Occupied, Stamp
<1>5. /\ clock \in Nat /\ cut \in Nat /\ Since \in Int /\ Since <= clock
      /\ image # NoFile => cut <= clock
  <2>1. image # NoFile => cut = fired /\ fired <= clock
    BY DEF Stages
  <2> QED BY <2>1, TimesType, HeldFile
<1>6. ASSUME Clean', image # NoFile, clock <= cut PROVE rec[h].at \in Occupied(decodeBoard(image))
  <2>1. ~Misses(image, cut, h)
    BY <1>6 DEF Clean, Stamp
  <2>2. cut = clock
    BY <1>5, <1>6
  <2> QED BY <1>4, <1>6, <2>1, <2>2 DEF Misses, Occupied
<1>7. ASSUME Clean', Held # NoFile, clock <= Since PROVE rec[h].at \in Occupied(decodeBoard(Held))
  <2>1. Loadable /\ Since = meta.ts /\ Held = files[meta.file]
    BY <1>7 DEF Held, Since
  <2>2. ~Misses(files[meta.file], meta.ts, h)
    BY <1>7, <2>1 DEF Clean, Stamp
  <2>3. Since = clock
    BY <1>5, <1>7
  <2> QED BY <1>4, <1>7, <2>1, <2>2, <2>3 DEF Misses, Occupied
<1>8. ASSUME Clean' PROVE Covered(image, cut)' /\ Covered(Held, Since)'
  <2>1. Clean
    BY <1>1, <1>8 DEF Clean
  <2>2. Covered(image, cut) /\ Covered(Held, Since)
    BY <2>1 DEF Safe
  <2>3. Covered(image, cut)'
    BY <1>1, <1>3, <1>6, <1>8, <2>2 DEF Covered
  <2>4. Covered(Held, Since)'
    BY <1>2, <1>3, <1>7, <1>8, <2>2 DEF Covered
  <2> QED BY <2>3, <2>4
<1> QED BY <1>1, <1>2, <1>8, SafeSame

(* What is held is there until meta.json points elsewhere.                  *)
LEMMA HeldSame ==
  ASSUME UNCHANGED <<files, meta>>
  PROVE  UNCHANGED <<Held, Since, Loadable>>
BY DEF Held, Since, Loadable

(* The data of a snapshot are not yet what is held ...                      *)
LEMMA HeldData ==
  ASSUME Typed, Stages, WriteData
  PROVE  UNCHANGED <<Held, Since, Loadable>>
<1>1. writer = "data" /\ meta.ts < cut /\ files' = [files EXCEPT ![cut] = image] /\ meta' = meta
  BY DEF WriteData, WriterAt, Stages
<1>2. meta = NoMeta \/ (meta.file \in Time /\ meta.file # cut)
  <2>1. meta = NoMeta \/ meta \in [ts : Time, file : Time]
    BY DEF Typed, TypeOK
  <2>2. meta # NoMeta => meta.file = meta.ts
    BY DEF Stages
  <2> QED BY <1>1, <2>1, <2>2, TimesType
<1>3. files \in [Time -> Seq(Nat)]
  BY DEF Typed, TypeOK
<1> QED BY <1>1, <1>2, <1>3 DEF Held, Since, Loadable

(* ... until meta.json names them ...                                       *)
LEMMA HeldMeta ==
  ASSUME Typed, Stages, WriteMeta
  PROVE  Held' = image /\ Since' = cut /\ Loadable' /\ image # NoFile /\ cut = fired
<1>1. /\ files' = files /\ meta' = [ts |-> cut, file |-> cut] /\ writer = "meta"
      /\ image # NoFile /\ files[cut] = image /\ cut = fired
  BY DEF WriteMeta, WriterAt, Stages
<1>2. meta' # NoMeta /\ meta'.file = cut /\ meta'.ts = cut
  BY <1>1, TimesType DEF NoMeta
<1> QED BY <1>1, <1>2 DEF Held, Since, Loadable

(* ... and while the log is compacted.                                      *)
LEMMA HeldImage ==
  ASSUME Typed, Stages, writer \in {"compact", "truncate", "rewrite"}
  PROVE  Held = image /\ Since = cut /\ Loadable /\ image # NoFile /\ cut = fired
<1>1. /\ meta = [ts |-> cut, file |-> cut]
      /\ image # NoFile /\ files[cut] = image /\ cut = fired
  BY DEF Stages
<1>2. meta # NoMeta /\ meta.file = cut /\ meta.ts = cut
  BY <1>1, TimesType DEF NoMeta
<1> QED BY <1>1, <1>2 DEF Held, Since, Loadable

(* Every step keeps what was secured where it can be found.                 *)
LEMMA SafeStep == Typed /\ Stages /\ Streams /\ Present /\ Safe /\ [Next]_vars => Safe'
<1> SUFFICES ASSUME Typed, Stages, Streams, Present, Safe, [Next]_vars PROVE Safe'
  OBVIOUS
<1>0. /\ Stream \in Seq(Unit) /\ log \in Seq(Unit) /\ kept \in Seq(Unit) /\ Begins(log, Stream)
      /\ Begins(log, log) /\ Begins(<<>>, log) /\ <<>> \in Seq(Unit)
      /\ rec \in [Handlers -> Record \cup {None}] /\ pc \in [Handlers -> {"idle", "stamp", "append"}]
  <2>1. Stream \in Seq(Unit) /\ log \in Seq(Unit) /\ kept \in Seq(Unit) /\ Begins(log, Stream)
    BY StreamType
  <2>2. Begins(log, log) /\ Begins(<<>>, log) /\ <<>> \in Seq(Unit)
    BY <2>1 DEF Begins
  <2> QED BY <2>1, <2>2 DEF Typed, TypeOK
<1>1. ASSUME UNCHANGED <<log, buffer, broken, kept, secured, appended, files, meta, writer, image,
                         cut, mishaps>>,
             \A h \in Handlers : pc'[h] = "append" => pc[h] = "append" /\ rec'[h] = rec[h]
      PROVE  Safe'
  <2>1. Clean' => Covered(image, cut) /\ Covered(Held, Since)
    BY <1>1 DEF Safe, Clean
  <2>2. UNCHANGED <<Held, Since>>
    BY <1>1, HeldSame
  <2>3. Clean' => Covered(image, cut)' /\ Covered(Held, Since)'
    BY <1>1, <2>1, <2>2, CoveredSame DEF Covered
  <2> QED BY <1>1, <2>2, <2>3, SafeSame
<1>2. CASE Tick
  BY <1>1, <1>2 DEF Tick, memory, taking, disk, history
<1>3. ASSUME NEW h \in Handlers, Commit(h) PROVE Safe'
  <2>1. \A i \in Handlers : pc'[i] = "append" => pc[i] = "append" /\ rec'[i] = rec[i]
    BY <1>0, <1>3 DEF Commit
  <2> QED BY <1>1, <1>3, <2>1 DEF Commit, taking, disk
<1>4. ASSUME NEW h \in Handlers, Stamp(h) PROVE Safe'
  BY <1>4, SafeStamp
<1>5. ASSUME NEW h \in Handlers, AppendRecord(h) PROVE Safe'
  BY <1>5, SafeAppend
<1>6. ASSUME FlushSucceeds \/ FlushFails
      PROVE  /\ log' \in Seq(Unit) /\ Begins(log, log') /\ ~broken
             /\ ~broken' => log' = Stream /\ Stream' = Stream
             /\ FlushSucceeds => log' = Stream
  BY <1>6, FlushTyped, FlushStream DEF FlushSucceeds, FlushFails
<1>7. CASE SyncWAL
  <2>1. UNCHANGED <<Held, Since, writer, image, cut, appended, pc, rec, mishaps>>
        /\ writer \notin {"truncate", "rewrite"}
    BY <1>7, HeldSame DEF SyncWAL, taking, Unlocked
  <2>2. /\ FlushSucceeds \/ FlushFails
        /\ secured' = secured \/ (secured' = secured \cup appended /\ FlushSucceeds)
    BY <1>7 DEF SyncWAL
  <2> QED BY <1>6, <2>1, <2>2, SafeFlush
<1>8. CASE CloseWAL
  <2>1. UNCHANGED <<Held, Since, writer, image, cut, appended, pc, rec, mishaps>>
        /\ writer \notin {"truncate", "rewrite"}
    BY <1>8, HeldSame DEF CloseWAL, taking, Unlocked
  <2>2. CASE /\ FlushSucceeds \/ FlushFails
             /\ secured' = secured \/ (secured' = secured \cup appended /\ FlushSucceeds)
    BY <1>6, <2>1, <2>2, SafeFlush
  <2>3. CASE broken /\ UNCHANGED <<log, buffer, broken, secured>>
    BY <1>0, <2>1, <2>3, SafeFlush
  <2> QED BY <1>8, <2>2, <2>3 DEF CloseWAL
<1>9. CASE TakeTime
  <2> SUFFICES ASSUME Clean' PROVE Safe'
    BY DEF Safe
  <2>1. /\ UNCHANGED <<log, buffer, broken, kept, secured, appended, files, meta, image, pc, rec,
                       mishaps>>
        /\ writer = "wait" /\ writer' = "image" /\ image = NoFile
    BY <1>9 DEF TakeTime, WriterAt, Stages, memory, disk, history
  <2>2. UNCHANGED <<Held, Since, Stream>> /\ Clean
    BY <2>1, HeldSame DEF Clean, Stream
  <2>3. FoundInLog /\ Covered(Held, Since)
    BY <2>2 DEF Safe
  <2>4. FoundInLog' /\ FoundInKept' /\ FoundWithImage'
    BY <2>1, <2>2, <2>3 DEF FoundInLog, FoundInKept, FoundWithImage
  <2>5. Covered(image, cut)' /\ Covered(Held, Since)'
    BY <2>1, <2>2, <2>3 DEF Covered
  <2> QED BY <2>4, <2>5 DEF Safe
<1>10. CASE EncodeBoard
  <2> SUFFICES ASSUME Clean' PROVE Safe'
    BY DEF Safe
  <2>1. /\ UNCHANGED <<log, buffer, broken, kept, secured, appended, files, meta, cut, pc, rec,
                       mishaps>>
        /\ writer = "image" /\ writer' = "data" /\ image' = encodeBoard(board)
    BY <1>10 DEF EncodeBoard, WriterAt, memory, disk, history
  <2>2. UNCHANGED <<Held, Since, Stream>> /\ Clean
    BY <2>1, HeldSame DEF Clean, Stream
  <2>3. FoundInLog /\ Covered(Held, Since)
    BY <2>2 DEF Safe
  <2>4. decodeBoard(image') = board /\ image' # NoFile
    BY <2>1, DecodeEncode, EncodeType DEF Typed, TypeOK, Boards
  <2>5. FoundInLog' /\ FoundInKept'
    BY <2>1, <2>2, <2>3 DEF FoundInLog, FoundInKept
  <2>6. FoundWithImage'
    BY <2>1, <2>4 DEF FoundWithImage, Found, Present
  <2>7. Covered(image, cut)'
    BY <2>1, <2>4 DEF Covered, Present
  <2>8. Covered(Held, Since)'
    BY <2>1, <2>2, <2>3 DEF Covered
  <2> QED BY <2>5, <2>6, <2>7, <2>8 DEF Safe
<1>11. CASE WriteData
  <2> SUFFICES ASSUME Clean' PROVE Safe'
    BY DEF Safe
  <2>1. /\ UNCHANGED <<log, buffer, broken, kept, secured, appended, meta, cut, image, pc, rec,
                       mishaps>>
        /\ writer = "data" /\ writer' = "meta"
    BY <1>11 DEF WriteData, WriterAt, memory, history
  <2>2. UNCHANGED <<Held, Since>>
    BY <1>11, HeldData
  <2>3. UNCHANGED Stream /\ Clean
    BY <2>1 DEF Clean, Stream
  <2>4. FoundInLog /\ FoundWithImage /\ Covered(image, cut) /\ Covered(Held, Since)
    BY <2>3 DEF Safe
  <2>5. FoundInLog' /\ FoundInKept' /\ FoundWithImage'
    BY <2>1, <2>2, <2>3, <2>4 DEF FoundInLog, FoundInKept, FoundWithImage
  <2>6. Covered(image, cut)' /\ Covered(Held, Since)'
    BY <2>1, <2>2, <2>4 DEF Covered
  <2> QED BY <2>5, <2>6 DEF Safe
<1>12. CASE WriteMeta
  <2> SUFFICES ASSUME Clean' PROVE Safe'
    BY DEF Safe
  <2>1. /\ UNCHANGED <<log, buffer, broken, kept, appended, files, cut, image, pc, rec, mishaps>>
        /\ writer = "meta" /\ writer' = "compact" /\ image # NoFile
        /\ secured' = secured \cup Occupied(decodeBoard(image))
    BY <1>12 DEF WriteMeta, WriterAt, Stages, memory
  <2>2. Held' = image /\ Since' = cut
    BY <1>12, HeldMeta
  <2>3. UNCHANGED Stream /\ Clean
    BY <2>1 DEF Clean, Stream
  <2>4. FoundWithImage /\ Covered(image, cut)
    BY <2>3 DEF Safe
  <2>5. Occupied(decodeBoard(image)) \subseteq Found(image, log, cut)
    BY <2>1 DEF Found
  <2>6. FoundInLog'
    BY <2>1, <2>2, <2>3, <2>4, <2>5 DEF FoundInLog, FoundWithImage
  <2>7. FoundInKept' /\ FoundWithImage'
    BY <2>1 DEF FoundInKept, FoundWithImage
  <2>8. Covered(image, cut)' /\ Covered(Held, Since)'
    BY <2>1, <2>2, <2>4 DEF Covered
  <2> QED BY <2>6, <2>7, <2>8 DEF Safe
<1>13. CASE WriteSnapshotFails
  <2>1. /\ UNCHANGED <<log, buffer, broken, secured, appended, pc, rec, mishaps, files, meta>>
        /\ writer \in {"data", "meta"} /\ writer' = "wait" /\ image' = NoFile
    BY <1>13 DEF WriteSnapshotFails, RoundEnds, WriterAt, memory, disk, history
  <2>2. UNCHANGED <<Held, Since, Stream>>
    BY <2>1, HeldSame DEF Stream
  <2>3. Clean' => FoundInLog
    BY <2>1 DEF Safe, Clean
  <2> SUFFICES ASSUME Clean' PROVE Safe'
    BY DEF Safe
  <2>4. secured' \subseteq Found(Held, log', Since)
        /\ (~broken' => appended' \subseteq Found(Held, Stream', Since))
    BY <2>1, <2>2, <2>3 DEF FoundInLog
  <2> QED BY <2>1, <2>2, <2>4, SafeEnds
<1>14. CASE CompactFails
  <2> SUFFICES ASSUME Clean' PROVE Safe'
    BY DEF Safe
  <2>1. /\ UNCHANGED <<secured, appended, pc, rec, mishaps, files, meta>>
        /\ writer = "compact" /\ writer' = "wait" /\ image' = NoFile
        /\ FlushFails \/ UNCHANGED <<log, buffer, broken>>
    BY <1>14 DEF CompactFails, RoundEnds, WriterAt, history
  <2>2. UNCHANGED <<Held, Since>> /\ Clean
    BY <2>1, HeldSame DEF Clean
  <2>3. FoundInLog
    BY <2>2 DEF Safe
  <2>4. CASE FlushFails
    <3>1. broken' /\ log' \in Seq(Unit) /\ Begins(log, log')
      BY <1>6, <2>4, FlushStream
    <3>2. Found(Held, log, Since) \subseteq Found(Held, log', Since)
      BY <1>0, <3>1, FoundBegins
    <3>3. secured' \subseteq Found(Held, log', Since)
      BY <2>1, <2>3, <3>2 DEF FoundInLog
    <3> QED BY <2>1, <2>2, <3>1, <3>3, SafeEnds
  <2>5. CASE UNCHANGED <<log, buffer, broken>>
    <3>1. Stream' = Stream
      BY <2>5 DEF Stream
    <3>2. secured' \subseteq Found(Held, log', Since)
          /\ (~broken' => appended' \subseteq Found(Held, Stream', Since))
      BY <2>1, <2>3, <2>5, <3>1 DEF FoundInLog
    <3> QED BY <2>1, <2>2, <3>2, SafeEnds
  <2> QED BY <2>1, <2>4, <2>5
<1>15. CASE Compact
  <2> SUFFICES ASSUME Clean' PROVE Safe'
    BY DEF Safe
  <2>1. /\ UNCHANGED <<secured, appended, pc, rec, mishaps, files, meta, cut, image>>
        /\ writer = "compact" /\ writer' = "truncate" /\ FlushSucceeds
    BY <1>15 DEF Compact, WriterAt, history
  <2>2. UNCHANGED <<Held, Since>> /\ Clean
    BY <2>1, HeldSame DEF Clean
  <2>3. FoundInLog /\ Covered(image, cut) /\ Covered(Held, Since)
    BY <2>2 DEF Safe
  <2>4. log' = Stream /\ Stream' = Stream /\ ~broken /\ Whole(Stream)
    BY <2>1, <2>2, FlushStream DEF FlushSucceeds, Streams, Clean, Sound
  <2>5. Since = cut
    BY <2>1, HeldImage
  <2>6. PICK bad \in Garbage : kept' = KeptOf(Groups(log'), bad)
    BY <1>15 DEF Compact, KeptOf
  <2>7. Found(Held, log, Since) \subseteq Found(Held, Stream, Since)
    BY <1>0, FoundBegins
  <2>8. Found(Held, Stream, Since) \subseteq Found(Held, kept', Since)
    BY <1>0, <2>4, <2>5, <2>6, FoundKept
  <2>9. secured \cup appended \subseteq Found(Held, Stream, Since)
    BY <2>1, <2>3, <2>4, <2>7 DEF FoundInLog
  <2>10. FoundInLog' /\ FoundInKept' /\ FoundWithImage'
    BY <2>1, <2>2, <2>4, <2>8, <2>9 DEF FoundInLog, FoundInKept, FoundWithImage
  <2>11. Covered(image, cut)' /\ Covered(Held, Since)'
    BY <2>1, <2>2, <2>3 DEF Covered
  <2> QED BY <2>10, <2>11 DEF Safe
<1>16. CASE Truncate
  <2> SUFFICES ASSUME Clean' PROVE Safe'
    BY DEF Safe
  <2>1. /\ UNCHANGED <<secured, appended, pc, rec, mishaps, files, meta, cut, image, kept>>
        /\ writer = "truncate" /\ writer' = "rewrite"
    BY <1>16 DEF Truncate, WriterAt, memory, history
  <2>2. UNCHANGED <<Held, Since>> /\ Clean
    BY <2>1, HeldSame DEF Clean
  <2>3. FoundInKept /\ Covered(image, cut) /\ Covered(Held, Since)
    BY <2>2 DEF Safe
  <2>4. FoundInLog' /\ FoundInKept' /\ FoundWithImage'
    BY <2>1, <2>2, <2>3 DEF FoundInLog, FoundInKept, FoundWithImage
  <2>5. Covered(image, cut)' /\ Covered(Held, Since)'
    BY <2>1, <2>2, <2>3 DEF Covered
  <2> QED BY <2>4, <2>5 DEF Safe
<1>17. CASE Rewrite
  <2> SUFFICES ASSUME Clean' PROVE Safe'
    BY DEF Safe
  <2>1. /\ UNCHANGED <<secured, appended, pc, rec, files, meta, buffer, broken>>
        /\ writer = "rewrite" /\ writer' = "wait" /\ image' = NoFile
        /\ buffer = <<>> /\ ~broken /\ mishaps \subseteq mishaps'
    BY <1>17 DEF Rewrite, RoundEnds, WriterAt, Stages, memory
  <2>2. UNCHANGED <<Held, Since>> /\ Clean
    BY <2>1, HeldSame DEF Clean
  <2>3. FoundInKept
    BY <2>2 DEF Safe
  <2>4. log' = kept
    <3>1. "log cut" \notin mishaps'
      BY DEF Clean
    <3> QED BY <1>17, <3>1 DEF Rewrite
  <2>5. Stream' = log'
    BY <1>0, <2>1, <2>4 DEF Stream
  <2>6. secured' \subseteq Found(Held, log', Since)
        /\ (~broken' => appended' \subseteq Found(Held, Stream', Since))
    BY <2>1, <2>3, <2>4, <2>5 DEF FoundInKept
  <2> QED BY <2>1, <2>2, <2>6, SafeEnds
<1>18. ASSUME NEW g, Stop(g) PROVE Safe'
  <2> SUFFICES ASSUME Clean' PROVE Safe'
    BY DEF Safe
  <2>1. /\ UNCHANGED <<secured, files, meta, log>> /\ appended' = {} /\ writer' = "wait"
        /\ image' = NoFile /\ mishaps \subseteq mishaps' /\ \A h \in Handlers : pc'[h] = "idle"
    BY <1>18 DEF Stop, disk
  <2>2. UNCHANGED <<Held, Since>> /\ Clean
    BY <2>1, HeldSame DEF Clean
  <2>3. FoundInLog /\ FoundInKept
    BY <2>2 DEF Safe
  <2>4. secured \subseteq Found(Held, log, Since)
    <3>1. CASE writer = "rewrite"
      <4>1. kept = <<>>
        BY <1>18, <3>1 DEF Stop, Clean
      <4>2. Found(Held, <<>>, Since) \subseteq Found(Held, log, Since)
        BY <1>0, FoundBegins
      <4> QED BY <2>3, <3>1, <4>1, <4>2 DEF FoundInKept
    <3> QED BY <2>3, <3>1 DEF FoundInLog
  <2> QED BY <2>1, <2>2, <2>4, SafeEnds
<1>19. CASE Exit
  BY <1>18, <1>19 DEF Exit
<1>20. CASE Crash
  BY <1>18, <1>20 DEF Crash
<1>21. CASE Restart
  <2> SUFFICES ASSUME Clean' PROVE Safe'
    BY DEF Safe
  <2>1. /\ UNCHANGED <<files, meta, log, pc, rec>> /\ appended' = {} /\ writer' = "wait"
        /\ writer = "wait" /\ image' = NoFile /\ mishaps \subseteq mishaps'
        /\ secured' \subseteq secured
    BY <1>21 DEF Restart, Stages, memory, disk
  <2>2. UNCHANGED <<Held, Since>> /\ Clean
    BY <2>1, HeldSame DEF Clean
  <2>3. secured' \subseteq Found(Held, log', Since)
    BY <2>1, <2>2 DEF Safe, FoundInLog
  <2> QED BY <2>1, <2>2, <2>3, SafeEnds
<1>22. CASE UNCHANGED vars
  BY <1>1, <1>22 DEF vars, memory, taking, disk, history
<1> QED BY <1>2, <1>3, <1>4, <1>5, <1>7, <1>8, <1>9, <1>10, <1>11, <1>12, <1>13, <1>14, <1>15,
           <1>16, <1>17, <1>19, <1>20, <1>21, <1>22 DEF Next

-----------------------------------------------------------------------------
Sure == Typed /\ Stages /\ Streams /\ Present /\ Safe

(* These invariants hold together.                                          *)
LEMMA SureAlways == Spec => []Sure
<1>1. Init => Sure
  BY TypedInit, StagesInit, StreamsInit, PresentInit, SafeInit DEF Sure
<1>2. Sure /\ [Next]_vars => Sure'
  BY TypedStep, StagesStep, StreamsStep, PresentStep, SafeStep DEF Sure
<1> QED BY <1>1, <1>2, PTL DEF Spec

(* A placement that was synced, or is in a completed snapshot, can be found  *)
(* on disk at every moment: in the snapshot meta.json names, or in a record  *)
(* the replay does not skip.                                                *)
THEOREM NothingIsLost == Spec => []NothingFallsBetween
<1>1. Sure => NothingFallsBetween
  <2> SUFFICES ASSUME Sure, Clean
               PROVE  secured \subseteq Durably(IF writer = "rewrite" THEN kept ELSE log)
    BY DEF NothingFallsBetween, Clean
  <2>1. PICK units : units = IF writer = "rewrite" THEN kept ELSE log
    OBVIOUS
  <2>2. secured \subseteq Found(Held, units, Since)
    BY <2>1 DEF Sure, Safe, FoundInLog, FoundInKept
  <2>3. units \in Seq(Unit) /\ Whole(units)
    <3>1. Whole(Stream) /\ Whole(kept)
      BY DEF Sure, Streams, Sound, Clean
    <3>2. Stream \in Seq(Unit) /\ log \in Seq(Unit) /\ kept \in Seq(Unit) /\ Begins(log, Stream)
      BY StreamType DEF Sure
    <3>3. Whole(log)
      BY <3>1, <3>2, BeginsWhole
    <3> QED BY <2>1, <3>1, <3>2, <3>3
  <2>4. /\ Loadable => Held = files[meta.file] /\ Since = meta.ts
        /\ ~Loadable => Held = NoFile
    BY DEF Held, Since
  <2>5. \A g \in 1 .. GroupCount(units) : RecordAt(units, g) \in Range(RecordsOf(units, None))
    <3> TAKE g \in 1 .. GroupCount(units)
    <3>1. RecordsOf(units, None)[g] = RecordAt(units, g)
      BY <2>3, WholeRecord
    <3>2. DOMAIN RecordsOf(units, None) = 1 .. GroupCount(units)
      BY DEF RecordsOf
    <3> QED BY <3>1, <3>2 DEF Range
  <2>6. Found(Held, units, Since) \subseteq Durably(units)
    BY <2>4, <2>5 DEF Found, Durably
  <2> QED BY <2>1, <2>2, <2>6
<1> QED BY <1>1, SureAlways, PTL

-----------------------------------------------------------------------------
(* The board after the first k records of some units are replayed.          *)

Told(units, k) == [i \in 1 .. k |-> RecordAt(units, i)]
ReplayTo(b, since, units, k) == Replay(b, since, Told(units, k))

(* Replay one record more.                                                  *)
LEMMA ReplayStep ==
  ASSUME NEW b \in Boards, NEW since, NEW units, NEW n \in Nat
  PROVE  /\ ReplayTo(b, since, units, n) \in Boards
         /\ n = 0 => ReplayTo(b, since, units, n) = b
         /\ n # 0 => ReplayTo(b, since, units, n)
                       = Applied(ReplayTo(b, since, units, n - 1), RecordAt(units, n), since)
<1>1. PICK recs : recs = Told(units, n)
  OBVIOUS
<1>2. DOMAIN recs = 1 .. n /\ recs = [i \in 1 .. n |-> recs[i]]
      /\ \A i \in 1 .. n : recs[i] = RecordAt(units, i)
  BY <1>1 DEF Told
<1>3. PICK R \in [0 .. n -> Boards] : IsReplay(R, n, b, since, recs)
  BY <1>2, ReplayRun
<1>4. ReplayTo(b, since, units, n) = R[n] /\ R[0] = b
  BY <1>1, <1>3 DEF IsReplay, ReplayTo
<1>5. R[n] \in Boards /\ (n = 0 => R[n] = b)
  BY <1>4
<1>6. ASSUME n # 0
      PROVE  ReplayTo(b, since, units, n)
               = Applied(ReplayTo(b, since, units, n - 1), RecordAt(units, n), since)
  <2>1. PICK m \in Nat : n = m + 1 /\ m = n - 1
    BY <1>6
  <2>2. PICK few : few = Told(units, m)
    OBVIOUS
  <2>3. DOMAIN few = 1 .. m /\ few = [i \in 1 .. m |-> few[i]]
        /\ \A i \in 1 .. m : few[i] = RecordAt(units, i)
    BY <2>2 DEF Told
  <2>4. PICK Q \in [0 .. m -> Boards] : IsReplay(Q, m, b, since, few)
    BY <2>3, ReplayRun
  <2>5. PICK S : S = {j \in 0 .. m : R[j] = Q[j]}
    OBVIOUS
  <2>6. 0 \in S
    BY <1>4, <2>4, <2>5 DEF IsReplay
  <2>7. ASSUME NEW j \in 1 .. m, j - 1 \in S PROVE j \in S
    <3>1. j \in 1 .. n /\ j \in 0 .. m
      BY <2>1
    <3>2. R[j] = Applied(R[j - 1], RecordAt(units, j), since)
      BY <1>2, <1>3, <3>1 DEF IsReplay
    <3>3. Q[j] = Applied(Q[j - 1], RecordAt(units, j), since)
      BY <2>3, <2>4 DEF IsReplay
    <3> QED BY <2>5, <2>7, <3>1, <3>2, <3>3
  <2>8. \A j \in 0 .. m : j \in S
    BY <2>6, <2>7, PassedOn
  <2>9. R[m] = Q[m]
    BY <2>5, <2>8
  <2>10. n \in 1 .. n
    BY <1>6
  <2>11. R[n] = Applied(R[n - 1], RecordAt(units, n), since)
    BY <1>2, <1>3, <2>10 DEF IsReplay
  <2>12. ReplayTo(b, since, units, m) = Q[m]
    BY <2>2, <2>4 DEF IsReplay, ReplayTo
  <2> QED BY <1>4, <2>1, <2>9, <2>11, <2>12
<1> QED BY <1>4, <1>5, <1>6

(* What begins the same is replayed the same.                               *)
LEMMA ReplayBegins ==
  ASSUME NEW x \in Seq(Unit), NEW y \in Seq(Unit), Begins(x, y), NEW k \in 0 .. GroupCount(x),
         NEW b, NEW since
  PROVE  ReplayTo(b, since, x, k) = ReplayTo(b, since, y, k)
<1>1. GroupCount(x) \in Nat /\ \A g \in 1 .. GroupCount(x) : RecordAt(x, g) = RecordAt(y, g)
  BY BeginsWhole
<1>2. \A i \in 1 .. k : RecordAt(x, i) = RecordAt(y, i)
  BY <1>1
<1>3. Told(x, k) = Told(y, k)
  BY <1>2 DEF Told
<1> QED BY <1>3 DEF ReplayTo

(* Only the records that are not skipped add a cell.                        *)
LEMMA ReplayAdds ==
  ASSUME NEW b \in Boards, NEW since, NEW units, NEW n \in Nat, NEW k \in 0 .. n, NEW cells,
         Occupied(ReplayTo(b, since, units, k)) \subseteq cells,
         \A g \in k + 1 .. n : ~Skipped(RecordAt(units, g).ts, since) => RecordAt(units, g).at \in cells
  PROVE  Occupied(ReplayTo(b, since, units, n)) \subseteq cells
<1>1. PICK S : S = {j \in 0 .. n : j >= k => Occupied(ReplayTo(b, since, units, j)) \subseteq cells}
  OBVIOUS
<1>2. 0 \in S
  <2>1. 0 >= k => k = 0
    OBVIOUS
  <2> QED BY <1>1, <2>1
<1>3. ASSUME NEW j \in 1 .. n, j - 1 \in S PROVE j \in S
  <2>1. CASE j <= k
    <3>1. j >= k => j = k
      BY <2>1
    <3> QED BY <1>1, <3>1
  <2>2. CASE j > k
    <3>1. j \in k + 1 .. n /\ j - 1 >= k /\ j - 1 \in Nat /\ j \in Nat /\ j # 0
      BY <2>2
    <3>2. PICK c : c = ReplayTo(b, since, units, j - 1)
      OBVIOUS
    <3>3. c \in Boards /\ Occupied(c) \subseteq cells
      BY <1>1, <1>3, <3>1, <3>2, ReplayStep
    <3>4. ReplayTo(b, since, units, j) = Applied(c, RecordAt(units, j), since)
      BY <3>1, <3>2, ReplayStep
    <3>5. CASE Skipped(RecordAt(units, j).ts, since)
      BY <1>1, <3>3, <3>4, <3>5 DEF Applied
    <3>6. CASE ~Skipped(RecordAt(units, j).ts, since)
      <4>1. RecordAt(units, j).at \in cells
        BY <3>1, <3>6
      <4>2. Occupied(Applied(c, RecordAt(units, j), since))
              \subseteq Occupied(c) \cup {RecordAt(units, j).at}
        BY <3>3, AppliedType
      <4> QED BY <1>1, <3>3, <3>4, <4>1, <4>2
    <3> QED BY <3>5, <3>6
  <2> QED BY <2>1, <2>2
<1>4. \A j \in 0 .. n : j \in S
  BY <1>2, <1>3, PassedOn
<1> QED BY <1>1, <1>4

(* restoreFromDisk replays the whole log.                                   *)
LEMMA RestoredReplay ==
  ASSUME log \in Seq(Unit), Whole(log), NEW bad
  PROVE  Restored(bad) = IF Loadable THEN ReplayTo(decodeBoard(Held), Since, log, GroupCount(log))
                                     ELSE FreshBoard
<1>1. \A g \in 1 .. GroupCount(log) : RecordsOf(log, bad)[g] = RecordAt(log, g)
  BY WholeRecord
<1>2. RecordsOf(log, bad) = Told(log, GroupCount(log))
  BY <1>1 DEF RecordsOf, Told
<1>3. ReplayWAL(decodeBoard(files[meta.file]), meta.ts, bad)
        = Replay(decodeBoard(files[meta.file]), meta.ts, RecordsOf(log, bad))
  BY DEF ReplayWAL, Replay
<1> QED BY <1>2, <1>3 DEF Restored, ReplayTo, Held, Since

-----------------------------------------------------------------------------
(* A restart would show only stones the board has: from some record on, the  *)
(* log adds none but these, and the board that is replayed up to there has   *)
(* none but these.                                                          *)

Shows(snap, since, units, more, cells) ==
  \E k \in 0 .. GroupCount(units) :
    /\ Occupied(ReplayTo(decodeBoard(snap), since, units, k)) \subseteq cells
    /\ \A g \in k + 1 .. GroupCount(more) : RecordAt(more, g).ts > since => RecordAt(more, g).at \in cells

Late(units, time, cells) ==
  \A g \in 1 .. GroupCount(units) : RecordAt(units, g).ts > time => RecordAt(units, g).at \in cells

Known == "torn" \notin mishaps =>
  /\ ~Loadable => Occupied(FreshBoard) \subseteq Occupied(board)
  /\ Late(Stream, fired, Occupied(board))
  /\ Late(kept, fired, Occupied(board))
  /\ \A g \in 1 .. GroupCount(kept) : RecordAt(kept, g).ts > fired
  /\ Loadable => Shows(Held, Since, log, Stream, Occupied(board))

(* With a snapshot of the board nothing of the log matters.                 *)
LEMMA ShowsAtOnce ==
  ASSUME NEW snap, NEW since, NEW units \in Seq(Unit), NEW more, NEW cells,
         Occupied(decodeBoard(snap)) \subseteq cells, Late(more, since, cells)
  PROVE  Shows(snap, since, units, more, cells)
<1>1. ReplayTo(decodeBoard(snap), since, units, 0) = decodeBoard(snap)
  BY DecodeType, ReplayStep
<1>2. 0 \in 0 .. GroupCount(units)
  BY GroupCountType
<1> QED BY <1>1, <1>2 DEF Shows, Late

(* The stream goes on with records of stones the board has.                 *)
Continues(more, next, cells) ==
  \A g \in 1 .. GroupCount(next) :
    \/ g \in 1 .. GroupCount(more) /\ RecordAt(next, g) = RecordAt(more, g)
    \/ RecordAt(next, g).at \in cells

(* It shows no others when the log, the stream and the board go on.         *)
LEMMA ShowsGrows ==
  ASSUME NEW snap, NEW since, NEW units \in Seq(Unit), NEW units2 \in Seq(Unit), Begins(units, units2),
         NEW more, NEW next, NEW cells, NEW cells2, cells \subseteq cells2,
         Continues(more, next, cells2), Shows(snap, since, units, more, cells)
  PROVE  Shows(snap, since, units2, next, cells2)
<1>1. PICK k \in 0 .. GroupCount(units) :
        /\ Occupied(ReplayTo(decodeBoard(snap), since, units, k)) \subseteq cells
        /\ \A g \in k + 1 .. GroupCount(more) :
             RecordAt(more, g).ts > since => RecordAt(more, g).at \in cells
  BY DEF Shows
<1>2. GroupCount(units) \in Nat /\ GroupCount(units2) \in Nat /\ GroupCount(units) <= GroupCount(units2)
  BY BeginsWhole
<1>3. ReplayTo(decodeBoard(snap), since, units2, k) = ReplayTo(decodeBoard(snap), since, units, k)
  BY ReplayBegins
<1>4. k \in 0 .. GroupCount(units2) /\ k \in Nat
  BY <1>2
<1>5. ASSUME NEW g \in k + 1 .. GroupCount(next), RecordAt(next, g).ts > since
      PROVE  RecordAt(next, g).at \in cells2
  <2>1. g \in 1 .. GroupCount(next)
    BY <1>4
  <2>2. CASE g \in 1 .. GroupCount(more) /\ RecordAt(next, g) = RecordAt(more, g)
    <3>1. g \in k + 1 .. GroupCount(more)
      BY <1>4, <2>2
    <3> QED BY <1>1, <1>5, <2>2, <3>1
  <2> QED BY <2>1, <2>2 DEF Continues
<1> QED BY <1>1, <1>3, <1>4, <1>5 DEF Shows

(* Nor do its later records when the stream and the board go on.            *)
LEMMA LateGrows ==
  ASSUME NEW more \in Seq(Unit), NEW next \in Seq(Unit), NEW t \in Int, NEW u \in Int, t <= u,
         NEW cells, NEW cells2, cells \subseteq cells2,
         Continues(more, next, cells2), Late(more, t, cells)
  PROVE  Late(next, u, cells2)
<1> SUFFICES ASSUME NEW g \in 1 .. GroupCount(next), RecordAt(next, g).ts > u
             PROVE  RecordAt(next, g).at \in cells2
  BY DEF Late
<1>1. RecordAt(next, g).ts \in Nat
  BY RecordTimes
<1>2. CASE g \in 1 .. GroupCount(more) /\ RecordAt(next, g) = RecordAt(more, g)
  BY <1>1, <1>2 DEF Late
<1> QED BY <1>2 DEF Continues

(* What begins a stream continues it.                                       *)
LEMMA BeginsContinues ==
  ASSUME NEW x \in Seq(Unit), NEW y \in Seq(Unit), Begins(x, y), NEW cells
  PROVE  Continues(y, x, cells)
<1>1. \A g \in 1 .. GroupCount(x) : g \in 1 .. GroupCount(y) /\ RecordAt(x, g) = RecordAt(y, g)
  BY BeginsWhole
<1> QED BY <1>1 DEF Continues

(* Most steps leave what is held and add what the board has.                *)
LEMMA KnownMove ==
  ASSUME Typed, Known, mishaps \subseteq mishaps', UNCHANGED <<Held, Since, Loadable>>,
         log' \in Seq(Unit), Begins(log, log'), Stream' \in Seq(Unit),
         Occupied(board) \subseteq Occupied(board'), Continues(Stream, Stream', Occupied(board')),
         fired' \in Nat, fired <= fired', kept' = <<>> \/ (kept' = kept /\ fired' = fired)
  PROVE  Known'
<1> SUFFICES ASSUME "torn" \notin mishaps' PROVE Known'
  BY DEF Known
<1>1. "torn" \notin mishaps /\ fired \in Int /\ fired' \in Int /\ log \in Seq(Unit)
      /\ Stream \in Seq(Unit) /\ kept \in Seq(Unit)
  BY TimesType, StreamType
<1>2. /\ ~Loadable => Occupied(FreshBoard) \subseteq Occupied(board)
      /\ Late(Stream, fired, Occupied(board))
      /\ Late(kept, fired, Occupied(board))
      /\ \A g \in 1 .. GroupCount(kept) : RecordAt(kept, g).ts > fired
      /\ Loadable => Shows(Held, Since, log, Stream, Occupied(board))
  BY <1>1 DEF Known
<1>3. Late(Stream', fired', Occupied(board'))
  BY <1>1, <1>2, LateGrows
<1>4. Late(kept', fired', Occupied(board')) /\ \A g \in 1 .. GroupCount(kept') : RecordAt(kept', g).ts > fired'
  <2>1. CASE kept' = <<>>
    <3>1. 1 .. GroupCount(kept') = {}
      BY <2>1, NoneWhole
    <3> QED BY <3>1 DEF Late
  <2>2. CASE kept' = kept /\ fired' = fired
    BY <1>2, <2>2 DEF Late
  <2> QED BY <2>1, <2>2
<1>5. Loadable' => Shows(Held', Since', log', Stream', Occupied(board'))
  BY <1>1, <1>2, ShowsGrows
<1> QED BY <1>2, <1>3, <1>4, <1>5 DEF Known

(* Old logs hold no later records than the first snapshot.                  *)
LEMMA KnownInit == Init => Known
<1> SUFFICES ASSUME Init, "torn" \notin mishaps PROVE Known
  BY DEF Known
<1>1. /\ board = FreshBoard /\ log \in OldLogs /\ ~Torn(log) /\ buffer = <<>> /\ broken = FALSE
      /\ kept = <<>> /\ fired = 1 /\ meta \in {NoMeta, [ts |-> 0, file |-> 0]}
      /\ files = [t \in Time |-> IF t = 0 THEN encodeBoard(FreshBoard) ELSE NoFile]
  BY DEF Init
<1>2. log \in Seq(Unit) /\ \A g \in 1 .. GroupCount(log) : RecordAt(log, g).ts = 0
  BY <1>1, PersistenceAssumption DEF RecordAt
<1>3. Stream = log
  BY <1>1, <1>2 DEF Stream
<1>4. Late(Stream, 1, Occupied(board)) /\ Late(Stream, 0, Occupied(board))
  BY <1>2, <1>3 DEF Late
<1>5. 1 .. GroupCount(kept) = {}
  BY <1>1, NoneWhole
<1>6. ASSUME Loadable PROVE Shows(Held, Since, log, Stream, Occupied(board))
  <2>1. 0 \in Time
    BY PersistenceAssumption DEF Time
  <2>2. meta.file = 0 /\ meta.ts = 0
    BY <1>1, <1>6 DEF Loadable
  <2>3. Held = encodeBoard(FreshBoard) /\ Since = 0
    BY <1>1, <1>6, <2>1, <2>2 DEF Held, Since
  <2>4. decodeBoard(Held) = board
    BY <1>1, <2>3, SeedType, DecodeEncode
  <2> QED BY <1>2, <1>4, <2>3, <2>4, ShowsAtOnce
<1> QED BY <1>1, <1>4, <1>5, <1>6 DEF Known, Late

(* Every step keeps what a restart would show among the stones of the board. *)
LEMMA KnownStep == Typed /\ Stages /\ Streams /\ Present /\ Known /\ [Next]_vars => Known'
<1> SUFFICES ASSUME Typed, Stages, Streams, Present, Known, [Next]_vars PROVE Known'
  OBVIOUS
<1>0. /\ Stream \in Seq(Unit) /\ log \in Seq(Unit) /\ kept \in Seq(Unit) /\ Begins(log, Stream)
      /\ board \in Boards /\ fired \in Nat /\ clock \in Nat
  BY StreamType, TimesType DEF Typed, TypeOK, Boards
<1>a. Begins(log, log) /\ \A cells : Continues(Stream, Stream, cells) /\ fired <= fired
  BY <1>0 DEF Begins, Continues
<1>1. ASSUME mishaps \subseteq mishaps', UNCHANGED <<Held, Since, Loadable, log, Stream>>,
             Occupied(board) \subseteq Occupied(board'), fired' \in Nat, fired <= fired',
             kept' = <<>> \/ (kept' = kept /\ fired' = fired)
      PROVE  Known'
  BY <1>0, <1>a, <1>1, KnownMove
<1>2. CASE Tick
  BY <1>0, <1>1, <1>2, HeldSame DEF Tick, memory, taking, disk, history, Stream
<1>3. ASSUME NEW h \in Handlers, Commit(h) PROVE Known'
  <2>1. PICK q \in Targets : board' = Placed(board, q, TeamOf[h])
    BY <1>3 DEF Commit
  <2>2. q \in Coord /\ TeamOf[h] \in Team
    BY PersistenceAssumption
  <2>3. Occupied(board) \subseteq Occupied(board')
    BY <1>0, <2>1, <2>2, PlacedOccupied
  <2> QED BY <1>0, <1>1, <1>3, <2>3, HeldSame DEF Commit, taking, disk, Stream
<1>4. ASSUME NEW h \in Handlers, Stamp(h) PROVE Known'
  <2>1. UNCHANGED <<board, fired, kept, log, buffer, broken, files, meta>>
        /\ mishaps \subseteq mishaps'
    BY <1>4 DEF Stamp, taking, disk
  <2>2. UNCHANGED <<Held, Since, Loadable, Stream>>
    BY <2>1, HeldSame DEF Stream
  <2> QED BY <1>0, <1>1, <2>1, <2>2
<1>5. ASSUME NEW h \in Handlers, AppendRecord(h) PROVE Known'
  <2> SUFFICES ASSUME "torn" \notin mishaps' PROVE Known'
    BY DEF Known
  <2>1. /\ UNCHANGED <<files, meta, board, fired, kept, phase>> /\ mishaps \subseteq mishaps'
        /\ pc[h] = "append" /\ phase # "down"
    BY <1>5 DEF AppendRecord, taking, Running
  <2>2. rec[h].at \in Occupied(board) /\ rec[h] \in Record
    BY <1>5, <2>1, AppendStream DEF Present
  <2>3. log' \in Seq(Unit) /\ Begins(log, log')
    BY <1>5, <1>a, AppendTyped, AppendStream
  <2>4. Stream' \in Seq(Unit) /\ Continues(Stream, Stream', Occupied(board'))
    <3>1. CASE Stream' = Stream
      BY <1>0, <1>a, <3>1
    <3>2. CASE ~broken /\ (Stream' = Stream \o UnitsOf(rec[h])
                           \/ (Stream' = log' /\ Begins(Stream', Stream \o UnitsOf(rec[h]))))
      <4>1. ~Torn(Stream)
        BY <2>1, <3>2 DEF Streams, Streaming
      <4>2. PICK all : all = Stream \o UnitsOf(rec[h])
        OBVIOUS
      <4>3. all \in Seq(Unit) /\ GroupCount(Stream) \in Nat /\ GroupCount(all) = GroupCount(Stream) + 1
            /\ RecordAt(all, GroupCount(Stream) + 1) = rec[h] /\ Begins(Stream, all)
        BY <1>0, <2>2, <4>1, <4>2, AddedWhole
      <4>4. \A g \in 1 .. GroupCount(Stream) : RecordAt(Stream, g) = RecordAt(all, g)
        BY <1>0, <4>3, BeginsWhole
      <4>5. \A g \in 1 .. GroupCount(all) : g \in 1 .. GroupCount(Stream) \/ g = GroupCount(Stream) + 1
        BY <4>3
      <4>6. Stream' \in Seq(Unit) /\ Begins(Stream', all)
        <5>1. Begins(all, all)
          BY <4>3 DEF Begins
        <5> QED BY <2>3, <3>2, <4>2, <4>3, <5>1
      <4>7. \A g \in 1 .. GroupCount(Stream') : g \in 1 .. GroupCount(all)
                                               /\ RecordAt(Stream', g) = RecordAt(all, g)
        BY <4>3, <4>6, BeginsWhole
      <4> QED BY <2>1, <2>2, <4>3, <4>4, <4>5, <4>6, <4>7 DEF Continues
    <3> QED BY <1>5, <3>1, <3>2, AppendStream
  <2>5. UNCHANGED <<Held, Since, Loadable>>
    BY <2>1, HeldSame
  <2> QED BY <1>0, <1>a, <2>1, <2>3, <2>4, <2>5, KnownMove
<1>6. ASSUME FlushSucceeds \/ FlushFails, UNCHANGED <<files, meta, board, fired, mishaps>>,
             kept' = <<>> \/ kept' = kept
      PROVE  Known'
  <2>1. log' \in Seq(Unit) /\ Begins(log, log') /\ Begins(Stream', Stream)
        /\ (Stream' = Stream \/ Stream' = log')
    BY <1>6, FlushTyped, FlushStream
  <2>2. Stream' \in Seq(Unit) /\ Continues(Stream, Stream', Occupied(board'))
    BY <1>0, <2>1, BeginsContinues
  <2>3. UNCHANGED <<Held, Since, Loadable>>
    BY <1>6, HeldSame
  <2> QED BY <1>0, <1>a, <1>6, <2>1, <2>2, <2>3, KnownMove
<1>7. CASE SyncWAL
  <2>1. UNCHANGED <<files, meta, board, fired, mishaps, kept>> /\ (FlushSucceeds \/ FlushFails)
    BY <1>7 DEF SyncWAL, taking
  <2> QED BY <1>6, <2>1
<1>8. CASE CloseWAL
  <2>1. UNCHANGED <<files, meta, board, fired, mishaps, kept>>
    BY <1>8 DEF CloseWAL, taking
  <2>2. CASE FlushSucceeds \/ FlushFails
    BY <1>6, <2>1, <2>2
  <2>3. CASE UNCHANGED <<log, buffer, broken>>
    BY <1>0, <1>1, <2>1, <2>3, HeldSame DEF Stream
  <2> QED BY <1>8, <2>2, <2>3 DEF CloseWAL
<1>9. CASE TakeTime
  <2>1. kept = <<>>
    BY <1>9 DEF TakeTime, WriterAt, Stages
  <2>2. fired' = clock /\ fired <= clock
    BY <1>9 DEF TakeTime, Stages
  <2> QED BY <1>0, <1>1, <1>9, <2>1, <2>2, HeldSame DEF TakeTime, memory, disk, history, Stream
<1>10. CASE EncodeBoard
  BY <1>0, <1>1, <1>10, HeldSame DEF EncodeBoard, memory, disk, history, Stream
<1>11. CASE WriteData
  <2>1. UNCHANGED <<Held, Since, Loadable>>
    BY <1>11, HeldData
  <2> QED BY <1>0, <1>1, <1>11, <2>1 DEF WriteData, memory, history, Stream
<1>12. CASE WriteMeta
  <2> SUFFICES ASSUME "torn" \notin mishaps' PROVE Known'
    BY DEF Known
  <2>1. UNCHANGED <<board, fired, kept, log, buffer, broken, mishaps>> /\ kept = <<>>
    BY <1>12 DEF WriteMeta, WriterAt, Stages, memory
  <2>2. Held' = image /\ Since' = cut /\ Loadable' /\ image # NoFile /\ cut = fired
    BY <1>12, HeldMeta
  <2>3. Stream' = Stream /\ Late(Stream, fired, Occupied(board))
    BY <2>1 DEF Known, Stream
  <2>4. Occupied(decodeBoard(image)) \subseteq Occupied(board)
    BY <2>2 DEF Present
  <2>5. Shows(image, fired, log, Stream, Occupied(board))
    BY <1>0, <2>3, <2>4, ShowsAtOnce
  <2>6. Late(kept', fired', Occupied(board'))
        /\ \A g \in 1 .. GroupCount(kept') : RecordAt(kept', g).ts > fired'
    BY <2>1 DEF Known
  <2> QED BY <2>1, <2>2, <2>3, <2>5, <2>6 DEF Known
<1>13. CASE WriteSnapshotFails
  BY <1>0, <1>1, <1>13, HeldSame DEF WriteSnapshotFails, RoundEnds, memory, disk, history, Stream
<1>14. CASE CompactFails
  <2>1. UNCHANGED <<files, meta, board, fired, mishaps>> /\ kept' = <<>>
    BY <1>14 DEF CompactFails, RoundEnds, history
  <2>2. CASE FlushFails
    BY <1>6, <2>1, <2>2
  <2>3. CASE UNCHANGED <<log, buffer, broken>>
    BY <1>0, <1>1, <2>1, <2>3, HeldSame DEF Stream
  <2> QED BY <1>14, <2>2, <2>3 DEF CompactFails
<1>15. CASE Compact
  <2> SUFFICES ASSUME "torn" \notin mishaps' PROVE Known'
    BY DEF Known
  <2>1. /\ UNCHANGED <<board, fired, cut, files, meta, mishaps>> /\ FlushSucceeds
        /\ writer = "compact"
    BY <1>15 DEF Compact, WriterAt, history
  <2>2. log' = Stream /\ Stream' = Stream /\ Whole(Stream)
    BY <2>1, FlushStream DEF Streams, Sound
  <2>3. Since = fired /\ cut = fired
    BY <2>1, HeldImage
  <2>4. PICK bad \in Garbage : kept' = KeptOf(Groups(log'), bad)
    BY <1>15 DEF Compact, KeptOf
  <2>5. PICK f : Filters(f, kept', Stream, GroupCount(Stream))
    BY <1>0, <2>2, <2>4, KeptFilters
  <2>6. \A i \in 1 .. GroupCount(kept') : /\ f[i] \in 1 .. GroupCount(Stream)
                                          /\ RecordAt(kept', i) = RecordAt(Stream, f[i])
    BY <1>0, <2>2, <2>4, <2>5, KeptSound
  <2>7. \A i \in 1 .. GroupCount(kept') : RecordAt(Stream, f[i]).ts > cut
    BY <2>5 DEF Filters, Keeps
  <2>8. /\ ~Loadable => Occupied(FreshBoard) \subseteq Occupied(board)
        /\ Late(Stream, fired, Occupied(board))
        /\ Loadable => Shows(Held, Since, log, Stream, Occupied(board))
    BY <2>1 DEF Known
  <2>9. Late(kept', fired', Occupied(board'))
        /\ \A g \in 1 .. GroupCount(kept') : RecordAt(kept', g).ts > fired'
    BY <2>1, <2>3, <2>6, <2>7, <2>8 DEF Late
  <2>10. UNCHANGED <<Held, Since, Loadable>>
    BY <2>1, HeldSame
  <2>11. Loadable => Shows(Held, Since, log', Stream', Occupied(board))
    BY <1>0, <1>a, <2>2, <2>8, ShowsGrows
  <2> QED BY <2>1, <2>2, <2>8, <2>9, <2>10, <2>11 DEF Known
<1>16. ASSUME writer \in {"truncate", "rewrite"}, UNCHANGED <<board, fired, files, meta>>,
              "torn" \notin mishaps, log' \in Seq(Unit), Stream' = log',
              Late(log', fired, Occupied(board)), kept' = kept \/ kept' = <<>>
       PROVE  Known'
  <2>1. Held = image /\ Since = fired /\ Loadable /\ image # NoFile
    BY <1>16, HeldImage
  <2>2. UNCHANGED <<Held, Since, Loadable>>
    BY <1>16, HeldSame
  <2>3. Occupied(decodeBoard(image)) \subseteq Occupied(board)
    BY <2>1 DEF Present
  <2>4. Shows(Held', Since', log', Stream', Occupied(board'))
    BY <1>16, <2>1, <2>2, <2>3, ShowsAtOnce
  <2>5. Late(kept', fired', Occupied(board'))
        /\ \A g \in 1 .. GroupCount(kept') : RecordAt(kept', g).ts > fired'
    <3>1. CASE kept' = kept
      BY <1>16, <3>1 DEF Known
    <3>2. CASE kept' = <<>>
      <4>1. 1 .. GroupCount(kept') = {}
        BY <3>2, NoneWhole
      <4> QED BY <4>1 DEF Late
    <3> QED BY <1>16, <3>1, <3>2
  <2> QED BY <1>16, <2>1, <2>2, <2>4, <2>5 DEF Known
<1>17. CASE Truncate
  <2> SUFFICES ASSUME "torn" \notin mishaps' PROVE Known'
    BY DEF Known
  <2>1. /\ UNCHANGED <<board, fired, files, meta, buffer, broken, mishaps, kept>> /\ log' = <<>>
        /\ writer = "truncate" /\ buffer = <<>>
    BY <1>17 DEF Truncate, WriterAt, Stages, memory, history
  <2>2. Stream' = log' /\ log' \in Seq(Unit)
    BY <2>1 DEF Stream
  <2>3. Late(log', fired, Occupied(board))
    <3>1. 1 .. GroupCount(log') = {}
      BY <2>1, NoneWhole
    <3> QED BY <3>1 DEF Late
  <2> QED BY <1>16, <2>1, <2>2, <2>3
<1>18. CASE Rewrite
  <2> SUFFICES ASSUME "torn" \notin mishaps' PROVE Known'
    BY DEF Known
  <2>1. /\ UNCHANGED <<board, fired, files, meta, buffer, broken>> /\ mishaps \subseteq mishaps'
        /\ kept' = <<>> /\ writer = "rewrite" /\ buffer = <<>>
    BY <1>18 DEF Rewrite, RoundEnds, WriterAt, Stages, memory
  <2>2. log' \in Seq(Unit) /\ Begins(log', kept)
    <3>1. CASE log' = kept
      BY <1>0, <3>1 DEF Begins
    <3>2. CASE \E n \in 0 .. Len(kept) - 1 : log' = SubSeq(kept, 1, n)
      <4>1. PICK n \in 0 .. Len(kept) - 1 : log' = SubSeq(kept, 1, n)
        BY <3>2
      <4>2. n \in 0 .. Len(kept)
        BY <1>0
      <4> QED BY <1>0, <4>1, <4>2, BeginsSubSeq
    <3> QED BY <1>18, <3>1, <3>2 DEF Rewrite
  <2>3. Stream' = log'
    BY <2>1, <2>2 DEF Stream
  <2>4. Late(kept, fired, Occupied(board)) /\ "torn" \notin mishaps
    BY <2>1 DEF Known
  <2>5. Continues(kept, log', Occupied(board))
    BY <1>0, <2>2, BeginsContinues
  <2>6. Late(log', fired, Occupied(board))
    BY <1>0, <2>2, <2>4, <2>5, LateGrows
  <2> QED BY <1>16, <2>1, <2>2, <2>3, <2>4, <2>6
<1>19. ASSUME NEW g, Stop(g) PROVE Known'
  <2>1. /\ UNCHANGED <<board, fired, log, files, meta>> /\ buffer' = <<>> /\ ~broken' /\ kept' = <<>>
        /\ mishaps \subseteq mishaps'
    BY <1>19 DEF Stop, disk
  <2>2. Stream' = log
    BY <1>0, <2>1 DEF Stream
  <2>3. Continues(Stream, Stream', Occupied(board'))
    BY <1>0, <2>2, BeginsContinues
  <2>4. UNCHANGED <<Held, Since, Loadable>>
    BY <2>1, HeldSame
  <2> QED BY <1>0, <1>a, <2>1, <2>2, <2>3, <2>4, KnownMove
<1>20. CASE Exit
  BY <1>19, <1>20 DEF Exit
<1>21. CASE Crash
  BY <1>19, <1>21 DEF Crash
<1>22. CASE Restart
  <2> SUFFICES ASSUME "torn" \notin mishaps' PROVE Known'
    BY DEF Known
  <2>1. /\ UNCHANGED <<log, buffer, broken, kept, files, meta>> /\ fired' = clock + 1
        /\ phase = "down" /\ mishaps \subseteq mishaps'
    BY <1>22 DEF Restart, memory, disk
  <2>2. buffer = <<>> /\ ~broken /\ kept = <<>>
    BY <2>1 DEF Stages
  <2>3. Stream = log /\ Stream' = log
    BY <1>0, <2>1, <2>2 DEF Stream
  <2>4. Whole(log) /\ \A g \in 1 .. GroupCount(log) : RecordAt(log, g).ts <= clock
    BY <2>1, <2>3 DEF Streams, Sound
  <2>5. PICK bad \in Garbage : board' = Restored(bad)
    BY <1>22 DEF Restart
  <2>6. board' = IF Loadable THEN ReplayTo(decodeBoard(Held), Since, log, GroupCount(log))
                             ELSE FreshBoard
    BY <1>0, <2>4, <2>5, RestoredReplay
  <2>7. UNCHANGED <<Held, Since, Loadable>>
    BY <2>1, HeldSame
  <2>8. Late(Stream', fired', Occupied(board'))
    <3>1. \A g \in 1 .. GroupCount(log) : RecordAt(log, g).ts \in Nat
      BY <1>0, RecordTimes
    <3>2. \A g \in 1 .. GroupCount(log) : ~(RecordAt(log, g).ts > clock + 1)
      BY <1>0, <2>4, <3>1
    <3> QED BY <2>1, <2>3, <3>2 DEF Late
  <2>9. Late(kept', fired', Occupied(board'))
        /\ \A g \in 1 .. GroupCount(kept') : RecordAt(kept', g).ts > fired'
    <3>1. 1 .. GroupCount(kept') = {}
      BY <2>1, <2>2, NoneWhole
    <3> QED BY <3>1 DEF Late
  <2>10. ASSUME Loadable PROVE Shows(Held', Since', log', Stream', Occupied(board'))
    <3>1. GroupCount(log) \in Nat
      BY <1>0, GroupCountType
    <3>2. GroupCount(log) \in 0 .. GroupCount(log) /\ GroupCount(log) + 1 .. GroupCount(log) = {}
      BY <3>1
    <3>3. Occupied(ReplayTo(decodeBoard(Held), Since, log, GroupCount(log))) \subseteq Occupied(board')
      BY <2>6, <2>10
    <3>4. Shows(Held, Since, log, log, Occupied(board'))
      BY <3>2, <3>3 DEF Shows
    <3> QED BY <2>1, <2>3, <2>7, <3>4
  <2>11. ~Loadable' => Occupied(FreshBoard) \subseteq Occupied(board')
    BY <2>6, <2>7
  <2> QED BY <2>7, <2>8, <2>9, <2>10, <2>11 DEF Known
<1>23. CASE UNCHANGED vars
  BY <1>0, <1>1, <1>23, HeldSame DEF vars, memory, taking, disk, history, Stream
<1> QED BY <1>2, <1>3, <1>4, <1>5, <1>7, <1>8, <1>9, <1>10, <1>11, <1>12, <1>13, <1>14, <1>15,
           <1>17, <1>18, <1>20, <1>21, <1>22, <1>23 DEF Next

(* So it is at all times.                                                   *)
LEMMA KnownAlways == Spec => []Known
<1>1. Sure /\ Known /\ [Next]_vars => Known'
  BY KnownStep DEF Sure
<1> QED BY <1>1, KnownInit, SureAlways, PTL DEF Spec

(* A restart never invents a stone.                                         *)
THEOREM NoStoneInvented == Spec => NothingInvented
<1>1. /\ Sure /\ Known /\ [Next]_vars
      => [phase = "down" /\ phase' = "up" /\ "torn" \notin mishaps
            => Occupied(board') \subseteq Occupied(board)]_vars
  <2> SUFFICES ASSUME Sure, Known, [Next]_vars, phase = "down", phase' = "up", "torn" \notin mishaps
               PROVE  Occupied(board') \subseteq Occupied(board)
    OBVIOUS
  <2>1. Restart
    BY DEF Next, vars, Tick, Commit, Stamp, AppendRecord, SyncWAL, FlushSucceeds, FlushFails,
           CloseWAL, TakeTime, EncodeBoard, WriteData, WriteMeta, WriteSnapshotFails, CompactFails,
           Compact, Truncate, Rewrite, RoundEnds, WriterAt, Running, Exit, Crash, Restart, Stop
  <2>2. Typed /\ Stages /\ Streams
    BY DEF Sure
  <2>3. buffer = <<>> /\ ~broken
    BY <2>2 DEF Stages
  <2>4. log \in Seq(Unit) /\ Stream = log
    BY <2>2, <2>3, StreamType DEF Stream
  <2>5. Whole(log)
    BY <2>2, <2>4 DEF Streams, Sound
  <2>6. PICK bad \in Garbage : board' = Restored(bad)
    BY <2>1 DEF Restart
  <2>7. board' = IF Loadable THEN ReplayTo(decodeBoard(Held), Since, log, GroupCount(log))
                             ELSE FreshBoard
    BY <2>4, <2>5, <2>6, RestoredReplay
  <2>8. CASE ~Loadable
    BY <2>7, <2>8 DEF Known
  <2>9. CASE Loadable
    <3>1. PICK k \in 0 .. GroupCount(log) :
            /\ Occupied(ReplayTo(decodeBoard(Held), Since, log, k)) \subseteq Occupied(board)
            /\ \A g \in k + 1 .. GroupCount(log) :
                 RecordAt(log, g).ts > Since => RecordAt(log, g).at \in Occupied(board)
      BY <2>4, <2>9 DEF Known, Shows
    <3>2. Since \in Int /\ \A g \in 1 .. GroupCount(log) : RecordAt(log, g).ts \in Nat
      BY <2>2, <2>4, HeldFile, RecordTimes
    <3>3. GroupCount(log) \in Nat
      BY <2>4, GroupCountType
    <3>4. ASSUME NEW g \in k + 1 .. GroupCount(log), ~Skipped(RecordAt(log, g).ts, Since)
          PROVE  RecordAt(log, g).at \in Occupied(board)
      <4>1. g \in 1 .. GroupCount(log)
        BY <3>3
      <4>2. RecordAt(log, g).ts > Since
        BY <3>2, <3>4, <4>1 DEF Skipped
      <4> QED BY <3>1, <4>2
    <3>5. decodeBoard(Held) \in Boards
      BY DecodeType
    <3>6. Occupied(ReplayTo(decodeBoard(Held), Since, log, GroupCount(log))) \subseteq Occupied(board)
      BY <3>1, <3>3, <3>4, <3>5, ReplayAdds
    <3> QED BY <2>7, <2>9, <3>6
  <2> QED BY <2>8, <2>9
<1> QED BY <1>1, KnownAlways, SureAlways, PTL DEF Spec, NothingInvented

-----------------------------------------------------------------------------
(* The boards a game went through, each with the stones of those before it,  *)
(* and the placements they were born of.                                    *)

Growing(T) ==
  /\ T \in Seq(Boards) /\ Len(T) \in Nat \ {0}
  /\ \A i, j \in 1 .. Len(T) : i <= j => Occupied(T[i]) \subseteq Occupied(T[j])

Born(T, r, j) ==
  /\ j \in 2 .. Len(T)
  /\ Flips(T[j - 1], r.at, r.team) # {}
  /\ T[j] = Placed(T[j - 1], r.at, r.team)

(* A placement on a cell is born once: before, the cell is empty, and after  *)
(* it is not.                                                               *)
LEMMA BornOnce ==
  ASSUME NEW T, Growing(T), NEW r \in Record, NEW j, Born(T, r, j)
  PROVE  /\ j \in Nat /\ j - 1 \in 1 .. Len(T) /\ j \in 1 .. Len(T)
         /\ r.at \in Occupied(T[j]) /\ r.at \notin Occupied(T[j - 1])
         /\ \A n \in 1 .. Len(T) : r.at \in Occupied(T[n]) <=> j <= n
<1>1. j \in Nat /\ j - 1 \in 1 .. Len(T) /\ j \in 1 .. Len(T)
  BY DEF Growing, Born
<1>2. T[j - 1] \in Boards /\ r.at \in Coord /\ r.team \in Team
  BY <1>1, PersistenceAssumption DEF Growing, Record
<1>3. T[j - 1][r.at] = Empty
  BY DEF Born, Flips
<1>4. r.at \in Occupied(T[j]) /\ r.at \notin Occupied(T[j - 1])
  BY <1>2, <1>3, PlacedOccupied DEF Born, Occupied
<1>5. ASSUME NEW n \in 1 .. Len(T) PROVE r.at \in Occupied(T[n]) <=> j <= n
  <2>1. CASE j <= n
    BY <1>1, <1>4, <2>1 DEF Growing
  <2>2. CASE ~(j <= n)
    <3>1. n <= j - 1
      BY <1>1, <2>2
    <3>2. Occupied(T[n]) \subseteq Occupied(T[j - 1])
      BY <1>1, <3>1 DEF Growing
    <3> QED BY <1>4, <2>2, <3>2
  <2> QED BY <2>1, <2>2
<1> QED BY <1>1, <1>4, <1>5

(* The game goes on.                                                        *)
LEMMA GrowingPlaced ==
  ASSUME NEW T, Growing(T), NEW q \in Coord, NEW team \in Team, NEW U,
         Flips(T[Len(T)], q, team) # {}, U = Append(T, Placed(T[Len(T)], q, team))
  PROVE  /\ Growing(U) /\ Begins(T, U) /\ Len(U) = Len(T) + 1
         /\ U[Len(U)] = Placed(T[Len(T)], q, team)
         /\ \A r : r.at = q /\ r.team = team => Born(U, r, Len(U))
<1>1. PICK n \in Nat \ {0} : n = Len(T) /\ T \in Seq(Boards)
  BY DEF Growing
<1>2. PICK b : b = Placed(T[n], q, team)
  OBVIOUS
<1>3. T[n] \in Boards
  BY <1>1
<1>4. b \in Boards /\ Occupied(T[n]) \subseteq Occupied(b)
  BY <1>2, <1>3, PlacedOccupied
<1>5. U \in Seq(Boards) /\ Len(U) = n + 1 /\ U[n + 1] = b /\ \A i \in 1 .. n : U[i] = T[i]
  BY <1>1, <1>2, <1>4
<1>6. ASSUME NEW i \in 1 .. n + 1, NEW j \in 1 .. n + 1, i <= j
      PROVE  Occupied(U[i]) \subseteq Occupied(U[j])
  <2>1. CASE j \in 1 .. n
    <3>1. i \in 1 .. n
      BY <1>6, <2>1
    <3> QED BY <1>1, <1>5, <1>6, <2>1, <3>1 DEF Growing
  <2>2. CASE j = n + 1 /\ i \in 1 .. n
    <3>1. Occupied(T[i]) \subseteq Occupied(T[n])
      BY <1>1, <2>2 DEF Growing
    <3> QED BY <1>4, <1>5, <2>2, <3>1
  <2>3. CASE i = n + 1
    <3>1. j = n + 1
      BY <1>6, <2>3
    <3> QED BY <2>3, <3>1
  <2>4. (j \in 1 .. n \/ j = n + 1) /\ (i \in 1 .. n \/ i = n + 1)
    OBVIOUS
  <2> QED BY <2>1, <2>2, <2>3, <2>4
<1>7. Growing(U)
  BY <1>5, <1>6 DEF Growing
<1>8. Begins(T, U)
  BY <1>1, <1>5 DEF Begins
<1>9. ASSUME NEW r, r.at = q, r.team = team PROVE Born(U, r, Len(U))
  <2>1. Len(U) - 1 = n /\ n + 1 \in 2 .. Len(U) /\ U[n] = T[n]
    BY <1>1, <1>5
  <2> QED BY <1>1, <1>2, <1>5, <1>9, <2>1 DEF Born
<1> QED BY <1>1, <1>2, <1>5, <1>7, <1>8, <1>9

(* What was born stays so.                                                  *)
LEMMA BornBegins ==
  ASSUME NEW T, Growing(T), NEW U, Growing(U), Begins(T, U), NEW r, NEW j, Born(T, r, j)
  PROVE  Born(U, r, j)
<1>1. j \in 2 .. Len(T) /\ Len(T) \in Nat /\ Len(U) \in Nat /\ Len(T) <= Len(U)
  BY DEF Growing, Begins, Born
<1>2. U[j] = T[j] /\ U[j - 1] = T[j - 1] /\ j \in 2 .. Len(U)
  BY <1>1 DEF Begins
<1> QED BY <1>2 DEF Born

-----------------------------------------------------------------------------
(* What a log tells of a game T: the records from K + 1 on were born in the  *)
(* order they have in the log, at the times birth, without a gap behind m;   *)
(* the first K, older than a time, lead from the snapshot to T[m], and the   *)
(* replay skips none born after it.                                         *)

Orderly(T, units, K, birth) ==
  /\ \A i \in K + 1 .. GroupCount(units) : Born(T, RecordAt(units, i), birth[i])
  /\ \A i, k \in K + 1 .. GroupCount(units) : i < k => birth[i] < birth[k]

Gapless(units, K, m, birth) ==
  \A i \in K + 1 .. GroupCount(units) : \A l \in m + 1 .. birth[i] :
    \E k \in K + 1 .. GroupCount(units) : birth[k] = l

Before(units, K, n, birth, time) ==
  \A i \in K + 1 .. GroupCount(units) : RecordAt(units, i).ts <= time => birth[i] <= n

Tale(T, snap, since, time, units, K, m, birth) ==
  /\ K \in 0 .. GroupCount(units) /\ m \in 1 .. Len(T)
  /\ snap # NoFile => ReplayTo(decodeBoard(snap), since, units, K) = T[m]
  /\ \A i \in 1 .. K : RecordAt(units, i).ts < time
  /\ Orderly(T, units, K, birth) /\ Gapless(units, K, m, birth)
  /\ Before(units, K, m, birth, since)

(* It is told to the end, but for the placements that wait to be appended,   *)
(* which come after those that were; a snapshot has those it would skip.    *)
Goes(T, waiting, ripe, whole, units, K, m, birth) ==
  /\ whole => \A j \in m + 1 .. Len(T) :
       j \in waiting \/ \E i \in K + 1 .. GroupCount(units) : birth[i] = j
  /\ \A i \in K + 1 .. GroupCount(units), o \in waiting : birth[i] < o
  /\ \A o \in ripe : o <= m

(* It has some cells.                                                       *)
Saves(b, units, K, cells) ==
  \A q \in cells : q \in Occupied(b) \/ \E i \in K + 1 .. GroupCount(units) : RecordAt(units, i).at = q

(* An image shows a later board of the game.                                *)
Pictures(T, image0, units, K, m, birth, time, ripe) ==
  \E n \in m .. Len(T) :
    /\ decodeBoard(image0) = T[n]
    /\ Before(units, K, n, birth, time)
    /\ \A o \in ripe : o <= n

(* What begins a tale is one.                                               *)
LEMMA TaleCut ==
  ASSUME NEW T, Growing(T), NEW snap, NEW since, NEW time, NEW a \in Seq(Unit), NEW b \in Seq(Unit),
         Begins(a, b), NEW K, NEW m, NEW birth, K <= GroupCount(a),
         Tale(T, snap, since, time, b, K, m, birth)
  PROVE  /\ Tale(T, snap, since, time, a, K, m, birth)
         /\ \A waiting, ripe : Goes(T, waiting, ripe, FALSE, b, K, m, birth)
                                 => Goes(T, waiting, ripe, FALSE, a, K, m, birth)
         /\ \A n, t : Before(b, K, n, birth, t) => Before(a, K, n, birth, t)
<1>1. GroupCount(a) \in Nat /\ GroupCount(b) \in Nat /\ GroupCount(a) <= GroupCount(b)
  BY BeginsWhole
<1>2. \A g \in 1 .. GroupCount(a) : RecordAt(a, g) = RecordAt(b, g)
  BY BeginsWhole
<1>3. K \in 0 .. GroupCount(b) /\ m \in 1 .. Len(T) /\ Len(T) \in Nat
  BY DEF Tale, Growing
<1>4. K \in Nat /\ m \in Nat /\ K \in 0 .. GroupCount(a)
  BY <1>1, <1>3
<1>5. \A i \in K + 1 .. GroupCount(a) : i \in K + 1 .. GroupCount(b) /\ RecordAt(a, i) = RecordAt(b, i)
  BY <1>1, <1>2, <1>4
<1>6. snap # NoFile => ReplayTo(decodeBoard(snap), since, a, K) = T[m]
  BY <1>4, ReplayBegins DEF Tale
<1>7. \A i \in 1 .. K : RecordAt(a, i).ts < time
  <2>1. \A i \in 1 .. K : i \in 1 .. GroupCount(a)
    BY <1>1, <1>4
  <2> QED BY <1>2, <2>1 DEF Tale
<1>8. Orderly(T, a, K, birth)
  BY <1>5 DEF Tale, Orderly
<1>9. ASSUME NEW i \in K + 1 .. GroupCount(a), NEW l \in m + 1 .. birth[i]
      PROVE  \E k \in K + 1 .. GroupCount(a) : birth[k] = l
  <2>1. PICK k \in K + 1 .. GroupCount(b) : birth[k] = l
    BY <1>5, <1>9 DEF Tale, Gapless
  <2>2. birth[i] \in 2 .. Len(T) /\ birth[k] \in 2 .. Len(T)
    BY <1>5 DEF Tale, Orderly, Born
  <2>3. ~(i < k)
    <3>1. i < k => birth[i] < birth[k]
      BY <1>5 DEF Tale, Orderly
    <3>2. l <= birth[i]
      BY <1>3, <1>4, <2>2
    <3> QED BY <1>3, <2>1, <2>2, <3>1, <3>2
  <2>4. k \in K + 1 .. GroupCount(a)
    BY <1>1, <1>4, <2>3
  <2> QED BY <2>1, <2>4
<1>10. Gapless(a, K, m, birth)
  BY <1>9 DEF Gapless
<1>11. \A n, t : Before(b, K, n, birth, t) => Before(a, K, n, birth, t)
  BY <1>5 DEF Before
<1>12. \A waiting, ripe : Goes(T, waiting, ripe, FALSE, b, K, m, birth)
                                 => Goes(T, waiting, ripe, FALSE, a, K, m, birth)
  BY <1>5 DEF Goes
<1>13. Before(a, K, m, birth, since)
  BY <1>11 DEF Tale
<1> QED BY <1>3, <1>4, <1>6, <1>7, <1>8, <1>10, <1>11, <1>12, <1>13 DEF Tale

(* The game goes on behind a tale.                                          *)
LEMMA TaleGrows ==
  ASSUME NEW T, Growing(T), NEW U, Growing(U), Begins(T, U),
         NEW snap, NEW since, NEW time, NEW units, NEW K, NEW m, NEW birth,
         Tale(T, snap, since, time, units, K, m, birth)
  PROVE  Tale(U, snap, since, time, units, K, m, birth) /\ U[m] = T[m]
<1>1. m \in 1 .. Len(T) /\ Len(T) \in Nat /\ Len(U) \in Nat /\ Len(T) <= Len(U)
  BY DEF Tale, Growing, Begins
<1>2. m \in 1 .. Len(U) /\ U[m] = T[m]
  BY <1>1 DEF Begins
<1>3. Orderly(U, units, K, birth)
  BY BornBegins DEF Tale, Orderly
<1> QED BY <1>2, <1>3 DEF Tale

(* With one record more, of the placement o, a tale goes on.                *)
Continued(T, snap, since, time, a, b, r, o, K, m, birth, birth2, waiting, ripe) ==
  /\ Tale(T, snap, since, time, b, K, m, birth2)
  /\ \A left \in SUBSET waiting, few \in SUBSET ripe :
       o \notin left /\ waiting \subseteq left \cup {o} =>
       Goes(T, left, few, TRUE, b, K, m, birth2)
  /\ \A n, t : Before(a, K, n, birth, t) /\ (r.ts <= t => o <= n)
                 => Before(b, K, n, birth2, t)

(* A placement that waited is appended.                                     *)
LEMMA TaleAdded ==
  ASSUME NEW T, Growing(T), NEW snap, NEW since, NEW time, NEW a \in Seq(Unit), ~Torn(a),
         NEW r \in Record, NEW b, b = a \o UnitsOf(r), NEW K, NEW m, NEW birth,
         Tale(T, snap, since, time, a, K, m, birth), NEW waiting \in SUBSET Nat, NEW ripe,
         Goes(T, waiting, ripe, TRUE, a, K, m, birth),
         NEW o \in waiting, Born(T, r, o), \A p \in waiting : o <= p, r.ts <= since => o <= m
  PROVE  \E birth2 : Continued(T, snap, since, time, a, b, r, o, K, m, birth, birth2, waiting, ripe)
<1>1. PICK N \in Nat : N = GroupCount(a) /\ GroupCount(b) = N + 1
  BY AddedWhole
<1>2. b \in Seq(Unit) /\ Begins(a, b) /\ RecordAt(b, N + 1) = r
  <2>1. b \in Seq(Unit) /\ Begins(a, b)
    BY AddedWhole
  <2>2. RecordAt(b, GroupCount(a) + 1) = r
    BY AddedWhole
  <2> QED BY <1>1, <2>1, <2>2
<1>3. \A g \in 1 .. N : RecordAt(a, g) = RecordAt(b, g)
  BY <1>1, <1>2, BeginsWhole
<1>4. K \in 0 .. N /\ m \in 1 .. Len(T) /\ Len(T) \in Nat /\ o \in 2 .. Len(T) /\ K \in Nat /\ m \in Nat
      /\ o \in Nat
  BY <1>1 DEF Tale, Growing, Born
<1>5. PICK birth2 : birth2 = [i \in 1 .. N + 1 |-> IF i = N + 1 THEN o ELSE birth[i]]
  OBVIOUS
<1>6. /\ N + 1 \in K + 1 .. N + 1 /\ birth2[N + 1] = o
      /\ \A i \in K + 1 .. N : /\ i \in 1 .. N /\ i \in K + 1 .. N + 1 /\ birth2[i] = birth[i]
                               /\ i < N + 1 /\ RecordAt(b, i) = RecordAt(a, i)
      /\ \A i \in K + 1 .. N + 1 : i \in K + 1 .. N \/ i = N + 1
  BY <1>3, <1>4, <1>5
<1>7. \A i \in K + 1 .. N : birth[i] < o /\ birth[i] \in 2 .. Len(T)
  BY <1>1 DEF Goes, Tale, Orderly, Born
<1>8. snap # NoFile => ReplayTo(decodeBoard(snap), since, b, K) = T[m]
  <2>1. K \in 0 .. GroupCount(a)
    BY <1>1, <1>4
  <2>2. PICK c : c = decodeBoard(snap)
    OBVIOUS
  <2>3. b \in Seq(Unit) /\ Begins(a, b)
    BY <1>2
  <2>4. ReplayTo(c, since, a, K) = ReplayTo(c, since, b, K)
    BY ONLY a \in Seq(Unit), <2>1, <2>3, ReplayBegins
  <2> QED BY <2>2, <2>4 DEF Tale
<1>9. \A i \in 1 .. K : RecordAt(b, i).ts < time
  <2>1. \A i \in 1 .. K : i \in 1 .. N
    BY <1>4
  <2> QED BY <1>3, <2>1 DEF Tale
<1>10. Orderly(T, b, K, birth2)
  <2>1. \A i \in K + 1 .. N : Born(T, RecordAt(b, i), birth2[i])
    BY <1>1, <1>6 DEF Tale, Orderly
  <2>2. \A i \in K + 1 .. N + 1 : Born(T, RecordAt(b, i), birth2[i])
    BY <1>2, <1>6, <2>1
  <2>3. ASSUME NEW i \in K + 1 .. N + 1, NEW k \in K + 1 .. N + 1, i < k
        PROVE  birth2[i] < birth2[k]
    <3>1. i \in K + 1 .. N
      BY <1>4, <2>3
    <3>2. CASE k = N + 1
      BY <1>6, <1>7, <3>1, <3>2
    <3>3. CASE k \in K + 1 .. N
      <4>1. birth[i] < birth[k]
        BY <1>1, <2>3, <3>1, <3>3 DEF Tale, Orderly
      <4> QED BY <1>6, <3>1, <3>3, <4>1
    <3> QED BY <1>6, <3>2, <3>3
  <2> QED BY <1>1, <2>2, <2>3 DEF Orderly
<1>11. Gapless(b, K, m, birth2)
  <2>1. ASSUME NEW i \in K + 1 .. N, NEW l \in m + 1 .. birth2[i]
        PROVE  \E k \in K + 1 .. N + 1 : birth2[k] = l
    <3>1. l \in m + 1 .. birth[i]
      BY <1>6
    <3>2. PICK k \in K + 1 .. N : birth[k] = l
      BY <1>1, <3>1 DEF Tale, Gapless
    <3> QED BY <1>6, <3>2
  <2>2. ASSUME NEW l \in m + 1 .. o
        PROVE  \E k \in K + 1 .. N + 1 : birth2[k] = l
    <3>1. CASE l = o
      BY <1>6, <3>1
    <3>2. CASE l # o
      <4>1. l < o /\ l \in m + 1 .. Len(T)
        BY <1>4, <3>2
      <4>2. l \notin waiting
        <5>1. l \in Nat
          BY <1>4
        <5> QED BY <1>4, <4>1, <5>1
      <4>3. PICK k \in K + 1 .. N : birth[k] = l
        BY <1>1, <4>1, <4>2 DEF Goes
      <4> QED BY <1>6, <4>3
    <3> QED BY <3>1, <3>2
  <2> QED BY <1>1, <1>6, <2>1, <2>2 DEF Gapless
<1>12. ASSUME NEW n, NEW t, Before(a, K, n, birth, t), r.ts <= t => o <= n
       PROVE  Before(b, K, n, birth2, t)
  BY <1>1, <1>2, <1>6, <1>12 DEF Before
<1>13. Tale(T, snap, since, time, b, K, m, birth2)
  <2>1. Before(b, K, m, birth2, since)
    BY <1>12 DEF Tale
  <2>2. K \in 0 .. GroupCount(b)
    BY <1>1, <1>4
  <2> QED BY <1>4, <1>8, <1>9, <1>10, <1>11, <2>1, <2>2 DEF Tale
<1>14. ASSUME NEW left \in SUBSET waiting, NEW few \in SUBSET ripe, o \notin left,
              waiting \subseteq left \cup {o}
       PROVE  Goes(T, left, few, TRUE, b, K, m, birth2)
  <2>1. ASSUME NEW j \in m + 1 .. Len(T), j \notin left
        PROVE  \E i \in K + 1 .. N + 1 : birth2[i] = j
    <3>1. CASE j = o
      BY <1>6, <3>1
    <3>2. CASE j # o
      <4>1. j \notin waiting
        BY <1>14, <2>1, <3>2
      <4>2. PICK i \in K + 1 .. N : birth[i] = j
        BY <1>1, <4>1 DEF Goes
      <4> QED BY <1>6, <4>2
    <3> QED BY <3>1, <3>2
  <2>2. ASSUME NEW i \in K + 1 .. N + 1, NEW p \in left PROVE birth2[i] < p
    <3>1. CASE i \in K + 1 .. N
      BY <1>1, <1>6, <3>1 DEF Goes
    <3>2. CASE i = N + 1
      <4>1. o <= p /\ o # p
        BY <1>14
      <4>2. birth2[i] = o
        BY <1>6, <3>2
      <4>3. p \in waiting
        OBVIOUS
      <4>4. o < p
        BY <1>4, <4>1, <4>3
      <4> QED BY <4>2, <4>4
    <3> QED BY <1>6, <3>1, <3>2
  <2>3. \A p \in few : p <= m
    BY DEF Goes
  <2> QED BY <1>1, <2>1, <2>2, <2>3 DEF Goes
<1> QED BY <1>12, <1>13, <1>14 DEF Continued

-----------------------------------------------------------------------------
(* The stones of the board that is replayed onto stay.                      *)
LEMMA ReplayKeeps ==
  ASSUME NEW b \in Boards, NEW since, NEW units, NEW n \in Nat
  PROVE  Occupied(b) \subseteq Occupied(ReplayTo(b, since, units, n))
<1>1. PICK S : S = {j \in 0 .. n : Occupied(b) \subseteq Occupied(ReplayTo(b, since, units, j))}
  OBVIOUS
<1>2. 0 \in S
  BY <1>1, ReplayStep
<1>3. ASSUME NEW j \in 1 .. n, j - 1 \in S PROVE j \in S
  <2>1. j \in Nat /\ j - 1 \in Nat /\ j # 0
    OBVIOUS
  <2>2. PICK c : c = ReplayTo(b, since, units, j - 1)
    OBVIOUS
  <2>3. c \in Boards /\ Occupied(b) \subseteq Occupied(c)
    BY <1>1, <1>3, <2>1, <2>2, ReplayStep
  <2>4. ReplayTo(b, since, units, j) = Applied(c, RecordAt(units, j), since)
    BY <2>1, <2>2, ReplayStep
  <2>5. Occupied(c) \subseteq Occupied(Applied(c, RecordAt(units, j), since))
    BY <2>3, AppliedType
  <2> QED BY <1>1, <2>3, <2>4, <2>5
<1>4. \A j \in 0 .. n : j \in S
  BY <1>2, <1>3, PassedOn
<1> QED BY <1>1, <1>4

(* Records that are skipped change nothing.                                 *)
LEMMA ReplaySkips ==
  ASSUME NEW b \in Boards, NEW since, NEW units, NEW n \in Nat,
         \A i \in 1 .. n : Skipped(RecordAt(units, i).ts, since)
  PROVE  ReplayTo(b, since, units, n) = b
<1>1. PICK S : S = {j \in 0 .. n : ReplayTo(b, since, units, j) = b}
  OBVIOUS
<1>2. 0 \in S
  BY <1>1, ReplayStep
<1>3. ASSUME NEW j \in 1 .. n, j - 1 \in S PROVE j \in S
  <2>1. j \in Nat /\ j # 0
    OBVIOUS
  <2>2. ReplayTo(b, since, units, j)
          = Applied(ReplayTo(b, since, units, j - 1), RecordAt(units, j), since)
    BY <2>1, ReplayStep
  <2>3. ReplayTo(b, since, units, j - 1) = b
    BY <1>1, <1>3
  <2>4. Applied(b, RecordAt(units, j), since) = b
    BY DEF Applied
  <2> QED BY <1>1, <2>2, <2>3, <2>4
<1>4. \A j \in 0 .. n : j \in S
  BY <1>2, <1>3, PassedOn
<1> QED BY <1>1, <1>4

(* The boards a replay of the first i records can have reached.             *)
Reaches(T, units, K, m, birth, b, i) ==
  \E n \in m .. Len(T) : b = T[n] /\ \A k \in K + 1 .. i : birth[k] <= n

(* One record more: it is skipped, or on a cell that is taken, or it is the  *)
(* next placement of the game.                                              *)
LEMMA ReachesNext ==
  ASSUME NEW T, Growing(T), NEW snap, NEW since \in Int, NEW time, NEW units \in Seq(Unit),
         NEW K, NEW m, NEW birth, Tale(T, snap, since, time, units, K, m, birth),
         NEW i \in K + 1 .. GroupCount(units), NEW b, Reaches(T, units, K, m, birth, b, i - 1)
  PROVE  Reaches(T, units, K, m, birth, Applied(b, RecordAt(units, i), since), i)
<1>1. PICK N \in Nat : N = GroupCount(units)
  BY GroupCountType
<1>2. PICK n \in m .. Len(T) : b = T[n] /\ \A k \in K + 1 .. i - 1 : birth[k] <= n
  BY DEF Reaches
<1>3. /\ K \in Nat /\ m \in 1 .. Len(T) /\ Len(T) \in Nat /\ m \in Nat /\ i \in Nat /\ n \in Nat
      /\ n \in 1 .. Len(T) /\ i \in 1 .. N
  BY <1>1 DEF Tale, Growing
<1>4. PICK r : r = RecordAt(units, i)
  OBVIOUS
<1>5. r \in Record /\ Born(T, r, birth[i]) /\ r.ts \in Nat
  BY <1>1, <1>3, <1>4, RecordAtType, RecordTimes DEF Tale, Orderly
<1>6. /\ birth[i] \in Nat /\ birth[i] - 1 \in 1 .. Len(T) /\ birth[i] \in 1 .. Len(T)
      /\ \A l \in 1 .. Len(T) : r.at \in Occupied(T[l]) <=> birth[i] <= l
  BY <1>5, BornOnce
<1>7. \A k \in K + 1 .. i : k \in K + 1 .. i - 1 \/ k = i
  BY <1>3
<1>8. CASE Skipped(r.ts, since)
  <2>1. birth[i] <= m
    BY <1>4, <1>8 DEF Tale, Before, Skipped
  <2>2. birth[i] <= n
    BY <1>2, <1>3, <1>6, <2>1
  <2>3. Applied(b, r, since) = b
    BY <1>8 DEF Applied
  <2> QED BY <1>2, <1>4, <1>7, <2>2, <2>3 DEF Reaches
<1>9. CASE ~Skipped(r.ts, since) /\ birth[i] <= n
  <2>1. r.at \in Occupied(T[n])
    BY <1>3, <1>6, <1>9
  <2>2. Flips(b, r.at, r.team) = {}
    BY <1>2, <2>1 DEF Flips, Occupied
  <2>3. Applied(b, r, since) = b
    BY <1>9, <2>2 DEF Applied, replayCommittedPlacement
  <2> QED BY <1>2, <1>4, <1>7, <1>9, <2>3 DEF Reaches
<1>10. CASE ~Skipped(r.ts, since) /\ ~(birth[i] <= n)
  <2>1. birth[i] = n + 1
    <3>1. SUFFICES ASSUME birth[i] # n + 1 PROVE FALSE
      OBVIOUS
    <3>2. n + 1 \in m + 1 .. birth[i] /\ n + 1 < birth[i]
      BY <1>2, <1>3, <1>6, <1>10, <3>1
    <3>3. PICK k \in K + 1 .. N : birth[k] = n + 1
      BY <1>1, <3>2 DEF Tale, Gapless
    <3>4. k # i
      BY <3>1, <3>3
    <3>5. ~(k < i)
      <4>1. k < i => k \in K + 1 .. i - 1
        BY <1>3
      <4> QED BY <1>2, <1>3, <3>3, <4>1
    <3>6. k > i
      BY <1>3, <3>4, <3>5
    <3>7. birth[i] < birth[k]
      BY <1>1, <3>6 DEF Tale, Orderly
    <3> QED BY <1>3, <1>6, <3>2, <3>3, <3>7
  <2>2. Flips(T[n], r.at, r.team) # {} /\ T[n + 1] = Placed(T[n], r.at, r.team)
    <3>1. birth[i] - 1 = n
      BY <1>3, <2>1
    <3> QED BY <1>5, <2>1, <3>1 DEF Born
  <2>3. InBounds(r.at) /\ r.team \in Team
    BY <1>5, PersistenceAssumption DEF Record, Coord, InBounds
  <2>4. Applied(b, r, since) = T[n + 1]
    BY <1>2, <1>10, <2>2, <2>3 DEF Applied, replayCommittedPlacement
  <2>5. n + 1 \in m .. Len(T) /\ \A k \in K + 1 .. i : birth[k] <= n + 1
    <3>1. n + 1 \in m .. Len(T)
      BY <1>3, <1>6, <2>1
    <3>2. ASSUME NEW k \in K + 1 .. i PROVE birth[k] <= n + 1
      <4>1. k \in K + 1 .. i - 1 => birth[k] \in 2 .. Len(T) /\ birth[k] <= n
        <5>1. k \in K + 1 .. i - 1 => k \in K + 1 .. N
          BY <1>3
        <5> QED BY <1>1, <1>2, <5>1 DEF Tale, Orderly, Born
      <4>2. k \in K + 1 .. i - 1 => birth[k] <= n + 1
        BY <1>3, <4>1
      <4> QED BY <1>3, <1>7, <2>1, <4>2
    <3> QED BY <3>1, <3>2
  <2> QED BY <1>4, <2>4, <2>5 DEF Reaches
<1> QED BY <1>8, <1>9, <1>10

(* So the replay of the log leads to a board of the game that has all the    *)
(* placements it tells of.                                                  *)
LEMMA TaleReplayed ==
  ASSUME NEW T, Growing(T), NEW snap, snap # NoFile, NEW since \in Int, NEW time, NEW units \in Seq(Unit),
         NEW K, NEW m, NEW birth, Tale(T, snap, since, time, units, K, m, birth),
         NEW cells, Saves(T[m], units, K, cells)
  PROVE  \E n \in 1 .. Len(T) :
           /\ ReplayTo(decodeBoard(snap), since, units, GroupCount(units)) = T[n]
           /\ cells \subseteq Occupied(T[n])
<1>1. PICK N \in Nat : N = GroupCount(units)
  BY GroupCountType
<1>2. K \in 0 .. N /\ m \in 1 .. Len(T) /\ Len(T) \in Nat
  BY <1>1 DEF Tale, Growing
<1>3. PICK c \in Boards : c = decodeBoard(snap)
  BY DecodeType
<1>4. PICK S : S = {j \in 0 .. N : j >= K =>
                      Reaches(T, units, K, m, birth, ReplayTo(c, since, units, j), j)}
  OBVIOUS
<1>5. Reaches(T, units, K, m, birth, ReplayTo(c, since, units, K), K)
  <2>1. ReplayTo(c, since, units, K) = T[m]
    BY <1>3 DEF Tale
  <2>2. m \in m .. Len(T) /\ K + 1 .. K = {}
    BY <1>2
  <2> QED BY <2>1, <2>2 DEF Reaches
<1>6. 0 \in S
  <2>1. 0 >= K => K = 0
    BY <1>2
  <2> QED BY <1>4, <1>5, <2>1
<1>7. ASSUME NEW j \in 1 .. N, j - 1 \in S PROVE j \in S
  <2>1. CASE j <= K
    <3>1. j >= K => j = K
      BY <1>2, <2>1
    <3> QED BY <1>4, <1>5, <3>1
  <2>2. CASE j > K
    <3>1. j \in K + 1 .. N /\ j - 1 >= K /\ j \in Nat /\ j # 0
      BY <1>2, <2>2
    <3>2. Reaches(T, units, K, m, birth, ReplayTo(c, since, units, j - 1), j - 1)
      BY <1>4, <1>7, <3>1
    <3>3. ReplayTo(c, since, units, j)
            = Applied(ReplayTo(c, since, units, j - 1), RecordAt(units, j), since)
      BY <3>1, ReplayStep
    <3>4. Reaches(T, units, K, m, birth, ReplayTo(c, since, units, j), j)
      BY <1>1, <3>1, <3>2, <3>3, ReachesNext
    <3> QED BY <1>4, <3>4
  <2> QED BY <1>2, <2>1, <2>2
<1>8. \A j \in 0 .. N : j \in S
  BY <1>6, <1>7, PassedOn
<1>9. Reaches(T, units, K, m, birth, ReplayTo(c, since, units, N), N)
  <2>1. N \in 0 .. N /\ N >= K
    BY <1>2
  <2> QED BY <1>4, <1>8, <2>1
<1>10. PICK n \in m .. Len(T) : /\ ReplayTo(c, since, units, N) = T[n]
                                /\ \A k \in K + 1 .. N : birth[k] <= n
  BY <1>9 DEF Reaches
<1>11. n \in 1 .. Len(T) /\ m <= n
  BY <1>2
<1>12. Occupied(T[m]) \subseteq Occupied(T[n])
  BY <1>2, <1>11 DEF Growing
<1>13. ASSUME NEW i \in K + 1 .. N PROVE RecordAt(units, i).at \in Occupied(T[n])
  <2>1. i \in 1 .. N
    BY <1>2
  <2>2. RecordAt(units, i) \in Record /\ Born(T, RecordAt(units, i), birth[i])
    BY <1>1, <2>1, RecordAtType DEF Tale, Orderly
  <2> QED BY <1>10, <1>11, <2>2, BornOnce
<1>14. cells \subseteq Occupied(T[n])
  BY <1>1, <1>12, <1>13 DEF Saves
<1> QED BY <1>1, <1>3, <1>10, <1>11, <1>14

-----------------------------------------------------------------------------
(* The tale can begin with T[n], which an image shows, in the place of T[m]. *)
Retold(T, picture, time, units, K, m, n, birth, ripe) ==
  /\ Tale(T, picture, time, time, units, K, n, birth)
  /\ decodeBoard(picture) = T[n] /\ Occupied(T[m]) \subseteq Occupied(T[n])
  /\ \A waiting, few, whole : Goes(T, waiting, few, whole, units, K, m, birth)
                                => Goes(T, waiting, ripe, whole, units, K, n, birth)

(* The image of a snapshot takes the place of what was held: the first       *)
(* records are older than it.                                               *)
LEMMA TalePictured ==
  ASSUME NEW T, Growing(T), NEW snap, NEW since, NEW time \in Int, NEW units \in Seq(Unit),
         NEW K, NEW m, NEW birth, Tale(T, snap, since, time, units, K, m, birth),
         NEW picture, NEW ripe, Pictures(T, picture, units, K, m, birth, time, ripe)
  PROVE  \E n \in m .. Len(T) : Retold(T, picture, time, units, K, m, n, birth, ripe)
<1>1. PICK n \in m .. Len(T) :
        /\ decodeBoard(picture) = T[n]
        /\ Before(units, K, n, birth, time)
        /\ \A o \in ripe : o <= n
  BY DEF Pictures
<1>2. PICK N \in Nat : N = GroupCount(units)
  BY GroupCountType
<1>3. K \in 0 .. N /\ m \in 1 .. Len(T) /\ Len(T) \in Nat /\ K \in Nat /\ n \in 1 .. Len(T) /\ m <= n
  BY <1>2 DEF Tale, Growing
<1>4. \A i \in 1 .. K : Skipped(RecordAt(units, i).ts, time)
  <2> TAKE i \in 1 .. K
  <2>1. i \in 1 .. N
    BY <1>3
  <2>2. RecordAt(units, i).ts \in Nat
    BY <1>2, <2>1, RecordTimes
  <2>3. RecordAt(units, i).ts < time
    BY DEF Tale
  <2> QED BY <2>2, <2>3 DEF Skipped
<1>5. ReplayTo(decodeBoard(picture), time, units, K) = T[n]
  BY <1>1, <1>3, <1>4, DecodeType, ReplaySkips
<1>6. \A l \in n + 1 .. Len(T) : l \in m + 1 .. Len(T)
  BY <1>3
<1>7. Gapless(units, K, n, birth)
  <2> SUFFICES ASSUME NEW i \in K + 1 .. N, NEW l \in n + 1 .. birth[i]
               PROVE  \E k \in K + 1 .. N : birth[k] = l
    BY <1>2 DEF Gapless
  <2>1. birth[i] \in 2 .. Len(T)
    BY <1>2 DEF Tale, Orderly, Born
  <2>2. l \in m + 1 .. birth[i]
    BY <1>3, <2>1
  <2> QED BY <1>2, <2>2 DEF Tale, Gapless
<1>8. Tale(T, picture, time, time, units, K, n, birth)
  BY <1>1, <1>3, <1>5, <1>7 DEF Tale
<1>9. Occupied(T[m]) \subseteq Occupied(T[n])
  BY <1>3 DEF Growing
<1>10. ASSUME NEW waiting, NEW few, NEW whole, Goes(T, waiting, few, whole, units, K, m, birth)
       PROVE  Goes(T, waiting, ripe, whole, units, K, n, birth)
  BY <1>1, <1>6, <1>10 DEF Goes
<1> QED BY <1>1, <1>8, <1>9, <1>10 DEF Retold

(* What compaction keeps of a tale is one, with all the snapshot lacks.      *)
LEMMA TaleKept ==
  ASSUME NEW T, Growing(T), NEW snap, snap # NoFile, cut \in Int, NEW units \in Seq(Unit),
         Whole(units), NEW K, NEW m, NEW birth, Tale(T, snap, cut, cut, units, K, m, birth),
         NEW bad, NEW k, k = KeptOf(Groups(units), bad)
  PROVE  \E birth2 :
           /\ Tale(T, snap, cut, cut, k, 0, m, birth2)
           /\ \A waiting, ripe, whole : Goes(T, waiting, ripe, whole, units, K, m, birth)
                                          => Goes(T, waiting, ripe, whole, k, 0, m, birth2)
           /\ \A cells : Saves(T[m], units, K, cells) => Saves(T[m], k, 0, cells)
<1>1. PICK N \in Nat : N = GroupCount(units)
  BY GroupCountType
<1>2. K \in 0 .. N /\ m \in 1 .. Len(T) /\ Len(T) \in Nat /\ K \in Nat /\ m \in Nat
  BY <1>1 DEF Tale, Growing
<1>3. PICK f : Filters(f, k, units, N)
  BY <1>1, KeptFilters
<1>4. k \in Seq(Unit) /\ \A i \in 1 .. GroupCount(k) : RecordAt(k, i) = RecordAt(units, f[i])
  BY <1>1, <1>3, KeptSound
<1>5. PICK M \in Nat : M = GroupCount(k)
  BY <1>4, GroupCountType
<1>6. /\ \A i \in 1 .. M : f[i] \in 1 .. N /\ RecordAt(units, f[i]).ts > cut
      /\ \A i, j \in 1 .. M : i < j => f[i] < f[j]
      /\ \A g \in 1 .. N : RecordAt(units, g).ts > cut => \E i \in 1 .. M : f[i] = g
  BY <1>3, <1>5 DEF Filters, Keeps
<1>7. \A g \in 1 .. N : RecordAt(units, g).ts \in Nat /\ RecordAt(units, g) \in Record
  BY <1>1, RecordTimes, RecordAtType
<1>8. \A i \in 1 .. K : Skipped(RecordAt(units, i).ts, cut) /\ ~(RecordAt(units, i).ts > cut)
  <2> TAKE i \in 1 .. K
  <2>1. i \in 1 .. N
    BY <1>2
  <2>2. RecordAt(units, i).ts < cut
    BY DEF Tale
  <2> QED BY <1>7, <2>1, <2>2 DEF Skipped
<1>9. \A i \in 1 .. M : f[i] \in K + 1 .. N /\ RecordAt(k, i) = RecordAt(units, f[i])
  <2> TAKE i \in 1 .. M
  <2>1. f[i] \in 1 .. N /\ RecordAt(units, f[i]).ts > cut
    BY <1>6
  <2>2. f[i] \notin 1 .. K
    BY <1>8, <2>1
  <2>3. f[i] \in K + 1 .. N
    BY <1>2, <2>1, <2>2
  <2> QED BY <1>4, <1>5, <2>3
<1>10. PICK birth2 : birth2 = [i \in 1 .. M |-> birth[f[i]]]
  OBVIOUS
<1>11. \A i \in 1 .. M : birth2[i] = birth[f[i]]
  BY <1>10
<1>12. \A g \in K + 1 .. N : birth[g] \in 2 .. Len(T)
  BY <1>1 DEF Tale, Orderly, Born
<1>13. ASSUME NEW g \in K + 1 .. N, birth[g] > m PROVE \E i \in 1 .. M : birth2[i] = birth[g] /\ f[i] = g
  <2>1. RecordAt(units, g).ts > cut
    <3>1. g \in 1 .. N
      BY <1>2
    <3>2. ~(birth[g] <= m)
      BY <1>2, <1>12, <1>13
    <3>3. ~(RecordAt(units, g).ts <= cut)
      BY <1>1, <3>2 DEF Tale, Before
    <3> QED BY <1>7, <3>1, <3>3
  <2>2. g \in 1 .. N
    BY <1>2
  <2> QED BY <1>6, <1>11, <2>1, <2>2
<1>14. ReplayTo(decodeBoard(snap), cut, k, 0) = T[m]
  <2>1. ReplayTo(decodeBoard(snap), cut, units, K) = decodeBoard(snap)
    BY <1>2, <1>8, DecodeType, ReplaySkips
  <2>2. ReplayTo(decodeBoard(snap), cut, k, 0) = decodeBoard(snap)
    BY DecodeType, ReplayStep
  <2> QED BY <2>1, <2>2 DEF Tale
<1>15. Orderly(T, k, 0, birth2)
  <2>1. \A i \in 1 .. M : Born(T, RecordAt(k, i), birth2[i])
    BY <1>1, <1>9, <1>11 DEF Tale, Orderly
  <2>2. \A i, j \in 1 .. M : i < j => birth2[i] < birth2[j]
    BY <1>1, <1>6, <1>9, <1>11 DEF Tale, Orderly
  <2> QED BY <1>5, <2>1, <2>2 DEF Orderly
<1>16. Gapless(k, 0, m, birth2)
  <2> SUFFICES ASSUME NEW i \in 1 .. M, NEW l \in m + 1 .. birth2[i]
               PROVE  \E j \in 1 .. M : birth2[j] = l
    BY <1>5 DEF Gapless
  <2>1. l \in m + 1 .. birth[f[i]] /\ f[i] \in K + 1 .. N
    BY <1>9, <1>11
  <2>2. PICK g \in K + 1 .. N : birth[g] = l
    BY <1>1, <2>1 DEF Tale, Gapless
  <2>3. birth[g] > m
    BY <1>2, <1>12, <2>1, <2>2
  <2> QED BY <1>13, <2>2, <2>3
<1>17. Before(k, 0, m, birth2, cut)
  <2> SUFFICES ASSUME NEW i \in 1 .. M, RecordAt(k, i).ts <= cut PROVE birth2[i] <= m
    BY <1>5 DEF Before
  <2> QED BY <1>1, <1>9, <1>11 DEF Tale, Before
<1>18. Tale(T, snap, cut, cut, k, 0, m, birth2)
  BY <1>2, <1>5, <1>14, <1>15, <1>16, <1>17 DEF Tale
<1>19. ASSUME NEW waiting, NEW ripe, NEW whole, Goes(T, waiting, ripe, whole, units, K, m, birth)
       PROVE  Goes(T, waiting, ripe, whole, k, 0, m, birth2)
  <2>1. ASSUME whole, NEW j \in m + 1 .. Len(T), j \notin waiting PROVE \E i \in 1 .. M : birth2[i] = j
    <3>1. PICK g \in K + 1 .. N : birth[g] = j
      BY <1>1, <1>19, <2>1 DEF Goes
    <3>2. birth[g] > m
      BY <1>2, <3>1
    <3> QED BY <1>13, <3>1, <3>2
  <2>2. \A i \in 1 .. M, o \in waiting : birth2[i] < o
    BY <1>1, <1>9, <1>11, <1>19 DEF Goes
  <2> QED BY <1>5, <1>19, <2>1, <2>2 DEF Goes
<1>20. ASSUME NEW cells, Saves(T[m], units, K, cells) PROVE Saves(T[m], k, 0, cells)
  <2> SUFFICES ASSUME NEW q \in cells, q \notin Occupied(T[m])
               PROVE  \E i \in 1 .. M : RecordAt(k, i).at = q
    BY <1>5 DEF Saves
  <2>1. PICK g \in K + 1 .. N : RecordAt(units, g).at = q
    BY <1>1, <1>20 DEF Saves
  <2>2. g \in 1 .. N
    BY <1>2
  <2>3. Born(T, RecordAt(units, g), birth[g])
    BY <1>1 DEF Tale, Orderly
  <2>4. ~(birth[g] <= m)
    BY <1>2, <1>7, <2>1, <2>2, <2>3, BornOnce
  <2>5. birth[g] > m
    BY <1>2, <1>12, <2>4
  <2>6. PICK i \in 1 .. M : f[i] = g
    BY <1>13, <2>5
  <2> QED BY <1>9, <2>1, <2>6
<1> QED BY <1>18, <1>19, <1>20

-----------------------------------------------------------------------------
(* The history of the boards, and the placements that wait to be appended.   *)

Trailing ==
  /\ Growing(trail) /\ board = trail[Len(trail)]
  /\ \A h \in Handlers : pc[h] # "idle" => Born(trail, rec[h], order[h])
  /\ \A g, h \in Handlers : pc[g] # "idle" /\ pc[h] # "idle" /\ g # h => order[g] # order[h]

(* A process that starts has one board.                                     *)
LEMMA GrowingOne ==
  ASSUME NEW b \in Boards
  PROVE  Growing(<<b>>) /\ <<b>>[Len(<<b>>)] = b
<1>1. <<b>> \in Seq(Boards) /\ Len(<<b>>) = 1 /\ <<b>>[1] = b
  OBVIOUS
<1>2. \A i \in 1 .. 1 : i = 1
  OBVIOUS
<1> QED BY <1>1, <1>2 DEF Growing

(* The history begins with the first board.                                 *)
LEMMA TrailingInit == Init => Trailing
<1> SUFFICES ASSUME Init PROVE Trailing
  OBVIOUS
<1>1. trail = <<board>> /\ board \in Boards /\ \A h \in Handlers : pc[h] = "idle"
  BY SeedType DEF Init
<1> QED BY <1>1, GrowingOne DEF Trailing

(* The same boards, and no more handlers that wait.                         *)
LEMMA TrailingSame ==
  ASSUME Trailing, UNCHANGED <<trail, board>>,
         \A h \in Handlers : pc'[h] # "idle" =>
           pc[h] # "idle" /\ order'[h] = order[h]
           /\ rec'[h].at = rec[h].at /\ rec'[h].team = rec[h].team
  PROVE  Trailing'
<1>1. \A h \in Handlers : pc'[h] # "idle" => Born(trail', rec'[h], order'[h])
  BY DEF Trailing, Born
<1> QED BY <1>1 DEF Trailing

(* Every step keeps the history.                                            *)
LEMMA TrailingStep == Typed /\ Stages /\ Trailing /\ [Next]_vars => Trailing'
<1> SUFFICES ASSUME Typed, Stages, Trailing, [Next]_vars PROVE Trailing'
  OBVIOUS
<1>0. /\ rec \in [Handlers -> Record \cup {None}] /\ pc \in [Handlers -> {"idle", "stamp", "append"}]
      /\ order \in [Handlers -> Nat] /\ board \in Boards
  BY DEF Typed, TypeOK, Boards
<1>1. CASE UNCHANGED <<trail, board, pc, order, rec>>
  BY <1>1, TrailingSame
<1>2. CASE Tick
  BY <1>1, <1>2 DEF Tick, memory, history
<1>3. ASSUME NEW h \in Handlers, Commit(h) PROVE Trailing'
  <2>1. PICK q \in Targets :
          /\ Flips(board, q, TeamOf[h]) # {}
          /\ board' = Placed(board, q, TeamOf[h])
          /\ rec' = [rec EXCEPT ![h] = [None EXCEPT !.at = q, !.team = TeamOf[h]]]
    BY <1>3 DEF Commit
  <2>2. q \in Coord /\ TeamOf[h] \in Team
    BY PersistenceAssumption
  <2>3. trail' = Append(trail, board') /\ Growing(trail) /\ board = trail[Len(trail)]
    BY <1>3 DEF Commit, Trailing
  <2>4. /\ Growing(trail') /\ Begins(trail, trail') /\ Len(trail') = Len(trail) + 1
        /\ trail'[Len(trail')] = board'
        /\ \A r : r.at = q /\ r.team = TeamOf[h] => Born(trail', r, Len(trail'))
    BY <2>1, <2>2, <2>3, GrowingPlaced
  <2>5. rec'[h].at = q /\ rec'[h].team = TeamOf[h]
    <3>1. [None EXCEPT !.at = q, !.team = TeamOf[h]].at = q
          /\ [None EXCEPT !.at = q, !.team = TeamOf[h]].team = TeamOf[h]
      BY DEF None
    <3> QED BY <1>0, <2>1, <3>1
  <2>6. order'[h] = Len(trail') /\ \A i \in Handlers : i # h =>
           rec'[i] = rec[i] /\ pc'[i] = pc[i] /\ order'[i] = order[i]
    BY <1>0, <1>3, <2>1 DEF Commit
  <2>7. \A i \in Handlers : i # h /\ pc[i] # "idle" => Born(trail', rec[i], order[i])
    BY <2>3, <2>4, BornBegins DEF Trailing
  <2>8. \A i \in Handlers : pc'[i] # "idle" => Born(trail', rec'[i], order'[i])
    BY <2>4, <2>5, <2>6, <2>7
  <2>9. \A i \in Handlers : i # h /\ pc[i] # "idle" => order[i] # Len(trail')
    <3>1. Len(trail) \in Nat
      BY <2>3 DEF Growing
    <3>2. \A i \in Handlers : pc[i] # "idle" => order[i] \in 2 .. Len(trail)
      BY DEF Trailing, Born
    <3> QED BY <2>4, <3>1, <3>2
  <2>10. \A g, i \in Handlers : pc'[g] # "idle" /\ pc'[i] # "idle" /\ g # i => order'[g] # order'[i]
    BY <2>6, <2>9 DEF Trailing
  <2> QED BY <2>4, <2>8, <2>10 DEF Trailing
<1>4. ASSUME NEW h \in Handlers, Stamp(h) PROVE Trailing'
  <2>1. rec[h] \in Record
    BY <1>4 DEF Stamp, Typed, Busy
  <2>2. [rec[h] EXCEPT !.ts = clock].at = rec[h].at /\ [rec[h] EXCEPT !.ts = clock].team = rec[h].team
    BY <2>1 DEF Record
  <2>3. rec' = [rec EXCEPT ![h] = [rec[h] EXCEPT !.ts = clock]] /\ pc[h] = "stamp"
        /\ pc' = [pc EXCEPT ![h] = "append"] /\ UNCHANGED <<trail, board, order>>
    BY <1>4 DEF Stamp
  <2>4. \A i \in Handlers : pc'[i] # "idle" =>
          pc[i] # "idle" /\ rec'[i].at = rec[i].at /\ rec'[i].team = rec[i].team
    BY <1>0, <2>2, <2>3
  <2> QED BY <2>3, <2>4, TrailingSame
<1>5. ASSUME NEW h \in Handlers, AppendRecord(h) PROVE Trailing'
  <2>1. \A i \in Handlers : pc'[i] # "idle" => pc[i] # "idle" /\ rec'[i] = rec[i]
    BY <1>0, <1>5 DEF AppendRecord
  <2> QED BY <1>5, <2>1, TrailingSame DEF AppendRecord
<1>6. CASE SyncWAL
  BY <1>1, <1>6 DEF SyncWAL
<1>7. CASE CloseWAL
  BY <1>1, <1>7 DEF CloseWAL
<1>8. CASE TakeTime
  BY <1>1, <1>8 DEF TakeTime, memory, history
<1>9. CASE EncodeBoard
  BY <1>1, <1>9 DEF EncodeBoard, memory, history
<1>10. CASE WriteData
  BY <1>1, <1>10 DEF WriteData, memory, history
<1>11. CASE WriteMeta
  BY <1>1, <1>11 DEF WriteMeta, memory
<1>12. CASE WriteSnapshotFails
  BY <1>1, <1>12 DEF WriteSnapshotFails, memory, history
<1>13. CASE CompactFails
  BY <1>1, <1>13 DEF CompactFails, history
<1>14. CASE Compact
  BY <1>1, <1>14 DEF Compact, history
<1>15. CASE Truncate
  BY <1>1, <1>15 DEF Truncate, memory, history
<1>16. CASE Rewrite
  BY <1>1, <1>16 DEF Rewrite, memory
<1>17. ASSUME NEW g, Stop(g) PROVE Trailing'
  <2>1. \A h \in Handlers : pc'[h] = "idle"
    BY <1>17 DEF Stop
  <2> QED BY <1>17, <2>1, TrailingSame DEF Stop
<1>18. CASE Exit
  BY <1>17, <1>18 DEF Exit
<1>19. CASE Crash
  BY <1>17, <1>19 DEF Crash
<1>20. CASE Restart
  <2>1. trail' = <<board'>> /\ board' \in Boards
    BY <1>20, RestoredType DEF Restart, Typed, TypeOK
  <2>2. \A h \in Handlers : pc'[h] = "idle"
    BY <1>20 DEF Restart, Stages, memory
  <2> QED BY <2>1, <2>2, GrowingOne DEF Trailing
<1>21. CASE UNCHANGED vars
  BY <1>1, <1>21 DEF vars, memory, history
<1> QED BY <1>2, <1>3, <1>4, <1>5, <1>6, <1>7, <1>8, <1>9, <1>10, <1>11, <1>12, <1>13, <1>14,
           <1>15, <1>16, <1>18, <1>19, <1>20, <1>21 DEF Next

-----------------------------------------------------------------------------
(* As long as none of the cases took place that a restart does not handle,   *)
(* the log tells of the game.                                               *)

Orders    == {order[h] : h \in {g \in Handlers : pc[g] # "idle"}}
RipeSince == {order[h] : h \in {g \in Handlers : pc[g] = "append" /\ rec[g].ts <= Since}}
RipeCut   == {order[h] : h \in {g \in Handlers : pc[g] = "append" /\ rec[g].ts <= cut}}

LogTells(K, m, birth) ==
  /\ Tale(trail, Held, Since, fired, Stream, K, m, birth)
  /\ Goes(trail, Orders, RipeSince, Streaming, Stream, K, m, birth)
  /\ Saves(trail[m], log, K, secured)
  /\ ~broken => Saves(trail[m], Stream, K, appended)
  /\ writer \in {"data", "meta"} => Pictures(trail, image, Stream, K, m, birth, cut, RipeCut)

LogTold  == \E K, m, birth : K <= GroupCount(log) /\ LogTells(K, m, birth)

KeptTells(m, birth) ==
  /\ Tale(trail, Held, Since, fired, kept, 0, m, birth)
  /\ Goes(trail, Orders, RipeSince, Streaming, kept, 0, m, birth)
  /\ Saves(trail[m], kept, 0, secured \cup appended)

KeptTold == \E m, birth : KeptTells(m, birth)

Story == mishaps = {} => /\ writer # "rewrite" => LogTold
                         /\ writer \in {"truncate", "rewrite"} => KeptTold

(* The orders are places in the trail.                                      *)
LEMMA OrdersType ==
  ASSUME Typed
  PROVE  Orders \in SUBSET Nat /\ RipeSince \in SUBSET Orders /\ RipeCut \in SUBSET Orders
BY DEF Typed, TypeOK, Orders, RipeSince, RipeCut

(* Of a process that starts there is nothing to tell.                       *)
LEMMA TaleStarts ==
  ASSUME NEW T, Growing(T), Len(T) = 1, NEW snap, NEW since, NEW time, NEW units \in Seq(Unit), NEW K,
         K = GroupCount(units), snap # NoFile => ReplayTo(decodeBoard(snap), since, units, K) = T[1],
         \A i \in 1 .. K : RecordAt(units, i).ts < time
  PROVE  \A birth : /\ Tale(T, snap, since, time, units, K, 1, birth)
                    /\ \A whole : Goes(T, {}, {}, whole, units, K, 1, birth)
<1>1. K \in Nat /\ K \in 0 .. K /\ K + 1 .. K = {} /\ 1 \in 1 .. 1 /\ 1 + 1 .. 1 = {}
  BY GroupCountType
<1> QED BY <1>1 DEF Tale, Goes, Orderly, Gapless, Before

(* Of an old log there is nothing to tell but the first board.              *)
LEMMA StoryInit == Init => Story
<1> SUFFICES ASSUME Init, mishaps = {} PROVE Story
  BY DEF Story
<1>1. /\ board = FreshBoard /\ log \in OldLogs /\ ~Torn(log) /\ buffer = <<>> /\ broken = FALSE
      /\ kept = <<>> /\ fired = 1 /\ meta \in {NoMeta, [ts |-> 0, file |-> 0]} /\ writer = "wait"
      /\ files = [t \in Time |-> IF t = 0 THEN encodeBoard(FreshBoard) ELSE NoFile]
      /\ trail = <<FreshBoard>> /\ secured = {} /\ appended = {} /\ \A h \in Handlers : pc[h] = "idle"
  BY DEF Init
<1>2. log \in Seq(Unit) /\ \A g \in 1 .. GroupCount(log) : RecordAt(log, g).ts = 0
  BY <1>1, PersistenceAssumption DEF RecordAt
<1>3. Stream = log
  BY <1>1, <1>2 DEF Stream
<1>4. Growing(trail) /\ Len(trail) = 1 /\ trail[1] = FreshBoard
  <2>1. Growing(<<FreshBoard>>)
    BY SeedType, GrowingOne
  <2> QED BY <1>1, <2>1
<1>5. PICK K \in Nat : K = GroupCount(log)
  BY <1>2, GroupCountType
<1>6. ASSUME Held # NoFile PROVE ReplayTo(decodeBoard(Held), Since, log, K) = trail[1]
  <2>1. 0 \in Time
    BY PersistenceAssumption DEF Time
  <2>2. Loadable /\ meta.file = 0 /\ meta.ts = 0
    BY <1>1, <1>6 DEF Held, Loadable
  <2>3. Held = encodeBoard(FreshBoard) /\ Since = 0
    BY <1>1, <2>1, <2>2 DEF Held, Since
  <2>4. decodeBoard(Held) = FreshBoard
    BY <2>3, SeedType, DecodeEncode
  <2>5. \A i \in 1 .. K : Skipped(RecordAt(log, i).ts, Since)
    BY <1>2, <1>5, <2>3 DEF Skipped
  <2> QED BY <1>4, <2>4, <2>5, SeedType, ReplaySkips
<1>7. \A i \in 1 .. K : RecordAt(log, i).ts < fired
  BY <1>1, <1>2, <1>5
<1>8. \A birth : /\ Tale(trail, Held, Since, fired, Stream, K, 1, birth)
                 /\ \A whole : Goes(trail, {}, {}, whole, Stream, K, 1, birth)
  BY <1>2, <1>3, <1>4, <1>5, <1>6, <1>7, TaleStarts
<1>9. Orders = {} /\ RipeSince = {}
  BY <1>1 DEF Orders, RipeSince
<1>10. \A birth : LogTells(K, 1, birth)
  BY <1>1, <1>8, <1>9 DEF LogTells, Saves
<1>11. K <= GroupCount(log)
  BY <1>5
<1> QED BY <1>1, <1>10, <1>11 DEF Story, LogTold

(* The first records grow older.                                            *)
LEMMA TaleLater ==
  ASSUME NEW T, NEW snap, NEW since, NEW time \in Int, NEW time2 \in Int, time <= time2,
         NEW units \in Seq(Unit), NEW K, NEW m, NEW birth,
         Tale(T, snap, since, time, units, K, m, birth)
  PROVE  Tale(T, snap, since, time2, units, K, m, birth)
<1>1. GroupCount(units) \in Nat /\ K \in 0 .. GroupCount(units)
  BY GroupCountType DEF Tale
<1>2. \A i \in 1 .. K : i \in 1 .. GroupCount(units)
  BY <1>1
<1>3. \A i \in 1 .. K : RecordAt(units, i).ts \in Nat /\ RecordAt(units, i).ts < time
  BY <1>2, RecordTimes DEF Tale
<1>4. \A i \in 1 .. K : RecordAt(units, i).ts < time2
  BY <1>3
<1> QED BY <1>4 DEF Tale

(* Most steps leave all that the tale is of.                                *)
LEMMA StorySame ==
  ASSUME Typed, Story, mishaps \subseteq mishaps',
         UNCHANGED <<Held, Since, log, Stream, kept, secured, appended, trail, broken, Streaming,
                     Orders, RipeSince>>,
         fired' \in Int, fired <= fired',
         writer' # "rewrite" => writer # "rewrite",
         writer' \in {"truncate", "rewrite"} => writer \in {"truncate", "rewrite"},
         writer' \in {"data", "meta"} => writer \in {"data", "meta"} /\ UNCHANGED <<image, cut, RipeCut>>
  PROVE  Story'
<1> SUFFICES ASSUME mishaps' = {} PROVE Story'
  BY DEF Story
<1>1. mishaps = {} /\ fired \in Int /\ Stream \in Seq(Unit) /\ kept \in Seq(Unit)
  BY TimesType, StreamType
<1>2. ASSUME writer' # "rewrite" PROVE LogTold'
  <2>1. PICK K, m, birth : K <= GroupCount(log) /\ LogTells(K, m, birth)
    BY <1>1, <1>2 DEF Story, LogTold
  <2>2. Tale(trail, Held, Since, fired', Stream, K, m, birth)
    BY <1>1, <2>1, TaleLater DEF LogTells
  <2>3. LogTells(K, m, birth)'
    BY <2>1, <2>2 DEF LogTells
  <2> QED BY <2>1, <2>3 DEF LogTold
<1>3. ASSUME writer' \in {"truncate", "rewrite"} PROVE KeptTold'
  <2>1. PICK m, birth : KeptTells(m, birth)
    BY <1>1, <1>3 DEF Story, KeptTold
  <2>2. Tale(trail, Held, Since, fired', kept, 0, m, birth)
    BY <1>1, <2>1, TaleLater DEF KeptTells
  <2>3. KeptTells(m, birth)'
    BY <2>1, <2>2 DEF KeptTells
  <2> QED BY <2>3 DEF KeptTold
<1> QED BY <1>2, <1>3 DEF Story

(* What is saved in the log is saved in the stream.                         *)
LEMMA SavesGrows ==
  ASSUME NEW a \in Seq(Unit), NEW b \in Seq(Unit), Begins(a, b), NEW K \in Nat, NEW c, NEW cells,
         Saves(c, a, K, cells)
  PROVE  Saves(c, b, K, cells)
<1>1. /\ GroupCount(a) \in Nat /\ GroupCount(b) \in Nat /\ GroupCount(a) <= GroupCount(b)
      /\ \A g \in 1 .. GroupCount(a) : RecordAt(a, g) = RecordAt(b, g)
  BY BeginsWhole
<1>2. \A i \in K + 1 .. GroupCount(a) : i \in K + 1 .. GroupCount(b) /\ RecordAt(a, i) = RecordAt(b, i)
  BY <1>1
<1> QED BY <1>2 DEF Saves

(* A flush leaves the tale, or cuts it behind what was written.             *)
LEMMA StoryFlush ==
  ASSUME Typed, Trailing, Story, FlushSucceeds \/ FlushFails, mishaps \subseteq mishaps',
         writer \notin {"truncate", "rewrite"}, writer' \notin {"truncate", "rewrite"},
         phase # "down", phase' # "down",
         UNCHANGED <<Held, Since, appended, trail, fired, Orders, RipeSince>>,
         secured' = secured \/ (FlushSucceeds /\ secured' = secured \cup appended),
         writer' \in {"data", "meta"} => writer \in {"data", "meta"} /\ UNCHANGED <<image, cut, RipeCut>>
  PROVE  Story'
<1> SUFFICES ASSUME mishaps' = {} PROVE LogTold'
  BY DEF Story
<1>0. mishaps = {}
  OBVIOUS
<1>1. PICK K, m, birth : K <= GroupCount(log) /\ LogTells(K, m, birth)
  BY <1>0 DEF Story, LogTold
<1>2. /\ Stream \in Seq(Unit) /\ log \in Seq(Unit) /\ log' \in Seq(Unit) /\ Begins(log, log')
      /\ Begins(log, Stream) /\ Begins(log', Stream) /\ ~broken /\ Growing(trail)
  BY StreamType, FlushTyped, FlushStream DEF FlushSucceeds, FlushFails, Trailing
<1>3. GroupCount(log) \in Nat /\ GroupCount(log') \in Nat /\ GroupCount(log) <= GroupCount(log')
  BY <1>2, BeginsWhole
<1>4. K \in Nat /\ K <= GroupCount(log')
  <2>1. K \in 0 .. GroupCount(Stream)
    BY <1>1 DEF LogTells, Tale
  <2>2. K \in Nat
    BY <1>2, <2>1, GroupCountType
  <2> QED BY <1>1, <1>3, <2>2
<1>5. Saves(trail[m], log', K, secured) /\ Saves(trail[m], Stream, K, secured)
      /\ Saves(trail[m], Stream, K, appended)
  BY <1>1, <1>2, <1>4, SavesGrows DEF LogTells
<1>6. CASE FlushSucceeds
  <2>1. log' = Stream /\ Stream' = Stream /\ ~broken' /\ Streaming' = Streaming
    BY <1>2, <1>6, FlushStream DEF Streaming
  <2>2. Saves(trail[m], log', K, secured')
    BY <1>5, <2>1 DEF Saves
  <2>3. LogTells(K, m, birth)'
    BY <1>1, <1>5, <2>1, <2>2 DEF LogTells
  <2> QED BY <1>4, <2>3 DEF LogTold
<1>7. CASE FlushFails
  <2>1. Stream' = log' /\ broken' /\ secured' = secured /\ ~Streaming'
    <3>1. ~FlushSucceeds
      BY <1>7, FlushStream
    <3> QED BY <1>7, <3>1, FlushStream DEF Streaming
  <2>2. Tale(trail, Held, Since, fired, Stream, K, m, birth)
    BY <1>1 DEF LogTells
  <2>3. /\ Tale(trail, Held, Since, fired, log', K, m, birth)
        /\ \A n, t : Before(Stream, K, n, birth, t) => Before(log', K, n, birth, t)
    BY <1>2, <1>4, <2>2, TaleCut
  <2>4. Goes(trail, Orders, RipeSince, FALSE, Stream, K, m, birth)
    BY <1>1 DEF LogTells, Goes
  <2>5. Goes(trail, Orders, RipeSince, FALSE, log', K, m, birth)
    BY <1>2, <1>4, <2>2, <2>4, TaleCut
  <2>6. writer' \in {"data", "meta"} => Pictures(trail, image, log', K, m, birth, cut, RipeCut)
    BY <1>1, <2>3 DEF LogTells, Pictures
  <2>7. Streaming' = FALSE
    BY <2>1 DEF Streaming
  <2>8. LogTells(K, m, birth)'
    BY <1>5, <2>1, <2>3, <2>5, <2>6, <2>7 DEF LogTells
  <2> QED BY <1>4, <2>8 DEF LogTold
<1> QED BY <1>6, <1>7

(* The handler that appends is the first of those that wait.                *)
LEMMA FirstOfAll ==
  ASSUME Typed, Trailing, NEW h \in Handlers, AppendRecord(h), mishaps' = {}
  PROVE  /\ mishaps = {} /\ order[h] \in Orders /\ Born(trail, rec[h], order[h])
         /\ \A p \in Orders : order[h] <= p
         /\ order[h] \notin Orders' /\ Orders' \in SUBSET Orders /\ Orders \subseteq Orders' \cup {order[h]}
         /\ UNCHANGED Since => RipeSince' \in SUBSET RipeSince
         /\ RipeCut' \in SUBSET RipeCut
         /\ rec[h].ts <= Since => order[h] \in RipeSince
         /\ rec[h].ts <= cut => order[h] \in RipeCut
<1>1. /\ rec \in [Handlers -> Record \cup {None}] /\ pc \in [Handlers -> {"idle", "stamp", "append"}]
      /\ order \in [Handlers -> Nat]
  BY DEF Typed, TypeOK
<1>2. /\ mishaps = {} /\ pc[h] = "append" /\ ~Overtakes(h) /\ order' = order /\ cut' = cut
      /\ pc'[h] = "idle" /\ \A i \in Handlers : i # h => pc'[i] = pc[i] /\ rec'[i] = rec[i]
  BY <1>1 DEF AppendRecord, taking
<1>3. \A p \in Orders : order[h] <= p
  <2> SUFFICES ASSUME NEW g \in Handlers, pc[g] # "idle" PROVE order[h] <= order[g]
    BY DEF Orders
  <2>1. ~(order[g] < order[h])
    BY <1>1, <1>2 DEF Overtakes
  <2>2. order[g] \in Nat /\ order[h] \in Nat
    BY <1>1
  <2> QED BY <2>1, <2>2
<1>4. order[h] \notin Orders'
  BY <1>2 DEF Orders, Trailing
<1>5. Orders' \in SUBSET Orders /\ Orders \subseteq Orders' \cup {order[h]}
  BY <1>2 DEF Orders
<1>6. UNCHANGED Since => RipeSince' \in SUBSET RipeSince
  BY <1>2 DEF RipeSince
<1>7. RipeCut' \in SUBSET RipeCut
  BY <1>2 DEF RipeCut
<1> QED BY <1>2, <1>3, <1>4, <1>5, <1>6, <1>7 DEF Orders, RipeSince, RipeCut, Trailing

(* A record that is appended goes on with the tale.                         *)
LEMMA StoryAppend ==
  ASSUME Typed, Stages, Streams, Trailing, Story, NEW h \in Handlers, AppendRecord(h)
  PROVE  Story'
<1> SUFFICES ASSUME mishaps' = {} PROVE LogTold'
  <2>1. writer' = writer /\ writer \notin {"truncate", "rewrite"}
    BY DEF AppendRecord, Unlocked, taking
  <2> QED BY <2>1 DEF Story
<1>1. /\ UNCHANGED <<files, meta, writer, fired, image, cut, trail, secured, phase>>
      /\ writer \notin {"truncate", "rewrite"} /\ phase # "down" /\ pc[h] = "append"
  BY DEF AppendRecord, Unlocked, taking, Running
<1>2. UNCHANGED <<Held, Since>>
  BY <1>1, HeldSame
<1>3. PICK o : o = order[h]
  OBVIOUS
<1>4. /\ mishaps = {} /\ o \in Orders /\ Born(trail, rec[h], o)
      /\ \A p \in Orders : o <= p
      /\ o \notin Orders' /\ Orders' \in SUBSET Orders /\ Orders \subseteq Orders' \cup {o}
      /\ RipeSince' \in SUBSET RipeSince /\ RipeCut' \in SUBSET RipeCut
      /\ rec[h].ts <= Since => o \in RipeSince
      /\ rec[h].ts <= cut => o \in RipeCut
  BY <1>2, <1>3, FirstOfAll
<1>5. PICK K, m, birth : K <= GroupCount(log) /\ LogTells(K, m, birth)
  BY <1>1, <1>4 DEF Story, LogTold
<1>6. /\ Stream \in Seq(Unit) /\ log \in Seq(Unit) /\ log' \in Seq(Unit)
      /\ Begins(log, Stream) /\ Begins(log, log) /\ Growing(trail) /\ rec[h] \in Record
      /\ Orders \in SUBSET Nat
  BY StreamType, AppendTyped, AppendStream, OrdersType DEF Trailing, Begins
<1>7. Begins(log, log')
  BY <1>6, AppendStream
<1>8. K \in Nat /\ K <= GroupCount(log')
  <2>1. K \in 0 .. GroupCount(Stream)
    BY <1>5 DEF LogTells, Tale
  <2>2. K \in Nat
    BY <1>6, <2>1, GroupCountType
  <2>3. GroupCount(log) \in Nat /\ GroupCount(log') \in Nat /\ GroupCount(log) <= GroupCount(log')
    BY <1>6, <1>7, BeginsWhole
  <2> QED BY <1>5, <2>2, <2>3
<1>9. Saves(trail[m], log', K, secured)
  BY <1>5, <1>6, <1>7, <1>8, SavesGrows DEF LogTells
<1>10. CASE broken /\ Stream' = Stream /\ UNCHANGED <<log, broken, buffer, appended>>
  <2>1. Streaming' = FALSE /\ Streaming = FALSE
    BY <1>10 DEF Streaming
  <2>2. Goes(trail, Orders', RipeSince', FALSE, Stream, K, m, birth)
    BY <1>4, <1>5, <2>1 DEF LogTells, Goes
  <2>3. writer \in {"data", "meta"} => Pictures(trail, image, Stream, K, m, birth, cut, RipeCut')
    BY <1>4, <1>5 DEF LogTells, Pictures
  <2>4. LogTells(K, m, birth)'
    BY <1>1, <1>2, <1>5, <1>9, <1>10, <2>1, <2>2, <2>3 DEF LogTells
  <2> QED BY <1>8, <2>4 DEF LogTold
<1>11. ASSUME ~broken
       PROVE  \E all, birth2 :
                /\ all = Stream \o UnitsOf(rec[h]) /\ all \in Seq(Unit) /\ Begins(Stream, all)
                /\ Tale(trail, Held, Since, fired, all, K, m, birth2)
                /\ Goes(trail, Orders', RipeSince', TRUE, all, K, m, birth2)
                /\ writer \in {"data", "meta"} =>
                     Pictures(trail, image, all, K, m, birth2, cut, RipeCut')
                /\ \E i \in K + 1 .. GroupCount(all) : RecordAt(all, i).at = rec[h].at
  <2>1. Streaming /\ ~Torn(Stream)
    BY <1>1, <1>4, <1>11 DEF Streaming, Streams
  <2>2. PICK all : all = Stream \o UnitsOf(rec[h])
    OBVIOUS
  <2>3. all \in Seq(Unit) /\ Begins(Stream, all) /\ GroupCount(Stream) \in Nat
        /\ GroupCount(all) = GroupCount(Stream) + 1
    BY <1>6, <2>1, <2>2, AddedWhole
  <2>4. RecordAt(all, GroupCount(Stream) + 1) = rec[h]
    BY <1>6, <2>1, <2>2, AddedWhole
  <2>5. Tale(trail, Held, Since, fired, Stream, K, m, birth)
        /\ Goes(trail, Orders, RipeSince, TRUE, Stream, K, m, birth)
    BY <1>5, <2>1 DEF LogTells
  <2>6. rec[h].ts <= Since => o <= m
    BY <1>4, <2>5 DEF Goes
  <2>11. PICK T, snap, since, time, a, r, waiting, ripe :
            /\ T = trail /\ snap = Held /\ since = Since /\ time = fired /\ a = Stream
            /\ r = rec[h] /\ waiting = Orders /\ ripe = RipeSince
    OBVIOUS
  <2>12. /\ Growing(T) /\ a \in Seq(Unit) /\ ~Torn(a) /\ r \in Record /\ all = a \o UnitsOf(r)
         /\ waiting \in SUBSET Nat /\ o \in waiting /\ Born(T, r, o)
    BY <1>4, <1>6, <2>1, <2>2, <2>11
  <2>13. /\ Tale(T, snap, since, time, a, K, m, birth)
         /\ Goes(T, waiting, ripe, TRUE, a, K, m, birth)
         /\ \A p \in waiting : o <= p
         /\ (r.ts <= since => o <= m)
    BY <1>4, <2>5, <2>6, <2>11
  <2>14. PICK birth2 : Continued(T, snap, since, time, a, all, r, o, K, m, birth, birth2, waiting, ripe)
    BY ONLY <2>12, <2>13, TaleAdded
  <2>7. /\ Tale(trail, Held, Since, fired, all, K, m, birth2)
        /\ \A left \in SUBSET Orders, few \in SUBSET RipeSince :
             o \notin left /\ Orders \subseteq left \cup {o} =>
             Goes(trail, left, few, TRUE, all, K, m, birth2)
        /\ \A n, t : Before(Stream, K, n, birth, t) /\ (rec[h].ts <= t => o <= n)
                       => Before(all, K, n, birth2, t)
    BY <2>11, <2>14 DEF Continued
  <2>8. Goes(trail, Orders', RipeSince', TRUE, all, K, m, birth2)
    BY <1>4, <2>7
  <2>9. ASSUME writer \in {"data", "meta"} PROVE Pictures(trail, image, all, K, m, birth2, cut, RipeCut')
    <3>1. PICK n \in m .. Len(trail) :
            /\ decodeBoard(image) = trail[n] /\ Before(Stream, K, n, birth, cut)
            /\ \A p \in RipeCut : p <= n
      BY <1>5, <2>9 DEF LogTells, Pictures
    <3>2. Before(all, K, n, birth2, cut)
      BY <1>4, <2>7, <3>1
    <3> QED BY <1>4, <3>1, <3>2 DEF Pictures
  <2>10. GroupCount(Stream) + 1 \in K + 1 .. GroupCount(all)
    <3>1. K \in 0 .. GroupCount(Stream)
      BY <2>5 DEF Tale
    <3> QED BY <2>3, <3>1
  <2> QED BY <2>2, <2>3, <2>4, <2>7, <2>8, <2>9, <2>10
<1>12. CASE /\ ~broken /\ ~broken'
            /\ Stream' = Stream \o UnitsOf(rec[h])
            /\ appended' = appended \cup {rec[h].at}
  <2>1. PICK birth2 :
                /\ Stream' \in Seq(Unit) /\ Begins(Stream, Stream')
                /\ Tale(trail, Held, Since, fired, Stream', K, m, birth2)
                /\ Goes(trail, Orders', RipeSince', TRUE, Stream', K, m, birth2)
                /\ writer \in {"data", "meta"} =>
                     Pictures(trail, image, Stream', K, m, birth2, cut, RipeCut')
                /\ \E i \in K + 1 .. GroupCount(Stream') : RecordAt(Stream', i).at = rec[h].at
    BY <1>11, <1>12
  <2>2. Streaming' = TRUE
    BY <1>1, <1>12 DEF Streaming
  <2>3. Saves(trail[m], Stream', K, appended)
    BY <1>5, <1>6, <1>8, <1>12, <2>1, SavesGrows DEF LogTells
  <2>4. Saves(trail[m], Stream', K, appended')
    BY <1>12, <2>1, <2>3 DEF Saves
  <2>5. LogTells(K, m, birth2)'
    BY <1>1, <1>2, <1>9, <2>1, <2>2, <2>4 DEF LogTells
  <2> QED BY <1>8, <2>5 DEF LogTold
<1>13. CASE /\ ~broken /\ broken'
            /\ Stream' = log'
            /\ Begins(Stream', Stream \o UnitsOf(rec[h]))
            /\ UNCHANGED appended
  <2>1. PICK all, birth2 :
                /\ all = Stream \o UnitsOf(rec[h]) /\ all \in Seq(Unit)
                /\ Tale(trail, Held, Since, fired, all, K, m, birth2)
                /\ Goes(trail, Orders', RipeSince', TRUE, all, K, m, birth2)
                /\ writer \in {"data", "meta"} =>
                     Pictures(trail, image, all, K, m, birth2, cut, RipeCut')
    BY <1>11, <1>13
  <2>9. PICK cutlog : cutlog = log'
    OBVIOUS
  <2>2. Begins(cutlog, all) /\ cutlog \in Seq(Unit) /\ K <= GroupCount(cutlog)
    <3>1. Begins(log', all)
      BY <1>13, <2>1
    <3> QED BY <1>6, <1>8, <2>9, <3>1
  <2>3. Goes(trail, Orders', RipeSince', FALSE, all, K, m, birth2)
    BY <2>1 DEF Goes
  <2>14. Growing(trail) /\ all \in Seq(Unit) /\ Tale(trail, Held, Since, fired, all, K, m, birth2)
    BY <1>6, <2>1
  <2>10. /\ Tale(trail, Held, Since, fired, cutlog, K, m, birth2)
         /\ \A n, t : Before(all, K, n, birth2, t) => Before(cutlog, K, n, birth2, t)
    BY ONLY <2>14, <2>2, TaleCut
  <2>11. PICK waiting, ripe : waiting = Orders' /\ ripe = RipeSince'
    OBVIOUS
  <2>12. Goes(trail, waiting, ripe, FALSE, all, K, m, birth2)
    BY <2>3, <2>11
  <2>13. Goes(trail, waiting, ripe, FALSE, cutlog, K, m, birth2)
    BY ONLY <2>14, <2>2, <2>12, TaleCut
  <2>4. /\ Tale(trail, Held, Since, fired, log', K, m, birth2)
        /\ \A n, t : Before(all, K, n, birth2, t) => Before(log', K, n, birth2, t)
    BY <2>9, <2>10
  <2>5. Goes(trail, Orders', RipeSince', FALSE, log', K, m, birth2)
    BY <2>9, <2>11, <2>13
  <2>6. writer \in {"data", "meta"} => Pictures(trail, image, log', K, m, birth2, cut, RipeCut')
    BY <2>1, <2>4 DEF Pictures
  <2>7. Streaming' = FALSE
    BY <1>13 DEF Streaming
  <2>8. LogTells(K, m, birth2)'
    BY <1>1, <1>2, <1>9, <1>13, <2>4, <2>5, <2>6, <2>7 DEF LogTells
  <2> QED BY <1>8, <2>8 DEF LogTold
<1> QED BY <1>10, <1>12, <1>13, AppendStream

(* The game goes on: one more placement waits.                              *)
LEMMA StoryCommit ==
  ASSUME Typed, Stages, Trailing, Trailing', Story, NEW h \in Handlers, Commit(h)
  PROVE  Story'
<1> SUFFICES ASSUME mishaps' = {} PROVE Story'
  BY DEF Story
<1>1. /\ UNCHANGED <<files, meta, writer, fired, image, cut, kept, secured, appended, phase,
                     log, buffer, broken, mishaps>>
      /\ pc[h] = "idle" /\ trail' = Append(trail, board')
  BY DEF Commit, taking, disk
<1>2. UNCHANGED <<Held, Since, Stream, Streaming>>
  BY <1>1, HeldSame DEF Stream, Streaming
<1>3. PICK T : T = trail
  OBVIOUS
<1>4. PICK U : U = trail'
  OBVIOUS
<1>5. Growing(T) /\ Growing(U) /\ Len(U) = Len(T) + 1 /\ Begins(T, U) /\ Len(T) \in Nat
  <2>1. Growing(T) /\ Growing(U) /\ board' \in Boards
    <3>1. board' \in Boards
      <4>1. Growing(trail') /\ board' = trail'[Len(trail')]
        BY DEF Trailing
      <4>2. PICK n \in Nat \ {0} : n = Len(trail') /\ trail' \in Seq(Boards)
        BY <4>1 DEF Growing
      <4>3. trail'[n] \in Boards
        BY <4>2
      <4> QED BY <4>1, <4>2, <4>3
    <3> QED BY <1>3, <1>4, <3>1 DEF Trailing
  <2>2. T \in Seq(Boards) /\ U = Append(T, board') /\ Len(T) \in Nat
    BY <1>1, <1>3, <1>4, <2>1 DEF Growing
  <2>3. Len(U) = Len(T) + 1 /\ \A i \in 1 .. Len(T) : U[i] = T[i]
    BY <2>1, <2>2
  <2> QED BY <2>1, <2>2, <2>3 DEF Begins
<1>6. /\ rec \in [Handlers -> Record \cup {None}] /\ pc \in [Handlers -> {"idle", "stamp", "append"}]
      /\ order \in [Handlers -> Nat]
  BY DEF Typed, TypeOK
<1>7. /\ pc'[h] = "stamp" /\ order'[h] = Len(U)
      /\ \A i \in Handlers : i # h => pc'[i] = pc[i] /\ rec'[i] = rec[i] /\ order'[i] = order[i]
  <2>1. PICK r : rec' = [rec EXCEPT ![h] = r]
    BY DEF Commit
  <2> QED BY <1>4, <1>6, <2>1 DEF Commit
<1>8. Orders' \subseteq Orders \cup {Len(U)} /\ Orders \cup {Len(U)} \subseteq Orders'
  <2>1. Orders' \subseteq Orders \cup {Len(U)}
    BY <1>7 DEF Orders
  <2>2. Len(U) \in Orders'
    BY <1>7 DEF Orders
  <2>3. ASSUME NEW i \in Handlers, pc[i] # "idle" PROVE order[i] \in Orders'
    BY <1>1, <1>7, <2>3 DEF Orders
  <2> QED BY <2>1, <2>2, <2>3 DEF Orders
<1>9. RipeSince' \subseteq RipeSince /\ RipeCut' \subseteq RipeCut
  BY <1>1, <1>2, <1>7 DEF RipeSince, RipeCut
<1>10. ASSUME NEW units, NEW K, NEW m, NEW birth,
              Tale(T, Held, Since, fired, units, K, m, birth),
              Goes(T, Orders, RipeSince, Streaming, units, K, m, birth)
       PROVE  /\ Tale(U, Held, Since, fired, units, K, m, birth) /\ U[m] = T[m]
              /\ Goes(U, Orders', RipeSince', Streaming, units, K, m, birth)
              /\ Pictures(T, image, units, K, m, birth, cut, RipeCut) =>
                   Pictures(U, image, units, K, m, birth, cut, RipeCut')
  <2>1. Tale(U, Held, Since, fired, units, K, m, birth) /\ U[m] = T[m]
    BY <1>5, <1>10, TaleGrows
  <2>2. \A i \in K + 1 .. GroupCount(units) : birth[i] \in 2 .. Len(T)
    BY <1>10 DEF Tale, Orderly, Born
  <2>3. m \in 1 .. Len(T)
    BY <1>10 DEF Tale
  <2>4. \A j \in m + 1 .. Len(U) : j \in m + 1 .. Len(T) \/ j = Len(U)
    BY <1>5, <2>3
  <2>5. Streaming => \A j \in m + 1 .. Len(U) :
          j \in Orders' \/ \E i \in K + 1 .. GroupCount(units) : birth[i] = j
    BY <1>8, <1>10, <2>4 DEF Goes
  <2>6. \A i \in K + 1 .. GroupCount(units), p \in Orders' : birth[i] < p
    <3> TAKE i \in K + 1 .. GroupCount(units), p \in Orders'
    <3>1. CASE p \in Orders
      BY <1>10, <3>1 DEF Goes
    <3>2. CASE p = Len(U)
      BY <1>5, <2>2, <3>2
    <3> QED BY <1>8, <3>1, <3>2
  <2>7. Goes(U, Orders', RipeSince', Streaming, units, K, m, birth)
    BY <1>9, <1>10, <2>5, <2>6 DEF Goes
  <2>8. ASSUME Pictures(T, image, units, K, m, birth, cut, RipeCut)
        PROVE  Pictures(U, image, units, K, m, birth, cut, RipeCut')
    <3>1. PICK n \in m .. Len(T) :
            /\ decodeBoard(image) = T[n] /\ Before(units, K, n, birth, cut)
            /\ \A p \in RipeCut : p <= n
      BY <2>8 DEF Pictures
    <3>2. n \in 1 .. Len(T) /\ n \in m .. Len(U)
      BY <1>5, <2>3
    <3>3. U[n] = T[n]
      BY <1>5, <3>2 DEF Begins
    <3> QED BY <1>9, <3>1, <3>2, <3>3 DEF Pictures
  <2> QED BY <2>1, <2>7, <2>8
<1>11. ASSUME writer' # "rewrite" PROVE LogTold'
  <2>1. PICK K, m, birth : K <= GroupCount(log) /\ LogTells(K, m, birth)
    BY <1>1, <1>11 DEF Story, LogTold
  <2>2. /\ Tale(T, Held, Since, fired, Stream, K, m, birth)
        /\ Goes(T, Orders, RipeSince, Streaming, Stream, K, m, birth)
    BY <1>3, <2>1 DEF LogTells
  <2>3. /\ Tale(U, Held, Since, fired, Stream, K, m, birth) /\ U[m] = T[m]
        /\ Goes(U, Orders', RipeSince', Streaming, Stream, K, m, birth)
        /\ Pictures(T, image, Stream, K, m, birth, cut, RipeCut) =>
             Pictures(U, image, Stream, K, m, birth, cut, RipeCut')
    BY <1>10, <2>2
  <2>4. LogTells(K, m, birth)'
    BY <1>1, <1>2, <1>3, <1>4, <2>1, <2>3 DEF LogTells
  <2> QED BY <1>1, <2>1, <2>4 DEF LogTold
<1>12. ASSUME writer' \in {"truncate", "rewrite"} PROVE KeptTold'
  <2>1. PICK m, birth : KeptTells(m, birth)
    BY <1>1, <1>12 DEF Story, KeptTold
  <2>2. /\ Tale(T, Held, Since, fired, kept, 0, m, birth)
        /\ Goes(T, Orders, RipeSince, Streaming, kept, 0, m, birth)
    BY <1>3, <2>1 DEF KeptTells
  <2>3. /\ Tale(U, Held, Since, fired, kept, 0, m, birth) /\ U[m] = T[m]
        /\ Goes(U, Orders', RipeSince', Streaming, kept, 0, m, birth)
    BY <1>10, <2>2
  <2>4. KeptTells(m, birth)'
    BY <1>1, <1>2, <1>3, <1>4, <2>1, <2>3 DEF KeptTells
  <2> QED BY <2>4 DEF KeptTold
<1> QED BY <1>11, <1>12 DEF Story

(* A handler reads the time: unless it is that of a snapshot that lacks its  *)
(* placement, what a snapshot would skip is in the snapshot.                 *)
LEMMA StoryStamp ==
  ASSUME Typed, Stages, Present, Trailing, Story, NEW h \in Handlers, Stamp(h)
  PROVE  Story'
<1> SUFFICES ASSUME mishaps' = {} PROVE Story'
  BY DEF Story
<1>1. /\ UNCHANGED <<writer, image, cut, fired, clock, files, meta, kept, secured, appended, phase,
                     log, buffer, broken, trail, order, board>>
      /\ mishaps = {} /\ pc[h] = "stamp"
  BY DEF Stamp, taking, disk
<1>2. UNCHANGED <<Held, Since, Stream, Streaming>>
  BY <1>1, HeldSame DEF Stream, Streaming
<1>3. /\ rec'[h].ts = clock /\ rec'[h].at = rec[h].at /\ pc'[h] = "append" /\ rec[h] \in Record
      /\ \A i \in Handlers : i # h => pc'[i] = pc[i] /\ rec'[i] = rec[i]
  <2>1. rec[h] \in Record
    BY <1>1 DEF Typed, Busy
  <2>2. [rec[h] EXCEPT !.ts = clock].ts = clock /\ [rec[h] EXCEPT !.ts = clock].at = rec[h].at
    BY <2>1 DEF Record
  <2>3. rec' = [rec EXCEPT ![h] = [rec[h] EXCEPT !.ts = clock]]
        /\ pc' = [pc EXCEPT ![h] = "append"]
    BY DEF Stamp
  <2> QED BY <2>1, <2>2, <2>3 DEF Typed, TypeOK
<1>4. PICK o : o = order[h] /\ Born(trail, rec[h], o)
  BY <1>1 DEF Trailing
<1>5. Orders' = Orders
  <2>1. \A i \in Handlers : order'[i] = order[i] /\ (pc'[i] # "idle" <=> pc[i] # "idle")
    BY <1>1, <1>3
  <2> QED BY <2>1 DEF Orders
<1>6. /\ clock \in Nat /\ cut \in Nat /\ Since \in Int /\ Since <= clock
      /\ image # NoFile => cut <= clock
  <2>1. image # NoFile => cut = fired /\ fired <= clock
    BY DEF Stages
  <2> QED BY <2>1, TimesType, HeldFile
<1>7. rec[h].at \in Coord
  BY <1>1 DEF Present, Occupied
<1>8. ASSUME clock <= Since PROVE rec[h].at \in Occupied(decodeBoard(Held)) /\ Held # NoFile
  <2>1. Loadable /\ Since = meta.ts /\ Held = files[meta.file] /\ Held # NoFile
    BY <1>6, <1>8, HeldFile DEF Held
  <2>2. ~Misses(files[meta.file], meta.ts, h)
    BY <1>8, <2>1 DEF Stamp
  <2>3. Since = clock
    BY <1>6, <1>8
  <2> QED BY <1>7, <2>1, <2>2, <2>3 DEF Misses, Occupied
<1>9. ASSUME image # NoFile, clock <= cut PROVE rec[h].at \in Occupied(decodeBoard(image))
  <2>1. ~Misses(image, cut, h)
    BY <1>9 DEF Stamp
  <2>2. cut = clock
    BY <1>6, <1>9
  <2> QED BY <1>7, <1>9, <2>1, <2>2 DEF Misses, Occupied
<1>10. /\ RipeSince' \subseteq RipeSince \cup (IF clock <= Since THEN {o} ELSE {})
       /\ RipeCut' \subseteq RipeCut \cup (IF clock <= cut THEN {o} ELSE {})
  <2>1. \A i \in Handlers : i # h /\ pc'[i] = "append" => pc[i] = "append" /\ rec'[i] = rec[i]
    BY <1>3
  <2>2. RipeSince' \subseteq RipeSince \cup (IF clock <= Since THEN {o} ELSE {})
    BY <1>1, <1>2, <1>3, <1>4, <2>1 DEF RipeSince
  <2>3. RipeCut' \subseteq RipeCut \cup (IF clock <= cut THEN {o} ELSE {})
    BY <1>1, <1>3, <1>4, <2>1 DEF RipeCut
  <2> QED BY <2>2, <2>3
<1>11. ASSUME NEW n \in 1 .. Len(trail), rec[h].at \in Occupied(trail[n]) PROVE o <= n
  BY <1>3, <1>4, <1>11, BornOnce DEF Trailing
<1>12. ASSUME NEW units \in Seq(Unit), NEW K, NEW m, NEW birth,
              Tale(trail, Held, Since, fired, units, K, m, birth),
              Goes(trail, Orders, RipeSince, Streaming, units, K, m, birth)
       PROVE  /\ Goes(trail, Orders, RipeSince', Streaming, units, K, m, birth)
              /\ image # NoFile /\ Pictures(trail, image, units, K, m, birth, cut, RipeCut) =>
                   Pictures(trail, image, units, K, m, birth, cut, RipeCut')
  <2>1. K \in 0 .. GroupCount(units) /\ m \in 1 .. Len(trail) /\ Len(trail) \in Nat
    BY <1>12 DEF Tale, Trailing, Growing
  <2>2. K \in Nat
    BY <2>1, GroupCountType
  <2>3. ASSUME clock <= Since PROVE o <= m
    <3>1. PICK c \in Boards : c = decodeBoard(Held)
      BY DecodeType
    <3>2. Occupied(c) \subseteq Occupied(ReplayTo(c, Since, units, K))
      BY <2>2, ReplayKeeps
    <3>3. ReplayTo(c, Since, units, K) = trail[m]
      BY <1>8, <1>12, <2>3, <3>1 DEF Tale
    <3> QED BY <1>8, <1>11, <2>1, <2>3, <3>1, <3>2, <3>3
  <2>4. \A p \in RipeSince' : p <= m
    BY <1>10, <1>12, <2>3 DEF Goes
  <2>5. Goes(trail, Orders, RipeSince', Streaming, units, K, m, birth)
    BY <1>12, <2>4 DEF Goes
  <2>6. ASSUME image # NoFile, Pictures(trail, image, units, K, m, birth, cut, RipeCut)
        PROVE  Pictures(trail, image, units, K, m, birth, cut, RipeCut')
    <3>1. PICK n \in m .. Len(trail) :
            /\ decodeBoard(image) = trail[n] /\ Before(units, K, n, birth, cut)
            /\ \A p \in RipeCut : p <= n
      BY <2>6 DEF Pictures
    <3>2. n \in 1 .. Len(trail)
      BY <2>1
    <3>3. clock <= cut => o <= n
      BY <1>9, <1>11, <2>6, <3>1, <3>2
    <3>4. \A p \in RipeCut' : p <= n
      BY <1>10, <3>1, <3>3
    <3> QED BY <3>1, <3>4 DEF Pictures
  <2> QED BY <2>5, <2>6
<1>13. Stream \in Seq(Unit) /\ kept \in Seq(Unit)
  BY StreamType
<1>14. ASSUME writer' # "rewrite" PROVE LogTold'
  <2>1. PICK K, m, birth : K <= GroupCount(log) /\ LogTells(K, m, birth)
    BY <1>1, <1>14 DEF Story, LogTold
  <2>2. /\ Tale(trail, Held, Since, fired, Stream, K, m, birth)
        /\ Goes(trail, Orders, RipeSince, Streaming, Stream, K, m, birth)
    BY <2>1 DEF LogTells
  <2>3. Goes(trail, Orders, RipeSince', Streaming, Stream, K, m, birth)
    BY <1>12, <1>13, <2>2
  <2>4. image # NoFile /\ Pictures(trail, image, Stream, K, m, birth, cut, RipeCut) =>
                   Pictures(trail, image, Stream, K, m, birth, cut, RipeCut')
    BY <1>12, <1>13, <2>2
  <2>5. writer \in {"data", "meta"} => image # NoFile
    BY DEF Stages
  <2>6. writer \in {"data", "meta"} => Pictures(trail, image, Stream, K, m, birth, cut, RipeCut')
    BY <2>1, <2>4, <2>5 DEF LogTells
  <2>7. LogTells(K, m, birth)'
    BY <1>1, <1>2, <1>5, <2>1, <2>2, <2>3, <2>6 DEF LogTells
  <2> QED BY <1>1, <2>1, <2>7 DEF LogTold
<1>15. ASSUME writer' \in {"truncate", "rewrite"} PROVE KeptTold'
  <2>1. PICK m, birth : KeptTells(m, birth)
    BY <1>1, <1>15 DEF Story, KeptTold
  <2>2. /\ Tale(trail, Held, Since, fired, kept, 0, m, birth)
        /\ Goes(trail, Orders, RipeSince, Streaming, kept, 0, m, birth)
    BY <2>1 DEF KeptTells
  <2>3. Goes(trail, Orders, RipeSince', Streaming, kept, 0, m, birth)
    BY <1>12, <1>13, <2>2
  <2>4. KeptTells(m, birth)'
    BY <1>1, <1>2, <1>5, <2>1, <2>2, <2>3 DEF KeptTells
  <2> QED BY <2>4 DEF KeptTold
<1> QED BY <1>14, <1>15 DEF Story

-----------------------------------------------------------------------------
(* The round of a snapshot.  Its image has all the placements so far.        *)
LEMMA StoryEncode ==
  ASSUME Typed, Stages, Trailing, Story, EncodeBoard
  PROVE  Story'
<1> SUFFICES ASSUME mishaps' = {} PROVE LogTold'
  BY DEF EncodeBoard, WriterAt, Story
<1>1. /\ UNCHANGED <<log, buffer, broken, kept, secured, appended, files, meta, cut, pc, rec, order,
                     mishaps, trail, fired, phase>>
      /\ writer = "image" /\ writer' = "data" /\ image' = encodeBoard(board)
  BY DEF EncodeBoard, WriterAt, memory, disk, history
<1>2. UNCHANGED <<Held, Since, Stream, Streaming, Orders, RipeSince, RipeCut>>
  <2>1. UNCHANGED <<Held, Since>>
    BY <1>1, HeldSame
  <2>2. UNCHANGED <<Stream, Streaming>>
    BY <1>1 DEF Stream, Streaming
  <2> QED BY <1>1, <2>1, <2>2 DEF Orders, RipeSince, RipeCut
<1>3. PICK K, m, birth : K <= GroupCount(log) /\ LogTells(K, m, birth)
  BY <1>1 DEF Story, LogTold
<1>4. PICK n : n = Len(trail) /\ n \in Nat \ {0} /\ board = trail[n] /\ board \in Boards
  <2>1. Len(trail) \in Nat \ {0} /\ board = trail[Len(trail)]
    BY DEF Trailing, Growing
  <2>2. board \in Boards
    BY DEF Typed, TypeOK, Boards
  <2> QED BY <2>1, <2>2
<1>5. decodeBoard(image') = trail[n]
  BY <1>1, <1>4, DecodeEncode
<1>6. Before(Stream, K, n, birth, cut)
  BY <1>3, <1>4 DEF Before, LogTells, Tale, Orderly, Born
<1>7. \A p \in RipeCut : p <= n
  BY <1>4 DEF RipeCut, Trailing, Born
<1>8. n \in m .. Len(trail)
  BY <1>3, <1>4 DEF LogTells, Tale
<1>9. Pictures(trail, image', Stream, K, m, birth, cut, RipeCut)
  BY <1>5, <1>6, <1>7, <1>8 DEF Pictures
<1>10. LogTells(K, m, birth)'
  BY <1>1, <1>2, <1>3, <1>9 DEF LogTells
<1> QED BY <1>1, <1>3, <1>10 DEF LogTold

(* Then meta.json names it: the tale begins with its board.                 *)
LEMMA StoryMeta ==
  ASSUME Typed, Stages, Trailing, Story, WriteMeta
  PROVE  Story'
<1> SUFFICES ASSUME mishaps' = {} PROVE LogTold'
  BY DEF WriteMeta, WriterAt, Story
<1>1. /\ UNCHANGED <<log, buffer, broken, appended, cut, image, pc, rec, order, mishaps, trail, fired,
                     phase>>
      /\ writer = "meta" /\ writer' = "compact"
      /\ secured' = secured \cup Occupied(decodeBoard(image))
  BY DEF WriteMeta, WriterAt, memory
<1>2. Held' = image /\ Since' = cut /\ cut = fired /\ cut \in Int
  BY HeldMeta, TimesType
<1>3. UNCHANGED <<Stream, Streaming, Orders>> /\ RipeSince' = RipeCut
  <2>1. UNCHANGED <<Stream, Streaming>>
    BY <1>1 DEF Stream, Streaming
  <2>2. RipeSince' = RipeCut
    BY <1>1, <1>2 DEF RipeSince, RipeCut
  <2> QED BY <1>1, <2>1, <2>2 DEF Orders
<1>4. PICK K, m, birth : K <= GroupCount(log) /\ LogTells(K, m, birth)
  BY <1>1 DEF Story, LogTold
<1>5. Growing(trail) /\ Stream \in Seq(Unit)
  BY StreamType DEF Trailing
<1>6. /\ Tale(trail, Held, Since, cut, Stream, K, m, birth)
      /\ Goes(trail, Orders, RipeSince, Streaming, Stream, K, m, birth)
      /\ Pictures(trail, image, Stream, K, m, birth, cut, RipeCut)
  BY <1>1, <1>2, <1>4 DEF LogTells
<1>12. PICK T, snap, since, time, units, picture, ripe :
         /\ T = trail /\ snap = Held /\ since = Since /\ time = cut /\ units = Stream
         /\ picture = image /\ ripe = RipeCut
  OBVIOUS
<1>13. /\ Growing(T) /\ time \in Int /\ units \in Seq(Unit)
       /\ Tale(T, snap, since, time, units, K, m, birth)
       /\ Pictures(T, picture, units, K, m, birth, time, ripe)
  BY <1>2, <1>5, <1>6, <1>12
<1>14. PICK n \in m .. Len(T) : Retold(T, picture, time, units, K, m, n, birth, ripe)
  BY <1>13, TalePictured
<1>7. /\ Tale(trail, image, cut, cut, Stream, K, n, birth)
      /\ decodeBoard(image) = trail[n] /\ Occupied(trail[m]) \subseteq Occupied(trail[n])
      /\ \A waiting, few, whole : Goes(trail, waiting, few, whole, Stream, K, m, birth)
                                    => Goes(trail, waiting, RipeCut, whole, Stream, K, n, birth)
  BY <1>12, <1>14 DEF Retold
<1>11. Goes(trail, Orders, RipeCut, Streaming, Stream, K, n, birth)
  BY <1>6, <1>7
<1>8. Saves(trail[n], log, K, secured')
  BY <1>1, <1>4, <1>7 DEF LogTells, Saves
<1>9. ~broken => Saves(trail[n], Stream, K, appended)
  BY <1>4, <1>7 DEF LogTells, Saves
<1>10. LogTells(K, n, birth)'
  BY <1>1, <1>2, <1>3, <1>7, <1>8, <1>9, <1>11 DEF LogTells
<1> QED BY <1>1, <1>4, <1>10 DEF LogTold

(* Compaction keeps the tale from there on ...                              *)
LEMMA StoryCompact ==
  ASSUME Typed, Stages, Streams, Trailing, Story, Compact
  PROVE  Story'
<1> SUFFICES ASSUME mishaps' = {} PROVE LogTold' /\ KeptTold'
  BY DEF Story
<1>1. /\ UNCHANGED <<secured, appended, pc, rec, order, mishaps, files, meta, cut, image, fired, trail,
                     phase>>
      /\ writer = "compact" /\ writer' = "truncate" /\ FlushSucceeds
  BY DEF Compact, WriterAt, history
<1>2. UNCHANGED <<Held, Since, Orders, RipeSince>>
  BY <1>1, HeldSame DEF Orders, RipeSince
<1>3. log' = Stream /\ Stream' = Stream /\ ~broken /\ ~broken' /\ Streaming' = Streaming /\ Whole(Stream)
  <2>1. log' = Stream /\ Stream' = Stream /\ ~broken /\ ~broken'
    BY <1>1, FlushStream DEF FlushSucceeds
  <2>2. Whole(Stream)
    BY <1>1 DEF Streams, Sound
  <2> QED BY <1>1, <2>1, <2>2 DEF Streaming
<1>4. Held = image /\ Since = cut /\ image # NoFile /\ cut = fired /\ cut \in Int
  BY <1>1, HeldImage, TimesType
<1>5. PICK K, m, birth : K <= GroupCount(log) /\ LogTells(K, m, birth)
  BY <1>1 DEF Story, LogTold
<1>6. Growing(trail) /\ Stream \in Seq(Unit) /\ log \in Seq(Unit) /\ Begins(log, Stream)
  BY StreamType DEF Trailing
<1>7. K \in 0 .. GroupCount(Stream) /\ K \in Nat /\ K <= GroupCount(Stream)
  <2>1. K \in 0 .. GroupCount(Stream)
    BY <1>5 DEF LogTells, Tale
  <2>2. GroupCount(Stream) \in Nat
    BY <1>6, GroupCountType
  <2> QED BY <2>1, <2>2
<1>8. Saves(trail[m], Stream, K, secured) /\ Saves(trail[m], Stream, K, appended)
  BY <1>3, <1>5, <1>6, <1>7, SavesGrows DEF LogTells
<1>9. LogTells(K, m, birth)'
  BY <1>1, <1>2, <1>3, <1>5, <1>8 DEF LogTells
<1>10. LogTold'
  BY <1>3, <1>7, <1>9 DEF LogTold
<1>11. PICK bad \in Garbage : kept' = KeptOf(Groups(log'), bad)
  BY DEF Compact, KeptOf
<1>12. PICK k : k = kept' /\ k = KeptOf(Groups(Stream), bad)
  BY <1>3, <1>11
<1>13. /\ Tale(trail, image, cut, cut, Stream, K, m, birth)
       /\ Goes(trail, Orders, RipeSince, Streaming, Stream, K, m, birth)
       /\ Saves(trail[m], Stream, K, secured \cup appended)
  BY <1>4, <1>5, <1>8 DEF LogTells, Saves
<1>14. PICK birth2 :
           /\ Tale(trail, image, cut, cut, k, 0, m, birth2)
           /\ \A waiting, ripe, whole : Goes(trail, waiting, ripe, whole, Stream, K, m, birth)
                                          => Goes(trail, waiting, ripe, whole, k, 0, m, birth2)
           /\ \A cells : Saves(trail[m], Stream, K, cells) => Saves(trail[m], k, 0, cells)
  BY <1>3, <1>4, <1>6, <1>12, <1>13, TaleKept
<1>15. /\ Goes(trail, Orders, RipeSince, Streaming, k, 0, m, birth2)
       /\ Saves(trail[m], k, 0, secured \cup appended)
  BY <1>13, <1>14
<1>16. KeptTells(m, birth2)'
  BY <1>1, <1>2, <1>3, <1>4, <1>12, <1>14, <1>15 DEF KeptTells
<1> QED BY <1>10, <1>16 DEF KeptTold

(* ... while the log is empty ...                                           *)
LEMMA StoryTruncate ==
  ASSUME Typed, Stages, Story, Truncate
  PROVE  Story'
<1> SUFFICES ASSUME mishaps' = {} PROVE KeptTold'
  BY DEF Truncate, WriterAt, Story
<1>1. /\ UNCHANGED <<secured, appended, pc, rec, order, mishaps, files, meta, kept, fired, trail, phase,
                     buffer, broken>>
      /\ writer = "truncate" /\ writer' = "rewrite"
  BY DEF Truncate, WriterAt, memory, history
<1>2. UNCHANGED <<Held, Since, Orders, RipeSince, Streaming>>
  BY <1>1, HeldSame DEF Orders, RipeSince, Streaming
<1>3. PICK m, birth : KeptTells(m, birth)
  BY <1>1 DEF Story, KeptTold
<1>4. KeptTells(m, birth)'
  BY <1>1, <1>2, <1>3 DEF KeptTells
<1> QED BY <1>4 DEF KeptTold

(* ... and puts it back in its place.                                       *)
LEMMA StoryRewrite ==
  ASSUME Typed, Stages, Story, Rewrite
  PROVE  Story'
<1> SUFFICES ASSUME mishaps' = {} PROVE LogTold'
  BY DEF Rewrite, RoundEnds, WriterAt, Story
<1>1. /\ UNCHANGED <<secured, appended, pc, rec, order, files, meta, fired, trail, phase, buffer, broken>>
      /\ writer = "rewrite" /\ writer' = "wait" /\ mishaps = {} /\ log' = kept
      /\ buffer = <<>> /\ ~broken
  BY DEF Rewrite, RoundEnds, WriterAt, memory, Stages
<1>2. UNCHANGED <<Held, Since, Orders, RipeSince, Streaming>>
  BY <1>1, HeldSame DEF Orders, RipeSince, Streaming
<1>3. Stream' = kept /\ 0 <= GroupCount(kept)
  <2>1. kept \in Seq(Unit)
    BY StreamType
  <2>2. GroupCount(kept) \in Nat
    BY <2>1, GroupCountType
  <2> QED BY <1>1, <2>1, <2>2 DEF Stream
<1>4. PICK m, birth : KeptTells(m, birth)
  BY <1>1 DEF Story, KeptTold
<1>5. Saves(trail[m], kept, 0, secured) /\ Saves(trail[m], kept, 0, appended)
  BY <1>4 DEF KeptTells, Saves
<1>6. LogTells(0, m, birth)'
  BY <1>1, <1>2, <1>3, <1>4, <1>5 DEF KeptTells, LogTells
<1> QED BY <1>1, <1>3, <1>6 DEF LogTold

(* The process ends; the tale is that of the log.                           *)
LEMMA StoryStop ==
  ASSUME Typed, Stages, Trailing, Story, NEW g, Stop(g)
  PROVE  Story'
<1> SUFFICES ASSUME mishaps' = {} PROVE LogTold'
  BY DEF Stop, Story
<1>1. /\ UNCHANGED <<log, files, meta, fired, trail, secured>>
      /\ writer' = "wait" /\ mishaps = {} /\ buffer' = <<>> /\ ~broken' /\ appended' = {}
      /\ phase' = "down" /\ \A h \in Handlers : pc'[h] = "idle"
  BY DEF Stop, disk
<1>2. UNCHANGED <<Held, Since>> /\ Orders' = {} /\ RipeSince' = {} /\ Streaming' = FALSE
  BY <1>1, HeldSame DEF Orders, RipeSince, Streaming
<1>3. Growing(trail) /\ Stream \in Seq(Unit) /\ log \in Seq(Unit) /\ Begins(log, Stream)
  BY StreamType DEF Trailing
<1>4. Stream' = log
  BY <1>1, <1>3 DEF Stream
<1>5. ASSUME NEW K, NEW m, NEW birth, K <= GroupCount(log),
             Tale(trail, Held, Since, fired, log, K, m, birth), Saves(trail[m], log, K, secured)
      PROVE  LogTold'
  <2>1. Saves(trail[m], log, K, {}) /\ Goes(trail, {}, {}, FALSE, log, K, m, birth)
    BY DEF Saves, Goes
  <2>2. LogTells(K, m, birth)'
    BY <1>1, <1>2, <1>4, <1>5, <2>1 DEF LogTells
  <2> QED BY <1>1, <1>5, <2>2 DEF LogTold
<1>6. CASE writer = "rewrite"
  <2>1. kept = <<>> /\ log = <<>>
    BY <1>6 DEF Stop, Stages
  <2>2. PICK m, birth : KeptTells(m, birth)
    BY <1>1, <1>6 DEF Story, KeptTold
  <2>3. Tale(trail, Held, Since, fired, log, 0, m, birth) /\ Saves(trail[m], log, 0, secured)
    BY <2>1, <2>2 DEF KeptTells, Saves
  <2>4. 0 <= GroupCount(log)
    BY <2>1, NoneWhole
  <2> QED BY <1>5, <2>3, <2>4
<1>7. CASE writer # "rewrite"
  <2>1. PICK K, m, birth : K <= GroupCount(log) /\ LogTells(K, m, birth)
    BY <1>1, <1>7 DEF Story, LogTold
  <2>2. Tale(trail, Held, Since, fired, Stream, K, m, birth) /\ Saves(trail[m], log, K, secured)
    BY <2>1 DEF LogTells
  <2>3. Tale(trail, Held, Since, fired, log, K, m, birth)
    BY <1>3, <2>1, <2>2, TaleCut
  <2> QED BY <1>5, <2>1, <2>2, <2>3
<1> QED BY <1>6, <1>7

(* A process that starts has the board the log leads to.                    *)
LEMMA StoryRestart ==
  ASSUME Typed, Stages, Streams, Trailing', Story, Restart
  PROVE  Story'
<1> SUFFICES ASSUME mishaps' = {} PROVE LogTold'
  BY DEF Restart, Stages, Story
<1>1. /\ UNCHANGED <<log, files, meta, buffer, broken, appended>>
      /\ writer' = "wait" /\ mishaps = {} /\ buffer = <<>> /\ ~broken /\ appended = {}
      /\ trail' = <<board'>> /\ secured' = secured \cap Occupied(board') /\ fired' = clock + 1
      /\ \A h \in Handlers : pc'[h] = "idle"
  BY DEF Restart, Stages, memory, disk
<1>2. UNCHANGED <<Held, Since, Loadable>> /\ Orders' = {} /\ RipeSince' = {}
  BY <1>1, HeldSame DEF Orders, RipeSince
<1>3. log \in Seq(Unit) /\ Stream = log /\ Stream' = log
  <2>1. log \in Seq(Unit)
    BY StreamType
  <2> QED BY <1>1, <2>1 DEF Stream
<1>4. Whole(log) /\ clock \in Nat /\ \A i \in 1 .. GroupCount(log) : RecordAt(log, i).ts <= clock
  BY <1>1, <1>3, TimesType DEF Streams, Sound
<1>5. PICK K \in Nat : K = GroupCount(log)
  BY <1>3, GroupCountType
<1>6. \A i \in 1 .. K : RecordAt(log, i).ts < fired'
  <2>1. \A i \in 1 .. K : RecordAt(log, i).ts \in Nat
    BY <1>3, <1>5, RecordTimes
  <2> QED BY <1>1, <1>4, <1>5, <2>1
<1>7. PICK T : T = trail' /\ Growing(T) /\ Len(T) = 1 /\ T[1] = board'
  BY <1>1 DEF Trailing
<1>8. Held # NoFile => ReplayTo(decodeBoard(Held), Since, log, K) = T[1]
  <2>1. PICK bad \in Garbage : board' = Restored(bad)
    BY DEF Restart
  <2>2. Held # NoFile => Loadable
    BY DEF Held
  <2> QED BY <1>3, <1>4, <1>5, <1>7, <2>1, <2>2, RestoredReplay
<1>9. \A birth : /\ Tale(T, Held, Since, fired', log, K, 1, birth)
                 /\ \A whole : Goes(T, {}, {}, whole, log, K, 1, birth)
  BY <1>3, <1>5, <1>6, <1>7, <1>8, TaleStarts
<1>10. PICK birth : birth = <<>>
  OBVIOUS
<1>11. Saves(T[1], log, K, secured') /\ Saves(T[1], log, K, appended')
  BY <1>1, <1>7 DEF Saves
<1>12. LogTells(K, 1, birth)'
  BY <1>1, <1>2, <1>3, <1>7, <1>9, <1>11 DEF LogTells
<1>13. K <= GroupCount(log')
  BY <1>1, <1>5
<1> QED BY <1>12, <1>13 DEF LogTold

(* Every step keeps the tale.                                               *)
LEMMA StoryStep ==
  Typed /\ Stages /\ Streams /\ Present /\ Trailing /\ Trailing' /\ Story /\ [Next]_vars => Story'
<1> SUFFICES ASSUME Typed, Stages, Streams, Present, Trailing, Trailing', Story, [Next]_vars
             PROVE  Story'
  OBVIOUS
<1>0. fired \in Nat /\ clock \in Nat /\ fired \in Int /\ fired <= fired
  BY TimesType
<1>1. ASSUME UNCHANGED <<Held, Since, log, buffer, broken, kept, secured, appended, trail, pc, rec,
                         order, mishaps>>,
             phase' = phase \/ (broken /\ broken'),
             fired' \in Int, fired <= fired',
             writer' # "rewrite" => writer # "rewrite",
             writer' \in {"truncate", "rewrite"} => writer \in {"truncate", "rewrite"},
             writer' \in {"data", "meta"} => writer \in {"data", "meta"} /\ UNCHANGED <<image, cut>>
      PROVE  Story'
  <2>1. UNCHANGED <<Stream, Streaming>>
    BY <1>1 DEF Stream, Streaming
  <2>2. UNCHANGED <<Orders, RipeSince>>
    BY <1>1 DEF Orders, RipeSince
  <2>3. UNCHANGED cut => UNCHANGED RipeCut
    BY <1>1 DEF RipeCut
  <2> QED BY <1>1, <2>1, <2>2, <2>3, StorySame
<1>2. ASSUME FlushSucceeds \/ FlushFails,
             UNCHANGED <<files, meta, appended, trail, fired, pc, rec, order, mishaps>>,
             writer \notin {"truncate", "rewrite"}, writer' \notin {"truncate", "rewrite"},
             phase' # "down",
             secured' = secured \/ (FlushSucceeds /\ secured' = secured \cup appended),
             writer' \in {"data", "meta"} => writer \in {"data", "meta"} /\ UNCHANGED <<image, cut>>
      PROVE  Story'
  <2>1. UNCHANGED <<Held, Since>> /\ phase # "down"
    BY <1>2, HeldSame DEF FlushSucceeds, FlushFails
  <2>2. UNCHANGED <<Orders, RipeSince>>
    BY <1>2, <2>1 DEF Orders, RipeSince
  <2>3. UNCHANGED cut => UNCHANGED RipeCut
    BY <1>2 DEF RipeCut
  <2> QED BY <1>2, <2>1, <2>2, <2>3, StoryFlush
<1>3. CASE Tick
  BY <1>0, <1>1, <1>3, HeldSame DEF Tick, memory, taking, disk, history
<1>4. ASSUME NEW h \in Handlers, Commit(h) PROVE Story'
  BY <1>4, StoryCommit
<1>5. ASSUME NEW h \in Handlers, Stamp(h) PROVE Story'
  BY <1>5, StoryStamp
<1>6. ASSUME NEW h \in Handlers, AppendRecord(h) PROVE Story'
  BY <1>6, StoryAppend
<1>7. CASE SyncWAL
  <2>1. /\ UNCHANGED <<files, meta, appended, trail, fired, pc, rec, order, mishaps, writer, image, cut,
                       phase>>
        /\ writer \notin {"truncate", "rewrite"}
    BY <1>7 DEF SyncWAL, taking, Unlocked
  <2>2. /\ FlushSucceeds \/ FlushFails
        /\ secured' = secured \/ (FlushSucceeds /\ secured' = secured \cup appended)
    BY <1>7 DEF SyncWAL
  <2>3. phase' # "down"
    BY <2>1, <2>2 DEF FlushSucceeds, FlushFails
  <2> QED BY <1>2, <2>1, <2>2, <2>3
<1>8. CASE CloseWAL
  <2>1. /\ UNCHANGED <<files, meta, appended, trail, fired, pc, rec, order, mishaps, writer, image, cut,
                       kept>>
        /\ writer \notin {"truncate", "rewrite"} /\ phase' = "closed"
    BY <1>8 DEF CloseWAL, taking, Unlocked
  <2>2. CASE /\ FlushSucceeds \/ FlushFails
             /\ secured' = secured \/ (FlushSucceeds /\ secured' = secured \cup appended)
    BY <1>2, <2>1, <2>2
  <2>3. CASE broken /\ UNCHANGED <<log, buffer, broken, secured>>
    BY <1>0, <1>1, <2>1, <2>3, HeldSame
  <2> QED BY <1>8, <2>2, <2>3 DEF CloseWAL
<1>9. CASE TakeTime
  <2>1. fired' = clock /\ fired <= clock /\ writer' = "image" /\ writer = "wait"
    BY <1>9 DEF TakeTime, WriterAt, Stages
  <2>2. UNCHANGED <<files, meta, log, buffer, broken, kept, secured, appended, trail, pc, rec, order,
                    mishaps, phase>>
    BY <1>9 DEF TakeTime, memory, disk, history
  <2> QED BY <1>0, <1>1, <2>1, <2>2, HeldSame
<1>10. CASE EncodeBoard
  BY <1>10, StoryEncode
<1>11. CASE WriteData
  <2>1. UNCHANGED <<Held, Since>>
    BY <1>11, HeldData
  <2>2. /\ UNCHANGED <<log, buffer, broken, kept, secured, appended, trail, pc, rec, order, mishaps,
                       phase, fired, image, cut>>
        /\ writer = "data" /\ writer' = "meta"
    BY <1>11 DEF WriteData, WriterAt, memory, history
  <2> QED BY <1>0, <1>1, <2>1, <2>2
<1>12. CASE WriteMeta
  BY <1>12, StoryMeta
<1>13. CASE WriteSnapshotFails
  <2>1. /\ UNCHANGED <<files, meta, log, buffer, broken, kept, secured, appended, trail, pc, rec, order,
                       mishaps, phase, fired>>
        /\ writer \in {"data", "meta"} /\ writer' = "wait"
    BY <1>13 DEF WriteSnapshotFails, RoundEnds, WriterAt, Stages, memory, disk, history
  <2> QED BY <1>0, <1>1, <2>1, HeldSame
<1>14. CASE CompactFails
  <2>1. /\ UNCHANGED <<files, meta, kept, secured, appended, trail, pc, rec, order, mishaps, phase, fired>>
        /\ writer = "compact" /\ writer' = "wait"
    BY <1>14 DEF CompactFails, RoundEnds, WriterAt, Stages, history
  <2>2. CASE FlushFails
    <3>1. phase' # "down"
      BY <2>1, <2>2 DEF FlushFails
    <3> QED BY <1>2, <2>1, <2>2, <3>1
  <2>3. CASE UNCHANGED <<log, buffer, broken>>
    BY <1>0, <1>1, <2>1, <2>3, HeldSame
  <2> QED BY <1>14, <2>2, <2>3 DEF CompactFails
<1>15. CASE Compact
  BY <1>15, StoryCompact
<1>16. CASE Truncate
  BY <1>16, StoryTruncate
<1>17. CASE Rewrite
  BY <1>17, StoryRewrite
<1>18. CASE Exit
  BY <1>18, StoryStop DEF Exit
<1>19. CASE Crash
  BY <1>19, StoryStop DEF Crash
<1>20. CASE Restart
  BY <1>20, StoryRestart
<1>21. CASE UNCHANGED vars
  BY <1>0, <1>1, <1>21, HeldSame DEF vars, memory, taking, disk, history
<1> QED BY <1>3, <1>4, <1>5, <1>6, <1>7, <1>8, <1>9, <1>10, <1>11, <1>12, <1>13, <1>14, <1>15,
           <1>16, <1>17, <1>18, <1>19, <1>20, <1>21 DEF Next

(* The tale is told at all times.                                           *)
LEMMA StoryAlways == Spec => [](Sure /\ Trailing /\ Story)
<1>1. Init => Trailing /\ Story
  BY TrailingInit, StoryInit
<1>2. Sure /\ Trailing /\ Story /\ [Next]_vars => (Trailing /\ Story)'
  BY TrailingStep, StoryStep DEF Sure
<1> QED BY <1>1, <1>2, SureAlways, PTL DEF Spec

-----------------------------------------------------------------------------
(* DurableBoard has the same rule.                                          *)
LEMMA SameGame ==
  ASSUME NEW b, NEW at, NEW team
  PROVE  /\ DB!Flips(b, at, team) = Flips(b, at, team) /\ DB!Placed(b, at, team) = Placed(b, at, team)
         /\ DB!Coord = Coord /\ DB!Team = Team /\ DB!Empty = Empty
<1>1. DB!Flips(b, at, team) = Flips(b, at, team)
  BY DEF DB!Flips, DB!RayFlips, DB!Brackets, DB!Along, DB!Directions, DB!InBounds, DB!Axis,
         DB!Opponent, DB!Empty, DB!Black, DB!White,
         Flips, RayFlips, Brackets, Along, Directions, InBounds, Axis, Opponent, Empty, Black, White
<1>2. DB!Coord = Coord /\ DB!Team = Team /\ DB!Empty = Empty
  BY DEF DB!Coord, DB!Axis, DB!Team, DB!Black, DB!White, DB!Empty, Coord, Axis, Team, Black, White, Empty
<1> QED BY <1>1, <1>2 DEF DB!Placed, Placed

(* A placement is one of DurableBoard.                                      *)
LEMMA CommitPlaces ==
  ASSUME Trailing, NEW h \in Handlers, Commit(h)
  PROVE  DB!Place
<1>1. PICK q \in Targets : /\ Flips(board, q, TeamOf[h]) # {}
                           /\ board' = Placed(board, q, TeamOf[h])
  BY DEF Commit
<1>2. q \in Coord /\ TeamOf[h] \in Team
  BY PersistenceAssumption
<1>3. trail' = Append(trail, board') /\ secured' = secured
  BY DEF Commit
<1>4. DB!Last(trail) = board
  BY DEF DB!Last, Trailing
<1>5. /\ DB!Flips(board, q, TeamOf[h]) # {} /\ board' = DB!Placed(board, q, TeamOf[h])
      /\ q \in DB!Coord /\ TeamOf[h] \in DB!Team
  BY <1>1, <1>2, SameGame
<1> QED BY <1>3, <1>4, <1>5 DEF DB!Place

(* A process that starts again has a board of the last one, with what was    *)
(* secured.                                                                 *)
LEMMA RestartRestores ==
  ASSUME Typed, Stages, Streams, Trailing, Story, Handled, Restart
  PROVE  DB!Restart
<1>1. /\ mishaps = {} /\ meta # NoMeta /\ phase = "down"
      /\ trail' = <<board'>> /\ secured' = secured \cap Occupied(board')
  BY DEF Handled, Restart
<1>2. writer = "wait" /\ buffer = <<>> /\ ~broken
  BY <1>1 DEF Stages
<1>3. log \in Seq(Unit) /\ Stream = log
  BY <1>2, StreamType DEF Stream
<1>4. Whole(log)
  BY <1>1, <1>3 DEF Streams, Sound
<1>5. Loadable /\ Held # NoFile /\ Since \in Int
  BY <1>1, HeldFile
<1>6. PICK bad \in Garbage : board' = Restored(bad)
  BY DEF Restart
<1>7. board' = ReplayTo(decodeBoard(Held), Since, log, GroupCount(log))
  BY <1>3, <1>4, <1>5, <1>6, RestoredReplay
<1>8. PICK K, m, birth : LogTells(K, m, birth)
  BY <1>1, <1>2 DEF Story, LogTold
<1>9. Tale(trail, Held, Since, fired, log, K, m, birth) /\ Saves(trail[m], log, K, secured)
  BY <1>3, <1>8 DEF LogTells
<1>10. Growing(trail) /\ trail \in Seq(Boards)
  BY DEF Trailing, Growing
<1>11. PICK n \in 1 .. Len(trail) :
           /\ ReplayTo(decodeBoard(Held), Since, log, GroupCount(log)) = trail[n]
           /\ secured \subseteq Occupied(trail[n])
  BY <1>3, <1>5, <1>9, <1>10, TaleReplayed
<1>12. secured' = secured /\ trail' = <<trail[n]>> /\ n \in DOMAIN trail
  BY <1>1, <1>7, <1>10, <1>11
<1>13. DB!Has(trail[n], secured)
  BY <1>11, SameGame DEF DB!Has, Occupied
<1> QED BY <1>12, <1>13 DEF DB!Restart

(* Every other step secures placements of the board, or none.               *)
LEMMA OthersSecure ==
  ASSUME Trailing, Trailing', Present', UNCHANGED trail, secured \subseteq secured'
  PROVE  DB!Secure
<1>1. DB!Last(trail) = board'
  BY DEF DB!Last, Trailing
<1>2. DB!Has(board', secured')
  BY SameGame DEF DB!Has, Present, Occupied
<1> QED BY <1>1, <1>2 DEF DB!Secure

(* Which steps these are.                                                   *)
LEMMA ThreeSteps ==
  Typed /\ [Next]_vars => \/ \E h \in Handlers : Commit(h)
                          \/ Restart
                          \/ UNCHANGED trail /\ secured \subseteq secured'
BY DEF Next, vars, Tick, Stamp, AppendRecord, SyncWAL, CloseWAL, TakeTime, EncodeBoard, WriteData,
       WriteMeta, WriteSnapshotFails, CompactFails, Compact, Truncate, Rewrite, Exit, Crash, Stop,
       memory, disk, taking, history

(* Across restarts the server keeps the promise of DurableBoard, if there is *)
(* a snapshot and none of the cases took place that the restore does not     *)
(* handle: the board is one the game was in, with everything that was        *)
(* synced.                                                                  *)
THEOREM BoardIsDurable == Spec => Durable
<1>1. Init => DB!Init
  BY DEF Init, DB!Init
<1>2. /\ Sure /\ Trailing /\ Story /\ (Sure /\ Trailing /\ Story)' /\ [Next]_vars
      => [Handled => DB!Next]_<<trail, secured>>
  <2> SUFFICES ASSUME Sure, Trailing, Story, Sure', Trailing', Story', [Next]_vars, Handled
               PROVE  DB!Next
    OBVIOUS
  <2>1. Typed /\ Stages /\ Streams /\ Present'
    BY DEF Sure
  <2>2. CASE \E h \in Handlers : Commit(h)
    BY <2>2, CommitPlaces DEF DB!Next
  <2>3. CASE Restart
    BY <2>1, <2>3, RestartRestores DEF DB!Next
  <2>4. CASE UNCHANGED trail /\ secured \subseteq secured'
    BY <2>1, <2>4, OthersSecure DEF DB!Next
  <2> QED BY <2>1, <2>2, <2>3, <2>4, ThreeSteps
<1> QED BY <1>1, <1>2, StoryAlways, PTL DEF Spec, Durable
=============================================================================
