----------------------------- MODULE StreamProofs ------------------------------
(***************************************************************************)
(* What keeps coming to a session: the strokes of requests, of which none  *)
(* stays down, and the prompts, each of which gets its row in the audit.   *)
(* One section a module, each with its inductive invariant.                *)
(***************************************************************************)
EXTENDS Release, PromptPass, NaturalsInduction, WellFoundedInduction,
        FiniteSetTheorems, FunctionTheorems, SequenceTheorems, TLAPS

-----------------------------------------------------------------------------
(* Counting up.                                                            *)

LEMMA LeastOf ==
  ASSUME NEW S \in SUBSET Nat, S # {}
  PROVE  \E x \in S : \A y \in S : x <= y
<1>1. PICK R : R = OpToRel(<, Nat)
  OBVIOUS
<1>2. IsWellFoundedOn(R, Nat)
  BY <1>1, NatLessThanWellFounded
<1>3. PICK x \in S : \A y \in S : ~(<< y, x >> \in R)
  BY <1>2, WFMin
<1>4. ASSUME NEW y \in S PROVE x <= y
  <2>1. ~(<< y, x >> \in R)
    BY <1>3
  <2>2. y \in Nat /\ x \in Nat
    OBVIOUS
  <2>3. ~(y < x)
    BY <1>1, <2>1, <2>2 DEF OpToRel
  <2> QED
    BY <2>2, <2>3
<1> QED
  BY <1>4

\* A set of steps that has the first and with every step the next has them all.
LEMMA CountUp ==
  ASSUME NEW n \in Nat, NEW P,
         0 \in P, \A i \in 1..n : i - 1 \in P => i \in P
  PROVE  \A i \in 0..n : i \in P
<1> SUFFICES ASSUME (0..n) \ P # {} PROVE FALSE
  OBVIOUS
<1>1. (0..n) \ P \in SUBSET Nat
  OBVIOUS
<1>2. PICK x \in (0..n) \ P : \A y \in (0..n) \ P : x <= y
  BY <1>1, LeastOf
<1>3. x \in 1..n /\ x - 1 \in 0..n
  BY <1>2
<1>4. x - 1 \in P
  BY <1>2, <1>3
<1> QED
  BY <1>2, <1>3, <1>4

\* A table that is filled step by step exists.
LEMMA TableExists ==
  ASSUME NEW S, NEW base \in S, NEW n \in Nat, NEW step \in [1..n -> [S -> S]]
  PROVE  \E f \in [0..n -> S] : f[0] = base /\ \A i \in 1..n : f[i] = step[i][f[i - 1]]
<1> DEFINE Fills(f, k) == f[0] = base /\ \A i \in 1..k : f[i] = step[i][f[i - 1]]
           P == {k \in 0..n : \E f \in [0..k -> S] : Fills(f, k)}
<1>1. 0 \in P
  <2>1. PICK f : f = [i \in 0..0 |-> base]
    OBVIOUS
  <2>2. f \in [0..0 -> S] /\ Fills(f, 0)
    BY <2>1
  <2>3. \E g \in [0..0 -> S] : Fills(g, 0)
    BY <2>2
  <2>4. 0 \in 0..n
    OBVIOUS
  <2> QED
    BY <2>3, <2>4
<1>2. ASSUME NEW k \in 1..n, k - 1 \in P PROVE k \in P
  <2>1. PICK f \in [0..(k - 1) -> S] : Fills(f, k - 1)
    BY <1>2
  <2>2. PICK v : v = step[k][f[k - 1]]
    OBVIOUS
  <2>3. v \in S
    <3>1. step[k] \in [S -> S] /\ f[k - 1] \in S
      OBVIOUS
    <3> QED
      BY <2>2, <3>1
  <2>4. PICK g : g = [i \in 0..k |-> IF i = k THEN v ELSE f[i]]
    OBVIOUS
  <2>5. g \in [0..k -> S]
    BY <2>3, <2>4
  <2>6. g[0] = base
    BY <2>1, <2>4
  <2>7. ASSUME NEW i \in 1..k PROVE g[i] = step[i][g[i - 1]]
    <3>1. g[i - 1] = f[i - 1]
      BY <2>4
    <3>2. CASE i = k
      BY <2>2, <2>4, <3>1, <3>2
    <3>3. CASE i # k
      <4>1. i \in 1..(k - 1)
        BY <3>3
      <4>2. f[i] = step[i][f[i - 1]]
        BY <2>1, <4>1
      <4> QED
        BY <2>4, <3>1, <3>3, <4>2
    <3> QED
      BY <3>2, <3>3
  <2> QED
    BY <2>5, <2>6, <2>7
<1>3. n \in P
  <2> HIDE DEF P
  <2>1. \A i \in 1..n : i - 1 \in P => i \in P
    BY <1>2
  <2>2. \A i \in 0..n : i \in P
    BY <1>1, <2>1, CountUp
  <2> QED
    BY <2>2
<1> QED
  BY <1>3

HasTable(S, base, n, step) ==
  \E f \in [0..n -> S] : f[0] = base /\ \A i \in 1..n : f[i] = step[i][f[i - 1]]

LEMMA TableIsThere ==
  \A S, base, n, step :
    base \in S /\ n \in Nat /\ step \in [1..n -> [S -> S]] => HasTable(S, base, n, step)
<1> SUFFICES ASSUME NEW S, NEW base \in S, NEW n \in Nat, NEW step \in [1..n -> [S -> S]]
             PROVE  HasTable(S, base, n, step)
  OBVIOUS
<1> QED
  BY TableExists DEF HasTable

LEMMA LargestOf ==
  ASSUME NEW S \in SUBSET Nat, IsFiniteSet(S), S # {}
  PROVE  \E x \in S : \A y \in S : y <= x
<1> PICK n : n = Cardinality(S)
  OBVIOUS
<1> PICK P : P = {i \in 0..n : \A T \in SUBSET S : Cardinality(T) = i /\ T # {} =>
                                  \E x \in T : \A y \in T : y <= x}
  OBVIOUS
<1>1. n \in Nat /\ \A T \in SUBSET S : IsFiniteSet(T) /\ Cardinality(T) \in Nat
  BY FS_CardinalityType, FS_Subset
<1>2. 0 \in P
  <2>1. \A T \in SUBSET S : Cardinality(T) = 0 => T = {}
    BY <1>1, FS_EmptySet
  <2>2. 0 \in 0..n
    BY <1>1
  <2> QED
    BY <2>1, <2>2
<1>3. ASSUME NEW i \in 1..n, i - 1 \in P PROVE i \in P
  <2> SUFFICES ASSUME NEW T \in SUBSET S, Cardinality(T) = i, T # {}
               PROVE  \E x \in T : \A y \in T : y <= x
    OBVIOUS
  <2>1. PICK t \in T : TRUE
    OBVIOUS
  <2>2. Cardinality(T \ {t}) = i - 1 /\ T \ {t} \in SUBSET S
    BY <1>1, FS_RemoveElement
  <2>3. CASE T \ {t} = {}
    <3>1. \A y \in T : y <= t
      BY <2>3
    <3> QED
      BY <3>1
  <2>4. CASE T \ {t} # {}
    <3>1. PICK x \in T \ {t} : \A y \in T \ {t} : y <= x
      BY <1>3, <2>2, <2>4
    <3>2. x \in Nat /\ t \in Nat /\ T \subseteq Nat
      OBVIOUS
    <3>3. CASE t <= x
      BY <3>1, <3>3
    <3>4. CASE x < t
      <4>1. \A y \in T : y <= t
        BY <3>1, <3>2, <3>4
      <4> QED
        BY <4>1
    <3> QED
      BY <3>2, <3>3, <3>4
  <2> QED
    BY <2>3, <2>4
<1>4. n \in P
  <2>1. \A i \in 1..n : i - 1 \in P => i \in P
    BY <1>3
  <2>2. n \in 0..n
    BY <1>1
  <2>3. \A i \in 0..n : i \in P
    BY <1>1, <1>2, <2>1, CountUp
  <2> QED
    BY <2>2, <2>3
<1> QED
  BY <1>4

-----------------------------------------------------------------------------
(* Sequences laid end to end.                                               *)

IsLaid(F, S, seqs) ==
  /\ F \in [0..Len(seqs) -> Seq(S)] /\ F[0] = << >>
  /\ \A i \in 1..Len(seqs) : F[i] = F[i - 1] \o seqs[i]

LEMMA LaidExists ==
  ASSUME NEW S, NEW seqs \in Seq(Seq(S))
  PROVE  \E F : IsLaid(F, S, seqs)
<1>1. PICK n, W, base : n = Len(seqs) /\ W = Seq(S) /\ base = << >>
  OBVIOUS
<1>2. n \in Nat /\ base \in W /\ \A i \in 1..n : seqs[i] \in W
  BY <1>1
<1>3. PICK step : step = [i \in 1..n |-> [s \in W |-> s \o seqs[i]]]
  OBVIOUS
<1>4. step \in [1..n -> [W -> W]]
  <2>1. \A s \in W : \A i \in 1..n : s \o seqs[i] \in W
    BY <1>1, <1>2, ConcatProperties
  <2> QED
    BY <1>3, <2>1
<1>5. PICK f \in [0..n -> W] : f[0] = base /\ \A i \in 1..n : f[i] = step[i][f[i - 1]]
  <2>1. HasTable(W, base, n, step)
    BY ONLY <1>2, <1>4, TableIsThere, Zenon
  <2> QED
    BY ONLY <2>1 DEF HasTable
<1>6. ASSUME NEW i \in 1..n PROVE f[i] = f[i - 1] \o seqs[i]
  <2>1. f[i - 1] \in W
    BY <1>2, <1>5
  <2> QED
    BY <1>3, <1>5, <2>1
<1> QED
  BY <1>1, <1>5, <1>6 DEF IsLaid

LEMMA Flattened ==
  ASSUME NEW S, NEW seqs \in Seq(Seq(S)), NEW F, IsLaid(F, S, seqs)
  PROVE  FlattenSeq(seqs) = F[Len(seqs)]
<1>1. PICK n, W : n = Len(seqs) /\ W = Seq(S)
  OBVIOUS
<1>2. /\ n \in Nat /\ \A i \in 1..n : seqs[i] \in W
      /\ F \in [0..n -> W] /\ F[0] = << >> /\ \A i \in 1..n : F[i] = F[i - 1] \o seqs[i]
  <2>1. /\ F \in [0..n -> W] /\ F[0] = << >> /\ \A i \in 1..n : F[i] = F[i - 1] \o seqs[i]
    BY ONLY <1>1, IsLaid(F, S, seqs) DEF IsLaid
  <2>2. n \in Nat /\ \A i \in 1..n : seqs[i] \in W
    BY <1>1
  <2> QED
    BY <2>1, <2>2
<1>3. CASE n = 0
  <2>1. seqs = << >>
    BY <1>1, <1>3, EmptySeq
  <2>2. FlattenSeq(seqs) = seqs
    BY <1>1, <1>3 DEF FlattenSeq
  <2> QED
    BY <1>1, <1>2, <1>3, <2>1, <2>2
<1>4. CASE n # 0
  <2>1. F[1] = seqs[1]
    <3>1. 1 \in 1..n /\ 1 - 1 = 0
      BY <1>2, <1>4
    <3>2. F[1] = << >> \o seqs[1] /\ seqs[1] \in Seq(S)
      BY ONLY <1>1, <1>2, <3>1
    <3> QED
      BY <3>2, ConcatEmptySeq
  <2>2. PICK f : f = [i \in 1..n |-> F[i]]
    OBVIOUS
  <2>3. f = [i \in 1..n |-> IF i = 1 THEN seqs[i] ELSE f[i - 1] \o seqs[i]]
    <3>1. ASSUME NEW i \in 1..n
          PROVE  f[i] = (IF i = 1 THEN seqs[i] ELSE f[i - 1] \o seqs[i])
      <4>1. CASE i = 1
        BY <2>1, <2>2, <4>1
      <4>2. CASE i # 1
        <5>1. i - 1 \in 1..n
          BY <1>2, <4>2
        <5> QED
          BY <1>2, <2>2, <4>2, <5>1
      <4> QED
        BY <4>1, <4>2
    <3> QED
      BY <2>2, <3>1
  <2>4. PICK g : g = [i \in 1..n |-> IF i = 1 THEN seqs[i] ELSE g[i - 1] \o seqs[i]] /\ FlattenSeq(seqs) = g[n]
    <3>1. PICK g : g = CHOOSE h : h = [i \in 1..Len(seqs) |-> IF i = 1 THEN seqs[i] ELSE h[i - 1] \o seqs[i]]
      OBVIOUS
    <3>2. g = [i \in 1..n |-> IF i = 1 THEN seqs[i] ELSE g[i - 1] \o seqs[i]]
      BY <1>1, <2>3, <3>1
    <3>3. FlattenSeq(seqs) = g[n]
      BY <1>1, <1>4, <3>1 DEF FlattenSeq
    <3> QED
      BY <3>2, <3>3
  <2>5. PICK P : P = {i \in 0..n : i = 0 \/ g[i] = F[i]}
    OBVIOUS
  <2>6. 0 \in P
    BY <1>2, <2>5
  <2>7. ASSUME NEW i \in 1..n, i - 1 \in P PROVE i \in P
    <3>1. CASE i = 1
      <4>1. g[1] = seqs[1]
        BY <1>2, <1>4, <2>4
      <4> QED
        BY <1>2, <2>1, <2>5, <3>1, <4>1
    <3>2. CASE i # 1
      <4>1. g[i] = g[i - 1] \o seqs[i]
        BY <1>2, <2>4, <3>2
      <4>2. g[i - 1] = F[i - 1]
        BY <1>2, <2>5, <2>7, <3>2
      <4>3. F[i] = F[i - 1] \o seqs[i]
        BY <1>2
      <4>4. g[i] = F[i]
        BY ONLY <4>1, <4>2, <4>3
      <4> QED
        BY <1>2, <2>5, <4>4
    <3> QED
      BY <3>1, <3>2
  <2>8. \A i \in 0..n : i \in P
    BY <1>2, <2>6, <2>7, CountUp
  <2>9. n \in 0..n
    BY <1>2
  <2>10. g[n] = F[n]
    BY ONLY <1>4, <2>5, <2>8, <2>9
  <2> QED
    BY <1>1, <2>4, <2>10
<1> QED
  BY <1>3, <1>4

Begins(F, i, j) ==
  /\ Len(F[i]) \in Nat /\ Len(F[j]) \in Nat /\ Len(F[i]) <= Len(F[j])
  /\ \A x \in 1..Len(F[i]) : F[j][x] = F[i][x]

\* Each sequence laid is found where the ones before it end.
LEMMA LaidInOrder ==
  ASSUME NEW S, NEW seqs \in Seq(Seq(S)), NEW F, IsLaid(F, S, seqs),
         NEW i \in 0..Len(seqs), NEW j \in 0..Len(seqs), i <= j
  PROVE  Begins(F, i, j)
<1>1. PICK n, W : n = Len(seqs) /\ W = Seq(S)
  OBVIOUS
<1>2. /\ n \in Nat /\ \A k \in 1..n : seqs[k] \in W
      /\ F \in [0..n -> W] /\ F[0] = << >> /\ \A k \in 1..n : F[k] = F[k - 1] \o seqs[k]
  <2>1. /\ F \in [0..n -> W] /\ F[0] = << >> /\ \A k \in 1..n : F[k] = F[k - 1] \o seqs[k]
    BY ONLY <1>1, IsLaid(F, S, seqs) DEF IsLaid
  <2>2. n \in Nat /\ \A k \in 1..n : seqs[k] \in W
    BY <1>1
  <2> QED
    BY <2>1, <2>2
<1>3. \A k \in 0..n : F[k] \in Seq(S) /\ Len(F[k]) \in Nat
  <2>1. \A k \in 0..n : F[k] \in Seq(S)
    BY ONLY <1>1, <1>2
  <2>2. \A s \in Seq(S) : Len(s) \in Nat
    BY LenProperties
  <2> QED
    BY ONLY <2>1, <2>2
<1> DEFINE Before(k) == Len(F[i]) <= Len(F[k]) /\ \A x \in 1..Len(F[i]) : F[k][x] = F[i][x]
<1>4. PICK P : P = {k \in 0..n : k >= i => Before(k)}
  OBVIOUS
<1>5. 0 \in P
  BY <1>1, <1>2, <1>3, <1>4
<1>6. ASSUME NEW k \in 1..n, k - 1 \in P PROVE k \in P
  <2>1. CASE k < i
    BY <1>1, <1>2, <1>4, <2>1
  <2>2. CASE k = i
    <3>1. Before(k)
      BY <1>1, <1>3, <2>2
    <3> QED
      BY <1>4, <3>1, <2>2
  <2>3. CASE k > i
    <3>1. Before(k - 1) /\ k - 1 \in 0..n
      BY <1>1, <1>2, <1>4, <1>6, <2>3
    <3>2. PICK s, t : s = F[k - 1] /\ t = seqs[k]
      OBVIOUS
    <3>3. s \in Seq(S) /\ t \in Seq(S) /\ F[k] = s \o t
      BY <1>1, <1>2, <3>1, <3>2
    <3>4. /\ Len(F[k]) = Len(s) + Len(t) /\ Len(s) \in Nat /\ Len(t) \in Nat
          /\ \A x \in 1..(Len(s) + Len(t)) : F[k][x] = IF x <= Len(s) THEN s[x] ELSE t[x - Len(s)]
      BY <3>3, ConcatProperties
    <3>5. Len(F[i]) \in Nat
      BY <1>1, <1>3
    <3>6. Len(F[i]) <= Len(s) /\ \A x \in 1..Len(F[i]) : s[x] = F[i][x]
      BY <3>1, <3>2
    <3>7. Before(k)
      BY ONLY <3>4, <3>5, <3>6, SMTT(60)
    <3> QED
      BY <1>4, <3>7
  <2> QED
    BY <1>1, <2>1, <2>2, <2>3
<1>7. \A k \in 0..n : k \in P
  <2>1. \A k \in 1..n : k - 1 \in P => k \in P
    BY <1>6
  <2> QED
    BY <1>2, <1>5, <2>1, CountUp
<1> QED
  BY <1>1, <1>3, <1>4, <1>7 DEF Begins

LaidAfter(F, seqs, i) ==
  /\ Len(F[i - 1]) \in Nat /\ Len(seqs[i]) \in Nat /\ Len(F[i]) = Len(F[i - 1]) + Len(seqs[i])
  /\ \A x \in 1..Len(seqs[i]) : F[Len(seqs)][Len(F[i - 1]) + x] = seqs[i][x]

LEMMA LaidNext ==
  ASSUME NEW S, NEW seqs \in Seq(Seq(S)), NEW F, IsLaid(F, S, seqs), NEW i \in 1..Len(seqs)
  PROVE  LaidAfter(F, seqs, i)
<1>0. /\ i - 1 \in 0..Len(seqs) /\ i \in 0..Len(seqs) /\ i <= Len(seqs) /\ Len(seqs) \in 0..Len(seqs)
      /\ seqs[i] \in Seq(S)
  OBVIOUS
<1>1. /\ i - 1 \in 0..Len(seqs) /\ F[i - 1] \in Seq(S) /\ seqs[i] \in Seq(S) /\ F[i] = F[i - 1] \o seqs[i]
      /\ i \in 0..Len(seqs) /\ Len(seqs) \in 0..Len(seqs) /\ i <= Len(seqs)
  <2>1. F[i - 1] \in Seq(S)
    BY <1>0 DEF IsLaid
  <2>2. F[i] = F[i - 1] \o seqs[i]
    BY DEF IsLaid
  <2> QED
    BY ONLY <1>0, <2>1, <2>2
<1>2. PICK s, t : s = F[i - 1] /\ t = seqs[i]
  OBVIOUS
<1>3. /\ Len(F[i]) = Len(s) + Len(t) /\ Len(s) \in Nat /\ Len(t) \in Nat
      /\ \A x \in 1..(Len(s) + Len(t)) : F[i][x] = IF x <= Len(s) THEN s[x] ELSE t[x - Len(s)]
  <2>1. s \in Seq(S) /\ t \in Seq(S) /\ F[i] = s \o t
    BY ONLY <1>1, <1>2
  <2>2. Len(s) \in Nat /\ Len(t) \in Nat
    BY ONLY <2>1, LenProperties
  <2>3. /\ Len(s \o t) = Len(s) + Len(t)
        /\ \A x \in 1..(Len(s) + Len(t)) : (s \o t)[x] = IF x <= Len(s) THEN s[x] ELSE t[x - Len(s)]
    BY ONLY <2>1, ConcatProperties
  <2> QED
    BY ONLY <2>1, <2>2, <2>3
<1>4. \A x \in 1..Len(F[i]) : F[Len(seqs)][x] = F[i][x]
  <2>1. PICK m \in 0..Len(seqs) : m = Len(seqs) /\ i <= m
    BY <1>1
  <2>2. PICK k \in 0..Len(seqs) : k = i /\ k <= m
    BY <1>1, <2>1
  <2>3. Begins(F, k, m)
    BY <2>2, LaidInOrder, Zenon
  <2> QED
    BY ONLY <2>1, <2>2, <2>3 DEF Begins
<1>5. ASSUME NEW x \in 1..Len(t) PROVE F[Len(seqs)][Len(s) + x] = t[x]
  <2>1. Len(s) + x \in 1..Len(F[i]) /\ ~(Len(s) + x <= Len(s)) /\ (Len(s) + x) - Len(s) = x
    BY <1>3
  <2>2. F[i][Len(s) + x] = t[(Len(s) + x) - Len(s)]
    BY <1>3, <2>1
  <2> QED
    BY <1>4, <2>1, <2>2
<1> QED
  BY <1>2, <1>3, <1>5 DEF LaidAfter

-----------------------------------------------------------------------------
(* Release: how often a key is noted, pressed and lifted.                  *)

KeyNames == {"a", "A", "Shift", "left", "none"}
Strokes == {s \in [key : KeyNames, down : BOOLEAN] : s.key = "none" => ~s.down}

CountOf(s, k) == Cardinality(PlacesOf(s, k))

LEMMA PlacesAreFinite ==
  ASSUME NEW s \in Seq(KeyNames), NEW k
  PROVE  /\ PlacesOf(s, k) \in SUBSET (1..Len(s)) /\ PlacesOf(s, k) \in SUBSET Nat
         /\ IsFiniteSet(PlacesOf(s, k)) /\ CountOf(s, k) \in Nat
         /\ CountOf(s, k) = 0 <=> PlacesOf(s, k) = {}
<1>1. Len(s) \in Nat /\ PlacesOf(s, k) \in SUBSET (1..Len(s))
  BY DEF PlacesOf
<1>2. IsFiniteSet(1..Len(s))
  BY <1>1, FS_Interval
<1>3. IsFiniteSet(PlacesOf(s, k))
  BY <1>1, <1>2, FS_Subset
<1> QED
  BY <1>1, <1>3, FS_CardinalityType, FS_EmptySet DEF CountOf

LEMMA CountAppended ==
  ASSUME NEW s \in Seq(KeyNames), NEW x \in KeyNames, NEW k
  PROVE  /\ Append(s, x) \in Seq(KeyNames)
         /\ CountOf(Append(s, x), k) = CountOf(s, k) + (IF x = k THEN 1 ELSE 0)
<1>1. PICK n : n = Len(s) + 1
  OBVIOUS
<1>2. n \in Nat /\ Append(s, x) \in Seq(KeyNames)
  BY <1>1
<1>3. PlacesOf(s, k) \in SUBSET (1..Len(s)) /\ IsFiniteSet(PlacesOf(s, k)) /\ CountOf(s, k) \in Nat
  BY PlacesAreFinite
<1>4. CASE x = k
  <2>1. PlacesOf(Append(s, x), k) = PlacesOf(s, k) \cup {n}
    BY <1>1, <1>4 DEF PlacesOf
  <2>2. n \notin PlacesOf(s, k)
    BY <1>1, <1>3
  <2> QED
    BY <1>2, <1>3, <1>4, <2>1, <2>2, FS_AddElement DEF CountOf
<1>5. CASE x # k
  <2>1. PlacesOf(Append(s, x), k) = PlacesOf(s, k)
    BY <1>5 DEF PlacesOf
  <2> QED
    BY <1>2, <1>3, <1>5, <2>1 DEF CountOf
<1> QED
  BY <1>4, <1>5

\* What is left of a sequence without its last k.
LastPlace(s, k) == Max(PlacesOf(s, k))

LEMMA LastIs ==
  ASSUME NEW s \in Seq(KeyNames), NEW k, PlacesOf(s, k) # {}
  PROVE  /\ LastPlace(s, k) \in 1..Len(s) /\ s[LastPlace(s, k)] = k
         /\ \A i \in (LastPlace(s, k) + 1)..Len(s) : s[i] # k
<1>1. PICK x \in PlacesOf(s, k) : \A y \in PlacesOf(s, k) : y <= x
  BY PlacesAreFinite, LargestOf
<1>2. \E z \in PlacesOf(s, k) : \A y \in PlacesOf(s, k) : z >= y
  <2>1. PlacesOf(s, k) \in SUBSET Nat
    BY PlacesAreFinite
  <2> QED
    BY <1>1, <2>1
<1>3. LastPlace(s, k) \in PlacesOf(s, k) /\ \A y \in PlacesOf(s, k) : LastPlace(s, k) >= y
  BY <1>2 DEF LastPlace, Max
<1>4. LastPlace(s, k) \in 1..Len(s) /\ s[LastPlace(s, k)] = k
  BY <1>3, PlacesAreFinite DEF PlacesOf
<1>5. ASSUME NEW i \in (LastPlace(s, k) + 1)..Len(s), s[i] = k PROVE FALSE
  <2>1. i \in PlacesOf(s, k)
    BY <1>4, <1>5 DEF PlacesOf
  <2>2. LastPlace(s, k) >= i
    BY <1>3, <2>1
  <2> QED
    BY <1>4, <2>2
<1> QED
  BY <1>4, <1>5

LEMMA RemovedIs ==
  ASSUME NEW s \in Seq(KeyNames), NEW x \in 1..Len(s)
  PROVE  /\ RemoveAt(s, x) \in Seq(KeyNames) /\ Len(RemoveAt(s, x)) = Len(s) - 1
         /\ \A i \in 1..(x - 1) : RemoveAt(s, x)[i] = s[i]
         /\ \A i \in x..(Len(s) - 1) : RemoveAt(s, x)[i] = s[i + 1]
<1>1. PICK p, q, n : p = SubSeq(s, 1, x - 1) /\ q = SubSeq(s, x + 1, Len(s)) /\ n = Len(s)
  OBVIOUS
<1>2. n \in Nat /\ x \in 1..n /\ \A i \in 1..n : s[i] \in KeyNames
  BY <1>1
<1>3. p \in Seq(KeyNames) /\ Len(p) = x - 1 /\ \A i \in 1..(x - 1) : p[i] = s[i]
  BY <1>1, <1>2, SubSeqProperties
<1>4. q \in Seq(KeyNames) /\ Len(q) = n - x /\ \A i \in 1..(n - x) : q[i] = s[x + i]
  BY <1>1, <1>2, SubSeqProperties
<1>5. RemoveAt(s, x) = p \o q
  BY <1>1 DEF RemoveAt
<1>6. /\ p \o q \in Seq(KeyNames) /\ Len(p \o q) = Len(p) + Len(q)
      /\ \A i \in 1..(Len(p) + Len(q)) : (p \o q)[i] = IF i <= Len(p) THEN p[i] ELSE q[i - Len(p)]
  BY <1>3, <1>4, ConcatProperties
<1>7. Len(p) + Len(q) = n - 1
  BY <1>2, <1>3, <1>4
<1>8. ASSUME NEW i \in 1..(x - 1) PROVE (p \o q)[i] = s[i]
  BY <1>2, <1>3, <1>6, <1>7
<1>9. ASSUME NEW i \in x..(n - 1) PROVE (p \o q)[i] = s[i + 1]
  <2>1. i - (x - 1) \in 1..(n - x) /\ i \in 1..(n - 1) /\ ~(i <= x - 1)
    BY <1>2
  <2>2. (p \o q)[i] = q[i - (x - 1)]
    BY <1>3, <1>6, <1>7, <2>1
  <2>3. q[i - (x - 1)] = s[x + (i - (x - 1))]
    BY <1>4, <2>1
  <2>4. x + (i - (x - 1)) = i + 1
    BY <1>2
  <2> QED
    BY <2>2, <2>3, <2>4
<1> QED
  BY <1>1, <1>5, <1>6, <1>7, <1>8, <1>9

LEMMA CountRemoved ==
  ASSUME NEW s \in Seq(KeyNames), NEW x \in 1..Len(s), NEW j
  PROVE  CountOf(RemoveAt(s, x), j) = CountOf(s, j) - (IF s[x] = j THEN 1 ELSE 0)
<1>1. PICK r, n : r = RemoveAt(s, x) /\ n = Len(s)
  OBVIOUS
<1>2. /\ n \in Nat /\ x \in 1..n /\ r \in Seq(KeyNames) /\ Len(r) = n - 1
      /\ \A i \in 1..(x - 1) : r[i] = s[i]
      /\ \A i \in x..(n - 1) : r[i] = s[i + 1]
  <2>1. /\ RemoveAt(s, x) \in Seq(KeyNames) /\ Len(RemoveAt(s, x)) = Len(s) - 1
        /\ \A i \in 1..(x - 1) : RemoveAt(s, x)[i] = s[i]
        /\ \A i \in x..(Len(s) - 1) : RemoveAt(s, x)[i] = s[i + 1]
    BY RemovedIs
  <2>2. Len(s) \in Nat
    OBVIOUS
  <2> QED
    BY ONLY <1>1, <2>1, <2>2, x \in 1..Len(s)
<1>3. PICK S, T : S = PlacesOf(s, j) \ {x} /\ T = PlacesOf(r, j)
  OBVIOUS
<1>4. IsFiniteSet(PlacesOf(s, j)) /\ CountOf(s, j) \in Nat /\ PlacesOf(s, j) \in SUBSET (1..n)
  BY <1>1, PlacesAreFinite
<1>5. IsFiniteSet(S) /\ Cardinality(S) = CountOf(s, j) - (IF s[x] = j THEN 1 ELSE 0)
  <2>1. x \in PlacesOf(s, j) <=> s[x] = j
    BY <1>1, <1>2 DEF PlacesOf
  <2>2. /\ IsFiniteSet(S)
        /\ Cardinality(S) = IF x \in PlacesOf(s, j) THEN Cardinality(PlacesOf(s, j)) - 1
                            ELSE Cardinality(PlacesOf(s, j))
    BY <1>3, <1>4, FS_RemoveElement, Zenon
  <2>3. Cardinality(PlacesOf(s, j)) \in Nat
    BY <1>4 DEF CountOf
  <2> QED
    BY <2>1, <2>2, <2>3 DEF CountOf
<1>6. PICK F : F = [i \in S |-> IF i < x THEN i ELSE i - 1]
  OBVIOUS
<1>7. ASSUME NEW i \in S PROVE F[i] \in T
  <2>1. i \in 1..n /\ i # x /\ s[i] = j
    BY <1>1, <1>3, <1>4 DEF PlacesOf
  <2>2. CASE i < x
    <3>1. F[i] = i /\ i \in 1..(x - 1) /\ i \in 1..(n - 1)
      BY <1>2, <1>6, <2>1, <2>2
    <3>2. r[i] = j
      BY <1>2, <2>1, <3>1
    <3> QED
      BY <1>2, <1>3, <3>1, <3>2 DEF PlacesOf
  <2>3. CASE ~(i < x)
    <3>1. PICK m \in Nat : m = i - 1
      BY <2>1
    <3>2. F[i] = m /\ m \in x..(n - 1) /\ m \in 1..(n - 1) /\ m + 1 = i
      BY <1>2, <1>6, <2>1, <2>3, <3>1
    <3>3. r[m] = j
      BY <1>2, <2>1, <3>2
    <3> QED
      BY <1>2, <1>3, <3>2, <3>3 DEF PlacesOf
  <2> QED
    BY <2>2, <2>3
<1>8. ASSUME NEW a \in S, NEW b \in S, F[a] = F[b] PROVE a = b
  <2>1. a \in 1..n /\ b \in 1..n /\ a # x /\ b # x
    BY <1>3, <1>4
  <2> QED
    BY <1>2, <1>6, <1>8, <2>1
<1>9. ASSUME NEW t \in T PROVE \E i \in S : F[i] = t
  <2>1. t \in 1..(n - 1) /\ r[t] = j
    BY <1>2, <1>3 DEF PlacesOf
  <2>2. CASE t < x
    <3>1. t \in 1..(x - 1) /\ t \in 1..n /\ t # x
      BY <1>2, <2>1, <2>2
    <3>2. s[t] = j
      BY <1>2, <2>1, <3>1
    <3>3. t \in S
      BY <1>1, <1>3, <3>1, <3>2 DEF PlacesOf
    <3> QED
      BY <1>6, <2>2, <3>3
  <2>3. CASE ~(t < x)
    <3>1. PICK m \in Nat : m = t + 1
      BY <2>1
    <3>2. t \in x..(n - 1) /\ m \in 1..n /\ m # x /\ ~(m < x) /\ m - 1 = t
      BY <1>2, <2>1, <2>3, <3>1
    <3>3. s[m] = j
      BY <1>2, <2>1, <3>1, <3>2
    <3>4. m \in S
      BY <1>1, <1>3, <3>2, <3>3 DEF PlacesOf
    <3> QED
      BY <1>6, <3>2, <3>4
  <2> QED
    BY <2>2, <2>3
<1>10. F \in Bijection(S, T)
  <2>1. F \in [S -> T]
    BY <1>6, <1>7
  <2> QED
    BY <1>8, <1>9, <2>1, Fun_IsBij
<1>11. Cardinality(T) = Cardinality(S)
  BY <1>5, <1>10, FS_Bijection DEF ExistsBijection
<1> QED
  BY <1>1, <1>3, <1>5, <1>11 DEF CountOf

LEMMA StrokeIs ==
  ASSUME NEW s \in Strokes
  PROVE  /\ s.key \in KeyNames /\ s.down \in BOOLEAN /\ (s.down => s.key # "none")
         /\ s.down => s = Press(s.key)
         /\ ~s.down => s = Lift(s.key)
BY DEF Strokes, Press, Lift

LEMMA StrokesDiffer ==
  ASSUME NEW j, NEW k
  PROVE  /\ Press(j) # Lift(k) /\ (Press(j) = Press(k) <=> j = k) /\ (Lift(j) = Lift(k) <=> j = k)
         /\ Press(k).key = k /\ Lift(k).key = k /\ Press(k).down /\ ~Lift(k).down
<1>1. Press(k).key = k /\ Lift(k).key = k /\ Press(k).down = TRUE /\ Lift(k).down = FALSE
  BY DEF Press, Lift
<1>2. Press(j).key = j /\ Lift(j).key = j /\ Press(j).down = TRUE /\ Lift(j).down = FALSE
  BY DEF Press, Lift
<1> QED
  BY <1>1, <1>2

\* How often a stroke is among the first n of a plan.
StrokesTo(plan, n, s) == Cardinality({i \in 1..n : plan[i] = s})
PressesTo(plan, n, k) == StrokesTo(plan, n, Press(k))
LiftsTo(plan, n, k) == StrokesTo(plan, n, Lift(k))

LEMMA StrokesAreFinite ==
  ASSUME NEW plan, NEW n \in Nat, NEW s
  PROVE  IsFiniteSet({i \in 1..n : plan[i] = s}) /\ StrokesTo(plan, n, s) \in Nat
<1>1. PICK T : T = {i \in 1..n : plan[i] = s}
  OBVIOUS
<1>2. T \in SUBSET (1..n) /\ IsFiniteSet(1..n)
  BY <1>1, FS_Interval
<1>3. IsFiniteSet(T) /\ Cardinality(T) \in Nat
  BY <1>2, FS_Subset, FS_CardinalityType
<1> QED
  BY <1>1, <1>3 DEF StrokesTo

LEMMA NoStrokesYet ==
  ASSUME NEW plan, NEW s
  PROVE  StrokesTo(plan, 0, s) = 0
<1>1. {i \in 1..0 : plan[i] = s} = {}
  OBVIOUS
<1> QED
  BY <1>1, FS_EmptySet DEF StrokesTo

LEMMA OneMoreStroke ==
  ASSUME NEW plan, NEW n \in Nat \ {0}, NEW s
  PROVE  StrokesTo(plan, n, s) = StrokesTo(plan, n - 1, s) + (IF plan[n] = s THEN 1 ELSE 0)
<1>1. PICK T, U : T = {i \in 1..n : plan[i] = s} /\ U = {i \in 1..(n - 1) : plan[i] = s}
  OBVIOUS
<1>2. n - 1 \in Nat
  OBVIOUS
<1>3. IsFiniteSet(U) /\ Cardinality(U) \in Nat
  BY <1>1, <1>2, StrokesAreFinite, SMTT(60) DEF StrokesTo
<1>4. PICK c, d : c = StrokesTo(plan, n, s) /\ d = StrokesTo(plan, n - 1, s)
  OBVIOUS
<1>5. c = Cardinality(T) /\ d = Cardinality(U)
  BY <1>1, <1>4 DEF StrokesTo
<1>6. CASE plan[n] = s
  <2>1. T = U \cup {n} /\ n \notin U
    BY <1>1, <1>6
  <2>2. Cardinality(U \cup {n}) = Cardinality(U) + 1
    BY <1>3, <2>1, FS_AddElement
  <2>3. Cardinality(T) = Cardinality(U) + 1
    BY <2>1, <2>2
  <2> QED
    BY <1>6, <1>5, <1>4, <2>3
<1>7. CASE plan[n] # s
  <2>1. T = U
    BY <1>1, <1>7
  <2> QED
    <3>1. c = d /\ d \in Nat
      BY <1>3, <1>5, <2>1
    <3>2. c = d + 0
      BY <3>1
    <3> QED
      BY <1>7, <1>4, <3>2
<1> QED
  BY <1>6, <1>7

LEMMA NoMoreStrokes ==
  ASSUME NEW plan, NEW m \in Nat, NEW n \in Nat, m <= n, NEW s, \A i \in (m + 1)..n : plan[i] # s
  PROVE  StrokesTo(plan, n, s) = StrokesTo(plan, m, s)
<1>1. {i \in 1..n : plan[i] = s} = {i \in 1..m : plan[i] = s}
  OBVIOUS
<1> QED
  BY <1>1 DEF StrokesTo

LEMMA StrokesGrow ==
  ASSUME NEW plan, NEW m \in Nat, NEW n \in Nat, m <= n, NEW s
  PROVE  StrokesTo(plan, m, s) <= StrokesTo(plan, n, s)
<1>1. PICK T, U : T = {i \in 1..n : plan[i] = s} /\ U = {i \in 1..m : plan[i] = s}
  OBVIOUS
<1>2. IsFiniteSet(T) /\ U \in SUBSET T
  BY <1>1, StrokesAreFinite
<1> QED
  BY <1>1, <1>2, FS_Subset DEF StrokesTo

-----------------------------------------------------------------------------
(* Release: plans that lift what they pressed, and what is noted of them.  *)

HoldsAt(plan, n, k) == LiftsTo(plan, n, k) < PressesTo(plan, n, k)

IsSound(plan) ==
  /\ plan \in Seq(Strokes)
  /\ \A n \in 1..Len(plan) :
       ~plan[n].down /\ plan[n].key # "none" => HoldsAt(plan, n - 1, plan[n].key)

LEMMA NeverLiftedMore ==
  ASSUME NEW plan, IsSound(plan), NEW n \in 0..Len(plan), NEW k \in KeyNames \ {"none"}
  PROVE  LiftsTo(plan, n, k) <= PressesTo(plan, n, k)
<1>1. PICK l \in Nat : l = Len(plan)
  BY DEF IsSound
<1>2. PICK P : P = {i \in 0..l : LiftsTo(plan, i, k) <= PressesTo(plan, i, k)}
  OBVIOUS
<1>3. 0 \in P
  <2>1. LiftsTo(plan, 0, k) = 0 /\ PressesTo(plan, 0, k) = 0
    BY NoStrokesYet DEF LiftsTo, PressesTo
  <2> QED
    BY <1>1, <1>2, <2>1
<1>4. ASSUME NEW i \in 1..l, i - 1 \in P PROVE i \in P
  <2>1. i \in Nat \ {0} /\ i - 1 \in Nat /\ plan[i] \in Strokes
    BY <1>1 DEF IsSound
  <2>2. PICK x, y, z, w : /\ x = LiftsTo(plan, i - 1, k) /\ y = PressesTo(plan, i - 1, k)
                          /\ z = LiftsTo(plan, i, k) /\ w = PressesTo(plan, i, k)
    OBVIOUS
  <2>3. x \in Nat /\ y \in Nat
    BY <2>1, <2>2, StrokesAreFinite DEF LiftsTo, PressesTo
  <2>4. z = x + (IF plan[i] = Lift(k) THEN 1 ELSE 0) /\ w = y + (IF plan[i] = Press(k) THEN 1 ELSE 0)
    BY <2>1, <2>2, OneMoreStroke DEF LiftsTo, PressesTo
  <2>5. x <= y
    BY <1>2, <1>4, <2>2
  <2>6. plan[i] = Lift(k) => x < y
    <3>1. plan[i] = Lift(k) => plan[i].key = k /\ ~plan[i].down
      BY StrokesDiffer
    <3> QED
      BY <1>1, <2>2, <3>1 DEF IsSound, HoldsAt
  <2>7. z <= w
    BY <2>3, <2>4, <2>5, <2>6
  <2>8. i \in 0..l
    OBVIOUS
  <2> QED
    BY <1>2, <2>2, <2>7, <2>8
<1>5. \A i \in 0..l : i \in P
  BY <1>1, <1>3, <1>4, CountUp
<1> QED
  BY <1>1, <1>2, <1>5

ShiftIsFirst(s) == \A n \in DOMAIN s : s[n] = "A" => \E m \in 1..(n - 1) : s[m] = "Shift"

\* What is noted of a plan whose first n strokes are pressed and whose first m are lifted.
DueOf(plan, n, m, k) ==
  PressesTo(plan, n, k) - LiftsTo(plan, m, k) + (IF k = "Shift" THEN PressesTo(plan, n, "A") ELSE 0)
Agrees(s, plan, n, m) ==
  /\ s \in Seq(KeyNames) /\ ShiftIsFirst(s) /\ CountOf(s, "none") = 0
  /\ \A k \in KeyNames \ {"none"} : CountOf(s, k) = DueOf(plan, n, m, k)

LEMMA ShiftAppended ==
  ASSUME NEW s \in Seq(KeyNames), ShiftIsFirst(s), NEW x \in KeyNames,
         x = "A" => \E m \in 1..Len(s) : s[m] = "Shift"
  PROVE  ShiftIsFirst(Append(s, x))
<1> SUFFICES ASSUME NEW n \in DOMAIN Append(s, x), Append(s, x)[n] = "A"
             PROVE  \E m \in 1..(n - 1) : Append(s, x)[m] = "Shift"
  BY DEF ShiftIsFirst
<1>1. n \in 1..(Len(s) + 1) /\ Len(s) \in Nat
  OBVIOUS
<1>2. CASE n <= Len(s)
  <2>1. n \in DOMAIN s /\ s[n] = "A"
    BY <1>1, <1>2
  <2>2. PICK m \in 1..(n - 1) : s[m] = "Shift"
    BY <2>1 DEF ShiftIsFirst
  <2> QED
    BY <1>1, <1>2, <2>2
<1>3. CASE n = Len(s) + 1
  BY <1>1, <1>3
<1> QED
  BY <1>1, <1>2, <1>3

LEMMA PressIsNoted ==
  ASSUME NEW plan \in Seq(Strokes), NEW n \in 1..Len(plan), NEW m \in Nat, NEW s, Agrees(s, plan, n - 1, m)
  PROVE  Agrees(s \o PressesOf(plan[n]), plan, n, m)
<1>1. PICK x : x = plan[n]
  OBVIOUS
<1>2. x \in Strokes /\ n \in Nat \ {0} /\ n - 1 \in Nat
  BY <1>1
<1>3. s \in Seq(KeyNames) /\ ShiftIsFirst(s) /\ CountOf(s, "none") = 0
  BY DEF Agrees
<1>4. ASSUME NEW k
      PROVE  /\ PressesTo(plan, n, k) = PressesTo(plan, n - 1, k) + (IF x = Press(k) THEN 1 ELSE 0)
             /\ PressesTo(plan, n - 1, k) \in Nat /\ LiftsTo(plan, m, k) \in Nat
  BY <1>1, <1>2, OneMoreStroke, StrokesAreFinite DEF PressesTo, LiftsTo
<1>5. CASE ~x.down
  <2>1. PressesOf(x) = << >>
    <3>1. x # Press("A")
      BY <1>5, StrokesDiffer
    <3> QED
      BY <1>5, <3>1 DEF PressesOf
  <2>2. s \o PressesOf(x) = s
    BY <1>3, <2>1, ConcatEmptySeq
  <2>3. \A k : x # Press(k)
    BY <1>5, StrokesDiffer
  <2>4. ASSUME NEW k PROVE DueOf(plan, n, m, k) = DueOf(plan, n - 1, m, k)
    BY <1>4, <2>3 DEF DueOf
  <2> QED
    BY <1>1, <2>2, <2>4 DEF Agrees
<1>6. CASE x = Press("A")
  <2>1. x.down
    BY <1>6, StrokesDiffer
  <2>2. PressesOf(x) = << "Shift", "A" >>
    BY <1>6, <2>1 DEF PressesOf
  <2>3. PICK t : t = Append(s, "Shift")
    OBVIOUS
  <2>4. t \in Seq(KeyNames) /\ \A k : CountOf(t, k) = CountOf(s, k) + (IF k = "Shift" THEN 1 ELSE 0)
    BY <1>3, <2>3, CountAppended DEF KeyNames
  <2>5. ShiftIsFirst(t)
    BY <1>3, <2>3, ShiftAppended DEF KeyNames
  <2>6. t[Len(t)] = "Shift" /\ Len(t) \in 1..Len(t)
    BY <1>3, <2>3
  <2>7. s \o PressesOf(x) = Append(t, "A")
    BY <1>3, <2>2, <2>3
  <2>8. /\ Append(t, "A") \in Seq(KeyNames)
        /\ \A k : CountOf(Append(t, "A"), k) = CountOf(t, k) + (IF k = "A" THEN 1 ELSE 0)
    BY <2>4, CountAppended DEF KeyNames
  <2>9. ShiftIsFirst(Append(t, "A"))
    BY <2>4, <2>5, <2>6, ShiftAppended DEF KeyNames
  <2>10. \A k : x = Press(k) <=> k = "A"
    BY <1>6, StrokesDiffer
  <2>11. CountOf(Append(t, "A"), "none") = 0
    BY <1>3, <2>4, <2>8
  <2>12. ASSUME NEW k \in KeyNames \ {"none"} PROVE CountOf(Append(t, "A"), k) = DueOf(plan, n, m, k)
    <3>1. CountOf(s, k) = DueOf(plan, n - 1, m, k) /\ CountOf(s, k) \in Nat
      BY <1>3, PlacesAreFinite DEF Agrees
    <3>2. CountOf(Append(t, "A"), k) = CountOf(s, k) + (IF k \in {"A", "Shift"} THEN 1 ELSE 0)
      BY <2>4, <2>8, <3>1
    <3>3. PressesTo(plan, n, k) = PressesTo(plan, n - 1, k) + (IF k = "A" THEN 1 ELSE 0)
      BY <1>4, <2>10
    <3>4. PressesTo(plan, n, "A") = PressesTo(plan, n - 1, "A") + 1
      BY <1>4, <2>10
    <3>5. /\ PressesTo(plan, n - 1, k) \in Nat /\ LiftsTo(plan, m, k) \in Nat
          /\ PressesTo(plan, n - 1, "A") \in Nat
      BY <1>4
    <3>6. CASE k = "Shift"
      BY <3>1, <3>2, <3>3, <3>4, <3>5, <3>6 DEF DueOf
    <3>7. CASE k # "Shift"
      BY <3>1, <3>2, <3>3, <3>5, <3>7 DEF DueOf
    <3> QED
      BY <3>6, <3>7
  <2> QED
    BY <1>1, <2>7, <2>8, <2>9, <2>11, <2>12 DEF Agrees
<1>7. CASE x.down /\ x # Press("A")
  <2>1. PICK j \in KeyNames : j = x.key
    BY <1>2, StrokeIs
  <2>2. x = Press(j) /\ j # "none"
    BY <1>2, <1>7, <2>1, StrokeIs
  <2>3. j # "A"
    BY <1>7, <2>2
  <2>4. PressesOf(x) = << j >>
    BY <1>7, <2>1 DEF PressesOf
  <2>5. s \o PressesOf(x) = Append(s, j)
    BY <1>3, <2>4
  <2>6. /\ Append(s, j) \in Seq(KeyNames)
        /\ \A k : CountOf(Append(s, j), k) = CountOf(s, k) + (IF j = k THEN 1 ELSE 0)
    BY <1>3, CountAppended
  <2>7. ShiftIsFirst(Append(s, j))
    BY <1>3, <2>3, ShiftAppended
  <2>8. \A k : x = Press(k) <=> k = j
    BY <2>2, StrokesDiffer
  <2>9. CountOf(Append(s, j), "none") = 0
    BY <1>3, <2>2, <2>6
  <2>10. ASSUME NEW k \in KeyNames \ {"none"} PROVE CountOf(Append(s, j), k) = DueOf(plan, n, m, k)
    <3>1. CountOf(s, k) = DueOf(plan, n - 1, m, k) /\ CountOf(s, k) \in Nat
      BY <1>3, PlacesAreFinite DEF Agrees
    <3>2. PressesTo(plan, n, k) = PressesTo(plan, n - 1, k) + (IF k = j THEN 1 ELSE 0)
      BY <1>4, <2>8
    <3>3. PressesTo(plan, n, "A") = PressesTo(plan, n - 1, "A")
      BY <1>4, <2>3, <2>8
    <3>4. /\ PressesTo(plan, n - 1, k) \in Nat /\ LiftsTo(plan, m, k) \in Nat
          /\ PressesTo(plan, n - 1, "A") \in Nat
      BY <1>4
    <3>5. CountOf(Append(s, j), k) = CountOf(s, k) + (IF k = j THEN 1 ELSE 0)
      BY <2>6
    <3> QED
      BY <3>1, <3>2, <3>3, <3>4, <3>5 DEF DueOf
  <2> QED
    BY <1>1, <2>5, <2>6, <2>7, <2>9, <2>10 DEF Agrees
<1> QED
  BY <1>2, <1>5, <1>6, <1>7, StrokeIs

LEMMA ShiftStaysFirst ==
  ASSUME NEW s \in Seq(KeyNames), ShiftIsFirst(s), NEW k, PlacesOf(s, k) # {},
         k = "Shift" => (CountOf(s, "A") > 0 => CountOf(s, "Shift") > 1)
  PROVE  ShiftIsFirst(RemoveAt(s, LastPlace(s, k)))
<1>1. PICK x, r, n : x = LastPlace(s, k) /\ r = RemoveAt(s, x) /\ n = Len(s)
  OBVIOUS
<1>2. x \in 1..n /\ s[x] = k /\ n \in Nat /\ \A i \in (x + 1)..n : s[i] # k
  BY <1>1, LastIs
<1>3. /\ r \in Seq(KeyNames) /\ Len(r) = n - 1
      /\ \A i \in 1..(x - 1) : r[i] = s[i]
      /\ \A i \in x..(n - 1) : r[i] = s[i + 1]
  <2>1. /\ RemoveAt(s, x) \in Seq(KeyNames) /\ Len(RemoveAt(s, x)) = Len(s) - 1
        /\ \A i \in 1..(x - 1) : RemoveAt(s, x)[i] = s[i]
        /\ \A i \in x..(Len(s) - 1) : RemoveAt(s, x)[i] = s[i + 1]
    BY <1>1, <1>2, RemovedIs
  <2> QED
    BY ONLY <1>1, <1>2, <2>1
\* Before the last Shift that goes there is another one.
<1>4. ASSUME k = "Shift", CountOf(s, "A") > 0 PROVE \E y \in 1..(x - 1) : s[y] = "Shift"
  <2>1. CountOf(s, "Shift") > 1
    BY <1>4
  <2>2. PlacesOf(s, "Shift") # {x}
    <3>1. Cardinality({x}) = 1
      BY FS_Singleton
    <3>2. PlacesOf(s, "Shift") = {x} => CountOf(s, "Shift") = 1
      BY <3>1 DEF CountOf
    <3> QED
      BY <2>1, <3>2
  <2>3. PICK y \in PlacesOf(s, "Shift") : y # x
    BY <1>2, <1>4, <2>2 DEF PlacesOf
  <2>4. y \in 1..n /\ s[y] = "Shift"
    BY <1>1, <2>3 DEF PlacesOf
  <2>5. ~(y > x)
    BY <1>2, <1>4, <2>4
  <2> QED
    BY <1>2, <2>3, <2>4, <2>5
<1>5. SUFFICES ASSUME NEW i \in DOMAIN r, r[i] = "A" PROVE \E y \in 1..(i - 1) : r[y] = "Shift"
  BY <1>1 DEF ShiftIsFirst
<1>6. i \in 1..(n - 1)
  BY <1>3
<1>7. CASE i < x
  <2>1. i \in 1..(x - 1) /\ i \in 1..n
    BY <1>2, <1>6, <1>7
  <2>2. s[i] = "A" /\ i \in DOMAIN s
    BY <1>1, <1>3, <1>5, <2>1
  <2>3. PICK y \in 1..(i - 1) : s[y] = "Shift"
    BY <2>2 DEF ShiftIsFirst
  <2>4. y \in 1..(x - 1)
    BY <1>2, <2>1, <2>3
  <2> QED
    BY <1>3, <2>3, <2>4
<1>8. CASE ~(i < x)
  <2>1. PICK j \in Nat : j = i + 1
    BY <1>6
  <2>2. i \in x..(n - 1) /\ j \in 1..n /\ j > x /\ j - 1 = i
    BY <1>2, <1>6, <1>8, <2>1
  <2>3. s[j] = "A" /\ j \in DOMAIN s
    BY <1>1, <1>3, <1>5, <2>1, <2>2
  <2>4. PICK y \in 1..(j - 1) : s[y] = "Shift"
    BY <2>3 DEF ShiftIsFirst
  <2>5. y \in 1..i
    BY <2>2, <2>4
  <2>6. k # "A"
    BY <1>2, <2>2, <2>3
  <2>7. CASE y < x
    <3>1. y \in 1..(x - 1) /\ y \in 1..(i - 1)
      BY <1>2, <2>2, <2>5, <2>7
    <3> QED
      BY <1>3, <2>4, <3>1
  <2>8. CASE y > x
    <3>1. PICK z \in Nat : z = y - 1
      BY <2>5
    <3>2. z \in x..(n - 1) /\ z + 1 = y /\ z \in 1..(i - 1)
      BY <1>2, <1>6, <2>5, <2>8, <3>1
    <3>3. r[z] = "Shift"
      BY <1>3, <2>4, <3>2
    <3> QED
      BY <3>2, <3>3
  <2>9. CASE y = x
    <3>1. k = "Shift"
      BY <1>2, <2>4, <2>9
    <3>2. PlacesOf(s, "A") # {}
      BY <2>3 DEF PlacesOf
    <3>3. CountOf(s, "A") > 0
      BY <3>2, PlacesAreFinite
    <3>4. PICK z \in 1..(x - 1) : s[z] = "Shift"
      BY <1>4, <3>1, <3>3
    <3>5. z \in 1..(i - 1)
      BY <1>2, <2>2, <3>4
    <3> QED
      BY <1>3, <3>4, <3>5
  <2> QED
    BY <1>2, <2>5, <2>7, <2>8, <2>9
<1> QED
  BY <1>2, <1>6, <1>7, <1>8

LEMMA NoteIs ==
  ASSUME NEW s, NEW x
  PROVE  /\ x.down => Note(s, x) = Append(s, x.key)
         /\ ~x.down /\ PlacesOf(s, x.key) = {} => Note(s, x) = s
         /\ ~x.down /\ PlacesOf(s, x.key) # {} => Note(s, x) = RemoveAt(s, LastPlace(s, x.key))
BY DEF Note, LastPlace

LEMMA LiftIsNoted ==
  ASSUME NEW plan, IsSound(plan), NEW n \in 1..Len(plan), NEW e \in n..Len(plan),
         NEW s, Agrees(s, plan, e, n - 1)
  PROVE  Agrees(NoteLift(s, plan[n]), plan, e, n)
<1>1. PICK x : x = plan[n]
  OBVIOUS
<1>2. /\ Len(plan) \in Nat /\ x \in Strokes /\ n \in Nat \ {0} /\ n - 1 \in Nat /\ e \in Nat
      /\ n - 1 <= e /\ n - 1 \in 0..Len(plan)
  BY <1>1 DEF IsSound
<1>3. s \in Seq(KeyNames) /\ ShiftIsFirst(s) /\ CountOf(s, "none") = 0
  BY DEF Agrees
<1>4. ASSUME NEW k
      PROVE  /\ LiftsTo(plan, n, k) = LiftsTo(plan, n - 1, k) + (IF x = Lift(k) THEN 1 ELSE 0)
             /\ LiftsTo(plan, n - 1, k) \in Nat /\ PressesTo(plan, e, k) \in Nat
             /\ PressesTo(plan, n - 1, k) \in Nat /\ PressesTo(plan, n - 1, k) <= PressesTo(plan, e, k)
  BY <1>1, <1>2, OneMoreStroke, StrokesAreFinite, StrokesGrow DEF PressesTo, LiftsTo
<1>5. PICK j \in KeyNames : j = x.key
  BY <1>2, StrokeIs
<1>6. CASE x.down \/ j = "none"
  <2>1. NoteLift(s, x) = s
    <3>1. CASE x.down
      BY <3>1 DEF NoteLift
    <3>2. CASE ~x.down /\ j = "none"
      <4>1. PlacesOf(s, x.key) = {}
        BY <1>3, <1>5, <3>2, PlacesAreFinite
      <4> QED
        BY <3>2, <4>1, NoteIs DEF NoteLift
    <3> QED
      BY <1>6, <3>1, <3>2
  <2>2. ASSUME NEW k \in KeyNames \ {"none"} PROVE DueOf(plan, e, n, k) = DueOf(plan, e, n - 1, k)
    <3>1. x # Lift(k)
      BY <1>5, <1>6, StrokesDiffer
    <3> QED
      BY <1>4, <3>1 DEF DueOf
  <2> QED
    BY <1>1, <2>1, <2>2 DEF Agrees
<1>7. CASE ~x.down /\ j # "none"
  <2>1. x = Lift(j)
    BY <1>2, <1>5, <1>7, StrokeIs
  <2>2. \A k : x = Lift(k) <=> k = j
    BY <2>1, StrokesDiffer
  <2>3. LiftsTo(plan, n - 1, j) < PressesTo(plan, n - 1, j)
    BY <1>1, <1>5, <1>7 DEF IsSound, HoldsAt
  <2>4. CountOf(s, j) \in Nat /\ CountOf(s, j) > 0
    <3>1. CountOf(s, j) = DueOf(plan, e, n - 1, j) /\ CountOf(s, j) \in Nat
      BY <1>3, <1>7, PlacesAreFinite DEF Agrees
    <3>2. DueOf(plan, e, n - 1, j) >= PressesTo(plan, e, j) - LiftsTo(plan, n - 1, j)
      BY <1>4 DEF DueOf
    <3>3. PressesTo(plan, e, j) - LiftsTo(plan, n - 1, j) > 0
      BY <1>4, <2>3
    <3> QED
      BY <1>4, <3>1, <3>2, <3>3
  <2>5. PlacesOf(s, j) # {}
    BY <1>3, <2>4, PlacesAreFinite
  <2>6. PICK y : y = LastPlace(s, j)
    OBVIOUS
  <2>7. y \in 1..Len(s) /\ s[y] = j
    BY <1>3, <2>5, <2>6, LastIs
  <2>8. PICK r : r = RemoveAt(s, y)
    OBVIOUS
  <2>9. NoteLift(s, x) = r
    BY <1>5, <1>7, <2>5, <2>6, <2>8, NoteIs DEF NoteLift
  <2>10. r \in Seq(KeyNames) /\ \A k : CountOf(r, k) = CountOf(s, k) - (IF j = k THEN 1 ELSE 0)
    BY <1>3, <2>7, <2>8, RemovedIs, CountRemoved, SMTT(60)
  <2>11. ShiftIsFirst(r)
    <3>1. ASSUME j = "Shift", CountOf(s, "A") > 0 PROVE CountOf(s, "Shift") > 1
      <4>1. /\ CountOf(s, "A") = DueOf(plan, e, n - 1, "A")
            /\ CountOf(s, "Shift") = DueOf(plan, e, n - 1, "Shift")
        BY DEF Agrees, KeyNames
      <4>2. CountOf(s, "A") = PressesTo(plan, e, "A") - LiftsTo(plan, n - 1, "A")
        BY <1>4, <4>1 DEF DueOf
      <4>3. CountOf(s, "Shift") = PressesTo(plan, e, "Shift") - LiftsTo(plan, n - 1, "Shift")
                                    + PressesTo(plan, e, "A")
        BY <4>1 DEF DueOf
      <4>4. PressesTo(plan, e, "A") > 0
        BY <1>4, <3>1, <4>2
      <4>5. LiftsTo(plan, n - 1, "Shift") < PressesTo(plan, e, "Shift")
        BY <1>4, <2>3, <3>1
      <4> QED
        BY <1>4, <4>3, <4>4, <4>5
    <3> QED
      BY <1>3, <2>5, <2>6, <2>8, <3>1, ShiftStaysFirst
  <2>12. CountOf(r, "none") = 0
    BY <1>3, <1>7, <2>10
  <2>13. ASSUME NEW k \in KeyNames \ {"none"} PROVE CountOf(r, k) = DueOf(plan, e, n, k)
    <3>1. CountOf(s, k) = DueOf(plan, e, n - 1, k) /\ CountOf(s, k) \in Nat
      BY <1>3, PlacesAreFinite DEF Agrees
    <3>2. LiftsTo(plan, n, k) = LiftsTo(plan, n - 1, k) + (IF k = j THEN 1 ELSE 0)
      BY <1>4, <2>2
    <3>3. CountOf(r, k) = CountOf(s, k) - (IF k = j THEN 1 ELSE 0)
      BY <2>10
    <3>4. LiftsTo(plan, n - 1, k) \in Nat /\ PressesTo(plan, e, k) \in Nat /\ PressesTo(plan, e, "A") \in Nat
      BY <1>4
    <3> QED
      BY <3>1, <3>2, <3>3, <3>4 DEF DueOf
  <2> QED
    BY <1>1, <2>9, <2>10, <2>11, <2>12, <2>13 DEF Agrees
<1> QED
  BY <1>2, <1>6, <1>7, StrokeIs

\* What a table of sequences holds at each step, if every step keeps it.
LEMMA NoteKeeps ==
  ASSUME NEW s \in Seq(KeyNames), NEW x \in Strokes
  PROVE  Note(s, x) \in Seq(KeyNames) /\ NoteLift(s, x) \in Seq(KeyNames)
<1>1. PICK j \in KeyNames : j = x.key
  BY StrokeIs
<1>2. Note(s, x) \in Seq(KeyNames)
  <2>1. CASE x.down
    BY <1>1, <2>1, NoteIs
  <2>2. CASE ~x.down /\ PlacesOf(s, j) = {}
    BY <1>1, <2>2, NoteIs
  <2>3. CASE ~x.down /\ PlacesOf(s, j) # {}
    <3>1. LastPlace(s, j) \in 1..Len(s)
      BY <2>3, LastIs
    <3>2. RemoveAt(s, LastPlace(s, j)) \in Seq(KeyNames)
      BY <3>1, RemovedIs
    <3> QED
      BY <1>1, <2>3, <3>2, NoteIs
  <2> QED
    BY <2>1, <2>2, <2>3
<1> QED
  BY <1>2 DEF NoteLift

LEMMA NotingStepByStep ==
  ASSUME NEW plan \in Seq(Strokes)
  PROVE  /\ Noting(plan) \in [0..Len(plan) -> Seq(KeyNames)] /\ Noting(plan)[0] = << >>
         /\ \A i \in 1..Len(plan) : Noting(plan)[i] = Note(Noting(plan)[i - 1], plan[i])
<1>1. PICK n, S : n = Len(plan) /\ S = Seq(KeyNames)
  OBVIOUS
<1>2. n \in Nat /\ << >> \in S /\ \A i \in 1..n : plan[i] \in Strokes
  BY <1>1
<1>3. PICK step : step = [i \in 1..n |-> [s \in S |-> Note(s, plan[i])]]
  OBVIOUS
<1>4. \A s \in S : \A i \in 1..n : Note(s, plan[i]) \in S
  BY <1>1, <1>2, NoteKeeps
<1>5. step \in [1..n -> [S -> S]]
  BY <1>3, <1>4
<1>6. PICK f \in [0..n -> S] : f[0] = << >> /\ \A i \in 1..n : f[i] = step[i][f[i - 1]]
  <2>1. PICK base \in S : base = << >>
    BY <1>2
  <2>2. n \in Nat
    BY <1>2
  <2>3. HasTable(S, base, n, step)
    BY ONLY <1>5, <2>1, <2>2, TableIsThere, Zenon
  <2>4. \E f \in [0..n -> S] : f[0] = base /\ \A i \in 1..n : f[i] = step[i][f[i - 1]]
    BY ONLY <2>3 DEF HasTable
  <2> QED
    BY <2>1, <2>4
<1>7. ASSUME NEW i \in 1..n PROVE f[i] = Note(f[i - 1], plan[i])
  <2>1. f[i - 1] \in S
    BY <1>2, <1>6
  <2> QED
    BY <1>3, <1>6, <2>1
<1>8. f = [i \in 0..n |-> IF i = 0 THEN << >> ELSE Note(f[i - 1], plan[i])]
  <2>1. ASSUME NEW i \in 0..n
        PROVE  f[i] = (IF i = 0 THEN << >> ELSE Note(f[i - 1], plan[i]))
    <3>1. CASE i = 0
      BY <1>6, <3>1
    <3>2. CASE i # 0
      <4>1. i \in 1..n
        BY <1>2, <3>2
      <4> QED
        BY <1>7, <3>2, <4>1
    <3> QED
      BY <3>1, <3>2
  <2> QED
    BY <1>6, <2>1
<1>9. PICK g : g = Noting(plan)
  OBVIOUS
<1>10. g = [i \in 0..n |-> IF i = 0 THEN << >> ELSE Note(g[i - 1], plan[i])]
  BY <1>1, <1>8, <1>9 DEF Noting
<1>11. g[0] = << >> /\ \A i \in 1..n : g[i] = Note(g[i - 1], plan[i])
  BY <1>2, <1>10
<1>12. \A i \in 0..n : g[i] \in S
  <2>1. PICK P : P = {i \in 0..n : g[i] \in S}
    OBVIOUS
  <2>2. 0 \in P
    BY <1>2, <1>11, <2>1
  <2>3. ASSUME NEW i \in 1..n, i - 1 \in P PROVE i \in P
    BY <1>2, <1>11, <1>4, <2>1, <2>3
  <2>4. \A i \in 0..n : i \in P
    BY <1>2, <2>2, <2>3, CountUp
  <2> QED
    BY <2>1, <2>4
<1>13. g \in [0..n -> S]
  BY <1>10, <1>12
<1> QED
  BY <1>1, <1>9, <1>11, <1>13

LEMMA LiftingStepByStep ==
  ASSUME NEW base \in Seq(KeyNames), NEW strokes \in Seq(Strokes)
  PROVE  /\ Lifting(base, strokes) \in [0..Len(strokes) -> Seq(KeyNames)]
         /\ Lifting(base, strokes)[0] = base
         /\ \A i \in 1..Len(strokes) :
              Lifting(base, strokes)[i] = NoteLift(Lifting(base, strokes)[i - 1], strokes[i])
<1>1. PICK n, S : n = Len(strokes) /\ S = Seq(KeyNames)
  OBVIOUS
<1>2. n \in Nat /\ base \in S /\ \A i \in 1..n : strokes[i] \in Strokes
  BY <1>1
<1>3. PICK step : step = [i \in 1..n |-> [s \in S |-> NoteLift(s, strokes[i])]]
  OBVIOUS
<1>4. \A s \in S : \A i \in 1..n : NoteLift(s, strokes[i]) \in S
  BY <1>1, <1>2, NoteKeeps
<1>5. step \in [1..n -> [S -> S]]
  BY <1>3, <1>4
<1>6. PICK f \in [0..n -> S] : f[0] = base /\ \A i \in 1..n : f[i] = step[i][f[i - 1]]
  <2>1. n \in Nat /\ base \in S
    BY <1>2
  <2>2. HasTable(S, base, n, step)
    BY ONLY <1>5, <2>1, TableIsThere, Zenon
  <2> QED
    BY ONLY <2>2 DEF HasTable
<1>7. ASSUME NEW i \in 1..n PROVE f[i] = NoteLift(f[i - 1], strokes[i])
  <2>1. f[i - 1] \in S
    BY <1>2, <1>6
  <2> QED
    BY <1>3, <1>6, <2>1
<1>8. f = [i \in 0..n |-> IF i = 0 THEN base ELSE NoteLift(f[i - 1], strokes[i])]
  <2>1. ASSUME NEW i \in 0..n
        PROVE  f[i] = (IF i = 0 THEN base ELSE NoteLift(f[i - 1], strokes[i]))
    <3>1. CASE i = 0
      BY <1>6, <3>1
    <3>2. CASE i # 0
      <4>1. i \in 1..n
        BY <1>2, <3>2
      <4> QED
        BY <1>7, <3>2, <4>1
    <3> QED
      BY <3>1, <3>2
  <2> QED
    BY <1>6, <2>1
<1>9. PICK g : g = Lifting(base, strokes)
  OBVIOUS
<1>10. g = [i \in 0..n |-> IF i = 0 THEN base ELSE NoteLift(g[i - 1], strokes[i])]
  BY <1>1, <1>8, <1>9 DEF Lifting
<1>11. g[0] = base /\ \A i \in 1..n : g[i] = NoteLift(g[i - 1], strokes[i])
  BY <1>2, <1>10
<1>12. \A i \in 0..n : g[i] \in S
  <2>1. PICK P : P = {i \in 0..n : g[i] \in S}
    OBVIOUS
  <2>2. 0 \in P
    BY <1>2, <1>11, <2>1
  <2>3. ASSUME NEW i \in 1..n, i - 1 \in P PROVE i \in P
    BY <1>2, <1>11, <1>4, <2>1, <2>3
  <2>4. \A i \in 0..n : i \in P
    BY <1>2, <2>2, <2>3, CountUp
  <2> QED
    BY <2>1, <2>4
<1>13. g \in [0..n -> S]
  BY <1>10, <1>12
<1> QED
  BY <1>1, <1>9, <1>11, <1>13

-----------------------------------------------------------------------------
(* Release: every plan of a request lifts what it pressed.                  *)

LEMMA NotedIsSound ==
  ASSUME NEW plan \in Seq(Strokes), LiftsWhatItPressed(plan)
  PROVE  IsSound(plan)
<1>1. PICK l, held : l = Len(plan) /\ held = Noting(plan)
  OBVIOUS
<1>2. /\ l \in Nat /\ held \in [0..l -> Seq(KeyNames)] /\ held[0] = << >>
      /\ \A i \in 1..l : held[i] = Note(held[i - 1], plan[i])
      /\ \A i \in 1..l : plan[i] \in Strokes
      /\ \A i \in 1..l : plan[i].down \/ plan[i].key \in ToSet(held[i - 1])
  <2>1. /\ held \in [0..l -> Seq(KeyNames)] /\ held[0] = << >>
        /\ \A i \in 1..l : held[i] = Note(held[i - 1], plan[i])
    BY <1>1, NotingStepByStep
  <2>2. l \in Nat /\ DOMAIN plan = 1..l /\ \A i \in 1..l : plan[i] \in Strokes
    BY <1>1
  <2>3. \A i \in 1..l : plan[i].down \/ plan[i].key \in ToSet(held[i - 1])
    BY ONLY <1>1, <2>2, LiftsWhatItPressed(plan) DEF LiftsWhatItPressed
  <2> QED
    BY <2>1, <2>2, <2>3
<1> DEFINE Counted(i) == \A k \in KeyNames \ {"none"} :
              CountOf(held[i], k) = PressesTo(plan, i, k) - LiftsTo(plan, i, k)
<1>3. PICK P : P = {i \in 0..l : Counted(i)}
  OBVIOUS
<1>4. 0 \in P
  <2>1. ASSUME NEW k \in KeyNames \ {"none"}
        PROVE  CountOf(held[0], k) = PressesTo(plan, 0, k) - LiftsTo(plan, 0, k)
    <3>1. << >> \in Seq(KeyNames) /\ PlacesOf(<< >>, k) = {}
      BY DEF PlacesOf
    <3>2. CountOf(held[0], k) = 0
      BY <1>2, <3>1, PlacesAreFinite
    <3> QED
      BY <3>2, NoStrokesYet DEF PressesTo, LiftsTo
  <2> QED
    BY <1>2, <1>3, <2>1
<1>5. ASSUME NEW i \in 1..l, i - 1 \in P, NEW k \in KeyNames \ {"none"}
      PROVE  CountOf(held[i], k) = PressesTo(plan, i, k) - LiftsTo(plan, i, k)
  <2>1. PICK h, x, b, c : h = held[i - 1] /\ x = plan[i] /\ b = PressesTo(plan, i - 1, k)
                          /\ c = LiftsTo(plan, i - 1, k)
    OBVIOUS
  <2>2. h \in Seq(KeyNames) /\ x \in Strokes /\ held[i] = Note(h, x) /\ i \in Nat \ {0}
        /\ (x.down \/ x.key \in ToSet(h))
    BY <1>2, <2>1
  <2>3. /\ b \in Nat /\ c \in Nat
        /\ PressesTo(plan, i, k) = b + (IF x = Press(k) THEN 1 ELSE 0)
        /\ LiftsTo(plan, i, k) = c + (IF x = Lift(k) THEN 1 ELSE 0)
    <3>1. i - 1 \in Nat
      BY <2>2
    <3>2. b \in Nat /\ c \in Nat
      BY <2>1, <3>1, StrokesAreFinite DEF PressesTo, LiftsTo
    <3>3. StrokesTo(plan, i, Press(k)) = StrokesTo(plan, i - 1, Press(k)) + (IF plan[i] = Press(k) THEN 1 ELSE 0)
      BY <2>2, OneMoreStroke
    <3>4. StrokesTo(plan, i, Lift(k)) = StrokesTo(plan, i - 1, Lift(k)) + (IF plan[i] = Lift(k) THEN 1 ELSE 0)
      BY <2>2, OneMoreStroke
    <3> QED
      BY <2>1, <3>2, <3>3, <3>4 DEF PressesTo, LiftsTo
  <2>4. CountOf(h, k) = b - c
    BY <1>3, <1>5, <2>1
  <2>5. x.key \in KeyNames /\ x.down \in BOOLEAN
        /\ (x.down => x = Press(x.key)) /\ (~x.down => x = Lift(x.key))
    BY <2>2, StrokeIs
  <2>6. CASE x.down
    <3>1. Note(h, x) = Append(h, x.key)
      BY <2>6, NoteIs
    <3>2. CountOf(Append(h, x.key), k) = CountOf(h, k) + (IF x.key = k THEN 1 ELSE 0)
      BY <2>2, <2>5, CountAppended
    <3>3. x # Lift(k) /\ (x = Press(k) <=> x.key = k)
      BY <2>5, <2>6, StrokesDiffer
    <3> QED
      BY <2>2, <2>3, <2>4, <3>1, <3>2, <3>3
  <2>7. CASE ~x.down
    <3>1. \E n \in DOMAIN h : h[n] = x.key
      BY <2>2, <2>7 DEF ToSet
    <3>2. PlacesOf(h, x.key) # {}
      BY <3>1 DEF PlacesOf
    <3>3. PICK p : p = LastPlace(h, x.key)
      OBVIOUS
    <3>4. Note(h, x) = RemoveAt(h, p) /\ p \in 1..Len(h) /\ h[p] = x.key
      BY <2>2, <2>7, <3>2, <3>3, NoteIs, LastIs
    <3>5. CountOf(RemoveAt(h, p), k) = CountOf(h, k) - (IF h[p] = k THEN 1 ELSE 0)
      BY <2>2, <3>4, CountRemoved
    <3>6. x # Press(k) /\ (x = Lift(k) <=> x.key = k)
      BY <2>5, <2>7, StrokesDiffer
    <3> QED
      BY <2>2, <2>3, <2>4, <3>4, <3>5, <3>6
  <2> QED
    BY <2>5, <2>6, <2>7
<1>6. \A i \in 1..l : i - 1 \in P => i \in P
  BY <1>3, <1>5
<1>7. \A i \in 0..l : i \in P
  BY <1>2, <1>4, <1>6, CountUp
<1>8. ASSUME NEW n \in 1..l, ~plan[n].down, plan[n].key # "none"
      PROVE  HoldsAt(plan, n - 1, plan[n].key)
  <2>1. PICK h, k : h = held[n - 1] /\ k = plan[n].key
    OBVIOUS
  <2>2. k \in KeyNames \ {"none"} /\ n - 1 \in 0..l /\ h \in Seq(KeyNames) /\ k \in ToSet(h)
    <3>1. plan[n] \in Strokes /\ n - 1 \in 0..l /\ h \in Seq(KeyNames)
      BY <1>2, <1>8, <2>1
    <3>2. k \in KeyNames \ {"none"}
      BY <1>8, <2>1, <3>1, StrokeIs
    <3>3. k \in ToSet(h)
      BY <1>2, <1>8, <2>1
    <3> QED
      BY ONLY <3>1, <3>2, <3>3
  <2>3. CountOf(h, k) = PressesTo(plan, n - 1, k) - LiftsTo(plan, n - 1, k)
    BY <1>3, <1>7, <2>1, <2>2
  <2>4. PlacesOf(h, k) # {}
    BY <2>2 DEF ToSet, PlacesOf
  <2>5. CountOf(h, k) \in Nat /\ CountOf(h, k) # 0
    BY <2>2, <2>4, PlacesAreFinite
  <2>6. PressesTo(plan, n - 1, k) \in Nat /\ LiftsTo(plan, n - 1, k) \in Nat
    <3>1. n - 1 \in Nat
      BY <1>2
    <3> QED
      BY <3>1, StrokesAreFinite DEF PressesTo, LiftsTo
  <2> QED
    BY <2>1, <2>3, <2>5, <2>6 DEF HoldsAt
<1> QED
  BY <1>1, <1>8 DEF IsSound

\* A plan that lifts but one key, after it pressed it.
LEMMA OneTapIsSound ==
  ASSUME NEW plan \in Seq(Strokes), NEW k \in KeyNames, NEW p \in 1..Len(plan), NEW e \in 1..Len(plan),
         p < e, plan[p] = Press(k), plan[e] = Lift(k),
         \A i \in 1..Len(plan) : i # e => plan[i].down \/ plan[i].key = "none"
  PROVE  IsSound(plan)
<1> SUFFICES ASSUME NEW n \in 1..Len(plan), ~plan[n].down, plan[n].key # "none"
             PROVE  HoldsAt(plan, n - 1, plan[n].key)
  BY DEF IsSound
<1>1. n = e /\ plan[n].key = k /\ n - 1 \in Nat /\ p \in Nat \ {0}
  BY StrokesDiffer
<1>2. LiftsTo(plan, n - 1, k) = 0
  <2>1. ASSUME NEW i \in (0 + 1)..(n - 1) PROVE plan[i] # Lift(k)
    <3>1. i \in 1..Len(plan) /\ i # e
      BY <1>1, <2>1
    <3>2. plan[i].down \/ plan[i].key = "none"
      BY <3>1
    <3> QED
      BY <1>1, <3>2, StrokesDiffer
  <2>2. StrokesTo(plan, n - 1, Lift(k)) = StrokesTo(plan, 0, Lift(k))
    BY <1>1, <2>1, NoMoreStrokes
  <2> QED
    BY <2>2, NoStrokesYet DEF LiftsTo
<1>3. PressesTo(plan, n - 1, k) > 0
  <2>1. StrokesTo(plan, p, Press(k)) = StrokesTo(plan, p - 1, Press(k)) + 1
    BY <1>1, OneMoreStroke
  <2>2. StrokesTo(plan, p, Press(k)) <= StrokesTo(plan, n - 1, Press(k))
    BY <1>1, StrokesGrow
  <2>3. p - 1 \in Nat
    BY <1>1
  <2>4. /\ StrokesTo(plan, p - 1, Press(k)) \in Nat /\ StrokesTo(plan, p, Press(k)) \in Nat
        /\ StrokesTo(plan, n - 1, Press(k)) \in Nat
    BY <1>1, <2>3, StrokesAreFinite
  <2> QED
    BY <2>1, <2>2, <2>4 DEF PressesTo
<1> QED
  BY <1>1, <1>2, <1>3 DEF HoldsAt

LEMMA MovesAreSound ==
  ASSUME NEW plan \in Seq(Strokes), \A i \in 1..Len(plan) : plan[i].down \/ plan[i].key = "none"
  PROVE  IsSound(plan)
BY DEF IsSound

SomeStrokes == SUBSET Seq(Strokes)

LEMMA NamedStrokes ==
  Named \subseteq Seq(Strokes)
<1>1. Press("a") \in Strokes /\ Lift("a") \in Strokes /\ Press("A") \in Strokes
      /\ Lift("A") \in Strokes /\ Press("Shift") \in Strokes
  BY DEF Strokes, KeyNames, Press, Lift
<1> QED
  BY <1>1 DEF Named, Tap

LEMMA MoreTypedKeeps ==
  ASSUME NEW T \in SomeStrokes
  PROVE  MoreTyped(T) \in SomeStrokes
<1>1. ASSUME NEW plan \in T, NEW k \in Named PROVE plan \o k \in Seq(Strokes)
  BY NamedStrokes DEF SomeStrokes
<1>2. ASSUME NEW x \in UNION {{plan \o k : k \in Named} : plan \in T} PROVE x \in Seq(Strokes)
  <2>1. PICK plan \in T : x \in {plan \o k : k \in Named}
    BY <1>2
  <2>2. PICK k \in Named : x = plan \o k
    BY <2>1
  <2> QED
    BY <1>1, <2>2
<1>3. \A x \in T : x \in Seq(Strokes)
  BY DEF SomeStrokes
<1>4. \A x \in MoreTyped(T) : x \in Seq(Strokes)
  BY <1>2, <1>3 DEF MoreTyped
<1> QED
  BY <1>4 DEF SomeStrokes

LEMMA TypedStepByStep ==
  /\ TypedIn \in [0..MaxKeystrokes -> SomeStrokes] /\ TypedIn[0] = {<< >>}
  /\ \A i \in 1..MaxKeystrokes : TypedIn[i] = MoreTyped(TypedIn[i - 1])
<1>1. PICK n, S, base : n = MaxKeystrokes /\ S = SomeStrokes /\ base = {<< >>}
  OBVIOUS
<1>2. n \in Nat /\ base \in S
  <2>1. << >> \in Seq(Strokes)
    OBVIOUS
  <2> QED
    BY <1>1, <2>1, ReleaseAssumption DEF SomeStrokes
<1>3. PICK step : step = [i \in 1..n |-> [T \in S |-> MoreTyped(T)]]
  OBVIOUS
<1>4. \A T \in S : MoreTyped(T) \in S
  BY <1>1, MoreTypedKeeps
<1>5. step \in [1..n -> [S -> S]]
  BY <1>3, <1>4
<1>6. PICK f \in [0..n -> S] : f[0] = base /\ \A i \in 1..n : f[i] = step[i][f[i - 1]]
  <2>1. HasTable(S, base, n, step)
    BY ONLY <1>2, <1>5, TableIsThere, Zenon
  <2> QED
    BY ONLY <2>1 DEF HasTable
<1>7. ASSUME NEW i \in 1..n PROVE f[i] = MoreTyped(f[i - 1])
  <2>1. f[i - 1] \in S
    BY <1>2, <1>6
  <2> QED
    BY <1>3, <1>6, <2>1
<1>8. f = [i \in 0..n |-> IF i = 0 THEN base ELSE MoreTyped(f[i - 1])]
  <2>1. ASSUME NEW i \in 0..n
        PROVE  f[i] = (IF i = 0 THEN base ELSE MoreTyped(f[i - 1]))
    <3>1. CASE i = 0
      BY <1>6, <3>1
    <3>2. CASE i # 0
      <4>1. i \in 1..n
        BY <1>2, <3>2
      <4> QED
        BY <1>7, <3>2, <4>1
    <3> QED
      BY <3>1, <3>2
  <2> QED
    BY <1>6, <2>1
<1>9. PICK g : g = TypedIn
  OBVIOUS
<1>10. g = [i \in 0..n |-> IF i = 0 THEN base ELSE MoreTyped(g[i - 1])]
  BY <1>1, <1>8, <1>9 DEF TypedIn
<1>11. g[0] = base /\ \A i \in 1..n : g[i] = MoreTyped(g[i - 1])
  BY <1>2, <1>10
<1>12. \A i \in 0..n : g[i] \in S
  <2>1. PICK P : P = {i \in 0..n : g[i] \in S}
    OBVIOUS
  <2>2. 0 \in P
    BY <1>2, <1>11, <2>1
  <2>3. ASSUME NEW i \in 1..n, i - 1 \in P PROVE i \in P
    BY <1>2, <1>11, <1>4, <2>1, <2>3
  <2>4. \A i \in 0..n : i \in P
    BY <1>2, <2>2, <2>3, CountUp
  <2> QED
    BY <2>1, <2>4
<1>13. g \in [0..n -> S]
  BY <1>10, <1>12
<1> QED
  BY <1>1, <1>9, <1>11, <1>13

\* What a request may inject lifts nothing it has not pressed before.
LEMMA PlansAreSound ==
  ASSUME ~LiftsFirst, NEW p \in Pipes, NEW plan \in Plans[p]
  PROVE  IsSound(plan)
<1>1. /\ Motion \in Strokes /\ Motion = Lift("none") /\ ~Motion.down /\ Motion.key = "none"
      /\ Press("left") \in Strokes /\ Lift("left") \in Strokes /\ Press("left").down
  BY DEF Strokes, KeyNames, Press, Lift, Motion
<1>2. CASE plan \in TypePlans
  <2>1. plan \in TypedIn[MaxKeystrokes] /\ LiftsWhatItPressed(plan)
    BY <1>2 DEF TypePlans
  <2>2. MaxKeystrokes \in 0..MaxKeystrokes
    BY ReleaseAssumption
  <2>3. plan \in Seq(Strokes)
    BY <2>1, <2>2, TypedStepByStep DEF SomeStrokes
  <2> QED
    BY <2>1, <2>3, NotedIsSound
<1>3. ASSUME NEW m \in 1..2, plan = DragPlan(m) PROVE IsSound(plan)
  <2>1. PICK moves : moves = [n \in 1..m |-> Motion]
    OBVIOUS
  <2>2. moves \in Seq(Strokes) /\ Len(moves) = m
    BY <1>1, <2>1
  <2>3. plan = << Motion, Press("left") >> \o moves \o << Lift("left") >>
    BY <1>3, <2>1 DEF DragPlan
  <2>4. plan \in Seq(Strokes) /\ Len(plan) = m + 3
    BY <1>1, <2>2, <2>3
  <2>5. plan[1] = Motion /\ plan[2] = Press("left") /\ plan[m + 3] = Lift("left")
        /\ \A i \in 3..(m + 2) : plan[i] = Motion
    BY <1>1, <2>1, <2>2, <2>3
  <2>6. ASSUME NEW i \in 1..Len(plan), i # m + 3 PROVE plan[i].down \/ plan[i].key = "none"
    BY <1>1, <2>4, <2>5, <2>6
  <2>7. "left" \in KeyNames /\ 2 \in 1..Len(plan) /\ m + 3 \in 1..Len(plan) /\ 2 < m + 3
    BY <2>4 DEF KeyNames
  <2> QED
    BY <2>4, <2>5, <2>6, <2>7, OneTapIsSound
<1>4. CASE plan = << Motion, Motion, Motion >> \/ plan = << Motion >>
  <2>1. PICK x \in Strokes : x = Motion
    BY <1>1
  <2>2. plan = << x, x, x >> \/ plan = << x >>
    BY <1>4, <2>1
  <2>3. plan \in Seq(Strokes) /\ \A i \in 1..Len(plan) : plan[i] = x
    <3>1. CASE plan = << x, x, x >>
      BY <3>1
    <3>2. CASE plan = << x >>
      BY <3>2
    <3> QED
      BY <2>2, <3>1, <3>2
  <2>4. \A i \in 1..Len(plan) : plan[i].key = "none"
    BY <1>1, <2>1, <2>3
  <2> QED
    BY <2>3, <2>4, MovesAreSound
<1>5. CASE plan = << Motion >> \o Tap("left")
  <2>1. PICK x, y, z : x = Motion /\ y = Press("left") /\ z = Lift("left")
    OBVIOUS
  <2>2. PICK s, t : s = << x >> /\ t = << y, z >>
    OBVIOUS
  <2>3. /\ s \in Seq(Strokes) /\ Len(s) = 1 /\ s[1] = x
        /\ t \in Seq(Strokes) /\ Len(t) = 2 /\ t[1] = y /\ t[2] = z
    BY <1>1, <2>1, <2>2
  <2>4. plan = s \o t
    BY <1>5, <2>1, <2>2 DEF Tap
  <2>5. /\ plan \in Seq(Strokes) /\ Len(plan) = Len(s) + Len(t)
        /\ \A i \in 1..(Len(s) + Len(t)) : plan[i] = IF i <= Len(s) THEN s[i] ELSE t[i - Len(s)]
    BY ONLY <2>3, <2>4, ConcatProperties
  <2>6. \A i \in 1..3 : plan[i] = IF i <= 1 THEN s[i] ELSE t[i - 1]
    BY ONLY <2>3, <2>5
  <2>7. plan \in Seq(Strokes) /\ Len(plan) = 3
    BY ONLY <2>3, <2>5
  <2>8. plan[1] = x /\ plan[2] = y /\ plan[3] = z
    BY <2>3, <2>6
  <2>9. ASSUME NEW i \in 1..Len(plan), i # 3 PROVE plan[i].down \/ plan[i].key = "none"
    <3>1. i = 1 \/ i = 2
      BY <2>7, <2>9
    <3> QED
      BY <1>1, <2>1, <2>8, <3>1
  <2>10. "left" \in KeyNames /\ 2 \in 1..Len(plan) /\ 3 \in 1..Len(plan)
    BY <2>7 DEF KeyNames
  <2> QED
    BY <2>1, <2>7, <2>8, <2>9, <2>10, OneTapIsSound
<1>6. \/ plan \in TypePlans \/ plan = DragPlan(2) \/ plan = DragPlan(1)
      \/ plan = << Motion, Motion, Motion >> \/ plan = << Motion >> \/ plan = << Motion >> \o Tap("left")
  BY DEF Pipes, Plans
<1> QED
  BY <1>2, <1>3, <1>4, <1>5, <1>6

-----------------------------------------------------------------------------
(* Release: a chunk is noted as the strokes of the plan it stands for.       *)

IsNext(part, plan, at) ==
  /\ part \in Seq(Strokes) /\ at \in 0..Len(plan) /\ at + Len(part) <= Len(plan)
  /\ \A i \in 1..Len(part) : part[i] = plan[at + i]

LEMMA NextIs ==
  ASSUME NEW plan \in Seq(Strokes), NEW part, NEW at, IsNext(part, plan, at)
  PROVE  /\ at \in Nat /\ Len(part) \in Nat /\ at + Len(part) \in 0..Len(plan) /\ Len(plan) \in Nat
         /\ \A i \in 1..Len(part) : /\ at + i \in 1..Len(plan) /\ part[i] = plan[at + i]
                                    /\ part[i] \in Strokes /\ (at + i) - 1 = at + (i - 1)
<1>1. part \in Seq(Strokes) /\ at \in 0..Len(plan) /\ at + Len(part) <= Len(plan)
      /\ \A i \in 1..Len(part) : part[i] = plan[at + i]
  BY DEF IsNext
<1>2. at \in Nat /\ Len(part) \in Nat /\ Len(plan) \in Nat /\ \A i \in 1..Len(part) : part[i] \in Strokes
  BY <1>1
<1> QED
  BY <1>1, <1>2

LEMMA KeysOfPresses ==
  ASSUME NEW x \in Strokes
  PROVE  PressesOf(x) \in Seq(KeyNames)
<1>1. x.key \in KeyNames /\ "Shift" \in KeyNames /\ "A" \in KeyNames
  BY StrokeIs DEF KeyNames
<1> QED
  BY <1>1 DEF PressesOf

LEMMA PressesAreNoted ==
  ASSUME NEW plan \in Seq(Strokes), NEW part, NEW at, IsNext(part, plan, at),
         NEW s, Agrees(s, plan, at, at)
  PROVE  Agrees(s \o Presses(part), plan, at + Len(part), at)
<1>1. PICK l, seqs : l = Len(part) /\ seqs = [n \in DOMAIN part |-> PressesOf(part[n])]
  OBVIOUS
<1>2. /\ at \in Nat /\ l \in Nat /\ at + l \in 0..Len(plan) /\ Len(plan) \in Nat
      /\ \A i \in 1..l : /\ at + i \in 1..Len(plan) /\ part[i] = plan[at + i]
                         /\ part[i] \in Strokes /\ (at + i) - 1 = at + (i - 1)
  BY <1>1, NextIs
<1>3. DOMAIN part = 1..l
  BY <1>1 DEF IsNext
<1>4. seqs \in Seq(Seq(KeyNames)) /\ Len(seqs) = l /\ \A i \in 1..l : seqs[i] = PressesOf(part[i])
  <2>1. seqs = [n \in 1..l |-> PressesOf(part[n])] /\ \A n \in 1..l : PressesOf(part[n]) \in Seq(KeyNames)
    BY <1>1, <1>2, <1>3, KeysOfPresses
  <2>2. PICK W : W = Seq(KeyNames)
    OBVIOUS
  <2>3. seqs \in [1..l -> W]
    BY <2>1, <2>2
  <2>4. seqs \in Seq(W) /\ Len(seqs) = l
    BY <1>2, <2>3
  <2> QED
    BY <2>1, <2>2, <2>4
<1>5. PICK F : IsLaid(F, KeyNames, seqs)
  BY <1>4, LaidExists
<1>6. Presses(part) = F[l]
  <2>1. FlattenSeq(seqs) = F[Len(seqs)]
    BY <1>4, <1>5, Flattened
  <2> QED
    BY <1>1, <1>4, <2>1 DEF Presses
<1>7. /\ F \in [0..l -> Seq(KeyNames)] /\ F[0] = << >>
      /\ \A i \in 1..l : F[i] = F[i - 1] \o seqs[i]
  BY ONLY <1>4, <1>5 DEF IsLaid
<1>8. s \in Seq(KeyNames)
  BY DEF Agrees
<1>9. PICK P : P = {i \in 0..l : Agrees(s \o F[i], plan, at + i, at)}
  OBVIOUS
<1>10. 0 \in P
  <2>1. s \o F[0] = s
    BY ONLY <1>7, <1>8, ConcatEmptySeq
  <2>2. 0 \in 0..l /\ at + 0 = at
    BY <1>2
  <2> QED
    BY <1>9, <2>1, <2>2
<1>11. ASSUME NEW i \in 1..l, i - 1 \in P PROVE i \in P
  <2>1. Agrees(s \o F[i - 1], plan, at + (i - 1), at)
    BY <1>9, <1>11
  <2>2. PICK m : m = at + i
    OBVIOUS
  <2>3. m \in 1..Len(plan) /\ m - 1 = at + (i - 1) /\ plan[m] = part[i] /\ part[i] \in Strokes
    BY <1>2, <2>2
  <2>4. PICK t : t = s \o F[i - 1]
    OBVIOUS
  <2>5. Agrees(t, plan, m - 1, at)
    BY <2>1, <2>3, <2>4
  <2>6. Agrees(t \o PressesOf(plan[m]), plan, m, at)
    BY <1>2, <2>3, <2>5, PressIsNoted
  <2>7. t \o PressesOf(plan[m]) = s \o F[i]
    <3>1. PICK u, v : u = F[i - 1] /\ v = seqs[i]
      OBVIOUS
    <3>2. i - 1 \in 0..l
      BY <1>2
    <3>3. u \in Seq(KeyNames) /\ v \in Seq(KeyNames) /\ F[i] = u \o v
      BY <1>2, <1>4, <1>7, <3>1, <3>2, KeysOfPresses
    <3>4. (s \o u) \o v = s \o (u \o v)
      BY ONLY <1>8, <3>3, ConcatAssociative
    <3>5. v = PressesOf(plan[m])
      BY <1>4, <2>3, <3>1
    <3> QED
      BY ONLY <2>4, <3>1, <3>3, <3>4, <3>5
  <2> QED
    BY <1>9, <2>2, <2>6, <2>7
<1>12. \A i \in 0..l : i \in P
  <2>1. \A i \in 1..l : i - 1 \in P => i \in P
    BY <1>11
  <2> QED
    BY <1>2, <1>10, <2>1, CountUp
<1> QED
  BY <1>1, <1>2, <1>6, <1>9, <1>12

LEMMA LiftsAreNoted ==
  ASSUME NEW plan, IsSound(plan), NEW part, NEW at, IsNext(part, plan, at),
         NEW s, Agrees(s, plan, at + Len(part), at)
  PROVE  Agrees(Lifted(s, part), plan, at + Len(part), at + Len(part))
<1>1. PICK l, left, e : l = Len(part) /\ left = Lifting(s, part) /\ e = at + Len(part)
  OBVIOUS
<1>2. plan \in Seq(Strokes)
  BY DEF IsSound
<1>3. /\ at \in Nat /\ l \in Nat /\ e \in 0..Len(plan) /\ Len(plan) \in Nat /\ e = at + l
      /\ \A i \in 1..l : /\ at + i \in 1..Len(plan) /\ part[i] = plan[at + i]
                         /\ part[i] \in Strokes /\ (at + i) - 1 = at + (i - 1)
  BY <1>1, <1>2, NextIs
<1>4. s \in Seq(KeyNames) /\ part \in Seq(Strokes)
  BY DEF Agrees, IsNext
<1>5. /\ left \in [0..l -> Seq(KeyNames)] /\ left[0] = s
      /\ \A i \in 1..l : left[i] = NoteLift(left[i - 1], part[i])
  BY <1>1, <1>4, LiftingStepByStep
<1>6. PICK P : P = {i \in 0..l : Agrees(left[i], plan, e, at + i)}
  OBVIOUS
<1>7. 0 \in P
  BY <1>1, <1>3, <1>5, <1>6
<1>8. ASSUME NEW i \in 1..l, i - 1 \in P PROVE i \in P
  <2>1. Agrees(left[i - 1], plan, e, at + (i - 1))
    BY <1>6, <1>8
  <2>2. PICK m : m = at + i
    OBVIOUS
  <2>3. m \in 1..Len(plan) /\ m - 1 = at + (i - 1) /\ plan[m] = part[i] /\ e \in m..Len(plan)
    <3>1. m \in 1..Len(plan) /\ m - 1 = at + (i - 1) /\ plan[m] = part[i]
      BY <1>3, <2>2
    <3>2. PICK p : p = Len(plan)
      OBVIOUS
    <3>3. at \in Nat /\ l \in Nat /\ p \in Nat /\ e \in 0..p /\ e = at + l
      BY <1>3, <3>2
    <3>4. e \in m..p
      BY ONLY <2>2, <3>3, i \in 1..l
    <3> QED
      BY <3>1, <3>2, <3>4
  <2>4. Agrees(left[i - 1], plan, e, m - 1)
    BY <2>1, <2>3
  <2>5. Agrees(NoteLift(left[i - 1], plan[m]), plan, e, m)
    BY <2>3, <2>4, LiftIsNoted
  <2> QED
    BY <1>5, <1>6, <2>2, <2>3, <2>5
<1>9. \A i \in 0..l : i \in P
  <2>1. \A i \in 1..l : i - 1 \in P => i \in P
    BY <1>8
  <2> QED
    BY <1>3, <1>7, <2>1, CountUp
<1>10. Agrees(left[l], plan, e, at + l)
  BY <1>3, <1>6, <1>9
<1> QED
  BY <1>1, <1>3, <1>10 DEF Lifted

-----------------------------------------------------------------------------
(* Release: what the events of a chunk leave down.                           *)

Codes(k) == IF k = "A" THEN {"a", "Shift"} ELSE {k}
IsDown(plan, n, x) == \E k \in KeyNames \ {"none"} : x \in Codes(k) /\ HoldsAt(plan, n, k)

LEMMA PressHolds ==
  ASSUME NEW plan, IsSound(plan), NEW n \in 1..Len(plan), NEW k \in KeyNames, plan[n] = Press(k)
  PROVE  /\ \A x : IsDown(plan, n - 1, x) => IsDown(plan, n, x)
         /\ \A x \in Codes(k) : IsDown(plan, n, x)
<1>1. n \in Nat \ {0} /\ n - 1 \in 0..Len(plan) /\ n - 1 \in Nat /\ plan[n] \in Strokes
  BY DEF IsSound
<1>2. k # "none"
  BY <1>1, StrokeIs, StrokesDiffer
<1>3. ASSUME NEW j \in KeyNames \ {"none"}
      PROVE  /\ PressesTo(plan, n, j) = PressesTo(plan, n - 1, j) + (IF j = k THEN 1 ELSE 0)
             /\ LiftsTo(plan, n, j) = LiftsTo(plan, n - 1, j)
             /\ PressesTo(plan, n - 1, j) \in Nat /\ LiftsTo(plan, n - 1, j) \in Nat
  <2>1. PressesTo(plan, n - 1, j) \in Nat /\ LiftsTo(plan, n - 1, j) \in Nat
    BY <1>1, StrokesAreFinite DEF PressesTo, LiftsTo
  <2>2. StrokesTo(plan, n, Press(j)) = StrokesTo(plan, n - 1, Press(j)) + (IF plan[n] = Press(j) THEN 1 ELSE 0)
    BY <1>1, OneMoreStroke
  <2>3. StrokesTo(plan, n, Lift(j)) = StrokesTo(plan, n - 1, Lift(j)) + (IF plan[n] = Lift(j) THEN 1 ELSE 0)
    BY <1>1, OneMoreStroke
  <2>4. plan[n] # Lift(j) /\ (plan[n] = Press(j) <=> j = k)
    BY StrokesDiffer
  <2> QED
    BY <2>1, <2>2, <2>3, <2>4 DEF PressesTo, LiftsTo
<1>4. ASSUME NEW j \in KeyNames \ {"none"}, HoldsAt(plan, n - 1, j) PROVE HoldsAt(plan, n, j)
  BY <1>3, <1>4 DEF HoldsAt
<1>5. HoldsAt(plan, n, k)
  <2>1. LiftsTo(plan, n - 1, k) <= PressesTo(plan, n - 1, k)
    BY <1>1, <1>2, NeverLiftedMore
  <2> QED
    BY <1>2, <1>3, <2>1 DEF HoldsAt
<1> QED
  BY <1>2, <1>4, <1>5 DEF IsDown

LEMMA LiftKeeps ==
  ASSUME NEW plan, IsSound(plan), NEW n \in 1..Len(plan), NEW k \in KeyNames, plan[n] = Lift(k),
         NEW x, IsDown(plan, n - 1, x), x \notin Codes(k)
  PROVE  IsDown(plan, n, x)
<1>1. n \in Nat \ {0} /\ n - 1 \in Nat
  OBVIOUS
<1>2. PICK j \in KeyNames \ {"none"} : x \in Codes(j) /\ HoldsAt(plan, n - 1, j)
  BY DEF IsDown
<1>3. j # k
  BY <1>2
<1>4. StrokesTo(plan, n, Press(j)) = StrokesTo(plan, n - 1, Press(j)) + (IF plan[n] = Press(j) THEN 1 ELSE 0)
  BY <1>1, OneMoreStroke
<1>5. StrokesTo(plan, n, Lift(j)) = StrokesTo(plan, n - 1, Lift(j)) + (IF plan[n] = Lift(j) THEN 1 ELSE 0)
  BY <1>1, OneMoreStroke
<1>6. plan[n] # Press(j) /\ plan[n] # Lift(j)
  BY <1>3, StrokesDiffer
<1>7. StrokesTo(plan, n - 1, Press(j)) \in Nat /\ StrokesTo(plan, n - 1, Lift(j)) \in Nat
  BY <1>1, StrokesAreFinite
<1>8. HoldsAt(plan, n, j)
  BY <1>2, <1>4, <1>5, <1>6, <1>7 DEF HoldsAt, PressesTo, LiftsTo
<1> QED
  BY <1>2, <1>8 DEF IsDown

\* What a sound plan holds where a chunk is under way is noted with the chunk.
LEMMA DownIsNoted ==
  ASSUME NEW plan, IsSound(plan), NEW part, NEW at, IsNext(part, plan, at),
         NEW s, Agrees(s, plan, at + Len(part), at), NEW j \in 0..Len(part), NEW x, IsDown(plan, at + j, x)
  PROVE  \E i \in 1..Len(s) : x \in Codes(s[i])
<1>1. PICK k \in KeyNames \ {"none"} : x \in Codes(k) /\ HoldsAt(plan, at + j, k)
  BY DEF IsDown
<1>2. PICK l, e, m : l = Len(part) /\ e = at + Len(part) /\ m = at + j
  OBVIOUS
<1>3. plan \in Seq(Strokes)
  BY DEF IsSound
<1>4. at \in Nat /\ l \in Nat /\ e = at + l
  BY <1>2, <1>3, NextIs
<1>5. m \in Nat /\ e \in Nat /\ at <= m /\ m <= e
  BY <1>2, <1>4
<1>6. CountOf(s, k) = DueOf(plan, e, at, k) /\ s \in Seq(KeyNames)
  BY <1>2 DEF Agrees
<1>7. PICK a, b, c, d, g : a = PressesTo(plan, e, k) /\ b = LiftsTo(plan, at, k) /\ c = PressesTo(plan, m, k)
                           /\ d = LiftsTo(plan, m, k) /\ g = PressesTo(plan, e, "A")
  OBVIOUS
<1>8. a \in Nat /\ b \in Nat /\ c \in Nat /\ d \in Nat /\ g \in Nat
  BY <1>4, <1>5, <1>7, StrokesAreFinite DEF PressesTo, LiftsTo
<1>9. c <= a
  BY <1>5, <1>7, StrokesGrow DEF PressesTo
<1>10. b <= d
  BY <1>4, <1>5, <1>7, StrokesGrow DEF LiftsTo
<1>11. d < c
  BY <1>1, <1>2, <1>7 DEF HoldsAt
<1>12. CountOf(s, k) # 0
  <2>1. CountOf(s, k) = (a - b) + (IF k = "Shift" THEN g ELSE 0)
    BY <1>6, <1>7 DEF DueOf
  <2> QED
    BY <1>8, <1>9, <1>10, <1>11, <2>1
<1>13. PlacesOf(s, k) # {}
  BY <1>6, <1>12, PlacesAreFinite
<1>14. PICK i \in 1..Len(s) : s[i] = k
  BY <1>6, <1>13 DEF PlacesOf
<1> QED
  BY <1>1, <1>14

EventsOf(part) == [n \in DOMAIN part |-> Events(part[n])]

LEMMA EventsAre ==
  ASSUME NEW x \in Strokes
  PROVE  /\ Events(x) \in Seq(Strokes)
         /\ x.key # "A" => Len(Events(x)) = 1 /\ Events(x)[1] = x
         /\ x = Press("A") => Len(Events(x)) = 2 /\ Events(x)[1] = Press("Shift") /\ Events(x)[2] = Press("a")
         /\ x = Lift("A") => Len(Events(x)) = 2 /\ Events(x)[1] = Lift("a") /\ Events(x)[2] = Lift("Shift")
         /\ x.key = "A" => x = Press("A") \/ x = Lift("A")
<1>1. PICK a, b, c, d : a = Press("Shift") /\ b = Press("a") /\ c = Lift("a") /\ d = Lift("Shift")
  OBVIOUS
<1>2. a \in Strokes /\ b \in Strokes /\ c \in Strokes /\ d \in Strokes
  BY <1>1 DEF Strokes, KeyNames, Press, Lift
<1>3. x.key = "A" => x = Press("A") \/ x = Lift("A")
  BY StrokeIs
<1>4. CASE x.key # "A"
  <2>1. Events(x) = << x >>
    BY <1>4 DEF Events
  <2>2. x # Press("A") /\ x # Lift("A")
    BY <1>4, StrokesDiffer
  <2> QED
    BY <1>4, <2>1, <2>2
<1>5. CASE x = Press("A")
  <2>1. x.key = "A" /\ x.down /\ x # Lift("A")
    BY <1>5, StrokesDiffer
  <2>2. Events(x) = << a, b >>
    BY <1>1, <2>1 DEF Events
  <2>3. << a, b >> \in Seq(Strokes) /\ Len(<< a, b >>) = 2 /\ << a, b >>[1] = a /\ << a, b >>[2] = b
    BY ONLY <1>2
  <2>4. Events(x) \in Seq(Strokes) /\ Len(Events(x)) = 2 /\ Events(x)[1] = a /\ Events(x)[2] = b
    BY ONLY <2>2, <2>3
  <2> QED
    BY ONLY <1>1, <1>5, <2>1, <2>4
<1>6. CASE x = Lift("A")
  <2>1. x.key = "A" /\ ~x.down /\ x # Press("A")
    BY <1>6, StrokesDiffer
  <2>2. Events(x) = << c, d >>
    BY <1>1, <2>1 DEF Events
  <2>3. << c, d >> \in Seq(Strokes) /\ Len(<< c, d >>) = 2 /\ << c, d >>[1] = c /\ << c, d >>[2] = d
    BY ONLY <1>2
  <2>4. Events(x) \in Seq(Strokes) /\ Len(Events(x)) = 2 /\ Events(x)[1] = c /\ Events(x)[2] = d
    BY ONLY <2>2, <2>3
  <2> QED
    BY ONLY <1>1, <1>6, <2>1, <2>4
<1> QED
  BY <1>3, <1>4, <1>5, <1>6

LEMMA ExpandedIs ==
  ASSUME NEW part \in Seq(Strokes)
  PROVE  /\ EventsOf(part) \in Seq(Seq(Strokes)) /\ Len(EventsOf(part)) = Len(part)
         /\ \A i \in 1..Len(part) : EventsOf(part)[i] = Events(part[i])
         /\ \E F : IsLaid(F, Strokes, EventsOf(part))
         /\ \A F : IsLaid(F, Strokes, EventsOf(part)) => Expanded(part) = F[Len(part)]
<1>1. PICK l, seqs, W : l = Len(part) /\ seqs = EventsOf(part) /\ W = Seq(Strokes)
  OBVIOUS
<1>2. l \in Nat /\ DOMAIN part = 1..l /\ \A i \in 1..l : part[i] \in Strokes
  BY <1>1
<1>3. seqs = [n \in 1..l |-> Events(part[n])] /\ \A n \in 1..l : Events(part[n]) \in W
  BY <1>1, <1>2, EventsAre DEF EventsOf
<1>4. seqs \in [1..l -> W]
  BY <1>3
<1>5. seqs \in Seq(W) /\ Len(seqs) = l
  BY <1>2, <1>4
<1>6. \E F : IsLaid(F, Strokes, seqs)
  BY <1>1, <1>5, LaidExists
<1>7. ASSUME NEW F, IsLaid(F, Strokes, seqs) PROVE Expanded(part) = F[l]
  <2>1. FlattenSeq(seqs) = F[Len(seqs)]
    BY <1>1, <1>5, <1>7, Flattened
  <2> QED
    BY <1>1, <1>5, <2>1 DEF Expanded, EventsOf
<1>8. \A i \in 1..l : seqs[i] = Events(part[i])
  BY <1>3
<1> QED
  BY <1>1, <1>5, <1>6, <1>7, <1>8

\* The events of one stroke of a chunk.
LEMMA StrokeEvents ==
  ASSUME NEW part \in Seq(Strokes), NEW F, IsLaid(F, Strokes, EventsOf(part)), NEW i \in 1..Len(part)
  PROVE  /\ Len(F[i - 1]) \in Nat /\ Len(Events(part[i])) \in Nat /\ Len(Expanded(part)) \in Nat
         /\ Len(F[i]) = Len(F[i - 1]) + Len(Events(part[i])) /\ Len(F[i]) <= Len(Expanded(part))
         /\ \A x \in 1..Len(Events(part[i])) :
              Expanded(part)[Len(F[i - 1]) + x] = Events(part[i])[x]
<1>1. PICK seqs, l, all : seqs = EventsOf(part) /\ l = Len(part) /\ all = Expanded(part)
  OBVIOUS
<1>2. /\ seqs \in Seq(Seq(Strokes)) /\ Len(seqs) = l /\ \A k \in 1..l : seqs[k] = Events(part[k])
      /\ all = F[l] /\ IsLaid(F, Strokes, seqs)
  BY <1>1, ExpandedIs
<1>3. i \in 1..Len(seqs) /\ seqs[i] = Events(part[i])
  BY <1>1, <1>2
<1>4. /\ Len(F[i - 1]) \in Nat /\ Len(seqs[i]) \in Nat /\ Len(F[i]) = Len(F[i - 1]) + Len(seqs[i])
      /\ \A x \in 1..Len(seqs[i]) : F[Len(seqs)][Len(F[i - 1]) + x] = seqs[i][x]
  <2>1. LaidAfter(F, seqs, i)
    BY ONLY <1>2, <1>3, LaidNext, Zenon
  <2> QED
    BY ONLY <2>1 DEF LaidAfter
<1>5. PICK j \in 0..Len(seqs), k \in 0..Len(seqs) : j = i /\ k = l /\ j <= k
  BY <1>1, <1>2
<1>6. Begins(F, j, k)
  BY ONLY <1>2, <1>5, LaidInOrder, Zenon
<1>7. Len(F[i]) <= Len(all) /\ Len(all) \in Nat
  BY ONLY <1>2, <1>5, <1>6 DEF Begins
<1> QED
  BY ONLY <1>1, <1>2, <1>3, <1>4, <1>7

\* How far into a chunk the events sent are: between two strokes, or half way through an "A".
BetweenStrokes(plan, at, F, j, done, down) ==
  done = Len(F[j]) /\ \A x \in down : IsDown(plan, at + j, x)
HalfPressed(plan, at, part, F, j, done, down) ==
  /\ j < Len(part) /\ done = Len(F[j]) + 1 /\ part[j + 1] = Press("A")
  /\ \A x \in down \ {"Shift"} : IsDown(plan, at + j, x)
HalfLifted(plan, at, part, F, j, done, down) ==
  /\ j < Len(part) /\ done = Len(F[j]) + 1 /\ part[j + 1] = Lift("A")
  /\ "a" \notin down /\ \A x \in down : IsDown(plan, at + j, x)
Reaches(plan, at, part, F, done, down) ==
  \E j \in 0..Len(part) : \/ BetweenStrokes(plan, at, F, j, done, down)
                          \/ HalfPressed(plan, at, part, F, j, done, down)
                          \/ HalfLifted(plan, at, part, F, j, done, down)
After(e, down) == IF e.down THEN down \union {e.key} ELSE down \ {e.key}

LEMMA FirstOfStroke ==
  ASSUME NEW plan, IsSound(plan), NEW part, NEW at, IsNext(part, plan, at),
         NEW F, IsLaid(F, Strokes, EventsOf(part)), NEW i \in 1..Len(part),
         NEW down, \A x \in down : IsDown(plan, at + (i - 1), x)
  PROVE  Reaches(plan, at, part, F, Len(F[i - 1]) + 1, After(Expanded(part)[Len(F[i - 1]) + 1], down))
<1>1. PICK s, n, p, e, after : /\ s = part[i] /\ n = at + i /\ p = Len(F[i - 1])
                               /\ e = Expanded(part)[p + 1] /\ after = After(e, down)
  OBVIOUS
<1>2. plan \in Seq(Strokes) /\ part \in Seq(Strokes)
  BY DEF IsSound, IsNext
<1>3. n \in 1..Len(plan) /\ n - 1 = at + (i - 1) /\ plan[n] = s /\ s \in Strokes
      /\ Len(part) \in Nat /\ i \in 0..Len(part) /\ i - 1 \in 0..Len(part) /\ i - 1 < Len(part) /\ (i - 1) + 1 = i
  BY <1>1, <1>2, NextIs, SMTT(60)
<1>4. /\ p \in Nat /\ Len(F[i]) = p + Len(Events(s)) /\ Len(Events(s)) \in Nat
      /\ \A x \in 1..Len(Events(s)) : Expanded(part)[p + x] = Events(s)[x]
  BY <1>1, <1>2, StrokeEvents
<1>5. s.key \in KeyNames /\ s.down \in BOOLEAN /\ (s.down => s = Press(s.key)) /\ (~s.down => s = Lift(s.key))
  BY <1>3, StrokeIs
<1>6. \A x \in down : IsDown(plan, n - 1, x)
  BY <1>3
<1>7. CASE s.key # "A"
  <2>1. Len(Events(s)) = 1 /\ Events(s)[1] = s
    BY <1>3, <1>7, EventsAre
  <2>2. e = s /\ p + 1 = Len(F[i])
    BY <1>1, <1>4, <2>1
  <2>3. Codes(s.key) = {s.key}
    BY <1>7 DEF Codes
  <2>4. ASSUME NEW x \in after PROVE IsDown(plan, n, x)
    <3>1. CASE s.down
      <4>1. x \in down \/ x \in Codes(s.key)
        BY <1>1, <2>2, <2>3, <2>4, <3>1 DEF After
      <4>2. plan[n] = Press(s.key)
        BY <1>3, <1>5, <3>1
      <4> QED
        BY <1>3, <1>5, <1>6, <4>1, <4>2, PressHolds
    <3>2. CASE ~s.down
      <4>1. x \in down /\ x \notin Codes(s.key)
        BY <1>1, <2>2, <2>3, <2>4, <3>2 DEF After
      <4>2. plan[n] = Lift(s.key)
        BY <1>3, <1>5, <3>2
      <4> QED
        BY <1>3, <1>5, <1>6, <4>1, <4>2, LiftKeeps
    <3> QED
      BY <3>1, <3>2
  <2>5. BetweenStrokes(plan, at, F, i, p + 1, after)
    BY <1>1, <2>2, <2>4 DEF BetweenStrokes
  <2> QED
    BY <1>1, <1>3, <2>5 DEF Reaches
<1>8. CASE s = Press("A")
  <2>1. Len(Events(s)) = 2 /\ Events(s)[1] = Press("Shift")
    BY <1>3, <1>8, EventsAre
  <2>2. e = Press("Shift")
    BY <1>1, <1>4, <2>1
  <2>3. after = down \union {"Shift"}
    BY <1>1, <2>2, StrokesDiffer DEF After
  <2>4. HalfPressed(plan, at, part, F, i - 1, p + 1, after)
    BY <1>1, <1>3, <1>6, <1>8, <2>3 DEF HalfPressed
  <2> QED
    BY <1>1, <1>3, <2>4 DEF Reaches
<1>9. CASE s = Lift("A")
  <2>1. Len(Events(s)) = 2 /\ Events(s)[1] = Lift("a")
    BY <1>3, <1>9, EventsAre
  <2>2. e = Lift("a")
    BY <1>1, <1>4, <2>1
  <2>3. after = down \ {"a"}
    BY <1>1, <2>2, StrokesDiffer DEF After
  <2>4. HalfLifted(plan, at, part, F, i - 1, p + 1, after)
    BY <1>1, <1>3, <1>6, <1>9, <2>3 DEF HalfLifted
  <2> QED
    BY <1>1, <1>3, <2>4 DEF Reaches
<1>10. s.key = "A" => s = Press("A") \/ s = Lift("A")
  BY <1>3, EventsAre
<1> QED
  BY <1>7, <1>8, <1>9, <1>10

LEMMA SecondOfStroke ==
  ASSUME NEW plan, IsSound(plan), NEW part, NEW at, IsNext(part, plan, at),
         NEW F, IsLaid(F, Strokes, EventsOf(part)), NEW i \in 1..Len(part), NEW done, NEW down,
         \/ HalfPressed(plan, at, part, F, i - 1, done, down)
         \/ HalfLifted(plan, at, part, F, i - 1, done, down)
  PROVE  Reaches(plan, at, part, F, done + 1, After(Expanded(part)[done + 1], down))
<1>1. PICK s, n, p, e, after : /\ s = part[i] /\ n = at + i /\ p = Len(F[i - 1])
                               /\ e = Expanded(part)[done + 1] /\ after = After(e, down)
  OBVIOUS
<1>2. plan \in Seq(Strokes) /\ part \in Seq(Strokes)
  BY DEF IsSound, IsNext
<1>3. n \in 1..Len(plan) /\ n - 1 = at + (i - 1) /\ plan[n] = s /\ s \in Strokes
      /\ Len(part) \in Nat /\ i \in 0..Len(part) /\ (i - 1) + 1 = i
  BY <1>1, <1>2, NextIs, SMTT(60)
<1>4. /\ p \in Nat /\ Len(F[i]) = p + Len(Events(s)) /\ Len(Events(s)) \in Nat
      /\ \A x \in 1..Len(Events(s)) : Expanded(part)[p + x] = Events(s)[x]
  BY <1>1, <1>2, StrokeEvents
<1>5. done = p + 1 /\ (s = Press("A") \/ s = Lift("A"))
  BY <1>1, <1>3 DEF HalfPressed, HalfLifted
<1>6. Len(Events(s)) = 2 /\ done + 1 = p + 2 /\ 2 \in 1..Len(Events(s))
  BY <1>3, <1>4, <1>5, EventsAre
<1>7. done + 1 = Len(F[i]) /\ e = Events(s)[2]
  BY <1>1, <1>4, <1>6
<1>8. Codes("A") = {"a", "Shift"} /\ "A" \in KeyNames
  BY DEF Codes, KeyNames
<1>9. CASE s = Press("A")
  <2>1. \A x \in down \ {"Shift"} : IsDown(plan, n - 1, x)
    BY <1>1, <1>3, <1>9, StrokesDiffer DEF HalfPressed, HalfLifted
  <2>2. e = Press("a")
    BY <1>3, <1>7, <1>9, EventsAre
  <2>3. after = down \union {"a"}
    BY <1>1, <2>2, StrokesDiffer DEF After
  <2>4. ASSUME NEW x \in after PROVE IsDown(plan, n, x)
    <3>1. x \in Codes("A") \/ IsDown(plan, n - 1, x)
      BY <1>8, <2>1, <2>3, <2>4
    <3> QED
      BY <1>3, <1>8, <1>9, <3>1, PressHolds
  <2>5. BetweenStrokes(plan, at, F, i, done + 1, after)
    BY <1>1, <1>7, <2>4 DEF BetweenStrokes
  <2> QED
    BY <1>1, <1>3, <2>5 DEF Reaches
<1>10. CASE s = Lift("A")
  <2>1. "a" \notin down /\ \A x \in down : IsDown(plan, n - 1, x)
    <3>1. part[(i - 1) + 1] # Press("A")
      <4>1. Lift("A") # Press("A")
        BY StrokesDiffer
      <4> QED
        BY <1>1, <1>3, <1>10, <4>1
    <3>2. HalfLifted(plan, at, part, F, i - 1, done, down)
      BY <3>1 DEF HalfPressed
    <3> QED
      BY <1>3, <3>2 DEF HalfLifted
  <2>2. e = Lift("Shift")
    BY <1>3, <1>7, <1>10, EventsAre
  <2>3. after = down \ {"Shift"}
    BY <1>1, <2>2, StrokesDiffer DEF After
  <2>4. ASSUME NEW x \in after PROVE IsDown(plan, n, x)
    <3>1. x \notin Codes("A") /\ IsDown(plan, n - 1, x)
      BY <1>8, <2>1, <2>3, <2>4
    <3> QED
      BY <1>3, <1>8, <1>10, <3>1, LiftKeeps
  <2>5. BetweenStrokes(plan, at, F, i, done + 1, after)
    BY <1>1, <1>7, <2>4 DEF BetweenStrokes
  <2> QED
    BY <1>1, <1>3, <2>5 DEF Reaches
<1> QED
  BY <1>5, <1>9, <1>10

LEMMA EventTaken ==
  ASSUME NEW plan, IsSound(plan), NEW part, NEW at, IsNext(part, plan, at),
         NEW F, IsLaid(F, Strokes, EventsOf(part)), NEW done, NEW down,
         Reaches(plan, at, part, F, done, down), done < Len(Expanded(part))
  PROVE  Reaches(plan, at, part, F, done + 1, After(Expanded(part)[done + 1], down))
<1>1. PICK j \in 0..Len(part) : \/ BetweenStrokes(plan, at, F, j, done, down)
                                \/ HalfPressed(plan, at, part, F, j, done, down)
                                \/ HalfLifted(plan, at, part, F, j, done, down)
  BY DEF Reaches
<1>2. part \in Seq(Strokes) /\ Len(part) \in Nat
  BY DEF IsNext
<1>3. j # Len(part)
  <2> SUFFICES ASSUME j = Len(part) PROVE FALSE
    OBVIOUS
  <2>1. BetweenStrokes(plan, at, F, j, done, down)
    BY <1>1, <1>2 DEF HalfPressed, HalfLifted
  <2>2. Expanded(part) = F[Len(part)] /\ IsLaid(F, Strokes, EventsOf(part))
        /\ EventsOf(part) \in Seq(Seq(Strokes)) /\ Len(EventsOf(part)) = Len(part)
    BY <1>2, ExpandedIs
  <2>3. F[Len(part)] \in Seq(Strokes)
    BY <1>2, <2>2 DEF IsLaid
  <2> QED
    BY <2>1, <2>2, <2>3 DEF BetweenStrokes
<1>4. PICK i \in 1..Len(part) : j = i - 1 /\ i = j + 1
  BY <1>1, <1>2, <1>3
<1>5. CASE BetweenStrokes(plan, at, F, j, done, down)
  <2>1. done = Len(F[i - 1]) /\ \A x \in down : IsDown(plan, at + (i - 1), x)
    BY <1>4, <1>5 DEF BetweenStrokes
  <2> QED
    BY <2>1, FirstOfStroke
<1> QED
  BY <1>1, <1>4, <1>5, SecondOfStroke

LEMMA ReachedIsNoted ==
  ASSUME NEW plan, IsSound(plan), NEW part, NEW at, IsNext(part, plan, at), NEW F, NEW done, NEW down,
         Reaches(plan, at, part, F, done, down), NEW s, Agrees(s, plan, at + Len(part), at), NEW x \in down
  PROVE  \E i \in 1..Len(s) : x \in Codes(s[i])
<1>1. PICK j \in 0..Len(part) : \/ BetweenStrokes(plan, at, F, j, done, down)
                                \/ HalfPressed(plan, at, part, F, j, done, down)
                                \/ HalfLifted(plan, at, part, F, j, done, down)
  BY DEF Reaches
<1>2. CASE IsDown(plan, at + j, x)
  BY <1>2, DownIsNoted
<1>3. CASE ~IsDown(plan, at + j, x)
  <2>1. HalfPressed(plan, at, part, F, j, done, down) /\ x = "Shift"
    BY <1>1, <1>3 DEF BetweenStrokes, HalfPressed, HalfLifted
  <2>2. part[j + 1] = Press("A") /\ j < Len(part)
    BY <2>1 DEF HalfPressed
  <2>3. plan \in Seq(Strokes) /\ Len(part) \in Nat
    BY DEF IsSound, IsNext
  <2>4. PICK i \in 1..Len(part) : i = j + 1 /\ i \in 0..Len(part)
    BY <2>2, <2>3
  <2>5. at + i \in 1..Len(plan) /\ plan[at + i] = Press("A")
    BY <2>2, <2>3, <2>4, NextIs
  <2>6. "A" \in KeyNames /\ x \in Codes("A")
    BY <2>1 DEF KeyNames, Codes
  <2>7. IsDown(plan, at + i, x)
    BY <2>5, <2>6, PressHolds
  <2> QED
    BY <2>4, <2>7, DownIsNoted
<1> QED
  BY <1>2, <1>3

LEMMA ReachedTheEnd ==
  ASSUME NEW plan, IsSound(plan), NEW part, NEW at, IsNext(part, plan, at),
         NEW F, IsLaid(F, Strokes, EventsOf(part)), NEW done, NEW down,
         Reaches(plan, at, part, F, done, down), done = Len(Expanded(part))
  PROVE  \A x \in down : IsDown(plan, at + Len(part), x)
<1>1. PICK j \in 0..Len(part) : \/ BetweenStrokes(plan, at, F, j, done, down)
                                \/ HalfPressed(plan, at, part, F, j, done, down)
                                \/ HalfLifted(plan, at, part, F, j, done, down)
  BY DEF Reaches
<1>2. part \in Seq(Strokes) /\ Len(part) \in Nat
  BY DEF IsNext
<1>3. j = Len(part)
  <2> SUFFICES ASSUME j # Len(part) PROVE FALSE
    OBVIOUS
  <2>1. PICK i \in 1..Len(part) : i - 1 = j /\ i = j + 1
    BY <1>1, <1>2
  <2>2. PICK s : s = part[i]
    OBVIOUS
  <2>3. s \in Strokes
    BY <1>2, <2>2
  <2>4. /\ Len(F[j]) \in Nat /\ Len(Events(s)) \in Nat /\ done \in Nat
        /\ Len(F[j]) + Len(Events(s)) <= done
    BY <1>2, <2>1, <2>2, StrokeEvents
  <2>5. Len(Events(s)) >= 1 /\ (s = Press("A") \/ s = Lift("A") => Len(Events(s)) = 2)
    BY <2>3, EventsAre
  <2>6. done = Len(F[j]) \/ (done = Len(F[j]) + 1 /\ (s = Press("A") \/ s = Lift("A")))
    BY <1>1, <2>1, <2>2 DEF BetweenStrokes, HalfPressed, HalfLifted
  <2> QED
    BY <2>4, <2>5, <2>6
<1>4. BetweenStrokes(plan, at, F, j, done, down)
  BY <1>1, <1>2, <1>3 DEF HalfPressed, HalfLifted
<1> QED
  BY <1>3, <1>4 DEF BetweenStrokes

-----------------------------------------------------------------------------
(* Release: the next chunk, and what the guard gives back.                   *)

LEMMA ChunkEndsInside ==
  ASSUME NEW strokes \in Seq(Strokes)
  PROVE  ChunkEnds(strokes)[ChunkKeystrokes] \in 0..Len(strokes)
<1>1. PICK n, l, S, base : n = ChunkKeystrokes /\ l = Len(strokes) /\ S = 0..Len(strokes) /\ base = 0
  OBVIOUS
<1>2. n \in Nat /\ l \in Nat /\ base \in S
  BY <1>1, ReleaseAssumption
<1>3. ASSUME NEW i \in S PROVE PastOne(strokes, i) \in S
  <2>1. CASE i = l
    BY <1>1, <2>1 DEF PastOne
  <2>2. CASE i # l
    <3>1. PICK t : t = SubSeq(strokes, i + 1, l)
      OBVIOUS
    <3>2. i \in Nat /\ i < l
      BY <1>1, <1>2, <2>2
    <3>3. Len(t) = l - i
      BY <1>1, <1>2, <3>1, <3>2
    <3>4. Width(t) = 1 \/ (Width(t) = 2 /\ Len(t) > 1)
      BY DEF Width
    <3>5. PastOne(strokes, i) = i + Width(t)
      BY <1>1, <2>2, <3>1 DEF PastOne
    <3> QED
      BY <1>1, <1>2, <3>2, <3>3, <3>4, <3>5
  <2> QED
    BY <2>1, <2>2
<1>4. PICK step : step = [i \in 1..n |-> [s \in S |-> PastOne(strokes, s)]]
  OBVIOUS
<1>5. step \in [1..n -> [S -> S]]
  BY <1>3, <1>4
<1>6. PICK f \in [0..n -> S] : f[0] = base /\ \A i \in 1..n : f[i] = step[i][f[i - 1]]
  <2>1. HasTable(S, base, n, step)
    BY ONLY <1>2, <1>5, TableIsThere, Zenon
  <2> QED
    BY ONLY <2>1 DEF HasTable
<1>7. ASSUME NEW i \in 1..n PROVE f[i] = PastOne(strokes, f[i - 1])
  <2>1. f[i - 1] \in S
    BY <1>2, <1>6
  <2> QED
    BY <1>4, <1>6, <2>1
<1>8. f = [i \in 0..n |-> IF i = 0 THEN 0 ELSE PastOne(strokes, f[i - 1])]
  <2>1. ASSUME NEW i \in 0..n
        PROVE  f[i] = (IF i = 0 THEN 0 ELSE PastOne(strokes, f[i - 1]))
    <3>1. CASE i = 0
      BY <1>1, <1>6, <3>1
    <3>2. CASE i # 0
      <4>1. i \in 1..n
        BY <1>2, <3>2
      <4> QED
        BY <1>7, <3>2, <4>1
    <3> QED
      BY <3>1, <3>2
  <2> QED
    BY <1>6, <2>1
<1>9. PICK g : g = ChunkEnds(strokes)
  OBVIOUS
<1>10. g = [i \in 0..n |-> IF i = 0 THEN 0 ELSE PastOne(strokes, g[i - 1])]
  BY <1>1, <1>8, <1>9 DEF ChunkEnds
<1>11. PICK P : P = {i \in 0..n : g[i] \in S}
  OBVIOUS
<1>12. 0 \in P
  BY <1>1, <1>2, <1>10, <1>11
<1>13. ASSUME NEW i \in 1..n, i - 1 \in P PROVE i \in P
  BY <1>2, <1>3, <1>10, <1>11, <1>13
<1>14. \A i \in 0..n : i \in P
  <2>1. \A i \in 1..n : i - 1 \in P => i \in P
    BY <1>13
  <2> QED
    BY <1>2, <1>12, <2>1, CountUp
<1> QED
  BY <1>1, <1>2, <1>9, <1>11, <1>14

\* Every pipe takes its next chunk from the front of what is left.
LEMMA ChunkIsFront ==
  ASSUME rest \in Seq(Strokes), pipe \in Pipes
  PROVE  \E c \in 0..Len(rest) : NextChunk = SubSeq(rest, 1, c)
<1>1. Len(rest) \in Nat /\ PointerBatch \in Nat
  BY ReleaseAssumption
<1>2. CASE pipe = "keyboard"
  <2>1. NextChunk = SubSeq(rest, 1, ChunkEnds(rest)[ChunkKeystrokes])
    BY <1>2 DEF NextChunk, TakeKeystrokes
  <2> QED
    BY <2>1, ChunkEndsInside
<1>3. CASE pipe = "pointer"
  <2>1. PICK c : c = IF Len(rest) < PointerBatch THEN Len(rest) ELSE PointerBatch
    OBVIOUS
  <2>2. NextChunk = SubSeq(rest, 1, c)
    BY <1>3, <2>1 DEF NextChunk
  <2>3. c \in 0..Len(rest)
    BY <1>1, <2>1
  <2> QED
    BY <2>2, <2>3
<1>4. CASE pipe = "call"
  <2>1. NextChunk = rest
    BY <1>4 DEF NextChunk
  <2>2. SubSeq(rest, 1, Len(rest)) = rest
    BY SubSeqFull
  <2>3. Len(rest) \in 0..Len(rest)
    BY <1>1
  <2> QED
    BY ONLY <2>1, <2>2, <2>3
<1> QED
  BY <1>2, <1>3, <1>4 DEF Pipes

LEMMA FrontIsNext ==
  ASSUME NEW plan \in Seq(Strokes), NEW all, NEW at, IsNext(all, plan, at), NEW c \in 0..Len(all)
  PROVE  IsNext(SubSeq(all, 1, c), plan, at)
<1>1. /\ all \in Seq(Strokes) /\ at \in 0..Len(plan) /\ at + Len(all) <= Len(plan)
      /\ \A i \in 1..Len(all) : all[i] = plan[at + i]
  BY DEF IsNext
<1>2. Len(all) \in Nat /\ c \in Nat /\ at \in Nat /\ Len(plan) \in Nat
  BY <1>1
<1>3. PICK t : t = SubSeq(all, 1, c)
  OBVIOUS
<1>4. t \in Seq(Strokes) /\ Len(t) = c /\ \A i \in 1..c : t[i] = all[i]
  BY <1>1, <1>2, <1>3
<1> QED
  BY <1>1, <1>2, <1>3, <1>4 DEF IsNext

LEMMA RestIsNext ==
  ASSUME NEW plan \in Seq(Strokes), NEW all, NEW at, IsNext(all, plan, at), at + Len(all) = Len(plan),
         NEW c \in 0..Len(all)
  PROVE  LET left == SubSeq(all, c + 1, Len(all))
         IN IsNext(left, plan, at + c) /\ (at + c) + Len(left) = Len(plan)
<1>1. /\ all \in Seq(Strokes) /\ at \in 0..Len(plan) /\ at + Len(all) = Len(plan)
      /\ \A i \in 1..Len(all) : all[i] = plan[at + i]
  BY DEF IsNext
<1>2. PICK n : n = Len(all)
  OBVIOUS
<1>3. n \in Nat /\ c \in Nat /\ at \in Nat /\ Len(plan) \in Nat /\ c <= n
  BY <1>1, <1>2
<1>4. PICK t : t = SubSeq(all, c + 1, n)
  OBVIOUS
<1>5. t \in Seq(Strokes) /\ Len(t) = n - c /\ \A i \in 1..(n - c) : t[i] = all[c + i]
  <2>1. ASSUME NEW i \in (c + 1)..n PROVE all[i] \in Strokes
    BY <1>1, <1>2, <1>3
  <2>2. c + 1 \in Int /\ n \in Int
    BY <1>3
  <2>3. /\ t \in Seq(Strokes) /\ Len(t) = IF c + 1 <= n THEN n - (c + 1) + 1 ELSE 0
        /\ \A i \in 1..(n - (c + 1) + 1) : t[i] = all[(c + 1) + i - 1]
    BY <1>4, <2>1, <2>2, SubSeqProperties
  <2>4. \A i \in 1..(n - c) : (c + 1) + i - 1 = c + i
    BY <1>3
  <2>5. n - (c + 1) + 1 = n - c
    BY <1>3
  <2> QED
    BY <1>3, <2>3, <2>4, <2>5
<1>6. ASSUME NEW i \in 1..(n - c) PROVE t[i] = plan[(at + c) + i]
  <2>1. c + i \in 1..n /\ at + (c + i) = (at + c) + i
    BY <1>3
  <2> QED
    BY <1>1, <1>2, <1>5, <2>1
<1>7. at + c \in 0..Len(plan) /\ (at + c) + Len(t) = Len(plan)
  <2>1. PICK m, u : m = Len(plan) /\ u = Len(t)
    OBVIOUS
  <2>2. m \in Nat /\ at \in 0..m /\ at + n = m /\ u = n - c
    BY <1>1, <1>2, <1>3, <1>5, <2>1
  <2>3. at + c \in 0..m /\ (at + c) + u = m
    BY ONLY <1>3, <2>2
  <2> QED
    BY <2>1, <2>3
<1>8. IsNext(t, plan, at + c)
  <2>1. PICK m, b : m = Len(plan) /\ b = at + c
    OBVIOUS
  <2>2. b \in 0..m /\ b + Len(t) <= m
    BY <1>3, <1>7, <2>1
  <2>3. \A i \in 1..Len(t) : t[i] = plan[b + i]
    BY <1>5, <1>6, <2>1
  <2> QED
    BY ONLY <1>5, <2>1, <2>2, <2>3 DEF IsNext
<1> QED
  BY <1>2, <1>4, <1>7, <1>8

LEMMA ExpandedOne ==
  ASSUME NEW x \in Strokes
  PROVE  Expanded(<< x >>) = Events(x)
<1>1. PICK part : part = << x >>
  OBVIOUS
<1>2. part \in Seq(Strokes) /\ Len(part) = 1 /\ part[1] = x
  BY <1>1
<1>3. PICK F : IsLaid(F, Strokes, EventsOf(part))
  BY <1>2, ExpandedIs
<1>4. Expanded(part) = F[1] /\ Len(EventsOf(part)) = 1 /\ EventsOf(part)[1] = Events(x)
  BY <1>2, <1>3, ExpandedIs
<1>5. F[0] = << >> /\ F[1] = F[0] \o Events(x)
  <2>1. 1 \in 1..1 /\ 1 - 1 = 0
    OBVIOUS
  <2> QED
    BY <1>3, <1>4, <2>1 DEF IsLaid
<1>6. Events(x) \in Seq(Strokes)
  BY EventsAre
<1> QED
  BY ONLY <1>1, <1>4, <1>5, <1>6, ConcatEmptySeq

Covered(s, down, lost) == \A x \in down : x \in lost \/ \E i \in 1..Len(s) : x \in Codes(s[i])

\* release(): the last key noted is lifted, or its lifting is lost.
LEMMA ReleasedIsCovered ==
  ASSUME NEW s \in Seq(KeyNames), s # << >>, ShiftIsFirst(s), NEW down, NEW ref, Covered(s, down, ref),
         NEW lifts, lifts = Expanded(<< Lift(Last(s)) >>), NEW taken \in 0..Len(lifts), NEW keys,
         keys = {lifts[i].key : i \in 1..taken}, NEW lost,
         lost = IF taken = Len(lifts) THEN {} ELSE {lifts[taken + 1].key}
  PROVE  /\ Front(s) \in Seq(KeyNames) /\ ShiftIsFirst(Front(s))
         /\ Covered(Front(s), down \ keys, (ref \ keys) \union lost)
<1>1. PICK n, k, t : n = Len(s) /\ k = Last(s) /\ t = Front(s)
  OBVIOUS
<1>2. n \in Nat \ {0} /\ k = s[n] /\ k \in KeyNames /\ \A i \in 1..n : s[i] \in KeyNames
  <2>1. n \in Nat \ {0}
    BY <1>1, EmptySeq
  <2> QED
    BY <1>1, <2>1 DEF Last
<1>3. t \in Seq(KeyNames) /\ Len(t) = n - 1 /\ \A i \in 1..(n - 1) : t[i] = s[i]
  BY <1>1, <1>2 DEF Front
<1>4. ShiftIsFirst(t)
  <2> SUFFICES ASSUME NEW i \in DOMAIN t, t[i] = "A" PROVE \E m \in 1..(i - 1) : t[m] = "Shift"
    BY DEF ShiftIsFirst
  <2>1. i \in 1..(n - 1) /\ i \in DOMAIN s /\ s[i] = "A"
    BY <1>1, <1>2, <1>3
  <2>2. PICK m \in 1..(i - 1) : s[m] = "Shift"
    BY <2>1 DEF ShiftIsFirst
  <2>3. m \in 1..(n - 1)
    BY <1>2, <2>1
  <2> QED
    BY <1>3, <2>2, <2>3
<1>5. Lift(k) \in Strokes /\ Lift(k).key = k
  BY <1>2 DEF Strokes, Lift
<1>6. lifts = Events(Lift(k))
  BY <1>1, <1>5, ExpandedOne
<1>7. ASSUME NEW x \in down \ keys, x \notin ref, x \notin Codes(k)
      PROVE  \E i \in 1..Len(t) : x \in Codes(t[i])
  <2>1. PICK i \in 1..n : x \in Codes(s[i])
    BY <1>1, <1>7 DEF Covered
  <2>2. i # n
    BY <1>2, <1>7, <2>1
  <2>3. i \in 1..(n - 1)
    BY <1>2, <2>2
  <2> QED
    BY <1>3, <2>1, <2>3
<1>8. CASE k # "A"
  <2>1. Len(lifts) = 1 /\ lifts[1] = Lift(k)
    BY <1>5, <1>6, <1>8, EventsAre
  <2>2. taken = 0 \/ taken = 1
    BY <2>1
  <2>3. k \in keys \/ k \in lost
    <3>1. CASE taken = 0
      BY <1>5, <2>1, <3>1
    <3>2. CASE taken = 1
      <4>1. 1 \in 1..taken
        BY <3>2
      <4> QED
        BY <1>5, <2>1, <4>1
    <3> QED
      BY <2>2, <3>1, <3>2
  <2>4. Codes(k) = {k}
    BY <1>8 DEF Codes
  <2> QED
    BY <1>1, <1>3, <1>4, <1>7, <2>3, <2>4 DEF Covered
<1>9. CASE k = "A"
  <2>1. Len(lifts) = 2 /\ lifts[1] = Lift("a") /\ lifts[2] = Lift("Shift")
    BY <1>5, <1>6, <1>9, EventsAre
  <2>2. lifts[1].key = "a" /\ lifts[2].key = "Shift"
    BY <2>1, StrokesDiffer
  <2>3. taken = 0 \/ taken = 1 \/ taken = 2
    BY <2>1, SMTT(60)
  <2>4. "a" \in keys \/ "a" \in lost
    <3>1. CASE taken = 0
      BY <2>1, <2>2, <3>1
    <3>2. CASE taken # 0
      <4>1. 1 \in 1..taken
        BY <2>3, <3>2
      <4> QED
        BY <2>2, <4>1
    <3> QED
      BY <3>1, <3>2
  <2>5. Codes(k) = {"a", "Shift"}
    BY <1>9 DEF Codes
  <2>6. \E i \in 1..Len(t) : "Shift" \in Codes(t[i])
    <3>1. PICK i \in 1..(n - 1) : s[i] = "Shift"
      <4>1. n \in DOMAIN s /\ s[n] = "A"
        BY <1>1, <1>2, <1>9
      <4> QED
        BY <4>1 DEF ShiftIsFirst
    <3> QED
      BY <1>3, <3>1 DEF Codes
  <2>7. ASSUME NEW x \in down \ keys
        PROVE  x \in (ref \ keys) \union lost \/ \E i \in 1..Len(t) : x \in Codes(t[i])
    <3>1. CASE x \in Codes(k)
      <4>1. x = "a" \/ x = "Shift"
        BY <2>5, <3>1
      <4> QED
        BY <2>4, <2>6, <2>7, <4>1
    <3>2. CASE x \notin Codes(k)
      BY <1>7, <2>7, <3>2
    <3> QED
      BY <3>1, <3>2
  <2>8. Covered(t, down \ keys, (ref \ keys) \union lost)
    BY <2>7, Zenon DEF Covered
  <2> QED
    BY <1>1, <1>3, <1>4, <2>8
<1> QED
  BY <1>8, <1>9

-----------------------------------------------------------------------------
(* Release: the invariant.                                                   *)

\* The request stands in a sound plan, `at` strokes of it behind it.
Stands(plan, at, left) ==
  IsSound(plan) /\ IsNext(left, plan, at) /\ at + Len(left) = Len(plan)
WaitsAt(plan, at, left, s, down) ==
  Stands(plan, at, left) /\ Agrees(s, plan, at, at) /\ \A x \in down : IsDown(plan, at, x)
SendsAt(plan, at, left, part, F, s, done, down) ==
  /\ Stands(plan, at, left) /\ IsNext(part, plan, at) /\ Agrees(s, plan, at + Len(part), at)
  /\ IsLaid(F, Strokes, EventsOf(part)) /\ Reaches(plan, at, part, F, done, down)

ReleaseInv ==
  /\ ReleaseTypeOK
  /\ injecting \in {"idle", "over"} => noted = << >>
  /\ injecting = "idle" => pressed = {}
  /\ injecting = "between" => \E plan, at : WaitsAt(plan, at, rest, noted, pressed)
  /\ injecting = "sending" => \E plan, at, F : SendsAt(plan, at, rest, chunk, F, noted, sent, pressed)
  /\ injecting \in {"undoing", "dropped", "over"} =>
       noted \in Seq(KeyNames) /\ ShiftIsFirst(noted) /\ Covered(noted, pressed, refused)

LEMMA EventsCounted ==
  ASSUME NEW part \in Seq(Strokes)
  PROVE  Len(Expanded(part)) \in Nat
<1>1. PICK F : IsLaid(F, Strokes, EventsOf(part))
  BY ExpandedIs
<1>2. Expanded(part) = F[Len(part)] /\ Len(EventsOf(part)) = Len(part) /\ Len(part) \in 0..Len(part)
  BY <1>1, ExpandedIs
<1>3. F[Len(part)] \in Seq(Strokes)
  BY <1>1, <1>2 DEF IsLaid
<1> QED
  BY <1>2, <1>3

LEMMA DownIsAKey ==
  ASSUME NEW plan, NEW n, NEW x, IsDown(plan, n, x)
  PROVE  x \in {"a", "Shift", "left"}
BY DEF IsDown, Codes, KeyNames

LEMMA ReachedIsAKey ==
  ASSUME NEW plan, NEW at, NEW part, NEW F, NEW done, NEW down, Reaches(plan, at, part, F, done, down)
  PROVE  down \subseteq {"a", "Shift", "left"}
<1>1. PICK j \in 0..Len(part) : \/ BetweenStrokes(plan, at, F, j, done, down)
                                \/ HalfPressed(plan, at, part, F, j, done, down)
                                \/ HalfLifted(plan, at, part, F, j, done, down)
  BY DEF Reaches
<1>2. ASSUME NEW x \in down PROVE x \in {"a", "Shift", "left"}
  <2>1. x = "Shift" \/ IsDown(plan, at + j, x)
    BY <1>1 DEF BetweenStrokes, HalfPressed, HalfLifted
  <2> QED
    BY <2>1, DownIsAKey
<1> QED
  BY <1>2

LEMMA WaitingIsCovered ==
  ASSUME NEW plan, NEW at, NEW left, NEW s, NEW down, NEW lost, WaitsAt(plan, at, left, s, down)
  PROVE  s \in Seq(KeyNames) /\ ShiftIsFirst(s) /\ Covered(s, down, lost)
<1>1. IsSound(plan) /\ IsNext(left, plan, at) /\ Agrees(s, plan, at, at) /\ \A x \in down : IsDown(plan, at, x)
  BY DEF WaitsAt, Stands
<1>2. PICK part : part = << >>
  OBVIOUS
<1>3. part \in Seq(Strokes) /\ Len(part) = 0
  BY <1>2
<1>4. at \in 0..Len(plan) /\ Len(plan) \in Nat
  BY <1>1 DEF IsNext, IsSound
<1>5. at + Len(part) = at /\ at + 0 = at /\ at <= Len(plan) /\ 0 \in 0..Len(part)
  BY <1>3, <1>4
<1>6. IsNext(part, plan, at)
  BY <1>3, <1>4, <1>5 DEF IsNext
<1>7. ASSUME NEW x \in down PROVE \E i \in 1..Len(s) : x \in Codes(s[i])
  <2>1. IsDown(plan, at + 0, x) /\ Agrees(s, plan, at + Len(part), at)
    BY <1>1, <1>5
  <2> QED
    BY <1>1, <1>5, <1>6, <2>1, DownIsNoted
<1> QED
  BY <1>1, <1>7 DEF Covered, Agrees

LEMMA SendingIsCovered ==
  ASSUME NEW plan, NEW at, NEW left, NEW part, NEW F, NEW s, NEW done, NEW down, NEW lost,
         SendsAt(plan, at, left, part, F, s, done, down)
  PROVE  /\ s \in Seq(KeyNames) /\ ShiftIsFirst(s) /\ Covered(s, down, lost)
         /\ down \subseteq {"a", "Shift", "left"}
<1>1. /\ IsSound(plan) /\ IsNext(part, plan, at) /\ Agrees(s, plan, at + Len(part), at)
      /\ Reaches(plan, at, part, F, done, down)
  BY DEF SendsAt, Stands
<1>2. \A x \in down : \E i \in 1..Len(s) : x \in Codes(s[i])
  BY <1>1, ReachedIsNoted
<1> QED
  BY <1>1, <1>2, ReachedIsAKey DEF Covered, Agrees

LEMMA ReleaseStarts ==
  ReleaseInit => ReleaseInv
<1> SUFFICES ASSUME ReleaseInit PROVE ReleaseInv
  OBVIOUS
<1>1. Len(Expanded(chunk)) \in Nat
  <2>1. chunk \in Seq(Strokes)
    BY DEF ReleaseInit
  <2> QED
    BY <2>1, EventsCounted
<1>2. ReleaseTypeOK
  BY <1>1, ReleaseAssumption DEF ReleaseInit, ReleaseTypeOK, Pipes
<1> QED
  BY <1>2 DEF ReleaseInit, ReleaseInv

LEMMA InjectsIsSafe ==
  ASSUME ~LiftsFirst, ReleaseInv, Injects PROVE ReleaseInv'
<1>1. /\ injecting = "idle" /\ injecting' = "between" /\ chunk' = chunk /\ sent' = sent /\ noted' = noted
      /\ pressed' = pressed /\ faults' = faults /\ noted = << >> /\ pressed = {} /\ ReleaseTypeOK
  BY DEF Injects, ReleaseInv
<1>2. PICK p \in Pipes : pipe' = p /\ rest' \in Plans[p]
  BY DEF Injects
<1>3. IsSound(rest')
  BY <1>2, PlansAreSound
<1>4. PICK plan : plan = rest'
  OBVIOUS
<1>5. plan \in Seq(Strokes) /\ Len(plan) \in Nat
  BY <1>3, <1>4 DEF IsSound
<1>6. IsNext(plan, plan, 0) /\ 0 + Len(plan) = Len(plan)
  <2>1. PICK n : n = Len(plan)
    OBVIOUS
  <2>2. n \in Nat /\ 0 \in 0..n /\ 0 + n <= n /\ 0 + n = n /\ \A i \in 1..n : 0 + i = i
    BY <1>5, <2>1
  <2> QED
    BY <1>5, <2>1, <2>2 DEF IsNext
<1>7. Agrees(noted', plan, 0, 0)
  <2>1. ASSUME NEW k PROVE CountOf(<< >>, k) = 0
    <3>1. << >> \in Seq(KeyNames) /\ PlacesOf(<< >>, k) = {}
      BY DEF PlacesOf
    <3> QED
      BY <3>1, PlacesAreFinite
  <2>2. ASSUME NEW k PROVE DueOf(plan, 0, 0, k) = 0
    BY NoStrokesYet DEF DueOf, PressesTo, LiftsTo
  <2>3. << >> \in Seq(KeyNames) /\ ShiftIsFirst(<< >>)
    BY DEF ShiftIsFirst
  <2> QED
    BY <1>1, <2>1, <2>2, <2>3 DEF Agrees
<1>8. WaitsAt(plan, 0, rest', noted', pressed')
  BY <1>1, <1>3, <1>4, <1>6, <1>7 DEF WaitsAt, Stands
<1>9. ReleaseTypeOK'
  BY <1>1, <1>2 DEF ReleaseTypeOK
<1> QED
  BY <1>1, <1>8, <1>9 DEF ReleaseInv

LEMMA StopsIsSafe ==
  ASSUME ReleaseInv, Stops PROVE ReleaseInv'
<1>1. /\ injecting = "between" /\ injecting' = "dropped" /\ ReleaseTypeOK
      /\ UNCHANGED <<pipe, chunk, sent, noted, pressed, refused, faults>>
  BY DEF Stops, ReleaseInv
<1>2. noted \in Seq(KeyNames) /\ ShiftIsFirst(noted) /\ Covered(noted, pressed, refused)
  BY <1>1, WaitingIsCovered DEF ReleaseInv
<1>3. ReleaseTypeOK'
  BY <1>1 DEF ReleaseTypeOK
<1> QED
  BY <1>1, <1>2, <1>3 DEF ReleaseInv

LEMMA TakesChunkIsSafe ==
  ASSUME ReleaseInv, TakesChunk PROVE ReleaseInv'
<1>1. /\ injecting = "between" /\ injecting' = "sending" /\ sent' = 0 /\ chunk' = NextChunk
      /\ noted' = noted \o Presses(chunk') /\ UNCHANGED <<pipe, rest, pressed, faults>> /\ ReleaseTypeOK
  BY DEF TakesChunk, ReleaseInv
<1>2. PICK plan, at : WaitsAt(plan, at, rest, noted, pressed)
  BY <1>1 DEF ReleaseInv
<1>3. /\ IsSound(plan) /\ IsNext(rest, plan, at) /\ at + Len(rest) = Len(plan)
      /\ Agrees(noted, plan, at, at) /\ \A x \in pressed : IsDown(plan, at, x)
  BY <1>2 DEF WaitsAt, Stands
<1>4. plan \in Seq(Strokes) /\ rest \in Seq(Strokes) /\ pipe \in Pipes
  BY <1>1, <1>3 DEF IsSound, IsNext, ReleaseTypeOK
<1>5. PICK part : part = chunk'
  OBVIOUS
<1>6. IsNext(part, plan, at)
  <2>1. PICK c \in 0..Len(rest) : NextChunk = SubSeq(rest, 1, c)
    BY <1>4, ChunkIsFront
  <2> QED
    BY <1>1, <1>3, <1>4, <1>5, <2>1, FrontIsNext
<1>7. Agrees(noted', plan, at + Len(part), at)
  BY <1>1, <1>3, <1>4, <1>5, <1>6, PressesAreNoted
<1>8. part \in Seq(Strokes)
  BY <1>6 DEF IsNext
<1>9. PICK F : IsLaid(F, Strokes, EventsOf(part))
  BY <1>8, ExpandedIs
<1>10. Reaches(plan, at, part, F, 0, pressed)
  <2>1. F[0] = << >> /\ Len(F[0]) = 0
    BY <1>9 DEF IsLaid
  <2>2. at + 0 = at /\ 0 \in 0..Len(part)
    BY <1>3, <1>4, <1>8 DEF IsNext
  <2>3. BetweenStrokes(plan, at, F, 0, 0, pressed)
    BY <1>3, <2>1, <2>2 DEF BetweenStrokes
  <2> QED
    BY <2>2, <2>3 DEF Reaches
<1>11. SendsAt(plan, at, rest', chunk', F, noted', sent', pressed')
  BY <1>1, <1>3, <1>5, <1>6, <1>7, <1>9, <1>10 DEF SendsAt, Stands
<1>12. ReleaseTypeOK'
  <2>1. Len(Expanded(part)) \in Nat
    BY <1>8, EventsCounted
  <2> QED
    BY <1>1, <1>5, <2>1 DEF ReleaseTypeOK
<1> QED
  BY <1>1, <1>11, <1>12 DEF ReleaseInv

LEMMA SendsIsSafe ==
  ASSUME ReleaseInv, Sends PROVE ReleaseInv'
<1>1. /\ injecting = "sending" /\ sent < Len(Expanded(chunk)) /\ sent' = sent + 1
      /\ pressed' = After(Expanded(chunk)[sent + 1], pressed)
      /\ UNCHANGED <<injecting, pipe, rest, chunk, noted, faults>> /\ ReleaseTypeOK
  BY DEF Sends, Takes, After, ReleaseInv
<1>2. PICK plan, at, F : SendsAt(plan, at, rest, chunk, F, noted, sent, pressed)
  BY <1>1 DEF ReleaseInv
<1>3. Reaches(plan, at, chunk, F, sent', pressed')
  BY <1>1, <1>2, EventTaken DEF SendsAt, Stands
<1>4. SendsAt(plan, at, rest, chunk, F, noted, sent', pressed')
  BY <1>2, <1>3 DEF SendsAt
<1>5. pressed' \subseteq {"a", "Shift", "left"}
  BY <1>3, ReachedIsAKey
<1>6. Len(Expanded(chunk)) \in Nat
  <2>1. chunk \in Seq(Strokes)
    BY <1>2 DEF SendsAt, IsNext
  <2> QED
    BY <2>1, EventsCounted
<1>7. ReleaseTypeOK'
  <2>1. PICK n : n = Len(Expanded(chunk))
    OBVIOUS
  <2>2. sent' \in 0..n
    BY <1>1, <1>6, <2>1 DEF ReleaseTypeOK
  <2> QED
    BY <1>1, <1>5, <2>1, <2>2 DEF ReleaseTypeOK
<1> QED
  BY <1>1, <1>4, <1>7 DEF ReleaseInv

LEMMA EventFailsIsSafe ==
  ASSUME ReleaseInv, EventFails PROVE ReleaseInv'
<1>1. /\ injecting = "sending" /\ sent < Len(Expanded(chunk)) /\ injecting' = "undoing"
      /\ Takes(Expanded(chunk)[sent + 1]) \/ Loses(Expanded(chunk)[sent + 1])
      /\ faults < MaxFaults /\ faults' = faults + 1
      /\ UNCHANGED <<pipe, rest, chunk, sent, noted>> /\ ReleaseTypeOK
  BY DEF EventFails, Fault, ReleaseInv
<1>2. PICK plan, at, F : SendsAt(plan, at, rest, chunk, F, noted, sent, pressed)
  BY <1>1 DEF ReleaseInv
<1>3. /\ noted' \in Seq(KeyNames) /\ ShiftIsFirst(noted') /\ Covered(noted', pressed', refused')
      /\ pressed' \subseteq {"a", "Shift", "left"}
  <2>1. CASE Takes(Expanded(chunk)[sent + 1])
    <3>1. pressed' = After(Expanded(chunk)[sent + 1], pressed)
      BY <2>1 DEF Takes, After
    <3>2. Reaches(plan, at, chunk, F, sent + 1, pressed')
      BY <1>1, <1>2, <3>1, EventTaken DEF SendsAt, Stands
    <3>3. SendsAt(plan, at, rest, chunk, F, noted, sent + 1, pressed')
      BY <1>2, <3>2 DEF SendsAt
    <3> QED
      BY <1>1, <3>3, SendingIsCovered
  <2>2. CASE Loses(Expanded(chunk)[sent + 1])
    <3>1. pressed' = pressed
      BY <2>2 DEF Loses
    <3> QED
      BY <1>1, <1>2, <3>1, SendingIsCovered
  <2> QED
    BY <1>1, <2>1, <2>2
<1>4. ReleaseTypeOK'
  <2>1. faults' \in 0..MaxFaults
    BY <1>1, ReleaseAssumption DEF ReleaseTypeOK
  <2> QED
    BY <1>1, <1>3, <2>1 DEF ReleaseTypeOK
<1> QED
  BY <1>1, <1>3, <1>4 DEF ReleaseInv

LEMMA FlushFailsIsSafe ==
  ASSUME ReleaseInv, FlushFails PROVE ReleaseInv'
<1>1. /\ injecting = "sending" /\ injecting' = "undoing" /\ faults < MaxFaults /\ faults' = faults + 1
      /\ UNCHANGED <<pipe, rest, chunk, sent, noted, pressed, refused>> /\ ReleaseTypeOK
  BY DEF FlushFails, Fault, ReleaseInv
<1>2. PICK plan, at, F : SendsAt(plan, at, rest, chunk, F, noted, sent, pressed)
  BY <1>1 DEF ReleaseInv
<1>3. noted \in Seq(KeyNames) /\ ShiftIsFirst(noted) /\ Covered(noted, pressed, refused)
  BY <1>2, SendingIsCovered
<1>4. ReleaseTypeOK'
  <2>1. faults' \in 0..MaxFaults
    BY <1>1, ReleaseAssumption DEF ReleaseTypeOK
  <2> QED
    BY <1>1, <2>1 DEF ReleaseTypeOK
<1> QED
  BY <1>1, <1>3, <1>4 DEF ReleaseInv

LEMMA ChunkIsSentIsSafe ==
  ASSUME ReleaseInv, ChunkIsSent PROVE ReleaseInv'
<1>1. /\ injecting = "sending" /\ sent = Len(Expanded(chunk)) /\ injecting' = "between"
      /\ noted' = Lifted(noted, chunk) /\ rest' = SubSeq(rest, Len(chunk) + 1, Len(rest))
      /\ UNCHANGED <<pipe, chunk, sent, pressed, faults>> /\ ReleaseTypeOK
  BY DEF ChunkIsSent, ReleaseInv
<1>2. PICK plan, at, F : SendsAt(plan, at, rest, chunk, F, noted, sent, pressed)
  BY <1>1 DEF ReleaseInv
<1>3. /\ IsSound(plan) /\ IsNext(rest, plan, at) /\ at + Len(rest) = Len(plan) /\ IsNext(chunk, plan, at)
      /\ Agrees(noted, plan, at + Len(chunk), at) /\ IsLaid(F, Strokes, EventsOf(chunk))
      /\ Reaches(plan, at, chunk, F, sent, pressed)
  BY <1>2 DEF SendsAt, Stands
<1>4. plan \in Seq(Strokes)
  BY <1>3 DEF IsSound
<1>5. PICK e, c : e = at + Len(chunk) /\ c = Len(chunk)
  OBVIOUS
<1>6. c \in 0..Len(rest)
  <2>1. PICK r, l : r = Len(rest) /\ l = Len(plan)
    OBVIOUS
  <2>2. c \in Nat /\ r \in Nat /\ at \in 0..l /\ l \in Nat
    BY <1>3, <1>4, <1>5, <2>1 DEF IsNext
  <2>3. at + r = l /\ at + c <= l
    BY <1>3, <1>5, <2>1 DEF IsNext
  <2>4. c \in 0..r
    BY ONLY <2>2, <2>3
  <2> QED
    BY <2>1, <2>4
<1>7. Stands(plan, e, rest')
  <2>1. LET left == SubSeq(rest, c + 1, Len(rest))
        IN IsNext(left, plan, at + c) /\ (at + c) + Len(left) = Len(plan)
    BY <1>3, <1>4, <1>6, RestIsNext
  <2> QED
    BY <1>1, <1>3, <1>5, <2>1 DEF Stands
<1>8. Agrees(noted', plan, e, e)
  BY <1>1, <1>3, <1>5, LiftsAreNoted
<1>9. \A x \in pressed : IsDown(plan, e, x)
  BY <1>1, <1>3, <1>5, ReachedTheEnd
<1>10. WaitsAt(plan, e, rest', noted', pressed')
  BY <1>1, <1>7, <1>8, <1>9 DEF WaitsAt
<1>11. ReleaseTypeOK'
  BY <1>1 DEF ReleaseTypeOK
<1> QED
  BY <1>1, <1>10, <1>11 DEF ReleaseInv

LEMMA UndoesIsSafe ==
  ASSUME ReleaseInv, Undoes PROVE ReleaseInv'
<1>1. /\ injecting = "undoing" /\ injecting' \in {"undoing", "dropped"}
      /\ UNCHANGED <<pipe, rest, chunk, sent, noted>> /\ ReleaseTypeOK
      /\ noted \in Seq(KeyNames) /\ ShiftIsFirst(noted) /\ Covered(noted, pressed, refused)
  BY DEF Undoes, ReleaseInv
<1>2. \/ UNCHANGED <<pressed, refused, faults>>
      \/ Takes(Lift(Last(undo))) /\ UNCHANGED faults
      \/ Loses(Lift(Last(undo))) /\ Fault
  BY DEF Undoes
<1>3. Covered(noted, pressed', refused') /\ pressed' \subseteq pressed
  <2>1. CASE UNCHANGED <<pressed, refused, faults>>
    BY <1>1, <2>1
  <2>2. CASE Takes(Lift(Last(undo)))
    <3>1. PICK k : k = Last(undo)
      OBVIOUS
    <3>2. pressed' = pressed \ {k} /\ refused' = refused \ {k}
      BY <2>2, <3>1, StrokesDiffer DEF Takes
    <3> QED
      BY <1>1, <3>2 DEF Covered
  <2>3. CASE Loses(Lift(Last(undo)))
    <3>1. pressed' = pressed /\ refused \subseteq refused'
      BY <2>3 DEF Loses
    <3> QED
      BY <1>1, <3>1 DEF Covered
  <2> QED
    BY <1>2, <2>1, <2>2, <2>3
<1>4. ReleaseTypeOK'
  <2>1. faults' \in 0..MaxFaults
    BY <1>1, <1>2, ReleaseAssumption DEF ReleaseTypeOK, Fault
  <2> QED
    BY <1>1, <1>3, <2>1 DEF ReleaseTypeOK
<1> QED
  BY <1>1, <1>3, <1>4 DEF ReleaseInv

LEMMA PanicsIsSafe ==
  ASSUME ReleaseInv, Panics PROVE ReleaseInv'
<1>1. /\ injecting \in {"between", "sending", "undoing"} /\ injecting' = "dropped"
      /\ UNCHANGED <<pipe, rest, chunk, sent, noted, pressed, refused, faults>> /\ ReleaseTypeOK
  BY DEF Panics, ReleaseInv
<1>2. noted \in Seq(KeyNames) /\ ShiftIsFirst(noted) /\ Covered(noted, pressed, refused)
  <2>1. CASE injecting = "between"
    BY <2>1, WaitingIsCovered DEF ReleaseInv
  <2>2. CASE injecting = "sending"
    BY <2>2, SendingIsCovered DEF ReleaseInv
  <2>3. CASE injecting = "undoing"
    BY <2>3 DEF ReleaseInv
  <2> QED
    BY <1>1, <2>1, <2>2, <2>3
<1>3. ReleaseTypeOK'
  BY <1>1 DEF ReleaseTypeOK
<1> QED
  BY <1>1, <1>2, <1>3 DEF ReleaseInv

LEMMA ReleasesIsSafe ==
  ASSUME ReleaseInv, Releases PROVE ReleaseInv'
<1>1. /\ injecting = "dropped" /\ UNCHANGED <<pipe, rest, chunk, sent, undo>>
      /\ ReleaseTypeOK /\ noted \in Seq(KeyNames) /\ ShiftIsFirst(noted) /\ Covered(noted, pressed, refused)
  BY DEF Releases, ReleaseInv
<1>2. CASE noted = << >>
  <2>1. injecting' = "over" /\ UNCHANGED <<noted, pressed, refused, faults>>
    BY <1>2 DEF Releases
  <2>2. ReleaseTypeOK'
    BY <1>1, <2>1 DEF ReleaseTypeOK
  <2> QED
    BY <1>1, <1>2, <2>1, <2>2 DEF ReleaseInv
<1>3. CASE noted # << >>
  <2> DEFINE lifts == Expanded(<< Lift(Last(noted)) >>)
             keys(n) == {lifts[i].key : i \in 1..n}
             lost(n) == IF n = Len(lifts) THEN {} ELSE {lifts[n + 1].key}
  <2>1. injecting' = "dropped" /\ noted' = Front(noted)
    BY <1>1, <1>3 DEF Releases
  <2>2. PICK taken \in 0..Len(lifts) :
          /\ UNCHANGED faults \/ Fault
          /\ pressed' = pressed \ keys(taken)
          /\ refused' = (refused \ keys(taken)) \union lost(taken)
    BY <1>3 DEF Releases
  <2>3. PICK down, ref, l, k, g :
          down = pressed /\ ref = refused /\ l = lifts /\ k = keys(taken) /\ g = lost(taken)
    OBVIOUS
  <2>4. /\ Front(noted) \in Seq(KeyNames) /\ ShiftIsFirst(Front(noted))
        /\ Covered(Front(noted), down \ k, (ref \ k) \union g)
    BY <1>1, <1>3, <2>3, ReleasedIsCovered
  <2>5. pressed' = down \ k /\ refused' = (ref \ k) \union g
    BY <2>2, <2>3
  <2>6. noted' \in Seq(KeyNames) /\ ShiftIsFirst(noted') /\ Covered(noted', pressed', refused')
    BY <2>1, <2>4, <2>5
  <2>7. ReleaseTypeOK'
    <3>1. faults' \in 0..MaxFaults
      BY <1>1, <2>2, ReleaseAssumption DEF ReleaseTypeOK, Fault
    <3>2. pressed' \subseteq pressed
      BY <2>3, <2>5
    <3> QED
      BY <1>1, <2>1, <3>1, <3>2 DEF ReleaseTypeOK
  <2> QED
    BY <2>1, <2>6, <2>7 DEF ReleaseInv
<1> QED
  BY <1>2, <1>3

LEMMA ReleaseSteps ==
  ASSUME ~LiftsFirst, ReleaseInv, [ReleaseNext]_releaseVars PROVE ReleaseInv'
<1>1. CASE UNCHANGED releaseVars
  <2>1. ReleaseTypeOK'
    BY <1>1 DEF releaseVars, ReleaseTypeOK, ReleaseInv
  <2> QED
    BY <1>1, <2>1 DEF releaseVars, ReleaseInv
<1> QED
  BY <1>1, InjectsIsSafe, StopsIsSafe, TakesChunkIsSafe, SendsIsSafe, EventFailsIsSafe, FlushFailsIsSafe,
     ChunkIsSentIsSafe, UndoesIsSafe, PanicsIsSafe, ReleasesIsSafe, Zenon DEF ReleaseNext

LEMMA ReleaseHolds ==
  ReleaseInv => NothingStaysDown
BY DEF ReleaseInv, NothingStaysDown, Covered

\* Whatever a request types or clicks and wherever it ends -- sent, paused between
\* two chunks, refused at any event or flush, panicking half way through a stroke --
\* no key and no button it pressed stays down for a later request but one whose
\* release the desktop itself lost; as long as no plan lifts what it has not pressed
\* (ReleaseGuard::note and release, the clean-up of the desktop pipes).
THEOREM NothingEverStaysDown ==
  ASSUME ~LiftsFirst PROVE ReleaseSpec => [](ReleaseTypeOK /\ NothingStaysDown)
<1>1. ReleaseInit => ReleaseInv
  BY ReleaseStarts
<1>2. ReleaseInv /\ [ReleaseNext]_releaseVars => ReleaseInv'
  BY ReleaseSteps
<1>3. ReleaseInv => ReleaseTypeOK /\ NothingStaysDown
  BY ReleaseHolds DEF ReleaseInv
<1> QED
  BY <1>1, <1>2, <1>3, PTL DEF ReleaseSpec

-----------------------------------------------------------------------------
(* PromptPass: the doors that are asked.                                     *)

LEMMA KeptIsDistinct ==
  ASSUME NEW S, NEW seen \in Seq(S), IsInjective(seen), NEW h \in S
  PROVE  Kept(seen, h) \in Seq(S) /\ IsInjective(Kept(seen, h))
<1>1. CASE h \in ToSet(seen)
  BY <1>1 DEF Kept
<1>2. CASE h \notin ToSet(seen)
  <2>1. PICK n, t : n = Len(seen) /\ t = Append(seen, h)
    OBVIOUS
  <2>2. n \in Nat /\ DOMAIN seen = 1..n /\ \A i \in 1..n : seen[i] # h
    BY <1>2, <2>1 DEF ToSet
  <2>3. t \in Seq(S) /\ DOMAIN t = 1..(n + 1) /\ t[n + 1] = h /\ \A i \in 1..n : t[i] = seen[i]
    BY <2>1, <2>2
  <2>4. ASSUME NEW a \in 1..(n + 1), NEW b \in 1..(n + 1), t[a] = t[b] PROVE a = b
    <3>1. (a \in 1..n \/ a = n + 1) /\ (b \in 1..n \/ b = n + 1)
      BY <2>2
    <3>2. a \in 1..n /\ b \in 1..n => a = b
      BY <2>2, <2>3, <2>4 DEF IsInjective
    <3> QED
      BY <2>2, <2>3, <2>4, <3>1, <3>2
  <2>5. IsInjective(t)
    BY <2>3, <2>4 DEF IsInjective
  <2> QED
    BY <1>2, <2>1, <2>3, <2>5 DEF Kept
<1> QED
  BY <1>1, <1>2

LEMMA DistinctIs ==
  ASSUME NEW hosts \in Seq(Hosts)
  PROVE  Distinct(hosts) \in Seq(Hosts) /\ IsInjective(Distinct(hosts))
<1>1. PICK n, S, base : n = Len(hosts) /\ S = {s \in Seq(Hosts) : IsInjective(s)} /\ base = << >>
  OBVIOUS
<1>2. n \in Nat /\ base \in S /\ \A i \in 1..n : hosts[i] \in Hosts
  BY <1>1 DEF IsInjective
<1>3. PICK step : step = [i \in 1..n |-> [s \in S |-> Kept(s, hosts[i])]]
  OBVIOUS
<1>4. \A s \in S : \A i \in 1..n : Kept(s, hosts[i]) \in S
  BY <1>1, <1>2, KeptIsDistinct
<1>5. step \in [1..n -> [S -> S]]
  BY <1>3, <1>4
<1>6. PICK f \in [0..n -> S] : f[0] = base /\ \A i \in 1..n : f[i] = step[i][f[i - 1]]
  <2>1. HasTable(S, base, n, step)
    BY ONLY <1>2, <1>5, TableIsThere, Zenon
  <2> QED
    BY ONLY <2>1 DEF HasTable
<1>7. ASSUME NEW i \in 1..n PROVE f[i] = Kept(f[i - 1], hosts[i])
  <2>1. f[i - 1] \in S
    BY <1>2, <1>6
  <2> QED
    BY <1>3, <1>6, <2>1
<1>8. f = [i \in 0..n |-> IF i = 0 THEN base ELSE Kept(f[i - 1], hosts[i])]
  <2>1. ASSUME NEW i \in 0..n PROVE f[i] = (IF i = 0 THEN base ELSE Kept(f[i - 1], hosts[i]))
    <3>1. CASE i = 0
      BY <1>6, <3>1
    <3>2. CASE i # 0
      <4>1. i \in 1..n
        BY <1>2, <3>2
      <4> QED
        BY <1>7, <3>2, <4>1
    <3> QED
      BY <3>1, <3>2
  <2> QED
    BY <1>6, <2>1
<1>9. PICK g : g = CHOOSE h : h = [i \in 0..Len(hosts) |-> IF i = 0 THEN << >> ELSE Kept(h[i - 1], hosts[i])]
  OBVIOUS
<1>10. g = [i \in 0..n |-> IF i = 0 THEN base ELSE Kept(g[i - 1], hosts[i])]
  BY <1>1, <1>8, <1>9
<1>11. Distinct(hosts) = g[n]
  BY <1>1, <1>9 DEF Distinct
<1>12. PICK P : P = {i \in 0..n : g[i] \in S}
  OBVIOUS
<1>13. 0 \in P
  BY <1>2, <1>10, <1>12
<1>14. ASSUME NEW i \in 1..n, i - 1 \in P PROVE i \in P
  BY <1>2, <1>4, <1>10, <1>12, <1>14
<1>15. \A i \in 0..n : i \in P
  <2>1. \A i \in 1..n : i - 1 \in P => i \in P
    BY <1>14
  <2> QED
    BY <1>2, <1>13, <2>1, CountUp
<1>16. g[n] \in S
  BY <1>2, <1>12, <1>15
<1> QED
  BY <1>1, <1>11, <1>16

\* What a visor is that has been opened.
DoorsOf(d) ==
  /\ d.doors \in Seq(Hosts) /\ IsInjective(d.doors)
  /\ \A m \in Models : d.routes[m] \in Seq(Hosts) /\ IsInjective(d.routes[m])

LEMMA ConnectedIs ==
  ASSUME NEW c \in DoorConfigs, Accepted(c)
  PROVE  DoorsOf(Connected(c))
<1>1. /\ c.primary \in Hosts \cup {NoPrompt} /\ c.second \in Hosts \cup {NoPrompt}
      /\ c.routes \in [Models -> Lists]
  BY DEF DoorConfigs
<1>2. c.second # NoPrompt => c.primary # c.second
  BY DEF Accepted
<1>3. << >> \in Seq(Hosts) /\ IsInjective(<< >>)
  BY DEF IsInjective
<1>4. CASE c.primary = NoPrompt
  <2>1. Connected(c).doors = << >> /\ \A m \in Models : Connected(c).routes[m] = << >>
    BY <1>4 DEF Connected
  <2> QED
    BY <1>3, <2>1 DEF DoorsOf
<1>5. CASE c.primary # NoPrompt
  <2>1. c.primary \in Hosts
    BY <1>1, <1>5
  <2>2. \A m \in Models : Connected(c).routes[m] = Distinct(c.routes[m])
    BY <1>5 DEF Connected
  <2>3. ASSUME NEW m \in Models PROVE c.routes[m] \in Seq(Hosts)
    <3>1. c.routes[m] \in Lists
      BY <1>1
    <3>2. PICK n \in 0..3 : c.routes[m] \in [1..n -> Hosts]
      BY <3>1 DEF Lists
    <3> QED
      BY <3>2
  <2>4. CASE c.second = NoPrompt
    <3>1. Connected(c).doors = << c.primary >>
      BY <1>5, <2>4 DEF Connected
    <3>2. << c.primary >> \in Seq(Hosts) /\ IsInjective(<< c.primary >>)
      BY <2>1 DEF IsInjective
    <3> QED
      BY <2>2, <2>3, <3>1, <3>2, DistinctIs DEF DoorsOf
  <2>5. CASE c.second # NoPrompt
    <3>1. Connected(c).doors = << c.primary, c.second >>
      BY <1>5, <2>5 DEF Connected
    <3>2. << c.primary, c.second >> \in Seq(Hosts)
      BY <1>1, <2>1, <2>5
    <3>3. IsInjective(<< c.primary, c.second >>)
      BY <1>2, <2>5 DEF IsInjective
    <3> QED
      BY <2>2, <2>3, <3>1, <3>2, <3>3, DistinctIs DEF DoorsOf
  <2> QED
    BY <2>4, <2>5
<1> QED
  BY <1>4, <1>5

\* Whoever is asked for a model is asked once.
LEMMA PlanIs ==
  ASSUME DoorsOf(doors), NEW m \in Models
  PROVE  /\ Plan(m).ask \in Seq(Hosts) /\ IsInjective(Plan(m).ask)
         /\ Plan(m).kind = "experts" => Plan(m).ask = doors.doors /\ Len(doors.doors) = 2
         /\ Plan(m).kind = "one" => Len(Plan(m).ask) = 1
         /\ Plan(m).ask # << >> => Plan(m).kind \in {"one", "experts", "failover"}
<1>1. << >> \in Seq(Hosts) /\ IsInjective(<< >>)
  BY DEF IsInjective
<1>2. CASE doors.doors = << >>
  <2>1. Len(doors.doors) = 0
    BY <1>2
  <2>2. Plan(m) = [kind |-> "unconfigured", ask |-> << >>]
    BY <1>2, <2>1 DEF Plan
  <2> QED
    BY <1>1, <2>2
<1>3. CASE doors.doors # << >> /\ Len(doors.doors) = 1
  <2>1. Plan(m) = [kind |-> "one", ask |-> doors.doors]
    BY <1>3 DEF Plan
  <2> QED
    BY <1>3, <2>1 DEF DoorsOf
<1>4. CASE doors.doors # << >> /\ Len(doors.doors) = 2 /\ m \in doors.experts
  <2>1. Plan(m) = [kind |-> "experts", ask |-> doors.doors]
    BY <1>4 DEF Plan
  <2> QED
    BY <1>4, <2>1 DEF DoorsOf
<1>5. CASE doors.doors # << >> /\ Len(doors.doors) # 1 /\ ~(Len(doors.doors) = 2 /\ m \in doors.experts)
  <2>1. Plan(m) = [kind |-> IF doors.routes[m] = << >> THEN "unmapped" ELSE "failover", ask |-> doors.routes[m]]
    BY <1>5 DEF Plan
  <2> QED
    BY <2>1 DEF DoorsOf
<1> QED
  BY <1>2, <1>3, <1>4, <1>5

LEMMA AnsweringIs ==
  ASSUME DoorsOf(doors), Len(doors.doors) = 2, NEW m
  PROVE  \E i \in 1..2 : Answering(m) = doors.doors[i]
BY DEF Answering

-----------------------------------------------------------------------------
(* PromptPass: the invariant.                                                *)

AnyLine == Lines \cup {Blank}
Heards == [door : Hosts, ok : BOOLEAN, text : Texts]
Passing == {"next", "asking"}
PromptPcs == {"new", "reading", "refused", "waiting", "next", "asking", "done"}
JobRecs == [pc : PromptPcs, stream : BOOLEAN, key : BOOLEAN, items : Seq(AnyLine), at : Nat,
            needles : Texts, left : Seq(Hosts), heard : Seq(Heards)]
Asides == [door : Hosts, text : Texts]
Rows == [of : Requests \X Nat, outcome : {"rejected", "door_failed", "forwarded"},
         door : Hosts \cup {NoPrompt}, shown : Texts, other : Seq(Asides),
         heard : Seq(Heards), flags : Seq(Requests \X Nat)]

PromptTyped ==
  /\ doors = NoDoors \/ DoorsOf(doors)
  /\ session \in [open : BOOLEAN, vault : Texts, prompts : Seq(Prompts)]
  /\ job \in [Requests -> JobRecs]
  /\ gate \subseteq Requests /\ needles \in Texts
  /\ pending \in Seq(Requests \X Nat)
  /\ report \in [door : Hosts \cup {NoPrompt}, other : {<< >>}]
  /\ audit \in Seq(Rows)

\* What a request is before it enters the pass and after it has left it.
JobIs(r) ==
  /\ job[r].pc # "new" => doors # NoDoors
  /\ job[r].stream => job[r].items \in Seq(Lines)
  /\ ~job[r].stream => job[r].needles = {}
  /\ job[r].pc = "reading" => job[r].stream
  /\ job[r].pc \in {"new", "reading", "refused", "waiting"} => job[r].at = 0
  /\ job[r].pc = "done" => \A i \in PromptsOf(r) : i <= job[r].at

\* The pass is one request's, with its needles, and what is pending is of the
\* prompt it asks a door for.
PassIsOnes ==
  /\ \A r \in Requests : r \in gate <=> job[r].pc \in Passing
  /\ \A r, s \in gate : r = s
  /\ \A r \in gate : needles = job[r].needles
  /\ gate = {} => needles = {}
  /\ (\A r \in Requests : job[r].pc # "asking") => pending = << >>
  /\ \A r \in Requests : job[r].pc = "asking" =>
       \A f \in ToSet(pending) : f = << r, job[r].at >>

\* The doors of a plan are asked in turn.
HeardInTurn(ask, heard, left) ==
  /\ Len(heard) <= Len(ask)
  /\ \A i \in 1..Len(heard) : heard[i].door = ask[i]
  /\ left # << >> => /\ Len(left) = Len(ask) - Len(heard)
                     /\ \A k \in 1..Len(left) : left[k] = ask[Len(heard) + k]
  /\ left = << >> => heard # << >>

AsksFor(plan, own, heard, left, door) ==
  /\ plan.ask # << >> /\ HeardInTurn(plan.ask, heard, left)
  /\ plan.kind = "experts" => /\ left = << >> => Len(heard) = Len(plan.ask)
                              /\ door = own
  /\ plan.kind = "one" => door = plan.ask[1]
  /\ plan.kind = "failover" =>
       /\ \A i \in 1..Len(heard) : heard[i].ok => i = Len(heard)
       /\ left # << >> => \A i \in 1..Len(heard) : ~heard[i].ok

AskingIs(r) ==
  job[r].pc = "asking" =>
    /\ job[r].at \in PromptsOf(r) /\ Current(r).model \in Models
    /\ AsksFor(Plan(Current(r).model), Answering(Current(r).model), job[r].heard,
               job[r].left, report.door)

\* A row as RowsHideSecrets and RowsAreTheirOwn want it.
RowIsClean(row, hidden) == Shown(row) \cap hidden = {}
RowIsOwn(row) ==
  LET spoke == {[door |-> h.door, ok |-> h.ok] : h \in ToSet(row.heard)}
  IN  /\ \A f \in ToSet(row.flags) : f[1] = row.of[1] /\ row.of[2] \in {0, f[2]}
      /\ row.heard # << >> =>
           /\ row.door \in {h.door : h \in spoke}
           /\ row.outcome = "forwarded" => [door |-> row.door, ok |-> TRUE] \in spoke
      /\ \A h \in ToSet(row.other) :
           h.door # row.door /\ [door |-> h.door, ok |-> TRUE] \in spoke

\* A row is of a request that has been in the pass, and of a prompt that is past.
RowIs(n) ==
  LET r == audit[n].of[1]
  IN  /\ job[r].pc \in {"next", "asking", "done"}
      /\ RowIsClean(audit[n], job[r].needles) /\ RowIsOwn(audit[n])

Past(j) == {i \in 1..Len(j.items) :
              /\ j.items[i].kind = "prompt"
              /\ i < j.at \/ (i = j.at /\ j.pc # "asking")}

\* The rows of a request are those of its prompts so far, in their order.
RowsTell(r) ==
  /\ {audit[n].of[2] : n \in RowsOf(r)} = Past(job[r])
  /\ \A n, o \in RowsOf(r) : n < o => audit[n].of[2] < audit[o].of[2]

PromptInv ==
  /\ PromptTyped /\ PassIsOnes
  /\ \A r \in Requests : JobIs(r) /\ AskingIs(r) /\ RowsTell(r)
  /\ \A n \in DOMAIN audit : RowIs(n)

-----------------------------------------------------------------------------
(* PromptPass: lines, flags and the prompts of a body.                       *)

LEMMA LinesAre ==
  ASSUME NEW line \in AnyLine
  PROVE  /\ line.kind = "prompt" =>
              line.text \in Texts /\ line.model \in {"blank", Unknown} \cup Models
         /\ line \in Lines /\ line.kind = "prompt" => line \in Prompts
         /\ line.kind = "secret" => line.value \in Values
         /\ line.kind = "file" => line.text \in Texts
<1>1. CASE line \in Prompts
  BY <1>1 DEF Prompts
<1>2. CASE line \in Files
  BY <1>2 DEF Files
<1>3. CASE line \in Secrets
  BY <1>3 DEF Secrets
<1>4. CASE line = Bad
  BY <1>4 DEF Bad
<1>5. CASE line = Blank
  <2>1. line.kind = "prompt" /\ line.text = {} /\ line.model = "blank"
    BY <1>5 DEF Blank
  <2>2. line \in Lines => line \in Prompts
    <3>1. line \notin Files
      BY <2>1 DEF Files
    <3>2. line \notin Secrets
      BY <2>1 DEF Secrets
    <3>3. line # Bad
      BY <2>1 DEF Bad
    <3> QED
      BY <3>1, <3>2, <3>3 DEF Lines
  <2> QED
    BY <2>1, <2>2 DEF Texts
<1> QED
  BY <1>1, <1>2, <1>3, <1>4, <1>5 DEF AnyLine, Lines

LEMMA LaidIn ==
  ASSUME NEW S, NEW seqs \in Seq(Seq(S))
  PROVE  FlattenSeq(seqs) \in Seq(S)
<1>1. PICK F : IsLaid(F, S, seqs)
  BY LaidExists, Zenon
<1>2. FlattenSeq(seqs) = F[Len(seqs)]
  BY <1>1, Flattened, Zenon
<1>3. Len(seqs) \in 0..Len(seqs) /\ F \in [0..Len(seqs) -> Seq(S)]
  BY <1>1 DEF IsLaid
<1> QED
  BY <1>2, <1>3

LEMMA AskedIs ==
  ASSUME NEW S, NEW items \in Seq(S), NEW kind
  PROVE  Asked(items, kind) \in Seq({i \in S : i.kind = kind})
<1>1. PICK T : T = {i \in S : i.kind = kind}
  OBVIOUS
<1>2. PICK seqs : seqs = [i \in DOMAIN items |-> IF items[i].kind = kind THEN << items[i] >> ELSE << >>]
  OBVIOUS
<1>3. DOMAIN items = 1..Len(items) /\ Len(items) \in Nat /\ \A i \in 1..Len(items) : items[i] \in S
  OBVIOUS
<1>4. ASSUME NEW i \in 1..Len(items) PROVE seqs[i] \in Seq(T)
  <2>1. CASE items[i].kind = kind
    <3>1. items[i] \in T
      BY <1>1, <1>3, <2>1
    <3>2. seqs[i] = << items[i] >>
      BY <1>2, <1>3, <2>1
    <3> QED
      BY <3>1, <3>2
  <2>2. CASE items[i].kind # kind
    <3>1. seqs[i] = << >>
      BY <1>2, <1>3, <2>2
    <3> QED
      BY <3>1
  <2> QED
    BY <2>1, <2>2
<1>5. seqs \in Seq(Seq(T))
  <2>1. DOMAIN seqs = 1..Len(items) /\ seqs = [i \in 1..Len(items) |-> seqs[i]]
    BY <1>2, <1>3
  <2> QED
    BY <1>3, <1>4, <2>1
<1>6. FlattenSeq(seqs) \in Seq(T)
  BY <1>5, LaidIn
<1> QED
  BY <1>1, <1>2, <1>6 DEF Asked

LEMMA FlagsAre ==
  ASSUME NEW r \in Requests, job[r].items \in Seq(AnyLine)
  PROVE  /\ \A i \in Nat : Flagged(r, i) \in Seq({<< r, i >>})
         /\ FlattenSeq([i \in DOMAIN job[r].items |-> FlaggedFile(r, i)]) \in Seq({r} \X Nat)
<1>1. ASSUME NEW i \in Nat PROVE Flagged(r, i) \in Seq({<< r, i >>})
  <2>1. PICK f : f = << r, i >>
    OBVIOUS
  <2>2. Flagged(r, i) = << >> \/ Flagged(r, i) = << f >>
    BY <2>1 DEF Flagged
  <2>3. << >> \in Seq({f}) /\ << f >> \in Seq({f})
    OBVIOUS
  <2> QED
    BY ONLY <2>1, <2>2, <2>3
<1>2. PICK n, items, T : items = job[r].items /\ n = Len(items) /\ T = {r} \X Nat
  OBVIOUS
<1>3. n \in Nat /\ DOMAIN items = 1..n
  BY <1>2
<1>4. ASSUME NEW i \in 1..n PROVE FlaggedFile(r, i) \in Seq(T)
  <2>1. PICK f : f = << r, i >>
    OBVIOUS
  <2>2. f \in T
    BY <1>2, <1>3, <2>1
  <2>3. FlaggedFile(r, i) = << >> \/ FlaggedFile(r, i) = << f >>
    BY <2>1 DEF FlaggedFile, Flagged
  <2>4. << >> \in Seq(T) /\ << f >> \in Seq(T)
    BY <2>2
  <2> QED
    BY ONLY <2>3, <2>4
<1>5. PICK seqs : seqs = [i \in DOMAIN items |-> FlaggedFile(r, i)]
  OBVIOUS
<1>6. seqs \in Seq(Seq(T))
  <2>1. DOMAIN seqs = 1..n /\ seqs = [i \in 1..n |-> seqs[i]]
    BY <1>3, <1>5
  <2>2. \A i \in 1..n : seqs[i] \in Seq(T)
    BY <1>3, <1>4, <1>5
  <2> QED
    BY <1>3, <2>1, <2>2
<1>7. FlattenSeq(seqs) \in Seq(T)
  BY <1>6, LaidIn
<1> QED
  BY <1>1, <1>2, <1>5, <1>7

LEMMA SetToSeqIs ==
  ASSUME NEW S, IsFiniteSet(S)
  PROVE  SetToSeq(S) \in Seq(S)
<1>1. PICK n \in Nat : ExistsBijection(1..n, S)
  BY FS_NatBijection
<1>2. Cardinality(S) = n
  BY <1>1, FS_CountingElements
<1>3. PICK f \in Bijection(1..n, S) : TRUE
  BY <1>1 DEF ExistsBijection
<1>4. f \in [1..n -> S] /\ IsInjective(f)
  BY <1>3 DEF Bijection, Injection, IsInjective
<1>5. SetToSeq(S) \in [1..n -> S]
  BY <1>2, <1>4 DEF SetToSeq
<1> QED
  BY <1>5

LEMMA HoldingIs ==
  ASSUME session \in [open : BOOLEAN, vault : Texts, prompts : Seq(Prompts)],
         NEW items \in Seq(Lines), NEW n \in 0..Len(items)
  PROVE  Holding(items, n) \in [open : BOOLEAN, vault : Texts, prompts : Seq(Prompts)]
<1>1. PICK part : part = SubSeq(items, 1, n)
  OBVIOUS
<1>2. part \in Seq(Lines)
  BY <1>1
<1>3. Pushed(part) \in Texts
  <2>1. \A i \in DOMAIN part : part[i] \in AnyLine
    BY <1>2 DEF AnyLine
  <2>2. \A i \in DOMAIN part : part[i].kind = "secret" => part[i].value \in Values
    BY <2>1, LinesAre
  <2> QED
    BY <2>2 DEF Pushed, Texts
<1>4. Asked(part, "prompt") \in Seq(Prompts)
  <2>1. PICK T : T = {i \in Lines : i.kind = "prompt"}
    OBVIOUS
  <2>2. T \subseteq Prompts
    BY <2>1, LinesAre DEF AnyLine
  <2>3. Asked(part, "prompt") \in Seq(T)
    BY <1>2, <2>1, AskedIs
  <2> QED
    BY <2>2, <2>3
<1>5. PICK v, p : v = session.vault \cup Pushed(part) /\ p = session.prompts \o Asked(part, "prompt")
  OBVIOUS
<1>6. v \in Texts /\ p \in Seq(Prompts)
  BY <1>3, <1>4, <1>5 DEF Texts
<1>7. Holding(items, n) = [session EXCEPT !.vault = v, !.prompts = p]
  BY <1>1, <1>5 DEF Holding
<1> QED
  BY <1>6, <1>7

LEMMA NextPromptIs ==
  ASSUME NEW r \in Requests, job[r].items \in Seq(AnyLine), job[r].at \in Nat
  PROVE  /\ NextPrompt(r) = 0 => \A i \in PromptsOf(r) : i <= job[r].at
         /\ NextPrompt(r) # 0 =>
              /\ NextPrompt(r) \in PromptsOf(r) /\ NextPrompt(r) > job[r].at
              /\ \A i \in PromptsOf(r) : i > job[r].at => NextPrompt(r) <= i
<1>1. PICK later : later = {i \in DOMAIN job[r].items : i > job[r].at /\ job[r].items[i].kind = "prompt"}
  OBVIOUS
<1>2. NextPrompt(r) = IF later = {} THEN 0 ELSE CHOOSE i \in later : \A j \in later : i <= j
  BY <1>1 DEF NextPrompt
<1>3. DOMAIN job[r].items = 1..Len(job[r].items) /\ Len(job[r].items) \in Nat
  OBVIOUS
<1>4. later = {i \in PromptsOf(r) : i > job[r].at}
  BY <1>1 DEF PromptsOf
<1>5. \A i \in PromptsOf(r) : i \in Nat /\ i > 0
  BY <1>3 DEF PromptsOf
<1>6. CASE later = {}
  BY <1>2, <1>4, <1>5, <1>6
<1>7. CASE later # {}
  <2>1. later \in SUBSET Nat
    BY <1>4, <1>5
  <2>2. \E i \in later : \A j \in later : i <= j
    BY <1>7, <2>1, LeastOf
  <2>3. NextPrompt(r) \in later /\ \A j \in later : NextPrompt(r) <= j
    BY <1>2, <1>7, <2>2
  <2> QED
    BY <1>4, <1>5, <2>3
<1> QED
  BY <1>6, <1>7

LEMMA PlanStays ==
  ASSUME doors' = doors, NEW m
  PROVE  Plan(m)' = Plan(m) /\ Answering(m)' = Answering(m)
<1>1. Plan(m)' = Plan(m)
  BY DEF Plan
<1>2. Answering(m)' = Answering(m)
  BY DEF Answering
<1> QED
  BY <1>1, <1>2

-----------------------------------------------------------------------------
(* PromptPass: what a step leaves alone.                                     *)

LEMMA JobKept ==
  ASSUME NEW r \in Requests, JobIs(r), job'[r] = job[r], doors' = doors
  PROVE  JobIs(r)'
BY DEF JobIs, PromptsOf

LEMMA AskingKept ==
  ASSUME NEW r \in Requests, AskingIs(r), job'[r] = job[r], doors' = doors,
         report' = report \/ job[r].pc # "asking"
  PROVE  AskingIs(r)'
<1> SUFFICES ASSUME job'[r].pc = "asking" PROVE AskingIs(r)'
  BY DEF AskingIs
<1>1. job[r].pc = "asking" /\ report' = report /\ Current(r)' = Current(r) /\ PromptsOf(r)' = PromptsOf(r)
  BY DEF Current, PromptsOf
<1>2. PICK m, plan, own : m = Current(r).model /\ plan = Plan(m) /\ own = Answering(m)
  OBVIOUS
<1>3. Plan(m)' = plan /\ Answering(m)' = own
  BY <1>2, PlanStays
<1>4. Plan(Current(r).model)' = Plan(m)' /\ Answering(Current(r).model)' = Answering(m)'
  BY ONLY <1>1, <1>2 DEF Plan, Answering
<1>5. /\ job[r].at \in PromptsOf(r) /\ m \in Models
      /\ AsksFor(plan, own, job[r].heard, job[r].left, report.door)
  BY <1>1, <1>2 DEF AskingIs
<1>6. AsksFor(plan, own, job'[r].heard, job'[r].left, report'.door)
  BY <1>1, <1>5
<1>7. Plan(Current(r).model)' = plan /\ Answering(Current(r).model)' = own
  BY ONLY <1>3, <1>4
<1>8. AsksFor(plan, own, job[r].heard, job[r].left, report.door)'
      = AsksFor(plan, own, job'[r].heard, job'[r].left, report'.door)
  OBVIOUS
<1>9. (job[r].at \in PromptsOf(r) /\ Current(r).model \in Models)'
  BY <1>1, <1>2, <1>5
<1>10. AsksFor(Plan(Current(r).model), Answering(Current(r).model), job[r].heard, job[r].left, report.door)'
  BY ONLY <1>6, <1>7 DEF AsksFor, HeardInTurn
<1> QED
  BY ONLY <1>9, <1>10 DEF AskingIs

LEMMA RowsKept ==
  ASSUME PromptTyped, \A n \in DOMAIN audit : RowIs(n), audit' = audit,
         \A r \in Requests : job[r].pc \in {"next", "asking", "done"} =>
           job'[r].pc \in {"next", "asking", "done"} /\ job'[r].needles = job[r].needles
  PROVE  \A n \in DOMAIN audit' : RowIs(n)'
<1> SUFFICES ASSUME NEW n \in DOMAIN audit PROVE RowIs(n)'
  OBVIOUS
<1>1. PICK row, q : row = audit[n] /\ q = row.of[1]
  OBVIOUS
<1>2. row \in Rows
  BY <1>1 DEF PromptTyped
<1>3. q \in Requests
  BY <1>1, <1>2 DEF Rows
<1>4. job[q].pc \in {"next", "asking", "done"} /\ RowIsClean(row, job[q].needles) /\ RowIsOwn(row)
  BY <1>1 DEF RowIs
<1>5. job'[q].pc \in {"next", "asking", "done"} /\ RowIsClean(row, job'[q].needles)
  BY <1>3, <1>4
<1>6. audit'[n] = row
  BY <1>1
<1> QED
  BY <1>1, <1>4, <1>5, <1>6 DEF RowIs

LEMMA TellsOn ==
  ASSUME NEW r \in Requests, RowsTell(r), audit' = audit, Past(job'[r]) = Past(job[r])
  PROVE  RowsTell(r)'
<1>1. RowsOf(r)' = RowsOf(r)
  BY DEF RowsOf
<1> QED
  BY <1>1 DEF RowsTell

LEMMA RowAdded ==
  ASSUME audit \in Seq(Rows), NEW row \in Rows, audit' = Append(audit, row)
  PROVE  /\ audit' \in Seq(Rows) /\ Len(audit) \in Nat /\ DOMAIN audit' = 1..(Len(audit) + 1)
         /\ audit'[Len(audit) + 1] = row /\ \A n \in DOMAIN audit : n \in 1..Len(audit) /\ audit'[n] = audit[n]
         /\ \A r : row.of[1] # r \/ row.of[2] = 0 => RowsOf(r)' = RowsOf(r)
         /\ row.of[2] # 0 => RowsOf(row.of[1])' = RowsOf(row.of[1]) \cup {Len(audit) + 1}
<1>1. PICK k : k = Len(audit)
  OBVIOUS
<1>2. /\ audit' \in Seq(Rows) /\ k \in Nat /\ DOMAIN audit' = 1..(k + 1) /\ DOMAIN audit = 1..k
      /\ audit'[k + 1] = row /\ \A n \in 1..k : audit'[n] = audit[n]
  BY <1>1
<1>3. \A n \in 1..(k + 1) : n \in 1..k \/ n = k + 1
  BY <1>2
<1>4. \A n \in 1..k : n \in 1..(k + 1) /\ n # k + 1
  BY <1>2
<1>5. k + 1 \in 1..(k + 1)
  BY <1>2
<1>6. ASSUME NEW r, row.of[1] # r \/ row.of[2] = 0 PROVE RowsOf(r)' = RowsOf(r)
  BY <1>2, <1>3, <1>4, <1>6 DEF RowsOf
<1>7. ASSUME row.of[2] # 0 PROVE RowsOf(row.of[1])' = RowsOf(row.of[1]) \cup {k + 1}
  BY <1>2, <1>3, <1>4, <1>5, <1>7 DEF RowsOf
<1> QED
  BY <1>1, <1>2, <1>6, <1>7

LEMMA OthersTell ==
  ASSUME audit \in Seq(Rows), NEW row \in Rows, audit' = Append(audit, row),
         NEW r \in Requests, RowsTell(r), Past(job'[r]) = Past(job[r]),
         row.of[1] # r \/ row.of[2] = 0
  PROVE  RowsTell(r)'
<1>1. PICK S : S = RowsOf(r)
  OBVIOUS
<1>2. RowsOf(r)' = S
  BY <1>1, RowAdded
<1>3. \A n \in S : audit'[n] = audit[n]
  BY <1>1, RowAdded DEF RowsOf
<1>4. {audit'[n].of[2] : n \in S} = {audit[n].of[2] : n \in S}
  BY ONLY <1>3
<1>5. \A n, o \in S : n < o => audit'[n].of[2] < audit'[o].of[2]
  <2>1. \A n, o \in S : n < o => audit[n].of[2] < audit[o].of[2]
    BY <1>1 DEF RowsTell
  <2> QED
    BY ONLY <1>3, <2>1
<1>6. {audit[n].of[2] : n \in S} = Past(job[r])
  BY <1>1 DEF RowsTell
<1>7. {audit'[n].of[2] : n \in S} = Past(job'[r])
  BY <1>4, <1>6
<1> QED
  BY <1>2, <1>5, <1>7 DEF RowsTell

LEMMA OneTells ==
  ASSUME audit \in Seq(Rows), NEW row \in Rows, audit' = Append(audit, row),
         NEW r \in Requests, RowsTell(r), NEW i \in Nat \ {0}, row.of = << r, i >>,
         Past(job'[r]) = Past(job[r]) \cup {i}, \A k \in Past(job[r]) : k < i
  PROVE  RowsTell(r)'
<1>1. PICK last, old : last = Len(audit) + 1 /\ old = RowsOf(r)
  OBVIOUS
<1>2. row.of[1] = r /\ row.of[2] = i /\ i # 0
  OBVIOUS
<1>3. /\ RowsOf(r)' = old \cup {last} /\ audit'[last] = row
      /\ \A n \in old : audit'[n] = audit[n] /\ n \in Nat /\ n < last
      /\ last \in Nat
  <2>1. RowsOf(r)' = old \cup {last} /\ audit'[last] = row
    BY <1>1, <1>2, RowAdded
  <2>2. \A n \in DOMAIN audit : n \in 1..Len(audit) /\ audit'[n] = audit[n] /\ Len(audit) \in Nat
    BY RowAdded
  <2>3. \A n \in old : n \in DOMAIN audit
    BY <1>1 DEF RowsOf
  <2>4. last \in Nat
    BY <1>1, RowAdded
  <2> QED
    BY <1>1, <2>1, <2>2, <2>3, <2>4
<1>4. \A n \in old : audit[n].of[2] \in Past(job[r])
  BY <1>1 DEF RowsTell
<1>5. {audit'[n].of[2] : n \in old \cup {last}} = {audit[n].of[2] : n \in old} \cup {i}
  <2>1. \A n \in old : audit'[n].of[2] = audit[n].of[2]
    BY <1>3
  <2>2. audit'[last].of[2] = i
    BY <1>2, <1>3
  <2> QED
    BY ONLY <2>1, <2>2
<1>6. {audit'[n].of[2] : n \in RowsOf(r)'} = Past(job'[r])
  BY <1>1, <1>3, <1>5 DEF RowsTell
<1>7. ASSUME NEW n \in old \cup {last}, NEW o \in old \cup {last}, n < o
      PROVE  audit'[n].of[2] < audit'[o].of[2]
  <2>1. n \in old
    BY <1>3, <1>7
  <2>2. CASE o \in old
    BY <1>1, <1>3, <1>7, <2>1, <2>2 DEF RowsTell
  <2>3. CASE o = last
    BY <1>2, <1>3, <1>4, <2>1, <2>3
  <2> QED
    BY <2>2, <2>3
<1> QED
  BY <1>3, <1>6, <1>7 DEF RowsTell

-----------------------------------------------------------------------------
(* PromptPass: what is done outside the pass.                                *)

LEMMA PromptStarts == PromptInit => PromptInv
<1> SUFFICES ASSUME PromptInit PROVE PromptInv
  OBVIOUS
<1>1. /\ doors = NoDoors /\ gate = {} /\ needles = {} /\ pending = << >> /\ report = NoReport /\ audit = << >>
      /\ session = [open |-> TRUE, vault |-> {}, prompts |-> << >>]
      /\ job = [r \in Requests |-> NoJob]
  BY DEF PromptInit
<1>2. NoJob \in JobRecs
  BY DEF NoJob, JobRecs, PromptPcs, Texts
<1>3. PromptTyped
  <2>1. job \in [Requests -> JobRecs]
    BY <1>1, <1>2
  <2>2. session \in [open : BOOLEAN, vault : Texts, prompts : Seq(Prompts)]
    BY <1>1 DEF Texts
  <2>3. report \in [door : Hosts \cup {NoPrompt}, other : {<< >>}]
    BY <1>1 DEF NoReport
  <2> QED
    BY <1>1, <2>1, <2>2, <2>3 DEF PromptTyped, Texts
<1>4. ASSUME NEW r \in Requests
      PROVE  job[r].pc = "new" /\ job[r].at = 0 /\ ~job[r].stream /\ job[r].needles = {} /\ job[r].items = << >>
  BY <1>1 DEF NoJob
<1>5. PassIsOnes
  BY <1>1, <1>4 DEF PassIsOnes, Passing
<1>6. ASSUME NEW r \in Requests PROVE JobIs(r) /\ AskingIs(r) /\ RowsTell(r)
  <2>1. JobIs(r) /\ AskingIs(r)
    BY <1>4 DEF JobIs, AskingIs
  <2>2. Past(job[r]) = {}
    BY <1>4 DEF Past
  <2>3. RowsOf(r) = {}
    BY <1>1 DEF RowsOf
  <2> QED
    BY <2>1, <2>2, <2>3 DEF RowsTell
<1>7. DOMAIN audit = {}
  BY <1>1
<1> QED
  BY <1>3, <1>5, <1>6, <1>7 DEF PromptInv

LEMMA NothingPast ==
  ASSUME NEW j \in JobRecs, j.at = 0
  PROVE  Past(j) = {}
<1>1. \A i \in 1..Len(j.items) : ~(i < 0) /\ i # 0
  BY DEF JobRecs
<1> QED
  BY <1>1 DEF Past

LEMMA OutsideStep ==
  ASSUME PromptInv, NEW q \in Requests, NEW j \in JobRecs,
         job[q].pc \in {"new", "reading"}, j.pc \in {"reading", "waiting", "refused"}, j.at = 0,
         j.stream => j.items \in Seq(Lines), ~j.stream => j.needles = {},
         j.pc = "reading" => j.stream, doors # NoDoors,
         job' = [job EXCEPT ![q] = j],
         session' \in [open : BOOLEAN, vault : Texts, prompts : Seq(Prompts)], PassUnchanged
  PROVE  PromptInv'
<1>1. /\ doors' = doors /\ gate' = gate /\ needles' = needles /\ pending' = pending
      /\ report' = report /\ audit' = audit
  BY DEF PassUnchanged
<1>2. PromptTyped /\ PassIsOnes
  BY DEF PromptInv
<1>3. job \in [Requests -> JobRecs]
  BY <1>2 DEF PromptTyped
<1>4. job'[q] = j /\ \A r \in Requests : r # q => job'[r] = job[r]
  BY <1>3
<1>5. PromptTyped'
  <2>1. job' \in [Requests -> JobRecs]
    BY <1>3
  <2> QED
    BY <1>1, <1>2, <2>1 DEF PromptTyped
<1>6. PassIsOnes'
  BY <1>1, <1>2, <1>4 DEF PassIsOnes, Passing
<1>7. ASSUME NEW r \in Requests PROVE JobIs(r)' /\ AskingIs(r)' /\ RowsTell(r)'
  <2>1. JobIs(r) /\ AskingIs(r) /\ RowsTell(r)
    BY DEF PromptInv
  <2>2. CASE r # q
    BY <1>1, <1>4, <2>1, <2>2, JobKept, AskingKept, TellsOn
  <2>3. CASE r = q
    <3>1. JobIs(q)' /\ AskingIs(q)'
      BY <1>1, <1>4 DEF JobIs, AskingIs
    <3>2. job[q] \in JobRecs /\ job[q].at = 0
      BY <1>3, <2>1, <2>3 DEF JobIs
    <3>3. Past(job[q]) = Past(job'[q])
      BY <1>4, <3>2, NothingPast
    <3> QED
      BY <1>1, <2>1, <2>3, <3>1, <3>3, TellsOn
  <2> QED
    BY <2>2, <2>3
<1>8. \A n \in DOMAIN audit' : RowIs(n)'
  <2>1. \A n \in DOMAIN audit : RowIs(n)
    BY DEF PromptInv
  <2>2. \A r \in Requests : job[r].pc \in {"next", "asking", "done"} => job'[r] = job[r]
    BY <1>4
  <2> QED
    BY <1>1, <1>2, <2>1, <2>2, RowsKept
<1> QED
  BY <1>5, <1>6, <1>7, <1>8 DEF PromptInv

LEMMA OpenStep == PromptInv /\ Open => PromptInv'
<1> SUFFICES ASSUME PromptInv, Open PROVE PromptInv'
  OBVIOUS
<1>1. /\ doors = NoDoors /\ session' = session /\ job' = job /\ gate' = gate /\ needles' = needles
      /\ pending' = pending /\ report' = report /\ audit' = audit
  BY DEF Open
<1>2. DoorsOf(doors')
  <2>1. PICK c \in Setups : Accepted(c) /\ doors' = Connected(c)
    BY DEF Open
  <2>2. c \in DoorConfigs
    BY InputAssumption
  <2> QED
    BY <2>1, <2>2, ConnectedIs
<1>3. PromptTyped /\ PassIsOnes
  BY DEF PromptInv
<1>4. PromptTyped' /\ PassIsOnes'
  <2>1. PromptTyped'
    BY <1>1, <1>2, <1>3 DEF PromptTyped
  <2>2. PassIsOnes'
    BY <1>1, <1>3 DEF PassIsOnes
  <2> QED
    BY <2>1, <2>2
<1>5. ASSUME NEW r \in Requests PROVE JobIs(r)' /\ AskingIs(r)' /\ RowsTell(r)'
  <2>1. JobIs(r) /\ RowsTell(r)
    BY DEF PromptInv
  <2>2. job[r].pc = "new"
    BY <1>1, <2>1 DEF JobIs
  <2>3. JobIs(r)' /\ AskingIs(r)'
    BY <1>1, <2>1, <2>2 DEF JobIs, AskingIs
  <2> QED
    BY <1>1, <2>1, <2>3, TellsOn
<1>6. \A n \in DOMAIN audit' : RowIs(n)'
  <2>1. \A n \in DOMAIN audit : RowIs(n)
    BY DEF PromptInv
  <2> QED
    BY <1>1, <1>3, <2>1, RowsKept
<1> QED
  BY <1>4, <1>5, <1>6 DEF PromptInv

LEMMA CloseStep == PromptInv /\ (Close \/ UNCHANGED PromptVars) => PromptInv'
<1> SUFFICES ASSUME PromptInv, Close \/ UNCHANGED PromptVars PROVE PromptInv'
  OBVIOUS
<1>1. /\ doors' = doors /\ job' = job /\ gate' = gate /\ needles' = needles
      /\ pending' = pending /\ report' = report /\ audit' = audit
  BY DEF Close, PassUnchanged, PromptVars
<1>2. PromptTyped /\ PassIsOnes
  BY DEF PromptInv
<1>3. session' \in [open : BOOLEAN, vault : Texts, prompts : Seq(Prompts)]
  <2>1. CASE Close
    <3>1. session' = [open |-> FALSE, vault |-> {}, prompts |-> << >>]
      BY <2>1 DEF Close
    <3> QED
      BY <3>1 DEF Texts
  <2>2. CASE UNCHANGED PromptVars
    BY <1>2, <2>2 DEF PromptVars, PromptTyped
  <2> QED
    BY <2>1, <2>2
<1>4. PromptTyped' /\ PassIsOnes'
  <2>1. PromptTyped'
    BY <1>1, <1>2, <1>3 DEF PromptTyped
  <2>2. PassIsOnes'
    BY <1>1, <1>2 DEF PassIsOnes
  <2> QED
    BY <2>1, <2>2
<1>5. ASSUME NEW r \in Requests PROVE JobIs(r)' /\ AskingIs(r)' /\ RowsTell(r)'
  <2>1. JobIs(r) /\ AskingIs(r) /\ RowsTell(r)
    BY DEF PromptInv
  <2> QED
    BY <1>1, <2>1, JobKept, AskingKept, TellsOn
<1>6. \A n \in DOMAIN audit' : RowIs(n)'
  <2>1. \A n \in DOMAIN audit : RowIs(n)
    BY DEF PromptInv
  <2> QED
    BY <1>1, <1>2, <2>1, RowsKept
<1> QED
  BY <1>4, <1>5, <1>6 DEF PromptInv

LEMMA BodiesStep ==
  ASSUME PromptInv, NEW q \in Requests,
         Submit(q) \/ Stream(q) \/ Deliver(q) \/ DeliverSome(q) \/ Refuse(q)
  PROVE  PromptInv'
<1>1. PromptTyped /\ JobIs(q)
  BY DEF PromptInv
<1>2. /\ job \in [Requests -> JobRecs] /\ job[q] \in JobRecs
      /\ session \in [open : BOOLEAN, vault : Texts, prompts : Seq(Prompts)]
  BY <1>1 DEF PromptTyped
<1>3. CASE Submit(q)
  <2>1. PICK p \in Prompts \cup {Blank}, key \in BOOLEAN :
          job' = [job EXCEPT ![q] = [NoJob EXCEPT !.pc = "waiting", !.key = key, !.items = << p >>]]
    BY <1>3 DEF Submit
  <2>2. PICK j : j = [NoJob EXCEPT !.pc = "waiting", !.key = key, !.items = << p >>]
    OBVIOUS
  <2>3. << p >> \in Seq(AnyLine)
    BY DEF AnyLine, Lines
  <2>4. j \in JobRecs /\ j.pc = "waiting" /\ j.at = 0 /\ ~j.stream /\ j.needles = {}
    <3>1. j = [pc |-> "waiting", stream |-> FALSE, key |-> key, items |-> << p >>, at |-> 0,
               needles |-> {}, left |-> << >>, heard |-> << >>]
      BY <2>2 DEF NoJob
    <3>2. "waiting" \in PromptPcs /\ {} \in Texts /\ << >> \in Seq(Hosts) /\ << >> \in Seq(Heards)
      BY DEF PromptPcs, Texts
    <3> QED
      BY <2>3, <3>1, <3>2 DEF JobRecs
  <2> QED
    BY <1>2, <1>3, <2>1, <2>2, <2>4, OutsideStep DEF Submit
<1>4. CASE Stream(q)
  <2>1. PICK body \in Bodies :
          job' = [job EXCEPT ![q] = [NoJob EXCEPT !.pc = "reading", !.stream = TRUE, !.items = body]]
    BY <1>4 DEF Stream
  <2>2. PICK j : j = [NoJob EXCEPT !.pc = "reading", !.stream = TRUE, !.items = body]
    OBVIOUS
  <2>3. body \in Seq(Lines) /\ body \in Seq(AnyLine)
    BY InputAssumption DEF AnyLine
  <2>4. j \in JobRecs /\ j.pc = "reading" /\ j.at = 0 /\ j.stream /\ j.items = body
    <3>1. j = [pc |-> "reading", stream |-> TRUE, key |-> TRUE, items |-> body, at |-> 0,
               needles |-> {}, left |-> << >>, heard |-> << >>]
      BY <2>2 DEF NoJob
    <3>2. "reading" \in PromptPcs /\ {} \in Texts /\ << >> \in Seq(Hosts) /\ << >> \in Seq(Heards)
      BY DEF PromptPcs, Texts
    <3> QED
      BY <2>3, <3>1, <3>2 DEF JobRecs
  <2> QED
    BY <1>2, <1>4, <2>1, <2>2, <2>3, <2>4, OutsideStep DEF Stream
<1>5. ASSUME job[q].pc = "reading"
      PROVE  /\ doors # NoDoors /\ job[q].stream /\ job[q].items \in Seq(Lines) /\ job[q].at = 0
             /\ Len(job[q].items) \in Nat
  BY <1>1, <1>5 DEF JobIs
<1>6. CASE Deliver(q)
  <2>1. job[q].pc = "reading" /\ session' = Holding(job[q].items, Len(job[q].items)) /\ PassUnchanged
    BY <1>6 DEF Deliver
  <2>2. session' \in [open : BOOLEAN, vault : Texts, prompts : Seq(Prompts)]
    BY <1>2, <1>5, <2>1, HoldingIs
  <2>3. PICK j : j = [job[q] EXCEPT !.pc = "waiting", !.needles = session'.vault \ Short]
    OBVIOUS
  <2>4. job' = [job EXCEPT ![q] = j]
    BY <1>2, <1>6, <2>3 DEF Deliver
  <2>5. session'.vault \ Short \in Texts
    BY <2>2 DEF Texts
  <2>6. j \in JobRecs /\ j.pc = "waiting" /\ j.at = 0 /\ j.stream /\ j.items \in Seq(Lines)
    BY <1>2, <1>5, <2>1, <2>3, <2>5 DEF JobRecs, PromptPcs
  <2> QED
    BY <1>5, <2>1, <2>2, <2>4, <2>6, OutsideStep
<1>7. CASE DeliverSome(q) \/ Refuse(q)
  <2>1. job[q].pc = "reading" /\ job' = [job EXCEPT ![q].pc = "refused"] /\ PassUnchanged
    BY <1>7 DEF DeliverSome, Refuse, Goes
  <2>2. session' \in [open : BOOLEAN, vault : Texts, prompts : Seq(Prompts)]
    <3>1. CASE Refuse(q)
      BY <1>2, <3>1 DEF Refuse
    <3>2. CASE DeliverSome(q)
      <4>1. PICK n \in 0..(Len(job[q].items) - 1) : session' = Holding(job[q].items, n)
        BY <3>2 DEF DeliverSome
      <4>2. n \in 0..Len(job[q].items)
        BY <1>5, <2>1
      <4> QED
        BY <1>2, <1>5, <2>1, <4>1, <4>2, HoldingIs
    <3> QED
      BY <1>7, <3>1, <3>2
  <2>3. PICK j : j = [job[q] EXCEPT !.pc = "refused"]
    OBVIOUS
  <2>4. job' = [job EXCEPT ![q] = j]
    BY <1>2, <2>1, <2>3
  <2>5. j \in JobRecs /\ j.pc = "refused" /\ j.at = 0 /\ j.stream /\ j.items \in Seq(Lines)
    BY <1>2, <1>5, <2>1, <2>3 DEF JobRecs, PromptPcs
  <2> QED
    BY <1>5, <2>1, <2>2, <2>4, <2>5, OutsideStep
<1> QED
  BY <1>3, <1>4, <1>6, <1>7

-----------------------------------------------------------------------------
(* PromptPass: the request that is in the pass.                              *)

LEMMA OthersStay ==
  ASSUME PromptInv, NEW q \in Requests, NEW j \in JobRecs, job' = [job EXCEPT ![q] = j],
         doors' = doors, gate = {} \/ q \in gate
  PROVE  /\ job' \in [Requests -> JobRecs] /\ job'[q] = j
         /\ \A r \in Requests \ {q} :
              /\ job'[r] = job[r] /\ r \notin gate /\ job[r].pc \notin Passing
              /\ JobIs(r)' /\ AskingIs(r)'
<1>1. PassIsOnes /\ job \in [Requests -> JobRecs]
  BY DEF PromptInv, PromptTyped
<1>2. job' \in [Requests -> JobRecs] /\ job'[q] = j
  BY <1>1
<1>3. ASSUME NEW r \in Requests \ {q}
      PROVE  /\ job'[r] = job[r] /\ r \notin gate /\ job[r].pc \notin Passing
             /\ JobIs(r)' /\ AskingIs(r)'
  <2>1. job'[r] = job[r]
    BY <1>1
  <2>2. r \notin gate
    BY <1>1 DEF PassIsOnes
  <2>3. job[r].pc \notin Passing
    BY <1>1, <2>2 DEF PassIsOnes
  <2>4. job[r].pc # "asking"
    BY <2>3 DEF Passing
  <2>5. JobIs(r) /\ AskingIs(r)
    BY DEF PromptInv
  <2> QED
    BY <2>1, <2>2, <2>3, <2>4, <2>5, JobKept, AskingKept
<1> QED
  BY <1>2, <1>3

LEMMA PassStays ==
  ASSUME PromptInv, NEW q \in gate, NEW j \in JobRecs, job' = [job EXCEPT ![q] = j],
         gate' = gate, needles' = needles, j.pc \in Passing, j.needles = job[q].needles,
         j.pc # "asking" => pending' = << >>,
         j.pc = "asking" => \A f \in ToSet(pending') : f = << q, j.at >>
  PROVE  PassIsOnes'
<1>1. PassIsOnes /\ q \in Requests /\ job \in [Requests -> JobRecs]
  BY DEF PromptInv, PromptTyped
<1>2. job'[q] = j /\ \A r \in Requests : r # q => job'[r] = job[r] /\ r \notin gate /\ job[r].pc \notin Passing
  BY <1>1 DEF PassIsOnes
<1>3. \A r \in Requests : job'[r].pc = "asking" => r = q
  BY <1>2 DEF Passing
<1>4. \A r \in Requests : r \in gate' <=> job'[r].pc \in Passing
  BY <1>1, <1>2
<1>5. (\A r, s \in gate' : r = s) /\ (\A r \in gate' : needles' = job'[r].needles) /\ (gate' = {} => needles' = {})
  BY <1>1, <1>2 DEF PassIsOnes
<1>6. (\A r \in Requests : job'[r].pc # "asking") => pending' = << >>
  BY <1>1, <1>2
<1>7. \A r \in Requests : job'[r].pc = "asking" => \A f \in ToSet(pending') : f = << r, job'[r].at >>
  <2>1. CASE j.pc = "asking"
    BY <1>2, <1>3, <2>1
  <2>2. CASE j.pc # "asking"
    BY <1>2, <1>3, <2>2
  <2> QED
    BY <2>1, <2>2
<1>8. \A r \in Requests : job'[r].pc = "asking" => \A f \in ToSet(pending)' : f = << r, job'[r].at >>
  <2>1. ToSet(pending)' = ToSet(pending')
    BY DEF ToSet
  <2> QED
    BY <1>7, <2>1
<1> QED
  BY <1>4, <1>5, <1>6, <1>8 DEF PassIsOnes

\* What a step of a request in the pass leaves of what the rows say.
LEMMA RowsAndOne ==
  ASSUME PromptInv, NEW q \in Requests, NEW j \in JobRecs, job' = [job EXCEPT ![q] = j],
         j.pc \in {"next", "asking", "done"}, j.needles = job[q].needles,
         \/ audit' = audit
         \/ \E row \in Rows : /\ audit' = Append(audit, row) /\ row.of[1] = q
                              /\ RowIsClean(row, j.needles) /\ RowIsOwn(row)
  PROVE  \A n \in DOMAIN audit' : RowIs(n)'
<1>1. PromptTyped /\ job \in [Requests -> JobRecs] /\ \A n \in DOMAIN audit : RowIs(n)
  BY DEF PromptInv, PromptTyped
<1>2. job'[q] = j /\ \A r \in Requests : r # q => job'[r] = job[r]
  BY <1>1
<1>3. \A r \in Requests : job[r].pc \in {"next", "asking", "done"} =>
        job'[r].pc \in {"next", "asking", "done"} /\ job'[r].needles = job[r].needles
  BY <1>2
<1>4. CASE audit' = audit
  BY <1>1, <1>3, <1>4, RowsKept
<1>5. ASSUME NEW row \in Rows, audit' = Append(audit, row), row.of[1] = q,
             RowIsClean(row, j.needles), RowIsOwn(row)
      PROVE  \A n \in DOMAIN audit' : RowIs(n)'
  <2>1. audit \in Seq(Rows)
    BY <1>1 DEF PromptTyped
  <2>2. PICK k \in Nat : /\ k = Len(audit) /\ DOMAIN audit' = 1..(k + 1) /\ audit'[k + 1] = row
                         /\ \A n \in DOMAIN audit : audit'[n] = audit[n]
    BY <1>5, <2>1, RowAdded
  <2>3. ASSUME NEW n \in DOMAIN audit PROVE RowIs(n)'
    <3>1. PICK old, r : old = audit[n] /\ r = old.of[1]
      OBVIOUS
    <3>2. old \in Rows
      BY <2>1, <3>1
    <3>3. r \in Requests
      BY <3>1, <3>2 DEF Rows
    <3>4. job[r].pc \in {"next", "asking", "done"} /\ RowIsClean(old, job[r].needles) /\ RowIsOwn(old)
      BY <1>1, <3>1 DEF RowIs
    <3>5. job'[r].pc \in {"next", "asking", "done"} /\ RowIsClean(old, job'[r].needles)
      BY <1>3, <3>3, <3>4
    <3>6. audit'[n] = old
      BY <2>2, <3>1
    <3> QED
      BY <3>1, <3>4, <3>5, <3>6 DEF RowIs
  <2>4. RowIs(k + 1)'
    BY <1>2, <1>5, <2>2 DEF RowIs
  <2>5. \A n \in 1..(k + 1) : n \in DOMAIN audit \/ n = k + 1
    BY <2>1, <2>2
  <2> QED
    BY <2>2, <2>3, <2>4, <2>5
<1> QED
  BY <1>4, <1>5

LEMMA EnterStep ==
  ASSUME PromptInv, NEW q \in Requests, Enter(q)
  PROVE  PromptInv'
<1>1. /\ gate = {} /\ gate' = gate \cup {q} /\ job[q].pc = "waiting"
      /\ job' = [job EXCEPT ![q].pc = "next"]
      /\ needles' = IF job[q].stream THEN job[q].needles ELSE needles
      /\ doors' = doors /\ session' = session /\ pending' = pending /\ report' = report /\ audit' = audit
  BY DEF Enter, GateIsFree, Goes
<1>2. PromptTyped /\ PassIsOnes /\ JobIs(q) /\ RowsTell(q)
  BY DEF PromptInv
<1>3. job \in [Requests -> JobRecs] /\ job[q] \in JobRecs
  BY <1>2 DEF PromptTyped
<1>4. PICK j : j = [job[q] EXCEPT !.pc = "next"]
  OBVIOUS
<1>5. job' = [job EXCEPT ![q] = j]
  BY <1>1, <1>3, <1>4
<1>6. /\ j \in JobRecs /\ j.pc = "next" /\ j.needles = job[q].needles /\ j.at = 0 /\ j.stream = job[q].stream
      /\ j.items = job[q].items /\ job[q].at = 0 /\ doors # NoDoors /\ job[q].needles \in Texts
  BY <1>1, <1>2, <1>3, <1>4 DEF JobRecs, PromptPcs, JobIs
<1>7. /\ job' \in [Requests -> JobRecs] /\ job'[q] = j
      /\ \A r \in Requests \ {q} : job'[r] = job[r] /\ job[r].pc \notin Passing /\ JobIs(r)' /\ AskingIs(r)'
  BY <1>1, <1>5, <1>6, OthersStay
<1>8. needles' = job[q].needles
  BY <1>1, <1>2 DEF PassIsOnes, JobIs
<1>9. PromptTyped'
  BY <1>1, <1>2, <1>6, <1>7, <1>8 DEF PromptTyped
<1>10. PassIsOnes'
  <2>1. \A r \in Requests : job'[r].pc # "asking" /\ job[r].pc # "asking"
    BY <1>1, <1>6, <1>7 DEF Passing
  <2>2. pending' = << >>
    BY <1>1, <1>2, <2>1 DEF PassIsOnes
  <2>3. \A r \in Requests : r \in gate' <=> job'[r].pc \in Passing
    BY <1>1, <1>6, <1>7 DEF Passing
  <2> QED
    BY <1>1, <1>6, <1>7, <1>8, <2>1, <2>2, <2>3 DEF PassIsOnes
<1>11. JobIs(q)' /\ AskingIs(q)'
  BY <1>1, <1>2, <1>6, <1>7 DEF JobIs, AskingIs
<1>12. ASSUME NEW r \in Requests PROVE RowsTell(r)'
  <2>1. Past(job[q]) = {} /\ Past(job'[q]) = {}
    BY <1>3, <1>6, <1>7, NothingPast
  <2>2. RowsTell(r)
    BY DEF PromptInv
  <2>3. Past(job'[r]) = Past(job[r])
    BY <1>7, <2>1
  <2> QED
    BY <1>1, <2>2, <2>3, TellsOn
<1>13. \A n \in DOMAIN audit' : RowIs(n)'
  BY <1>1, <1>5, <1>6, RowsAndOne
<1> QED
  BY <1>7, <1>9, <1>10, <1>11, <1>12, <1>13 DEF PromptInv

-----------------------------------------------------------------------------
(* PromptPass: a prompt is begun.                                            *)

LEMMA RowTyped ==
  ASSUME NEW of \in Requests \X Nat, NEW outcome \in {"rejected", "door_failed", "forwarded"},
         NEW door \in Hosts \cup {NoPrompt}, NEW shown \in Texts, NEW other \in Seq(Asides),
         NEW heard \in Seq(Heards), NEW flags \in Seq(Requests \X Nat)
  PROVE  Row(of, outcome, door, shown, other, heard, flags) \in Rows
<1>1. PICK T, U, A, H : T = Requests \X Nat /\ U = Seq(T) /\ A = Seq(Asides) /\ H = Seq(Heards)
  OBVIOUS
<1>2. Rows = [of : T, outcome : {"rejected", "door_failed", "forwarded"}, door : Hosts \cup {NoPrompt},
              shown : Texts, other : A, heard : H, flags : U]
  BY ONLY <1>1 DEF Rows
<1>3. of \in T /\ flags \in U /\ other \in A /\ heard \in H
  BY <1>1
<1>4. Row(of, outcome, door, shown, other, heard, flags)
        = [of |-> of, outcome |-> outcome, door |-> door, shown |-> shown, other |-> other,
           heard |-> heard, flags |-> flags]
  BY DEF Row
<1> QED
  BY <1>2, <1>3, <1>4

\* A row that may be appended by a request whose secrets are to be hidden.
RowIsSound(row, q, i, hidden) ==
  row \in Rows /\ row.of = << q, i >> /\ RowIsClean(row, hidden) /\ RowIsOwn(row)

\* A row of a prompt that no door was asked for, or of the files of a body.
LEMMA BareRow ==
  ASSUME NEW q \in Requests, NEW i \in Nat, NEW outcome \in {"rejected", "door_failed"},
         NEW shown \in Texts, NEW hidden, shown \cap hidden = {}, NEW flags,
         flags \in Seq({<< q, i >>}) \/ (i = 0 /\ flags \in Seq({q} \X Nat)),
         NEW row, row = Row(<< q, i >>, outcome, NoPrompt, shown, << >>, << >>, flags)
  PROVE  RowIsSound(row, q, i, hidden)
<1>1. /\ row = [of |-> << q, i >>, outcome |-> outcome, door |-> NoPrompt, shown |-> shown,
                other |-> << >>, heard |-> << >>, flags |-> flags]
  BY DEF Row
<1>2. /\ row.of = << q, i >> /\ row.shown = shown /\ row.other = << >> /\ row.heard = << >>
      /\ row.flags = flags
  BY <1>1
<1>3. PICK f, T : f = << q, i >> /\ T = Requests \X Nat
  OBVIOUS
<1>4. f \in T /\ flags \in Seq(T)
  <2>1. f \in T
    BY <1>3
  <2>2. ASSUME flags \in Seq({<< q, i >>}) PROVE flags \in Seq(T)
    <3>1. flags \in Seq({f})
      BY ONLY <1>3, <2>2
    <3> QED
      BY <2>1, <3>1
  <2>3. ASSUME flags \in Seq({q} \X Nat) PROVE flags \in Seq(T)
    <3>1. {q} \X Nat \subseteq T
      BY <1>3
    <3>2. PICK U : U = {q} \X Nat
      OBVIOUS
    <3>3. flags \in Seq(U) /\ U \subseteq T
      BY ONLY <2>3, <3>1, <3>2
    <3> QED
      BY <3>3
  <2>4. flags \in Seq(T)
    BY <2>2, <2>3, Zenon
  <2> QED
    BY <2>1, <2>4
<1>5. row \in Rows
  <2>1. << >> \in Seq(Asides) /\ << >> \in Seq(Heards)
    OBVIOUS
  <2>2. << q, i >> \in Requests \X Nat /\ flags \in Seq(Requests \X Nat)
    BY ONLY <1>3, <1>4
  <2> QED
    BY <2>1, <2>2, RowTyped
<1>6. ToSet(row.other) = {} /\ ToSet(row.heard) = {}
  <2>1. ToSet(<< >>) = {}
    BY DEF ToSet
  <2> QED
    BY ONLY <1>2, <2>1
<1>7. RowIsClean(row, hidden)
  BY <1>2, <1>6 DEF RowIsClean, Shown
<1>8. \A g \in ToSet(row.flags) : g[1] = row.of[1] /\ row.of[2] \in {0, g[2]}
  <2>1. row.of[1] = q /\ row.of[2] = i
    BY <1>2
  <2>2. CASE flags \in Seq({<< q, i >>})
    <3>1. \A g \in ToSet(flags) : g = f
      <4>1. flags \in Seq({f})
        BY ONLY <1>3, <2>2
      <4> QED
        BY <4>1 DEF ToSet
    <3>2. f[1] = q /\ f[2] = i
      BY <1>3
    <3> QED
      BY <1>2, <2>1, <3>1, <3>2
  <2>3. CASE i = 0 /\ flags \in Seq({q} \X Nat)
    <3>1. PICK U : U = {q} \X Nat
      OBVIOUS
    <3>2. \A g \in U : g[1] = q
      BY <3>1
    <3>3. flags \in Seq(U)
      BY ONLY <2>3, <3>1
    <3>4. \A g \in ToSet(flags) : g \in U
      BY ONLY <3>3 DEF ToSet
    <3> QED
      BY <1>2, <2>1, <2>3, <3>2, <3>4
  <2> QED
    BY <2>2, <2>3
<1>9. RowIsOwn(row)
  BY <1>2, <1>6, <1>8 DEF RowIsOwn
<1> QED
  BY ONLY <1>2, <1>5, <1>7, <1>9 DEF RowIsSound

LEMMA StoppedIs ==
  ASSUME NEW r, NEW p, p.model \in {"blank", Unknown} \cup Models
  PROVE  /\ Stopped(r, p) # NoPrompt => Stopped(r, p) \in {"rejected", "door_failed"}
         /\ Stopped(r, p) = NoPrompt => p.model \in Models /\ Plan(p.model).ask # << >>
<1>1. "rejected" # NoPrompt /\ "door_failed" # NoPrompt
  BY DEF NoPrompt
<1>2. CASE ~job[r].key \/ p.model \in {"blank", Unknown}
  <2>1. ~(job[r].key /\ p.model \in Models /\ Plan(p.model).ask = << >>)
    BY <1>2, PromptNames
  <2>2. Stopped(r, p) = "rejected"
    BY <1>2, <2>1 DEF Stopped
  <2> QED
    BY <1>1, <2>2
<1>3. CASE /\ ~(~job[r].key \/ p.model \in {"blank", Unknown})
           /\ job[r].key /\ p.model \in Models /\ Plan(p.model).ask = << >>
  <2>1. Stopped(r, p) = "door_failed"
    BY <1>3 DEF Stopped
  <2> QED
    BY <1>1, <2>1
<1>4. CASE /\ ~(~job[r].key \/ p.model \in {"blank", Unknown})
           /\ ~(job[r].key /\ p.model \in Models /\ Plan(p.model).ask = << >>)
  <2>1. Stopped(r, p) = NoPrompt
    BY <1>4 DEF Stopped
  <2> QED
    BY <1>4, <2>1
<1> QED
  BY <1>2, <1>3, <1>4

\* What Begin knows before it decides.
BeginsAt(q, i, p) ==
  /\ q \in gate /\ needles = job[q].needles /\ pending = << >> /\ doors # NoDoors /\ DoorsOf(doors)
  /\ job[q] \in JobRecs /\ i \in Nat \ {0} /\ i \in PromptsOf(q) /\ i \in 1..Len(job[q].items)
  /\ p.text \in Texts /\ p.model \in {"blank", Unknown} \cup Models
  /\ Flagged(q, i) \in Seq({<< q, i >>})
  /\ \A k \in Past(job[q]) : k < i
  /\ \A k \in PromptsOf(q) : k < i => k \in Past(job[q])

LEMMA BeginsWith ==
  ASSUME PromptInv, NEW q \in Requests, job[q].pc = "next", NextPrompt(q) # 0,
         NEW i, i = NextPrompt(q), NEW p, p = job[q].items[i]
  PROVE  BeginsAt(q, i, p)
<1>1. PromptTyped /\ PassIsOnes /\ JobIs(q)
  BY DEF PromptInv
<1>2. job[q] \in JobRecs
  BY <1>1 DEF PromptTyped
<1>3. job[q].items \in Seq(AnyLine) /\ job[q].at \in Nat
  BY <1>2 DEF JobRecs
<1>4. i \in PromptsOf(q) /\ i > job[q].at /\ \A k \in PromptsOf(q) : k > job[q].at => i <= k
  BY <1>3, NextPromptIs
<1>5. PromptsOf(q) = {k \in 1..Len(job[q].items) : job[q].items[k].kind = "prompt"}
  BY <1>3 DEF PromptsOf
<1>6. i \in 1..Len(job[q].items) /\ p \in AnyLine /\ p.kind = "prompt" /\ i \in Nat \ {0}
  BY <1>3, <1>4, <1>5
<1>7. p.text \in Texts /\ p.model \in {"blank", Unknown} \cup Models
  BY <1>6, LinesAre
<1>8. q \in gate /\ needles = job[q].needles /\ pending = << >>
  <2>1. q \in gate
    BY <1>1 DEF PassIsOnes, Passing
  <2>2. \A r \in Requests : job[r].pc # "asking"
    BY <1>1, <2>1 DEF PassIsOnes, Passing
  <2> QED
    BY <1>1, <2>1, <2>2 DEF PassIsOnes
<1>9. doors # NoDoors /\ DoorsOf(doors)
  BY <1>1 DEF JobIs, PromptTyped
<1>10. Flagged(q, i) \in Seq({<< q, i >>})
  BY <1>3, <1>6, FlagsAre
<1>11. \A k \in Past(job[q]) : k < i
  BY <1>3, <1>4, <1>6 DEF Past
<1>12. \A k \in PromptsOf(q) : k < i => k \in Past(job[q])
  BY <1>3, <1>4, <1>5, <1>6 DEF Past
<1> QED
  BY <1>2, <1>4, <1>6, <1>7, <1>8, <1>9, <1>10, <1>11, <1>12 DEF BeginsAt

LEMMA BeginStops ==
  ASSUME PromptInv, NEW q \in Requests, job[q].pc = "next", NextPrompt(q) # 0,
         NEW i, i = NextPrompt(q), NEW p, p = job[q].items[i],
         Stopped(q, p) # NoPrompt,
         audit' = Append(audit, Row(<< q, i >>, Stopped(q, p), NoPrompt, Redacted(p.text),
                                    << >>, << >>, pending \o Flagged(q, i))),
         pending' = << >>, report' = report, job' = [job EXCEPT ![q].at = i],
         doors' = doors, session' = session, gate' = gate, needles' = needles
  PROVE  PromptInv'
<1>1. PromptTyped /\ JobIs(q)
  BY DEF PromptInv
<1>2. /\ q \in gate /\ needles = job[q].needles /\ pending = << >> /\ doors # NoDoors
      /\ job[q] \in JobRecs /\ i \in Nat \ {0} /\ i \in PromptsOf(q) /\ i \in 1..Len(job[q].items)
      /\ p.text \in Texts /\ p.model \in {"blank", Unknown} \cup Models
      /\ Flagged(q, i) \in Seq({<< q, i >>})
      /\ \A k \in Past(job[q]) : k < i
      /\ \A k \in PromptsOf(q) : k < i => k \in Past(job[q])
  <2>1. BeginsAt(q, i, p)
    BY BeginsWith, Zenon
  <2> QED
    BY ONLY <2>1 DEF BeginsAt
<1>3. PICK j : j = [job[q] EXCEPT !.at = i]
  OBVIOUS
<1>4. job' = [job EXCEPT ![q] = j]
  BY <1>1, <1>3 DEF PromptTyped
<1>5. /\ j \in JobRecs /\ j.pc = "next" /\ j.needles = job[q].needles /\ j.at = i /\ j.stream = job[q].stream
      /\ j.items = job[q].items
  BY <1>2, <1>3 DEF JobRecs
<1>6. /\ job' \in [Requests -> JobRecs] /\ job'[q] = j
      /\ \A r \in Requests \ {q} : job'[r] = job[r] /\ job[r].pc \notin Passing /\ JobIs(r)' /\ AskingIs(r)'
  BY <1>2, <1>4, <1>5, OthersStay
<1>7. PICK row, flags, shown : /\ flags = pending \o Flagged(q, i) /\ shown = Redacted(p.text)
                               /\ row = Row(<< q, i >>, Stopped(q, p), NoPrompt, shown, << >>, << >>, flags)
  OBVIOUS
<1>8. row \in Rows /\ row.of = << q, i >> /\ RowIsClean(row, j.needles) /\ RowIsOwn(row)
  <2>1. flags = Flagged(q, i)
    BY <1>2, <1>7
  <2>2. Stopped(q, p) \in {"rejected", "door_failed"}
    BY <1>2, StoppedIs
  <2>3. shown \in Texts /\ shown \cap j.needles = {}
    BY <1>2, <1>5, <1>7 DEF Redacted, Texts
  <2> QED
    <3>1. q \in Requests /\ i \in Nat /\ flags \in Seq({<< q, i >>})
      BY <1>2, <2>1
    <3>2. RowIsSound(row, q, i, j.needles)
      BY <1>7, <2>2, <2>3, <3>1, BareRow, Zenon
    <3> QED
      BY ONLY <3>2 DEF RowIsSound
<1>9. audit' = Append(audit, row)
  BY <1>7
<1>10. audit \in Seq(Rows)
  BY <1>1 DEF PromptTyped
<1>11. PromptTyped'
  <2>1. audit' \in Seq(Rows)
    BY <1>8, <1>9, <1>10
  <2> QED
    BY <1>1, <1>6, <2>1 DEF PromptTyped
<1>12. PassIsOnes'
  BY <1>2, <1>4, <1>5, PassStays DEF Passing
<1>13. JobIs(q)' /\ AskingIs(q)'
  BY <1>1, <1>2, <1>5, <1>6 DEF JobIs, AskingIs
<1>14. Past(job'[q]) = Past(job[q]) \cup {i}
  <2>1. PromptsOf(q) = {k \in 1..Len(job[q].items) : job[q].items[k].kind = "prompt"}
    BY <1>2 DEF PromptsOf, JobRecs
  <2>2. Past(j) = {k \in PromptsOf(q) : k < i \/ k = i}
    BY <1>5, <2>1 DEF Past
  <2>3. \A k \in Past(job[q]) : k \in PromptsOf(q)
    BY <2>1 DEF Past
  <2> QED
    BY <1>2, <1>6, <2>2, <2>3
<1>15. ASSUME NEW r \in Requests PROVE RowsTell(r)'
  <2>1. RowsTell(r)
    BY DEF PromptInv
  <2>2. CASE r = q
    BY <1>2, <1>8, <1>9, <1>10, <1>14, <2>1, <2>2, OneTells
  <2>3. CASE r # q
    <3>1. row.of[1] # r
      BY <1>8, <2>3
    <3>2. Past(job'[r]) = Past(job[r])
      BY <1>6, <2>3
    <3> QED
      BY <1>8, <1>9, <1>10, <2>1, <3>1, <3>2, OthersTell
  <2> QED
    BY <2>2, <2>3
<1>16. \A n \in DOMAIN audit' : RowIs(n)'
  <2>1. row.of[1] = q
    BY <1>8
  <2> QED
    BY <1>4, <1>5, <1>8, <1>9, <2>1, RowsAndOne
<1> QED
  BY <1>6, <1>11, <1>12, <1>13, <1>15, <1>16 DEF PromptInv

LEMMA BeginAsks ==
  ASSUME PromptInv, NEW q \in Requests, job[q].pc = "next", NextPrompt(q) # 0,
         NEW i, i = NextPrompt(q), NEW p, p = job[q].items[i],
         Stopped(q, p) = NoPrompt, NEW plan, plan = Plan(p.model), NEW own, own = Answering(p.model),
         pending' = pending \o Flagged(q, i), audit' = audit,
         report' = [NoReport EXCEPT !.door = IF plan.kind = "experts" THEN own ELSE plan.ask[1]],
         job' = [job EXCEPT ![q].at = i, ![q].pc = "asking", ![q].heard = << >>, ![q].left = plan.ask],
         doors' = doors, session' = session, gate' = gate, needles' = needles
  PROVE  PromptInv'
<1>1. PromptTyped /\ JobIs(q)
  BY DEF PromptInv
<1>2. /\ q \in gate /\ needles = job[q].needles /\ pending = << >> /\ doors # NoDoors /\ DoorsOf(doors)
      /\ job[q] \in JobRecs /\ i \in Nat \ {0} /\ i \in PromptsOf(q) /\ i \in 1..Len(job[q].items)
      /\ p.text \in Texts /\ p.model \in {"blank", Unknown} \cup Models
      /\ Flagged(q, i) \in Seq({<< q, i >>})
      /\ \A k \in Past(job[q]) : k < i
      /\ \A k \in PromptsOf(q) : k < i => k \in Past(job[q])
  <2>1. BeginsAt(q, i, p)
    BY BeginsWith, Zenon
  <2> QED
    BY ONLY <2>1 DEF BeginsAt
<1>3. p.model \in Models /\ plan.ask # << >>
  BY <1>2, StoppedIs
<1>4. /\ plan.ask \in Seq(Hosts) /\ IsInjective(plan.ask)
      /\ plan.kind = "experts" => plan.ask = doors.doors /\ Len(doors.doors) = 2
      /\ plan.kind = "one" => Len(plan.ask) = 1
      /\ plan.kind \in {"one", "experts", "failover"}
  BY <1>2, <1>3, PlanIs
<1>5. PICK door : door = IF plan.kind = "experts" THEN own ELSE plan.ask[1]
  OBVIOUS
<1>6. door \in Hosts /\ (plan.kind = "experts" => door = own) /\ (plan.kind = "one" => door = plan.ask[1])
  <2>1. CASE plan.kind = "experts"
    <3>1. own = doors.doors[1] \/ own = doors.doors[2]
      BY DEF Answering
    <3>2. doors.doors \in Seq(Hosts) /\ Len(doors.doors) = 2
      BY <1>4, <2>1
    <3> QED
      BY <1>5, <2>1, <3>1, <3>2
  <2>2. CASE plan.kind # "experts"
    <3>1. Len(plan.ask) \in Nat /\ Len(plan.ask) # 0
      <4>1. plan.ask \in Seq(Hosts) /\ plan.ask # << >>
        BY ONLY <1>3, <1>4, Zenon
      <4> QED
        BY ONLY <4>1, LenProperties, EmptySeq, Zenon
    <3>2. plan.ask[1] \in Hosts
      <4>1. PICK a : a = plan.ask
        OBVIOUS
      <4>2. a \in Seq(Hosts) /\ Len(a) \in Nat /\ Len(a) # 0
        BY ONLY <1>4, <3>1, <4>1
      <4>3. 1 \in 1..Len(a)
        BY ONLY <4>2
      <4>4. a[1] \in Hosts
        BY ONLY <4>2, <4>3
      <4> QED
        BY ONLY <4>1, <4>4
    <3> QED
      BY <1>5, <2>2, <3>2
  <2> QED
    BY <2>1, <2>2
<1>7. report' \in [door : Hosts \cup {NoPrompt}, other : {<< >>}] /\ report'.door = door
  BY <1>5, <1>6 DEF NoReport
<1>8. PICK j : j = [job[q] EXCEPT !.at = i, !.pc = "asking", !.heard = << >>, !.left = plan.ask]
  OBVIOUS
<1>9. job' = [job EXCEPT ![q] = j]
  BY <1>1, <1>8 DEF PromptTyped
<1>10. /\ j \in JobRecs /\ j.pc = "asking" /\ j.needles = job[q].needles /\ j.at = i
       /\ j.stream = job[q].stream /\ j.items = job[q].items /\ j.heard = << >> /\ j.left = plan.ask
  <2>1. /\ j.pc = "asking" /\ j.needles = job[q].needles /\ j.at = i /\ j.key = job[q].key
        /\ j.stream = job[q].stream /\ j.items = job[q].items /\ j.heard = << >> /\ j.left = plan.ask
    BY <1>2, <1>8 DEF JobRecs
  <2>2. j = [pc |-> j.pc, stream |-> j.stream, key |-> j.key, items |-> j.items, at |-> j.at,
             needles |-> j.needles, left |-> j.left, heard |-> j.heard]
    BY <1>2, <1>8 DEF JobRecs
  <2>3. "asking" \in PromptPcs /\ << >> \in Seq(Heards)
    BY DEF PromptPcs
  <2>4. /\ job[q].stream \in BOOLEAN /\ job[q].key \in BOOLEAN /\ job[q].items \in Seq(AnyLine)
        /\ job[q].needles \in Texts
    BY <1>2 DEF JobRecs
  <2>5. /\ j.pc \in PromptPcs /\ j.stream \in BOOLEAN /\ j.key \in BOOLEAN /\ j.items \in Seq(AnyLine)
        /\ j.at \in Nat /\ j.needles \in Texts /\ j.left \in Seq(Hosts) /\ j.heard \in Seq(Heards)
    BY <1>2, <1>4, <2>1, <2>3, <2>4
  <2>6. j \in JobRecs
    BY ONLY <2>2, <2>5 DEF JobRecs
  <2> QED
    BY <2>1, <2>6
<1>11. /\ job' \in [Requests -> JobRecs] /\ job'[q] = j
       /\ \A r \in Requests \ {q} : job'[r] = job[r] /\ job[r].pc \notin Passing /\ JobIs(r)' /\ AskingIs(r)'
  BY <1>2, <1>9, <1>10, OthersStay, ZenonT(60)
<1>12. pending' = Flagged(q, i)
  BY <1>2
<1>13. PromptTyped'
  <2>1. PICK T, f : T = Requests \X Nat /\ f = << q, i >>
    OBVIOUS
  <2>2. f \in T
    BY <1>2, <2>1
  <2>3. pending' \in Seq({f})
    BY ONLY <1>2, <1>12, <2>1
  <2>4. pending' \in Seq(T)
    BY <2>2, <2>3
  <2>5. pending' \in Seq(Requests \X Nat)
    BY ONLY <2>1, <2>4
  <2> QED
    BY <1>1, <1>7, <1>11, <2>5 DEF PromptTyped
<1>14. PassIsOnes'
  <2>1. \A f \in ToSet(pending') : f = << q, i >>
    <3>1. PICK f : f = << q, i >>
      OBVIOUS
    <3>2. pending' \in Seq({f})
      BY ONLY <1>2, <1>12, <3>1
    <3>3. \A g \in ToSet(pending') : g = f
      BY <3>2 DEF ToSet
    <3> QED
      BY <3>1, <3>3
  <2> QED
    BY <1>2, <1>9, <1>10, <2>1, PassStays, ZenonT(60) DEF Passing
<1>15. JobIs(q)'
  BY <1>1, <1>2, <1>10, <1>11 DEF JobIs
<1>16. AskingIs(q)'
  <2>1. Current(q)' = p
    BY <1>10, <1>11 DEF Current
  <2>2. i \in PromptsOf(q)'
    BY <1>2, <1>10, <1>11 DEF PromptsOf
  <2>3. Plan(p.model)' = plan /\ Answering(p.model)' = own
    BY PlanStays
  <2>4. HeardInTurn(plan.ask, << >>, plan.ask)
    <3>1. Len(<< >>) = 0 /\ Len(plan.ask) \in Nat
      <4>1. plan.ask \in Seq(Hosts)
        BY ONLY <1>4, Zenon
      <4>2. Len(plan.ask) \in Nat
        BY ONLY <4>1, LenProperties, Zenon
      <4> QED
        BY ONLY <4>2
    <3> QED
      BY <1>3, <3>1, SMTT(60) DEF HeardInTurn
  <2>5. AsksFor(plan, own, << >>, plan.ask, door)
    <3>1. \A k \in 1..Len(<< >>) : FALSE
      OBVIOUS
    <3> QED
      BY <1>3, <1>6, <2>4, <3>1 DEF AsksFor
  <2>6. /\ job'[q].at = i /\ job'[q].heard = << >> /\ job'[q].left = plan.ask /\ report'.door = door
    BY <1>7, <1>10, <1>11
  <2>7. AsksFor(plan, own, job'[q].heard, job'[q].left, report'.door)
    BY <2>5, <2>6
  <2>8. Plan(Current(q).model)' = plan /\ Answering(Current(q).model)' = own
    BY ONLY <2>1, <2>3 DEF Plan, Answering
  <2>9. AsksFor(Plan(Current(q).model), Answering(Current(q).model), job[q].heard, job[q].left, report.door)'
    BY ONLY <2>7, <2>8 DEF AsksFor, HeardInTurn
  <2>10. (job[q].at \in PromptsOf(q) /\ Current(q).model \in Models)'
    BY <1>3, <2>1, <2>2, <2>6
  <2> QED
    BY ONLY <2>9, <2>10 DEF AskingIs
<1>17. Past(job'[q]) = Past(job[q])
  <2>1. PromptsOf(q) = {k \in 1..Len(job[q].items) : job[q].items[k].kind = "prompt"}
    BY <1>2 DEF PromptsOf, JobRecs
  <2>2. Past(j) = {k \in PromptsOf(q) : k < i}
    BY <1>10, <2>1 DEF Past
  <2>3. \A k \in Past(job[q]) : k \in PromptsOf(q)
    BY <2>1 DEF Past
  <2>4. \A k \in Past(job[q]) : k \in Past(j)
    BY <1>2, <2>2, <2>3
  <2>5. \A k \in Past(j) : k \in Past(job[q])
    BY <1>2, <2>2
  <2> QED
    BY <1>11, <2>4, <2>5
<1>18. ASSUME NEW r \in Requests PROVE RowsTell(r)'
  <2>1. RowsTell(r)
    BY DEF PromptInv
  <2>2. Past(job'[r]) = Past(job[r])
    BY <1>11, <1>17
  <2> QED
    BY <2>1, <2>2, TellsOn
<1>19. \A n \in DOMAIN audit' : RowIs(n)'
  BY <1>9, <1>10, RowsAndOne
<1> QED
  BY <1>11, <1>13, <1>14, <1>15, <1>16, <1>18, <1>19 DEF PromptInv

LEMMA BeginStep ==
  ASSUME PromptInv, NEW q \in Requests, Begin(q)
  PROVE  PromptInv'
<1>1. PICK i, p : i = NextPrompt(q) /\ p = job[q].items[i]
  OBVIOUS
<1>2. /\ job[q].pc = "next" /\ NextPrompt(q) # 0
      /\ doors' = doors /\ session' = session /\ gate' = gate /\ needles' = needles
  BY <1>1 DEF Begin
<1>3. CASE Stopped(q, p) # NoPrompt
  BY <1>1, <1>2, <1>3, BeginStops DEF Begin
<1>4. CASE Stopped(q, p) = NoPrompt
  <2>1. PICK plan, own : plan = Plan(p.model) /\ own = Answering(p.model)
    OBVIOUS
  <2>2. /\ pending' = pending \o Flagged(q, i) /\ audit' = audit
        /\ report' = [NoReport EXCEPT !.door = IF plan.kind = "experts" THEN own ELSE plan.ask[1]]
        /\ job' = [job EXCEPT ![q].at = i, ![q].pc = "asking", ![q].heard = << >>, ![q].left = plan.ask]
    BY <1>1, <1>4, <2>1 DEF Begin
  <2> QED
    BY <1>1, <1>2, <1>4, <2>1, <2>2, BeginAsks
<1> QED
  BY <1>3, <1>4

-----------------------------------------------------------------------------
(* PromptPass: a door is asked.                                              *)

LEMMA TurnTaken ==
  ASSUME NEW ask \in Seq(Hosts), NEW heard \in Seq(Heards), NEW left \in Seq(Hosts), left # << >>,
         HeardInTurn(ask, heard, left), NEW h \in Heards, h.door = Head(left),
         NEW remain, remain = Tail(left) \/ remain = << >>
  PROVE  /\ HeardInTurn(ask, Append(heard, h), remain)
         /\ remain = Tail(left) /\ remain = << >> => Len(heard) + 1 = Len(ask)
<1>1. PICK n, l, a, new : n = Len(heard) /\ l = Len(left) /\ a = Len(ask) /\ new = Append(heard, h)
  OBVIOUS
<1>2. /\ n \in Nat /\ l \in Nat /\ a \in Nat /\ l # 0 /\ n <= a /\ l = a - n
      /\ \A i \in 1..n : heard[i].door = ask[i]
      /\ \A k \in 1..l : left[k] = ask[n + k]
  BY <1>1 DEF HeardInTurn
<1>3. Len(new) = n + 1 /\ new[n + 1] = h /\ \A i \in 1..n : new[i] = heard[i]
  BY <1>1
<1>4. h.door = ask[n + 1]
  <2>1. 1 \in 1..l
    BY <1>2
  <2>2. Head(left) = left[1]
    OBVIOUS
  <2> QED
    BY <1>2, <2>1, <2>2
<1>5. \A i \in 1..(n + 1) : new[i].door = ask[i]
  <2>1. \A i \in 1..(n + 1) : i \in 1..n \/ i = n + 1
    BY <1>2
  <2> QED
    BY <1>2, <1>3, <1>4, <2>1
<1>6. n + 1 <= a /\ new # << >>
  BY <1>2, <1>3
<1>7. CASE remain = << >>
  <2>1. remain = Tail(left) => n + 1 = a
    <3>1. Len(Tail(left)) = l - 1
      BY <1>1
    <3>2. remain = Tail(left) => Len(Tail(left)) = 0
      <4>1. Len(<< >>) = 0
        OBVIOUS
      <4> QED
        BY ONLY <1>7, <4>1
    <3> QED
      BY ONLY <1>2, <3>1, <3>2
  <2> QED
    BY <1>1, <1>3, <1>5, <1>6, <1>7, <2>1 DEF HeardInTurn
<1>8. CASE remain # << >>
  <2>1. remain = Tail(left)
    BY <1>8
  <2>2. Len(remain) = l - 1 /\ \A k \in 1..(l - 1) : remain[k] = left[k + 1]
    BY <1>1, <2>1
  <2>3. Len(remain) = a - (n + 1)
    BY <1>2, <2>2
  <2>4. ASSUME NEW k \in 1..(l - 1) PROVE remain[k] = ask[(n + 1) + k]
    <3>1. k + 1 \in 1..l /\ n + (k + 1) = (n + 1) + k
      BY <1>2
    <3> QED
      BY <1>2, <2>2, <3>1
  <2> QED
    BY <1>1, <1>3, <1>5, <1>6, <1>8, <2>2, <2>3, <2>4 DEF HeardInTurn
<1> QED
  BY <1>7, <1>8

\* What a request knows while it asks.
AsksNow(q, p, plan, own) ==
  /\ q \in gate /\ needles = job[q].needles /\ doors # NoDoors /\ DoorsOf(doors)
  /\ job[q] \in JobRecs /\ job[q].at \in PromptsOf(q) /\ p.text \in Texts /\ p.model \in Models
  /\ plan.ask \in Seq(Hosts) /\ IsInjective(plan.ask) /\ plan.kind \in {"one", "experts", "failover"}
  /\ plan.kind = "experts" =>
       plan.ask = doors.doors /\ Len(doors.doors) = 2 /\ \E i \in 1..2 : own = plan.ask[i]
  /\ plan.kind = "one" => Len(plan.ask) = 1
  /\ AsksFor(plan, own, job[q].heard, job[q].left, report.door)
  /\ \A f \in ToSet(pending) : f = << q, job[q].at >>

LEMMA AskingNow ==
  ASSUME PromptInv, NEW q \in Requests, job[q].pc = "asking", NEW p, p = Current(q),
         NEW plan, plan = Plan(p.model), NEW own, own = Answering(p.model)
  PROVE  AsksNow(q, p, plan, own)
<1>1. PromptTyped /\ PassIsOnes /\ JobIs(q) /\ AskingIs(q)
  BY DEF PromptInv
<1>2. /\ job[q].at \in PromptsOf(q) /\ p.model \in Models
      /\ AsksFor(plan, own, job[q].heard, job[q].left, report.door)
  BY <1>1 DEF AskingIs
<1>3. job[q] \in JobRecs /\ job[q].items \in Seq(AnyLine)
  BY <1>1 DEF PromptTyped, JobRecs
<1>4. p.text \in Texts
  <2>1. p \in AnyLine /\ p.kind = "prompt"
    BY <1>2, <1>3 DEF PromptsOf, Current
  <2> QED
    BY <2>1, LinesAre
<1>5. q \in gate /\ needles = job[q].needles /\ doors # NoDoors /\ DoorsOf(doors)
  BY <1>1 DEF PassIsOnes, JobIs, PromptTyped, Passing
<1>6. /\ plan.ask \in Seq(Hosts) /\ IsInjective(plan.ask)
      /\ plan.kind = "experts" => plan.ask = doors.doors /\ Len(doors.doors) = 2
      /\ plan.kind = "one" => Len(plan.ask) = 1
      /\ plan.kind \in {"one", "experts", "failover"}
  <2>1. plan.ask # << >>
    BY <1>2 DEF AsksFor
  <2> QED
    BY <1>2, <1>5, <2>1, PlanIs
<1>7. plan.kind = "experts" => \E i \in 1..2 : own = plan.ask[i]
  BY <1>5, <1>6, AnsweringIs
<1>8. \A f \in ToSet(pending) : f = << q, job[q].at >>
  BY <1>1 DEF PassIsOnes
<1> QED
  BY <1>2, <1>3, <1>4, <1>5, <1>6, <1>7, <1>8 DEF AsksNow

LEMMA HearStep ==
  ASSUME PromptInv, NEW q \in Requests, Hear(q)
  PROVE  PromptInv'
<1>1. PICK p, plan, own : p = Current(q) /\ plan = Plan(p.model) /\ own = Answering(p.model)
  OBVIOUS
<1>2. /\ job[q].pc = "asking" /\ job[q].left # << >>
      /\ doors' = doors /\ session' = session /\ gate' = gate /\ needles' = needles
      /\ pending' = pending /\ audit' = audit
  BY DEF Hear
<1>3. PICK ok \in BOOLEAN, text \in {{}, p.text} :
        LET remain == IF AsksOn(q, ok) THEN Tail(job[q].left) ELSE << >>
        IN  /\ job' = [job EXCEPT ![q].left = remain,
                 ![q].heard = Append(@, [door |-> Head(job[q].left), ok |-> ok, text |-> text])]
            /\ report' = IF plan.kind = "failover" /\ remain # << >>
                         THEN [report EXCEPT !.door = Head(remain)] ELSE report
  BY <1>1 DEF Hear
<1>4. PICK remain, h : /\ h = [door |-> Head(job[q].left), ok |-> ok, text |-> text]
                       /\ remain = IF AsksOn(q, ok) THEN Tail(job[q].left) ELSE << >>
  OBVIOUS
<1>5. /\ job' = [job EXCEPT ![q].left = remain, ![q].heard = Append(@, h)]
      /\ report' = IF plan.kind = "failover" /\ remain # << >>
                   THEN [report EXCEPT !.door = Head(remain)] ELSE report
  BY <1>3, <1>4
<1>6. PromptTyped /\ JobIs(q) /\ RowsTell(q)
  BY DEF PromptInv
<1>7. AsksNow(q, p, plan, own)
  BY <1>1, <1>2, AskingNow, Zenon
<1>8. /\ job[q] \in JobRecs /\ job[q].heard \in Seq(Heards) /\ job[q].left \in Seq(Hosts) /\ q \in gate
      /\ plan.ask \in Seq(Hosts) /\ p.text \in Texts /\ p.model \in Models
      /\ AsksFor(plan, own, job[q].heard, job[q].left, report.door)
      /\ \A f \in ToSet(pending) : f = << q, job[q].at >>
  BY <1>7 DEF AsksNow, JobRecs
<1>9. PICK heard, left, door : heard = job[q].heard /\ left = job[q].left /\ door = report.door
  OBVIOUS
<1>10. /\ heard \in Seq(Heards) /\ left \in Seq(Hosts) /\ left # << >>
       /\ HeardInTurn(plan.ask, heard, left) /\ AsksFor(plan, own, heard, left, door)
  BY <1>2, <1>8, <1>9 DEF AsksFor
<1>11. h \in Heards /\ h.door = Head(left) /\ h.ok = ok
  <2>1. Head(left) \in Hosts
    BY <1>10
  <2>2. text \in Texts
    BY <1>8 DEF Texts
  <2> QED
    BY <1>4, <1>9, <2>1, <2>2 DEF Heards
<1>12. /\ remain = Tail(left) \/ remain = << >>
       /\ plan.kind = "experts" => remain = Tail(left)
       /\ remain # << >> => plan.kind = "experts" \/ ~ok
  BY <1>1, <1>4, <1>9 DEF AsksOn
<1>13. remain \in Seq(Hosts)
  <2>1. Tail(left) \in Seq(Hosts) /\ << >> \in Seq(Hosts)
    BY <1>10
  <2> QED
    BY ONLY <1>12, <2>1
<1>14. PICK new : new = Append(heard, h)
  OBVIOUS
<1>15. /\ HeardInTurn(plan.ask, new, remain)
       /\ remain = Tail(left) /\ remain = << >> => Len(heard) + 1 = Len(plan.ask)
  BY <1>8, <1>10, <1>11, <1>12, <1>14, TurnTaken
<1>16. /\ new \in Seq(Heards) /\ Len(heard) \in Nat /\ Len(new) = Len(heard) + 1 /\ new[Len(heard) + 1] = h
       /\ \A i \in 1..Len(heard) : new[i] = heard[i]
       /\ \A i \in 1..Len(new) : i \in 1..Len(heard) \/ i = Len(heard) + 1
  BY <1>10, <1>11, <1>14
<1>17. PICK j : j = [job[q] EXCEPT !.left = remain, !.heard = new]
  OBVIOUS
<1>18. job' = [job EXCEPT ![q] = j]
  BY <1>5, <1>6, <1>8, <1>9, <1>14, <1>17 DEF PromptTyped, JobRecs
<1>19. /\ j \in JobRecs /\ j.pc = "asking" /\ j.needles = job[q].needles /\ j.at = job[q].at
       /\ j.stream = job[q].stream /\ j.items = job[q].items /\ j.heard = new /\ j.left = remain
  BY <1>2, <1>8, <1>13, <1>16, <1>17 DEF JobRecs
<1>20. /\ job' \in [Requests -> JobRecs] /\ job'[q] = j
       /\ \A r \in Requests \ {q} : job'[r] = job[r] /\ job[r].pc \notin Passing /\ JobIs(r)' /\ AskingIs(r)'
  BY <1>2, <1>8, <1>18, <1>19, OthersStay
<1>21. /\ report' \in [door : Hosts \cup {NoPrompt}, other : {<< >>}]
       /\ plan.kind # "failover" => report'.door = door
  <2>1. report \in [door : Hosts \cup {NoPrompt}, other : {<< >>}]
    BY <1>6 DEF PromptTyped
  <2>2. remain # << >> => Head(remain) \in Hosts
    BY <1>13
  <2> QED
    BY <1>5, <1>9, <2>1, <2>2
<1>22. AsksFor(plan, own, new, remain, report'.door)
  <2>1. plan.ask # << >>
    BY <1>10 DEF AsksFor
  <2>2. ASSUME plan.kind = "experts"
        PROVE  (remain = << >> => Len(new) = Len(plan.ask)) /\ report'.door = own
    BY <1>10, <1>12, <1>15, <1>16, <1>21, <2>2 DEF AsksFor
  <2>3. ASSUME plan.kind = "one" PROVE report'.door = plan.ask[1]
    BY <1>10, <1>21, <2>3 DEF AsksFor
  <2>4. ASSUME plan.kind = "failover"
        PROVE  /\ \A i \in 1..Len(new) : new[i].ok => i = Len(new)
               /\ remain # << >> => \A i \in 1..Len(new) : ~new[i].ok
    <3>1. \A i \in 1..Len(heard) : ~heard[i].ok
      BY <1>10, <2>4 DEF AsksFor
    <3> QED
      BY <1>11, <1>12, <1>16, <2>4, <3>1
  <2> QED
    BY ONLY <1>15, <2>1, <2>2, <2>3, <2>4 DEF AsksFor
<1>23. PromptTyped'
  BY <1>2, <1>6, <1>20, <1>21 DEF PromptTyped
<1>24. PassIsOnes'
  <2>1. \A f \in ToSet(pending') : f = << q, j.at >>
    BY <1>2, <1>8, <1>19
  <2> QED
    BY <1>2, <1>8, <1>18, <1>19, <2>1, PassStays DEF Passing
<1>25. JobIs(q)'
  BY <1>2, <1>6, <1>19, <1>20 DEF JobIs
<1>26. AskingIs(q)'
  <2>1. Current(q)' = p
    BY <1>1, <1>19, <1>20 DEF Current
  <2>2. j.at \in PromptsOf(q)'
    BY <1>7, <1>19, <1>20 DEF PromptsOf, AsksNow
  <2>3. Plan(p.model)' = plan /\ Answering(p.model)' = own
    BY <1>1, <1>2, PlanStays
  <2>4. job'[q].at = j.at /\ job'[q].heard = new /\ job'[q].left = remain
    BY <1>19, <1>20
  <2>5. AsksFor(plan, own, job'[q].heard, job'[q].left, report'.door)
    BY <1>22, <2>4
  <2>6. Plan(Current(q).model)' = plan /\ Answering(Current(q).model)' = own
    BY ONLY <2>1, <2>3 DEF Plan, Answering
  <2>7. AsksFor(Plan(Current(q).model), Answering(Current(q).model), job[q].heard, job[q].left, report.door)'
    BY ONLY <2>5, <2>6 DEF AsksFor, HeardInTurn
  <2>8. (job[q].at \in PromptsOf(q) /\ Current(q).model \in Models)'
    BY <1>8, <2>1, <2>2, <2>4
  <2> QED
    BY ONLY <2>7, <2>8 DEF AskingIs
<1>27. ASSUME NEW r \in Requests PROVE RowsTell(r)'
  <2>1. RowsTell(r)
    BY DEF PromptInv
  <2>2. Past(job'[q]) = Past(job[q])
    BY <1>2, <1>19, <1>20 DEF Past
  <2>3. Past(job'[r]) = Past(job[r])
    BY <1>20, <2>2
  <2> QED
    BY <1>2, <2>1, <2>3, TellsOn
<1>28. \A n \in DOMAIN audit' : RowIs(n)'
  BY <1>2, <1>18, <1>19, RowsAndOne
<1> QED
  BY <1>20, <1>23, <1>24, <1>25, <1>26, <1>27, <1>28 DEF PromptInv

-----------------------------------------------------------------------------
(* PromptPass: what the doors said becomes the row.                          *)

\* A report tells of doors that spoke: of its own, which answered if the prompt
\* was forwarded, and aside of others that answered.
ToldWell(told, heard, ok) ==
  /\ told.door \in Hosts /\ told.other \in Seq(Asides)
  /\ \E i \in 1..Len(heard) : heard[i].door = told.door /\ (ok => heard[i].ok)
  /\ \A k \in 1..Len(told.other) :
       /\ told.other[k].door # told.door
       /\ \E i \in 1..Len(heard) : heard[i].door = told.other[k].door /\ heard[i].ok

AsideWell(s, heard, own) ==
  /\ s \in Seq(Asides)
  /\ \A k \in 1..Len(s) : s[k].door # own /\ \E i \in 1..Len(heard) : heard[i].door = s[k].door

LEMMA AsideIs ==
  ASSUME NEW heard \in Seq(Heards), NEW own \in Hosts, NEW A,
         A = {[door |-> h.door, text |-> h.text] : h \in {g \in ToSet(heard) : g.door # own}}
  PROVE  AsideWell(SetToSeq(A), heard, own)
<1>1. PICK n, I : n = Len(heard) /\ I = {i \in 1..n : heard[i].door # own}
  OBVIOUS
<1>2. n \in Nat /\ \A i \in 1..n : heard[i] \in Heards
  BY <1>1
<1>3. \A x \in A : \E i \in I : x = [door |-> heard[i].door, text |-> heard[i].text]
  BY <1>1, <1>2 DEF ToSet
<1>4. ASSUME NEW i \in I PROVE [door |-> heard[i].door, text |-> heard[i].text] \in A
  <2>1. i \in 1..n /\ heard[i].door # own
    BY <1>1
  <2>2. heard[i] \in ToSet(heard)
    BY <1>1, <1>2, <2>1 DEF ToSet
  <2>3. PICK h : h = heard[i]
    OBVIOUS
  <2>4. h \in {g \in ToSet(heard) : g.door # own}
    BY <2>1, <2>2, <2>3
  <2> QED
    BY <2>3, <2>4
<1>5. IsFiniteSet(A)
  <2>1. IsFiniteSet(1..n)
    <3>1. 1 \in Int /\ n \in Int
      BY <1>2
    <3> QED
      BY ONLY <3>1, FS_Interval, Zenon
  <2>2. I \subseteq 1..n
    BY <1>1
  <2>3. IsFiniteSet(I)
    BY <2>1, <2>2, FS_Subset
  <2>4. PICK f : f = [i \in I |-> [door |-> heard[i].door, text |-> heard[i].text]]
    OBVIOUS
  <2>5. f \in [I -> A]
    BY <1>4, <2>4
  <2>6. \A x \in A : \E i \in I : f[i] = x
    BY <1>3, <2>4
  <2>7. f \in Surjection(I, A)
    BY <2>5, <2>6 DEF Surjection
  <2> QED
    BY <2>3, <2>7, FS_Surjection
<1>6. PICK s : s = SetToSeq(A)
  OBVIOUS
<1>7. s \in Seq(A)
  BY <1>5, <1>6, SetToSeqIs
<1>8. A \subseteq Asides
  <2>1. \A i \in I : heard[i].door \in Hosts /\ heard[i].text \in Texts
    BY <1>1, <1>2 DEF Heards
  <2> QED
    BY <1>3, <2>1 DEF Asides
<1>9. s \in Seq(Asides)
  BY <1>7, <1>8
<1>10. ASSUME NEW k \in 1..Len(s)
       PROVE  s[k].door # own /\ \E i \in 1..Len(heard) : heard[i].door = s[k].door
  <2>1. s[k] \in A
    BY <1>7
  <2>2. PICK i \in I : s[k] = [door |-> heard[i].door, text |-> heard[i].text]
    BY <1>3, <2>1
  <2> QED
    BY <1>1, <2>2
<1> QED
  BY <1>6, <1>9, <1>10 DEF AsideWell

LEMMA ToldIs ==
  ASSUME NEW q \in Requests, NEW p, p = Current(q), NEW plan, plan = Plan(p.model), NEW own, own = Answering(p.model),
         AsksNow(q, p, plan, own), job[q].left = << >>, NEW heard, heard = job[q].heard,
         report \in [door : Hosts \cup {NoPrompt}, other : {<< >>}],
         NEW ok, ok = Answered(q), NEW told, told = Told(q)
  PROVE  ToldWell(told, heard, ok)
<1>1. /\ heard \in Seq(Heards) /\ plan.ask \in Seq(Hosts) /\ plan.kind \in {"one", "experts", "failover"}
      /\ plan.kind = "experts" => Len(plan.ask) = 2 /\ \E i \in 1..2 : own = plan.ask[i]
      /\ plan.kind = "one" => Len(plan.ask) = 1
      /\ AsksFor(plan, own, heard, << >>, report.door)
  BY DEF AsksNow, JobRecs
<1>2. PICK n : n = Len(heard)
  OBVIOUS
<1>3. /\ n \in Nat /\ n <= Len(plan.ask) /\ Len(plan.ask) \in Nat /\ n # 0
      /\ \A i \in 1..n : heard[i].door = plan.ask[i] /\ heard[i] \in Heards
      /\ plan.kind = "experts" => n = Len(plan.ask) /\ report.door = own
      /\ plan.kind = "one" => report.door = plan.ask[1]
  BY <1>1, <1>2 DEF AsksFor, HeardInTurn
<1>4. ok = IF plan.kind = "experts" THEN \A i \in DOMAIN heard : heard[i].ok ELSE Last(heard).ok
  BY DEF Answered
<1>5. Last(heard) = heard[n] /\ n \in 1..n /\ 1 \in 1..n /\ DOMAIN heard = 1..n
  BY <1>1, <1>2, <1>3 DEF Last
<1>6. \A i \in 1..n : heard[i].door \in Hosts
  BY <1>3 DEF Heards
<1>7. CASE plan.kind = "experts" /\ ok
  <2>1. told = FanReport(q)
    <3>1. plan.kind # "failover"
      BY <1>7
    <3> QED
      BY <1>7, <3>1, Zenon DEF Told
  <2>2. PICK A : A = {[door |-> h.door, text |-> h.text] : h \in {g \in ToSet(heard) : g.door # own}}
    OBVIOUS
  <2>3. told.door = own /\ told.other = SetToSeq(A)
    BY <2>1, <2>2 DEF FanReport
  <2>4. PICK i \in 1..2 : own = plan.ask[i]
    BY <1>1, <1>7
  <2>5. n = 2 /\ own = heard[i].door /\ own \in Hosts
    <3>1. n = 2
      BY <1>1, <1>3, <1>7
    <3>2. i \in 1..n
      BY <3>1
    <3> QED
      BY <1>3, <1>6, <2>4, <3>1, <3>2
  <2>6. \A k \in 1..n : heard[k].ok
    BY <1>4, <1>5, <1>7
  <2>7. AsideWell(SetToSeq(A), heard, own)
    BY <1>1, <2>2, <2>5, AsideIs, Zenon
  <2>8. PICK other : other = told.other /\ AsideWell(other, heard, own)
    BY <2>3, <2>7
  <2>9. /\ other \in Seq(Asides)
        /\ \A k \in 1..Len(other) :
             other[k].door # own /\ \E l \in 1..n : heard[l].door = other[k].door /\ heard[l].ok
    BY <1>2, <2>6, <2>8 DEF AsideWell
  <2>10. \E k \in 1..n : heard[k].door = own /\ heard[k].ok
    BY <2>5, <2>6
  <2> QED
    BY <1>2, <2>3, <2>5, <2>8, <2>9, <2>10 DEF ToldWell
<1>8. CASE plan.kind = "failover"
  <2>1. told = [NoReport EXCEPT !.door = Last(heard).door]
    <3>1. ~(plan.kind = "experts" /\ ok)
      BY <1>8
    <3> QED
      BY <1>8, <3>1, Zenon DEF Told
  <2>2. told.door = heard[n].door /\ told.other = << >>
    BY <1>5, <2>1 DEF NoReport
  <2>3. ok = heard[n].ok
    BY <1>4, <1>5, <1>8
  <2>4. told.other \in Seq(Asides) /\ \A k \in 1..Len(told.other) : FALSE
    <3>1. told.other = << >>
      BY <2>2
    <3>2. << >> \in Seq(Asides) /\ \A k \in 1..Len(<< >>) : FALSE
      OBVIOUS
    <3> QED
      BY ONLY <3>1, <3>2
  <2>5. told.door \in Hosts /\ \E i \in 1..n : heard[i].door = told.door /\ (ok => heard[i].ok)
    BY <1>5, <1>6, <2>2, <2>3
  <2> QED
    BY ONLY <1>2, <2>4, <2>5 DEF ToldWell
<1>9. CASE plan.kind # "failover" /\ ~(plan.kind = "experts" /\ ok)
  <2>1. told = report
    BY <1>9, Zenon DEF Told
  <2>2. told.other \in Seq(Asides) /\ \A k \in 1..Len(told.other) : FALSE
    <3>1. told.other = << >>
      BY <2>1
    <3>2. << >> \in Seq(Asides) /\ \A k \in 1..Len(<< >>) : FALSE
      OBVIOUS
    <3> QED
      BY ONLY <3>1, <3>2
  <2>3. \E i \in 1..n : heard[i].door = told.door /\ (ok => heard[i].ok)
    <3>1. CASE plan.kind = "one"
      <4>1. n = 1 /\ told.door = heard[1].door
        BY <1>1, <1>3, <1>5, <2>1, <3>1
      <4>2. ok = heard[1].ok
        BY <1>4, <1>5, <3>1, <4>1
      <4> QED
        BY <1>5, <4>1, <4>2
    <3>2. CASE plan.kind = "experts"
      <4>1. PICK i \in 1..2 : own = plan.ask[i]
        BY <1>1, <3>2
      <4>2. n = 2 /\ told.door = heard[i].door
        BY <1>1, <1>3, <2>1, <3>2, <4>1
      <4> QED
        BY <1>9, <3>2, <4>2
    <3> QED
      BY <1>1, <1>9, <3>1, <3>2
  <2>4. told.door \in Hosts
    BY <1>6, <2>3
  <2> QED
    BY ONLY <1>2, <2>2, <2>3, <2>4 DEF ToldWell
<1> QED
  BY <1>7, <1>8, <1>9

LEMMA ToldRow ==
  ASSUME NEW q \in Requests, NEW i \in Nat, NEW told, NEW heard \in Seq(Heards), NEW ok \in BOOLEAN,
         ToldWell(told, heard, ok), NEW hidden, NEW shown \in Texts, shown \cap hidden = {},
         NEW flags \in Seq(Requests \X Nat), \A f \in ToSet(flags) : f = << q, i >>,
         NEW other, other = [k \in DOMAIN told.other |-> [told.other[k] EXCEPT !.text = @ \ hidden]],
         NEW row, row = Row(<< q, i >>, IF ok THEN "forwarded" ELSE "door_failed", told.door, shown,
                            other, heard, flags)
  PROVE  RowIsSound(row, q, i, hidden)
<1>1. /\ told.door \in Hosts /\ told.other \in Seq(Asides)
      /\ \E k \in 1..Len(heard) : heard[k].door = told.door /\ (ok => heard[k].ok)
      /\ \A k \in 1..Len(told.other) :
           /\ told.other[k].door # told.door
           /\ \E l \in 1..Len(heard) : heard[l].door = told.other[k].door /\ heard[l].ok
  BY DEF ToldWell
<1>2. PICK n, olds : olds = told.other /\ n = Len(olds)
  OBVIOUS
<1>3. n \in Nat /\ DOMAIN olds = 1..n /\ \A k \in 1..n : olds[k] \in Asides
  BY <1>1, <1>2
<1>4. ASSUME NEW k \in 1..n
      PROVE  other[k] \in Asides /\ other[k].door = olds[k].door /\ other[k].text \cap hidden = {}
  <2>1. other[k] = [olds[k] EXCEPT !.text = @ \ hidden]
    BY <1>2, <1>3
  <2>2. olds[k] \in Asides
    BY <1>3
  <2> QED
    BY ONLY <2>1, <2>2 DEF Asides, Texts
<1>5. other \in Seq(Asides) /\ Len(other) = n /\ DOMAIN other = 1..n
  <2>1. DOMAIN other = 1..n /\ other = [k \in 1..n |-> other[k]]
    BY <1>2, <1>3
  <2>2. \A k \in 1..n : other[k] \in Asides
    BY <1>4
  <2>3. other \in Seq(Asides)
    <3>1. PICK S : S = Asides
      OBVIOUS
    <3>2. \A k \in 1..n : other[k] \in S
      BY ONLY <2>2, <3>1
    <3>3. other \in [1..n -> S]
      BY ONLY <2>1, <3>2
    <3>4. other \in Seq(S)
      BY ONLY <1>3, <3>3
    <3> QED
      BY ONLY <3>1, <3>4
  <2>4. Len(other) = n
    BY ONLY <1>3, <2>1, <2>3
  <2> QED
    BY ONLY <2>1, <2>3, <2>4
<1>6. PICK outcome : outcome = IF ok THEN "forwarded" ELSE "door_failed"
  OBVIOUS
<1>7. row = [of |-> << q, i >>, outcome |-> outcome, door |-> told.door, shown |-> shown,
             other |-> other, heard |-> heard, flags |-> flags]
  BY <1>6 DEF Row
<1>8. /\ row.of = << q, i >> /\ row.outcome = outcome /\ row.door = told.door /\ row.shown = shown
      /\ row.other = other /\ row.heard = heard /\ row.flags = flags /\ row.of[1] = q /\ row.of[2] = i
  <2>1. /\ row.of = << q, i >> /\ row.outcome = outcome /\ row.door = told.door /\ row.shown = shown
        /\ row.other = other /\ row.heard = heard /\ row.flags = flags
    BY ONLY <1>7
  <2>2. << q, i >>[1] = q /\ << q, i >>[2] = i
    OBVIOUS
  <2> QED
    BY ONLY <2>1, <2>2
<1>9. row \in Rows
  <2>1. << q, i >> \in Requests \X Nat
    OBVIOUS
  <2>2. outcome \in {"rejected", "door_failed", "forwarded"} /\ told.door \in Hosts \cup {NoPrompt}
    BY <1>1, <1>6
  <2>3. Row(<< q, i >>, outcome, told.door, shown, other, heard, flags) \in Rows
    BY <1>5, <2>1, <2>2, RowTyped
  <2> QED
    BY <1>6, <2>3
<1>10. RowIsClean(row, hidden)
  <2>1. ASSUME NEW h \in ToSet(other) PROVE h.text \cap hidden = {}
    <3>1. PICK k \in 1..n : h = other[k]
      BY <1>5 DEF ToSet
    <3> QED
      BY <1>4, <3>1
  <2>2. Shown(row) = shown \cup UNION {h.text : h \in ToSet(other)}
    BY <1>8 DEF Shown
  <2>3. \A x \in Shown(row) : x \notin hidden
    BY <2>1, <2>2
  <2> QED
    BY <2>3 DEF RowIsClean
<1>11. PICK spoke : spoke = {[door |-> h.door, ok |-> h.ok] : h \in ToSet(heard)}
  OBVIOUS
<1>12. ASSUME NEW l \in 1..Len(heard) PROVE [door |-> heard[l].door, ok |-> heard[l].ok] \in spoke /\ heard[l].ok \in BOOLEAN
  <2>1. heard[l] \in ToSet(heard) /\ heard[l] \in Heards
    BY DEF ToSet
  <2> QED
    BY <1>11, <2>1 DEF Heards
<1>13. PICK l \in 1..Len(heard) : heard[l].door = told.door /\ (ok => heard[l].ok)
  BY <1>1
<1>14. row.door \in {h.door : h \in spoke}
  <2>1. PICK h : h = [door |-> heard[l].door, ok |-> heard[l].ok]
    OBVIOUS
  <2>2. h \in spoke /\ h.door = row.door
    BY <1>8, <1>12, <1>13, <2>1
  <2> QED
    BY ONLY <2>2
<1>15. row.outcome = "forwarded" => [door |-> row.door, ok |-> TRUE] \in spoke
  <2>1. row.outcome = "forwarded" => ok
    BY <1>6, <1>8
  <2>2. ok => heard[l].ok = TRUE
    BY <1>12, <1>13
  <2> QED
    BY <1>8, <1>12, <1>13, <2>1, <2>2
<1>16. ASSUME NEW h \in ToSet(other) PROVE h.door # told.door /\ [door |-> h.door, ok |-> TRUE] \in spoke
  <2>1. PICK k \in 1..n : h = other[k]
    BY <1>5 DEF ToSet
  <2>2. h.door = olds[k].door
    BY <1>4, <2>1
  <2>3. PICK m \in 1..Len(heard) : heard[m].door = olds[k].door /\ heard[m].ok
    BY <1>1, <1>2
  <2>4. heard[m].ok = TRUE
    BY <1>12, <2>3
  <2>5. [door |-> heard[m].door, ok |-> heard[m].ok] \in spoke
    BY <1>12
  <2>6. h.door # told.door
    BY <1>1, <1>2, <2>2
  <2> QED
    BY <2>2, <2>3, <2>4, <2>5, <2>6
<1>17. \A f \in ToSet(flags) : f[1] = q /\ i \in {0, f[2]}
  <2>1. PICK g : g = << q, i >>
    OBVIOUS
  <2>2. g[1] = q /\ g[2] = i
    BY <2>1
  <2>3. \A f \in ToSet(flags) : f = g
    BY <2>1
  <2> QED
    BY ONLY <2>2, <2>3
<1>18. RowIsOwn(row)
  <2>1. \A f \in ToSet(row.flags) : f[1] = row.of[1] /\ row.of[2] \in {0, f[2]}
    BY ONLY <1>8, <1>17
  <2>2. spoke = {[door |-> h.door, ok |-> h.ok] : h \in ToSet(row.heard)}
    BY ONLY <1>8, <1>11
  <2>3. \A h \in ToSet(row.other) : h.door # row.door /\ [door |-> h.door, ok |-> TRUE] \in spoke
    BY ONLY <1>8, <1>16
  <2> QED
    BY ONLY <1>14, <1>15, <2>1, <2>2, <2>3 DEF RowIsOwn
<1> QED
  BY ONLY <1>8, <1>9, <1>10, <1>18 DEF RowIsSound

LEMMA StoreStep ==
  ASSUME PromptInv, NEW q \in Requests, Store(q)
  PROVE  PromptInv'
<1>1. PICK p, plan, own, heard, i : /\ p = Current(q) /\ plan = Plan(p.model) /\ own = Answering(p.model)
                                    /\ heard = job[q].heard /\ i = job[q].at
  OBVIOUS
<1>2. PICK ok, told : ok = Answered(q) /\ told = Told(q)
  OBVIOUS
<1>3. PICK heardText : heardText = {h.text : h \in {g \in ToSet(heard) :
                                              plan.kind = "experts" => g.door = Answering(p.model)}}
  OBVIOUS
<1>4. PICK shown, other : /\ shown = Redacted(p.text) \cup (IF ok THEN Redacted(UNION heardText) ELSE {})
                          /\ other = [k \in DOMAIN told.other |-> [told.other[k] EXCEPT !.text = Redacted(@)]]
  OBVIOUS
<1>5. PICK row : row = Row(<< q, i >>, IF ok THEN "forwarded" ELSE "door_failed", told.door, shown, other,
                           heard, pending)
  OBVIOUS
<1>6. /\ job[q].pc = "asking" /\ job[q].left = << >> /\ audit' = Append(audit, row)
      /\ report' = [told EXCEPT !.other = << >>] /\ pending' = << >>
      /\ job' = [job EXCEPT ![q].pc = "next", ![q].left = << >>, ![q].heard = << >>]
      /\ doors' = doors /\ session' = session /\ gate' = gate /\ needles' = needles
  BY <1>1, <1>2, <1>3, <1>4, <1>5 DEF Store
<1>7. PromptTyped /\ JobIs(q)
  BY DEF PromptInv
<1>8. AsksNow(q, p, plan, own)
  BY <1>1, <1>6, AskingNow, Zenon
<1>9. /\ job[q] \in JobRecs /\ heard \in Seq(Heards) /\ q \in gate /\ needles = job[q].needles
      /\ p.text \in Texts /\ i \in PromptsOf(q) /\ \A f \in ToSet(pending) : f = << q, i >>
      /\ DOMAIN heard = 1..Len(heard)
      /\ HeardInTurn(plan.ask, heard, << >>)
  BY <1>1, <1>6, <1>8 DEF AsksNow, JobRecs, AsksFor
<1>10. ToldWell(told, heard, ok)
  <2>1. report \in [door : Hosts \cup {NoPrompt}, other : {<< >>}]
    BY <1>7 DEF PromptTyped
  <2> QED
    <3>1. q \in Requests /\ job[q].left = << >>
      BY <1>6
    <3> QED
      BY ONLY <1>1, <1>2, <1>8, <2>1, <3>1, ToldIs, ZenonT(60)
<1>11. ok \in BOOLEAN
  <2>1. Len(heard) \in Nat /\ heard # << >>
    <3>1. heard \in Seq(Heards) /\ HeardInTurn(plan.ask, heard, << >>)
      BY ONLY <1>9, Zenon
    <3>2. heard # << >>
      BY ONLY <3>1, Zenon DEF HeardInTurn
    <3> QED
      BY ONLY <3>1, <3>2
  <2>2. Last(heard) \in Heards
    BY <1>9, <2>1 DEF Last
  <2>3. ok = IF plan.kind = "experts" THEN \A k \in DOMAIN heard : heard[k].ok ELSE Last(heard).ok
    BY <1>1, <1>2 DEF Answered
  <2> QED
    BY <2>2, <2>3 DEF Heards
<1>12. shown \in Texts /\ shown \cap needles = {}
  <2>1. ASSUME NEW h \in ToSet(heard) PROVE h.text \in Texts
    <3>1. PICK k \in 1..Len(heard) : h = heard[k]
      BY <1>9 DEF ToSet
    <3>2. heard[k] \in Heards
      BY <1>9
    <3> QED
      BY <3>1, <3>2 DEF Heards
  <2>2. UNION heardText \in Texts
    BY <1>3, <2>1 DEF Texts
  <2> QED
    BY <1>4, <1>9, <2>2 DEF Redacted, Texts
<1>13. PICK j : j = [job[q] EXCEPT !.pc = "next", !.left = << >>, !.heard = << >>]
  OBVIOUS
<1>14. job' = [job EXCEPT ![q] = j]
  BY <1>6, <1>7, <1>13 DEF PromptTyped
<1>15. /\ j \in JobRecs /\ j.pc = "next" /\ j.needles = job[q].needles /\ j.at = i
       /\ j.stream = job[q].stream /\ j.items = job[q].items
  <2>1. /\ j.pc = "next" /\ j.needles = job[q].needles /\ j.at = i /\ j.key = job[q].key
        /\ j.stream = job[q].stream /\ j.items = job[q].items /\ j.heard = << >> /\ j.left = << >>
    BY <1>1, <1>9, <1>13 DEF JobRecs
  <2>2. j = [pc |-> j.pc, stream |-> j.stream, key |-> j.key, items |-> j.items, at |-> j.at,
             needles |-> j.needles, left |-> j.left, heard |-> j.heard]
    BY <1>9, <1>13 DEF JobRecs
  <2>3. "next" \in PromptPcs /\ << >> \in Seq(Heards) /\ << >> \in Seq(Hosts)
    BY DEF PromptPcs
  <2>4. /\ job[q].stream \in BOOLEAN /\ job[q].key \in BOOLEAN /\ job[q].items \in Seq(AnyLine)
        /\ job[q].needles \in Texts /\ i \in Nat
    BY <1>1, <1>9 DEF JobRecs
  <2>5. /\ j.pc \in PromptPcs /\ j.stream \in BOOLEAN /\ j.key \in BOOLEAN /\ j.items \in Seq(AnyLine)
        /\ j.at \in Nat /\ j.needles \in Texts /\ j.left \in Seq(Hosts) /\ j.heard \in Seq(Heards)
    BY <2>1, <2>3, <2>4
  <2>6. j \in JobRecs
    BY ONLY <2>2, <2>5 DEF JobRecs
  <2> QED
    BY <2>1, <2>6
<1>16. i \in Nat \ {0}
  BY <1>9 DEF PromptsOf, JobRecs
<1>17. row \in Rows /\ row.of = << q, i >> /\ RowIsClean(row, j.needles) /\ RowIsOwn(row)
  <2>1. other = [k \in DOMAIN told.other |-> [told.other[k] EXCEPT !.text = @ \ needles]]
    BY <1>4 DEF Redacted
  <2>2. pending \in Seq(Requests \X Nat)
    BY <1>7 DEF PromptTyped
  <2>3. RowIsSound(row, q, i, needles)
    BY <1>5, <1>9, <1>10, <1>11, <1>12, <1>16, <2>1, <2>2, ToldRow, Zenon
  <2> QED
    BY <1>9, <1>15, <2>3 DEF RowIsSound
<1>18. /\ job' \in [Requests -> JobRecs] /\ job'[q] = j
       /\ \A r \in Requests \ {q} : job'[r] = job[r] /\ job[r].pc \notin Passing /\ JobIs(r)' /\ AskingIs(r)'
  BY <1>6, <1>9, <1>14, <1>15, OthersStay
<1>19. report' \in [door : Hosts \cup {NoPrompt}, other : {<< >>}]
  <2>1. told = FanReport(q) \/ told = [NoReport EXCEPT !.door = Last(heard).door] \/ told = report
    BY <1>1, <1>2, Zenon DEF Told
  <2>2. told.door \in Hosts
    BY <1>10 DEF ToldWell
  <2>3. report \in [door : Hosts \cup {NoPrompt}, other : {<< >>}]
    BY <1>7 DEF PromptTyped
  <2>4. told = [door |-> told.door, other |-> told.other]
    BY <2>1, <2>3 DEF FanReport, NoReport
  <2>5. report' = [door |-> told.door, other |-> << >>]
    BY <1>6, <2>4
  <2> QED
    BY <2>2, <2>5
<1>20. audit \in Seq(Rows)
  BY <1>7 DEF PromptTyped
<1>21. PromptTyped'
  <2>1. audit' \in Seq(Rows)
    BY <1>6, <1>17, <1>20
  <2> QED
    BY <1>6, <1>7, <1>18, <1>19, <2>1 DEF PromptTyped
<1>22. PassIsOnes'
  BY <1>6, <1>9, <1>14, <1>15, PassStays DEF Passing
<1>23. JobIs(q)' /\ AskingIs(q)'
  BY <1>6, <1>7, <1>15, <1>18 DEF JobIs, AskingIs
<1>24. /\ Past(job'[q]) = Past(job[q]) \cup {i}
       /\ \A k \in Past(job[q]) : k < i
  <2>1. PromptsOf(q) = {k \in 1..Len(job[q].items) : job[q].items[k].kind = "prompt"}
    BY <1>9 DEF PromptsOf, JobRecs
  <2>2. Past(j) = {k \in PromptsOf(q) : k < i \/ k = i}
    BY <1>15, <2>1 DEF Past
  <2>3. Past(job[q]) = {k \in PromptsOf(q) : k < i}
    BY <1>1, <1>6, <2>1 DEF Past
  <2> QED
    BY <1>9, <1>18, <2>2, <2>3
<1>25. ASSUME NEW r \in Requests PROVE RowsTell(r)'
  <2>1. RowsTell(r)
    BY DEF PromptInv
  <2>2. CASE r = q
    BY <1>6, <1>16, <1>17, <1>20, <1>24, <2>1, <2>2, OneTells
  <2>3. CASE r # q
    <3>1. row.of[1] # r
      BY <1>17, <2>3
    <3>2. Past(job'[r]) = Past(job[r])
      BY <1>18, <2>3
    <3> QED
      BY <1>6, <1>17, <1>20, <2>1, <3>1, <3>2, OthersTell
  <2> QED
    BY <2>2, <2>3
<1>26. \A n \in DOMAIN audit' : RowIs(n)'
  <2>1. row.of[1] = q
    BY <1>17
  <2> QED
    BY <1>6, <1>14, <1>15, <1>17, <2>1, RowsAndOne
<1> QED
  BY <1>18, <1>21, <1>22, <1>23, <1>25, <1>26 DEF PromptInv

LEMMA LeaveStep ==
  ASSUME PromptInv, NEW q \in Requests, Leave(q)
  PROVE  PromptInv'
<1>1. PICK flags, row : /\ flags = pending \o FlattenSeq([i \in DOMAIN job[q].items |-> FlaggedFile(q, i)])
                        /\ row = Row(<< q, 0 >>, "rejected", NoPrompt, {}, << >>, << >>, flags)
  OBVIOUS
<1>2. /\ NextPrompt(q) = 0 /\ job[q].pc = "next" /\ job' = [job EXCEPT ![q].pc = "done"]
      /\ gate' = gate \ {q} /\ doors' = doors /\ session' = session /\ report' = report
      /\ IF job[q].stream
         THEN /\ audit' = IF flags = << >> THEN audit ELSE Append(audit, row)
              /\ pending' = << >> /\ needles' = {}
         ELSE audit' = audit /\ pending' = pending /\ needles' = needles
  BY <1>1 DEF Leave, Goes
<1>3. PromptTyped /\ PassIsOnes /\ JobIs(q)
  BY DEF PromptInv
<1>4. job[q] \in JobRecs /\ job[q].items \in Seq(AnyLine) /\ job[q].at \in Nat
  BY <1>3 DEF PromptTyped, JobRecs
<1>5. q \in gate /\ gate' = {} /\ needles = job[q].needles /\ pending = << >>
  <2>1. q \in gate
    BY <1>2, <1>3 DEF PassIsOnes, Passing
  <2>2. \A r \in Requests : job[r].pc # "asking"
    BY <1>2, <1>3, <2>1 DEF PassIsOnes, Passing
  <2> QED
    BY <1>2, <1>3, <2>1, <2>2 DEF PassIsOnes
<1>6. PICK j : j = [job[q] EXCEPT !.pc = "done"]
  OBVIOUS
<1>7. job' = [job EXCEPT ![q] = j]
  BY <1>2, <1>3, <1>6 DEF PromptTyped
<1>8. /\ j \in JobRecs /\ j.pc = "done" /\ j.needles = job[q].needles /\ j.at = job[q].at
      /\ j.stream = job[q].stream /\ j.items = job[q].items
  BY <1>4, <1>6 DEF JobRecs, PromptPcs
<1>9. /\ job' \in [Requests -> JobRecs] /\ job'[q] = j
      /\ \A r \in Requests \ {q} : job'[r] = job[r] /\ job[r].pc \notin Passing /\ JobIs(r)' /\ AskingIs(r)'
  BY <1>2, <1>5, <1>7, <1>8, OthersStay
<1>10. pending' = << >> /\ needles' = {}
  <2>1. CASE job[q].stream
    BY <1>2, <2>1
  <2>2. CASE ~job[q].stream
    BY <1>2, <1>3, <1>5, <2>2 DEF JobIs
  <2> QED
    BY <2>1, <2>2
<1>11. row \in Rows /\ row.of = << q, 0 >> /\ RowIsClean(row, j.needles) /\ RowIsOwn(row)
  <2>1. FlattenSeq([i \in DOMAIN job[q].items |-> FlaggedFile(q, i)]) \in Seq({q} \X Nat)
    BY <1>4, FlagsAre
  <2>2. flags \in Seq({q} \X Nat)
    <3>1. PICK T, s : T = {q} \X Nat /\ s = FlattenSeq([i \in DOMAIN job[q].items |-> FlaggedFile(q, i)])
      OBVIOUS
    <3>2. s \in Seq(T) /\ flags = << >> \o s
      BY ONLY <1>1, <1>5, <2>1, <3>1
    <3>3. flags \in Seq(T)
      BY ONLY <3>2
    <3> QED
      BY ONLY <3>1, <3>3
  <2>3. {} \in Texts /\ {} \cap j.needles = {} /\ "rejected" \in {"rejected", "door_failed"} /\ 0 \in Nat
    BY DEF Texts
  <2>4. RowIsSound(row, q, 0, j.needles)
    BY <1>1, <2>2, <2>3, BareRow, Zenon
  <2> QED
    BY ONLY <2>4 DEF RowIsSound
<1>12. audit' = audit \/ audit' = Append(audit, row)
  BY <1>2
<1>13. audit \in Seq(Rows)
  BY <1>3 DEF PromptTyped
<1>14. PromptTyped'
  <2>1. audit' \in Seq(Rows)
    BY <1>11, <1>12, <1>13
  <2>2. {} \in Texts
    BY DEF Texts
  <2> QED
    BY <1>2, <1>3, <1>5, <1>9, <1>10, <2>1, <2>2 DEF PromptTyped
<1>15. PassIsOnes'
  <2>1. \A r \in Requests : job'[r].pc \notin Passing
    BY <1>8, <1>9 DEF Passing
  <2>2. \A r \in Requests : job'[r].pc # "asking"
    BY <2>1 DEF Passing
  <2> QED
    BY <1>5, <1>10, <2>1, <2>2 DEF PassIsOnes
<1>16. \A i \in PromptsOf(q) : i <= job[q].at
  BY <1>2, <1>4, NextPromptIs
<1>17. JobIs(q)' /\ AskingIs(q)'
  <2>1. \A i \in PromptsOf(q)' : i <= job'[q].at
    BY <1>8, <1>9, <1>16 DEF PromptsOf
  <2> QED
    BY <1>2, <1>3, <1>8, <1>9, <2>1 DEF JobIs, AskingIs
<1>18. Past(job'[q]) = Past(job[q])
  BY <1>2, <1>8, <1>9 DEF Past
<1>19. ASSUME NEW r \in Requests PROVE RowsTell(r)'
  <2>1. RowsTell(r) /\ Past(job'[r]) = Past(job[r])
    BY <1>9, <1>18 DEF PromptInv
  <2>2. CASE audit' = audit
    BY <2>1, <2>2, TellsOn
  <2>3. CASE audit' = Append(audit, row)
    <3>1. row.of[2] = 0
      BY <1>11
    <3> QED
      BY <1>11, <1>13, <2>1, <2>3, <3>1, OthersTell
  <2> QED
    BY <1>12, <2>2, <2>3
<1>20. \A n \in DOMAIN audit' : RowIs(n)'
  <2>1. row.of[1] = q
    BY <1>11
  <2> QED
    BY <1>7, <1>8, <1>11, <1>12, <2>1, RowsAndOne
<1> QED
  BY <1>9, <1>14, <1>15, <1>17, <1>19, <1>20 DEF PromptInv

LEMMA PromptStep == PromptInv /\ [PromptNext]_PromptVars => PromptInv'
<1> SUFFICES ASSUME PromptInv, [PromptNext]_PromptVars PROVE PromptInv'
  OBVIOUS
<1>1. CASE Open
  BY <1>1, OpenStep
<1>2. CASE Close \/ UNCHANGED PromptVars
  BY <1>2, CloseStep
<1>3. ASSUME NEW r \in Requests,
             Submit(r) \/ Stream(r) \/ Deliver(r) \/ DeliverSome(r) \/ Refuse(r)
      PROVE  PromptInv'
  BY <1>3, BodiesStep
<1>4. ASSUME NEW r \in Requests, Enter(r) \/ Begin(r) \/ Hear(r) \/ Store(r) \/ Leave(r)
      PROVE  PromptInv'
  BY <1>4, EnterStep, BeginStep, HearStep, StoreStep, LeaveStep
<1> QED
  BY <1>1, <1>2, <1>3, <1>4, Zenon DEF PromptNext

LEMMA InTheAudit == PromptInv => AuditIsTrue
<1> SUFFICES ASSUME PromptInv PROVE AuditIsTrue
  OBVIOUS
<1>1. PromptTyped /\ \A n \in DOMAIN audit : RowIs(n)
  BY DEF PromptInv
<1>2. RowsHideSecrets
  BY <1>1 DEF RowsHideSecrets, RowIs, RowIsClean
<1>3. RowsAreTheirOwn
  BY <1>1 DEF RowsAreTheirOwn, RowIs, RowIsOwn
<1>4. ASSUME NEW r \in Requests, job[r].pc = "done"
      PROVE  {audit[n].of[2] : n \in RowsOf(r)} = PromptsOf(r)
  <2>1. JobIs(r) /\ RowsTell(r) /\ job[r] \in JobRecs
    BY <1>1 DEF PromptInv, PromptTyped
  <2>2. job[r].items \in Seq(AnyLine) /\ job[r].at \in Nat
    BY <2>1 DEF JobRecs
  <2>3. PromptsOf(r) = {k \in 1..Len(job[r].items) : job[r].items[k].kind = "prompt"}
    BY <2>2 DEF PromptsOf
  <2>4. \A k \in PromptsOf(r) : k \in Nat /\ k <= job[r].at
    BY <1>4, <2>1, <2>2, <2>3 DEF JobIs
  <2>5. \A k \in PromptsOf(r) : k < job[r].at \/ k = job[r].at
    BY <2>2, <2>4
  <2>6. Past(job[r]) = PromptsOf(r)
    BY <1>4, <2>3, <2>5 DEF Past
  <2> QED
    BY <2>1, <2>6 DEF RowsTell
<1>5. ASSUME NEW r \in Requests, job[r].pc = "asking"
      PROVE  /\ IsInjective([i \in DOMAIN job[r].heard |-> job[r].heard[i].door])
             /\ Plan(Current(r).model).kind = "failover" =>
                  \A i \in DOMAIN job[r].heard : job[r].heard[i].ok => i = Len(job[r].heard)
  <2>1. PICK p, plan, own, heard : /\ p = Current(r) /\ plan = Plan(p.model) /\ own = Answering(p.model)
                                   /\ heard = job[r].heard
    OBVIOUS
  <2>2. AsksNow(r, p, plan, own)
    BY <1>5, <2>1, AskingNow, Zenon
  <2>3. /\ heard \in Seq(Heards) /\ plan.ask \in Seq(Hosts) /\ IsInjective(plan.ask)
        /\ AsksFor(plan, own, heard, job[r].left, report.door)
    BY <2>1, <2>2 DEF AsksNow, JobRecs
  <2>4. /\ DOMAIN heard = 1..Len(heard) /\ Len(heard) \in Nat /\ Len(heard) <= Len(plan.ask)
        /\ Len(plan.ask) \in Nat /\ DOMAIN plan.ask = 1..Len(plan.ask)
        /\ \A i \in 1..Len(heard) : heard[i].door = plan.ask[i]
    BY <2>3 DEF AsksFor, HeardInTurn
  <2>5. \A i \in 1..Len(heard) : i \in 1..Len(plan.ask)
    BY <2>4
  <2>6. IsInjective([i \in DOMAIN heard |-> heard[i].door])
    BY <2>3, <2>4, <2>5 DEF IsInjective
  <2>7. plan.kind = "failover" => \A i \in DOMAIN heard : heard[i].ok => i = Len(heard)
    BY <2>3, <2>4 DEF AsksFor
  <2> QED
    BY ONLY <2>1, <2>6, <2>7
<1>6. \A r \in Requests : \A n, o \in RowsOf(r) : n < o => audit[n].of[2] < audit[o].of[2]
  BY DEF PromptInv, RowsTell
<1>7. EveryPromptOnce
  BY ONLY <1>4, <1>5, <1>6 DEF EveryPromptOnce
<1> QED
  BY <1>2, <1>3, <1>7 DEF AuditIsTrue

LEMMA PromptTypes == PromptInv => PromptTypeOK
<1> SUFFICES ASSUME PromptInv PROVE PromptTypeOK
  OBVIOUS
<1>1. PromptTyped /\ PassIsOnes
  BY DEF PromptInv
<1>2. ASSUME NEW r \in Requests
      PROVE  /\ job[r].pc \in {"new", "reading", "refused", "waiting", "next", "asking", "done"}
             /\ job[r].items \in Seq(Lines \cup {Blank}) /\ job[r].needles \subseteq Values
  BY <1>1 DEF PromptTyped, JobRecs, PromptPcs, AnyLine, Texts
<1>3. report.door \in Hosts \cup {NoPrompt} /\ report.other = << >>
  BY <1>1 DEF PromptTyped
<1>4. gate = {} => needles = {} /\ pending = << >>
  BY <1>1 DEF PassIsOnes, Passing
<1> QED
  BY <1>1, <1>2, <1>3, <1>4 DEF PromptTypeOK, PromptTyped, Texts

\* The audit of the prompt pass tells, for any requests, doors and bodies, what became of every
\* prompt under its own name, once and in order, and hides what the vault held (Auditor, PromptPass).
THEOREM AuditAlwaysTrue == PromptSpec => [](PromptTypeOK /\ AuditIsTrue)
<1>1. PromptInit => PromptInv
  BY PromptStarts
<1>2. PromptInv /\ [PromptNext]_PromptVars => PromptInv'
  BY PromptStep
<1>3. PromptInv => PromptTypeOK /\ AuditIsTrue
  BY PromptTypes, InTheAudit
<1> QED
  BY <1>1, <1>2, <1>3, PTL DEF PromptSpec
==============================================================================
