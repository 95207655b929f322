------------------------------ MODULE InputProofs ------------------------------
(***************************************************************************)
(* What comes in from outside, one section a module: the input a frame of  *)
(* the companion drains, the pointer a poll of it finds, the requests for  *)
(* the pointer and the steps they are cut into, the lines of an agent, the *)
(* words of a command line, the files of other programs and where they are *)
(* looked for, and what the user types to trust one.                       *)
(*                                                                         *)
(* What a recursive function holds at every step is shown by counting up,  *)
(* with a set of steps in the place of a predicate.                        *)
(***************************************************************************)
EXTENDS Pointer, Fallback, Outsiders, NaturalsInduction, WellFoundedInduction,
        FiniteSetTheorems, SequenceTheorems, TLAPS

-----------------------------------------------------------------------------
(* Counting up.                                                            *)

LEMMA LeastOf ==
  ASSUME NEW S \in SUBSET Nat, S # {}
  PROVE  \E x \in S : \A y \in S : x <= y
<1>1. PICK R : R = OpToRel(<, Nat)
  OBVIOUS
<1>2. IsWellFoundedOn(R, Nat)
  BY <1>1, NatLessThanWellFounded
<1>3. PICK x \in S : \A y \in S : ~(<< y, x >> \in R)
  BY <1>2, WFMin
<1>4. ASSUME NEW y \in S PROVE x <= y
  <2>1. ~(<< y, x >> \in R)
    BY <1>3
  <2>2. y \in Nat /\ x \in Nat
    OBVIOUS
  <2>3. ~(y < x)
    BY <1>1, <2>1, <2>2 DEF OpToRel
  <2> QED
    BY <2>2, <2>3
<1> QED
  BY <1>4

\* A set of steps that has the first and with every step the next has them all.
LEMMA CountUp ==
  ASSUME NEW n \in Nat, NEW P,
         0 \in P, \A i \in 1..n : i - 1 \in P => i \in P
  PROVE  \A i \in 0..n : i \in P
<1> SUFFICES ASSUME (0..n) \ P # {} PROVE FALSE
  OBVIOUS
<1>1. (0..n) \ P \in SUBSET Nat
  OBVIOUS
<1>2. PICK x \in (0..n) \ P : \A y \in (0..n) \ P : x <= y
  BY <1>1, LeastOf
<1>3. x \in 1..n /\ x - 1 \in 0..n
  BY <1>2
<1>4. x - 1 \in P
  BY <1>2, <1>3
<1> QED
  BY <1>2, <1>3, <1>4

\* A table that is filled step by step exists.
LEMMA TableExists ==
  ASSUME NEW S, NEW base \in S, NEW n \in Nat, NEW step \in [1..n -> [S -> S]]
  PROVE  \E f \in [0..n -> S] : f[0] = base /\ \A i \in 1..n : f[i] = step[i][f[i - 1]]
<1> DEFINE Fills(f, k) == f[0] = base /\ \A i \in 1..k : f[i] = step[i][f[i - 1]]
           P == {k \in 0..n : \E f \in [0..k -> S] : Fills(f, k)}
<1>1. 0 \in P
  <2>1. PICK f : f = [i \in 0..0 |-> base]
    OBVIOUS
  <2>2. f \in [0..0 -> S] /\ Fills(f, 0)
    BY <2>1
  <2>3. \E g \in [0..0 -> S] : Fills(g, 0)
    BY <2>2
  <2>4. 0 \in 0..n
    OBVIOUS
  <2> QED
    BY <2>3, <2>4
<1>2. ASSUME NEW k \in 1..n, k - 1 \in P PROVE k \in P
  <2>1. PICK f \in [0..(k - 1) -> S] : Fills(f, k - 1)
    BY <1>2
  <2>2. PICK v : v = step[k][f[k - 1]]
    OBVIOUS
  <2>3. v \in S
    <3>1. step[k] \in [S -> S] /\ f[k - 1] \in S
      OBVIOUS
    <3> QED
      BY <2>2, <3>1
  <2>4. PICK g : g = [i \in 0..k |-> IF i = k THEN v ELSE f[i]]
    OBVIOUS
  <2>5. g \in [0..k -> S]
    BY <2>3, <2>4
  <2>6. g[0] = base
    BY <2>1, <2>4
  <2>7. ASSUME NEW i \in 1..k PROVE g[i] = step[i][g[i - 1]]
    <3>1. g[i - 1] = f[i - 1]
      BY <2>4
    <3>2. CASE i = k
      BY <2>2, <2>4, <3>1, <3>2
    <3>3. CASE i # k
      <4>1. i \in 1..(k - 1)
        BY <3>3
      <4>2. f[i] = step[i][f[i - 1]]
        BY <2>1, <4>1
      <4> QED
        BY <2>4, <3>1, <3>3, <4>2
    <3> QED
      BY <3>2, <3>3
  <2> QED
    BY <2>5, <2>6, <2>7, SMTT(60)
<1>3. n \in P
  <2> HIDE DEF P
  <2>1. \A i \in 1..n : i - 1 \in P => i \in P
    BY <1>2
  <2>2. \A i \in 0..n : i \in P
    BY <1>1, <2>1, CountUp
  <2> QED
    BY <2>2
<1> QED
  BY <1>3

-----------------------------------------------------------------------------
(* Pointer: what a frame makes of a batch.                                 *)

Raws == Origins \cup {"none"}
Batches == Seq(Inputs)

\* What the companion is sure of in a batch: behind a press of known origin, or first
\* in the batch after one, a core event is of that origin.
IsMarked(batch, raw, from) ==
  \A i \in DOMAIN batch :
    batch[i].kind = "core" /\ batch[i].n > from =>
      \/ i > 1 /\ batch[i - 1].kind = "press" /\ batch[i - 1].by = batch[i].by
      \/ i = 1 /\ raw = batch[i].by

LEMMA EventFields ==
  ASSUME NEW e \in Inputs
  PROVE  /\ e.kind \in {"press", "core", "half", "whole", "key"} /\ e.by \in Origins
         /\ e.n \in Nat
         /\ e.kind \in {"press", "core"} => e.on \in Targets
BY DEF Inputs

LEMMA TakeTyped ==
  ASSUME NEW d \in Drained, NEW e \in Inputs
  PROVE  Take(d, e) \in Drained
<1>1. /\ e.kind \in {"press", "core", "half", "whole", "key"} /\ e.by \in Origins
      /\ d.px \in {0, 1} /\ d.raw \in Raws /\ d.live \in BOOLEAN /\ d.click \in SUBSET Inputs
  BY EventFields DEF Drained, Raws
<1>2. PICK o : o = Observe(d, e)
  OBVIOUS
<1>3. o \in Drained
  <2>1. CASE e.by = "user" /\ e.kind = "half"
    <3>1. PICK px, live : px = 1 - d.px /\ live = (d.live \/ d.px = 1)
      OBVIOUS
    <3>2. o = [d EXCEPT !.px = px, !.live = live]
      BY <1>2, <2>1, <3>1 DEF Observe
    <3>3. px \in {0, 1} /\ live \in BOOLEAN
      BY <1>1, <3>1
    <3> QED
      BY <3>2, <3>3 DEF Drained
  <2>2. CASE ~(e.by = "user" /\ e.kind = "half")
    BY <1>1, <1>2, <2>2 DEF Observe, Drained
  <2> QED
    BY <2>1, <2>2
<1>4. CASE e.kind = "core"
  <2>1. PICK c : c = IF d.raw = "call" THEN d.click ELSE {e}
    OBVIOUS
  <2>2. Take(d, e) = [d EXCEPT !.raw = "none", !.click = c]
    BY <1>4, <2>1 DEF Take, Pair
  <2>3. c \in SUBSET Inputs
    BY <1>1, <2>1
  <2> QED
    BY <2>2, <2>3 DEF Drained
<1>5. CASE e.kind # "core"
  <2>1. Take(d, e) = Pair(o, e)
    BY <1>2, <1>5 DEF Take
  <2>2. Pair(o, e) \in Drained
    BY <1>1, <1>3, <1>5 DEF Pair, Drained
  <2> QED
    BY <2>1, <2>2
<1> QED
  BY <1>4, <1>5

LEMMA DrainsStepByStep ==
  ASSUME NEW batch \in Batches, NEW raw \in Raws, watch.px \in {0, 1}
  PROVE  /\ Drains(raw, batch) \in [0..Len(batch) -> Drained]
         /\ Drains(raw, batch)[0] = [px |-> watch.px, raw |-> raw, live |-> FALSE, click |-> {}]
         /\ \A i \in 1..Len(batch) :
              Drains(raw, batch)[i] = Take(Drains(raw, batch)[i - 1], batch[i])
<1>1. PICK n : n = Len(batch)
  OBVIOUS
<1>2. n \in Nat /\ \A i \in 1..n : batch[i] \in Inputs
  BY <1>1 DEF Batches
<1>3. PICK base : base = [px |-> watch.px, raw |-> raw, live |-> FALSE, click |-> {}]
  OBVIOUS
<1>4. base \in Drained
  BY <1>3 DEF Drained, Raws
<1>5. PICK step : step = [i \in 1..n |-> [d \in Drained |-> Take(d, batch[i])]]
  OBVIOUS
<1>6. step \in [1..n -> [Drained -> Drained]]
  BY <1>2, <1>5, TakeTyped
<1>7. PICK f \in [0..n -> Drained] : f[0] = base /\ \A i \in 1..n : f[i] = step[i][f[i - 1]]
  BY <1>2, <1>4, <1>6, TableExists
<1>8. ASSUME NEW i \in 1..n PROVE f[i] = Take(f[i - 1], batch[i])
  <2>1. f[i - 1] \in Drained
    BY <1>2, <1>7
  <2> QED
    BY <1>5, <1>7, <2>1
<1>9. f = [i \in 0..n |-> IF i = 0 THEN base ELSE Take(f[i - 1], batch[i])]
  <2>1. ASSUME NEW i \in 0..n
        PROVE  f[i] = (IF i = 0 THEN base ELSE Take(f[i - 1], batch[i]))
    <3>1. CASE i = 0
      BY <1>7, <3>1
    <3>2. CASE i # 0
      <4>1. i \in 1..n
        BY <1>2, <3>2
      <4> QED
        BY <1>8, <3>2, <4>1
    <3> QED
      BY <3>1, <3>2
  <2> QED
    BY <1>7, <2>1
<1>10. PICK g : g = Drains(raw, batch)
  OBVIOUS
<1>11. g = [i \in 0..n |-> IF i = 0 THEN base ELSE Take(g[i - 1], batch[i])]
  BY <1>1, <1>3, <1>9, <1>10 DEF Drains
<1>12. g[0] = base /\ \A i \in 1..n : g[i] = Take(g[i - 1], batch[i])
  BY <1>2, <1>11
<1>13. \A i \in 0..n : g[i] \in Drained
  <2>1. PICK P : P = {i \in 0..n : g[i] \in Drained}
    OBVIOUS
  <2>2. 0 \in P
    BY <1>2, <1>4, <1>12, <2>1
  <2>3. ASSUME NEW i \in 1..n, i - 1 \in P PROVE i \in P
    BY <1>2, <1>12, <2>1, <2>3, TakeTyped
  <2>4. \A i \in 0..n : i \in P
    BY <1>2, <2>2, <2>3, CountUp
  <2> QED
    BY <2>1, <2>4
<1> QED
  BY <1>1, <1>3, <1>10, <1>11, <1>12, <1>13

LEMMA FurtherTyped ==
  ASSUME NEW k \in 0..2, NEW e
  PROVE  Further(k, e) \in 0..2
BY DEF Further

LEMMA TravelsStepByStep ==
  ASSUME NEW batch \in Batches
  PROVE  /\ Travels(batch) \in [0..Len(batch) -> 0..2]
         /\ Travels(batch)[0] = 0
         /\ \A i \in 1..Len(batch) :
              Travels(batch)[i] = Further(Travels(batch)[i - 1], batch[i])
<1>1. PICK n, S : n = Len(batch) /\ S = 0..2
  OBVIOUS
<1>2. n \in Nat /\ 0 \in S
  BY <1>1 DEF Batches
<1>3. PICK step : step = [i \in 1..n |-> [k \in S |-> Further(k, batch[i])]]
  OBVIOUS
<1>4. step \in [1..n -> [S -> S]]
  BY <1>1, <1>3, FurtherTyped
<1>5. PICK f \in [0..n -> S] : f[0] = 0 /\ \A i \in 1..n : f[i] = step[i][f[i - 1]]
  <2>1. PICK base \in S : base = 0
    BY <1>2
  <2>2. \E f \in [0..n -> S] : f[0] = base /\ \A i \in 1..n : f[i] = step[i][f[i - 1]]
    BY <1>2, <1>4, TableExists
  <2> QED
    BY <2>1, <2>2
<1>6. ASSUME NEW i \in 1..n PROVE f[i] = Further(f[i - 1], batch[i])
  <2>1. f[i - 1] \in S
    BY <1>2, <1>5
  <2> QED
    BY <1>3, <1>5, <2>1
<1>7. f = [i \in 0..n |-> IF i = 0 THEN 0 ELSE Further(f[i - 1], batch[i])]
  <2>1. ASSUME NEW i \in 0..n
        PROVE  f[i] = (IF i = 0 THEN 0 ELSE Further(f[i - 1], batch[i]))
    <3>1. CASE i = 0
      BY <1>5, <3>1
    <3>2. CASE i # 0
      <4>1. i \in 1..n
        BY <1>2, <3>2
      <4> QED
        BY <1>6, <3>2, <4>1
    <3> QED
      BY <3>1, <3>2
  <2> QED
    BY <1>5, <2>1
<1>8. PICK g : g = Travels(batch)
  OBVIOUS
<1>9. g = [i \in 0..n |-> IF i = 0 THEN 0 ELSE Further(g[i - 1], batch[i])]
  BY <1>1, <1>7, <1>8 DEF Travels
<1>10. g[0] = 0 /\ \A i \in 1..n : g[i] = Further(g[i - 1], batch[i])
  BY <1>2, <1>9
<1>11. \A i \in 0..n : g[i] \in S
  <2>1. PICK P : P = {i \in 0..n : g[i] \in S}
    OBVIOUS
  <2>2. 0 \in P
    BY <1>2, <1>10, <2>1
  <2>3. ASSUME NEW i \in 1..n, i - 1 \in P PROVE i \in P
    BY <1>1, <1>2, <1>10, <2>1, <2>3, FurtherTyped
  <2>4. \A i \in 0..n : i \in P
    BY <1>2, <2>2, <2>3, CountUp
  <2> QED
    BY <2>1, <2>4
<1> QED
  BY <1>1, <1>8, <1>9, <1>10, <1>11

\* One event.
LEMMA TakeEffects ==
  ASSUME NEW d \in Drained, NEW e \in Inputs, NEW t, t = Take(d, e)
  PROVE  /\ d.live => t.live
         /\ e.by = "user" /\ e.kind \in {"press", "key", "whole"} => t.live
         /\ e.kind = "press" => t.raw = e.by
         /\ e.kind = "core" => t.click = IF d.raw = "call" THEN d.click ELSE {e}
         /\ e.kind # "core" => t.click = d.click
         /\ ~t.live =>
              /\ e.by = "user" /\ e.kind = "half" => d.px = 0 /\ t.px = 1
              /\ ~(e.by = "user" /\ e.kind = "half") => t.px = d.px
<1>1. /\ e.kind \in {"press", "core", "half", "whole", "key"} /\ e.by \in {"user", "call"}
      /\ d.px \in {0, 1} /\ d.raw \in Raws /\ d.live \in BOOLEAN /\ d.click \in SUBSET Inputs
      /\ d = [px |-> d.px, raw |-> d.raw, live |-> d.live, click |-> d.click]
  BY EventFields DEF Drained, Raws, Origins
<1>2. PICK o : o = Observe(d, e)
  OBVIOUS
<1>3. PICK px, live : px = 1 - d.px /\ live = (d.live \/ d.px = 1)
  OBVIOUS
<1>4. /\ o.raw = d.raw /\ o.click = d.click
      /\ o = [px |-> o.px, raw |-> o.raw, live |-> o.live, click |-> o.click]
      /\ d.live => o.live
      /\ e.by = "user" /\ e.kind \in {"press", "key", "whole"} => o.live
      /\ ~o.live =>
           /\ e.by = "user" /\ e.kind = "half" => d.px = 0 /\ o.px = 1
           /\ ~(e.by = "user" /\ e.kind = "half") => o.px = d.px
  <2>1. CASE e.by = "user" /\ e.kind = "half"
    <3>1. o = [d EXCEPT !.px = px, !.live = live]
      BY <1>2, <1>3, <2>1 DEF Observe
    <3>2. o = [px |-> px, raw |-> d.raw, live |-> live, click |-> d.click]
      BY <1>1, <3>1
    <3>3. o.px = px /\ o.raw = d.raw /\ o.live = live /\ o.click = d.click
      BY <3>2
    <3>4. ~live => d.px = 0 /\ px = 1
      <4>1. ~live => d.px # 1
        BY <1>3
      <4>2. d.px # 1 => d.px = 0 /\ px = 1
        BY <1>1, <1>3
      <4> QED
        BY <4>1, <4>2
    <3>5. d.live => live
      BY <1>3
    <3>6. o = [px |-> o.px, raw |-> o.raw, live |-> o.live, click |-> o.click]
      BY <3>2, <3>3
    <3>7. e.kind \notin {"press", "key", "whole"}
      BY <2>1
    <3> QED
      BY <2>1, <3>3, <3>4, <3>5, <3>6, <3>7, Zenon
  <2>2. CASE ~(e.by = "user" /\ e.kind = "half")
    <3>1. CASE e.by = "call"
      BY <1>1, <1>2, <3>1 DEF Observe
    <3>2. CASE e.by = "user" /\ e.kind = "whole"
      BY <1>1, <1>2, <3>2 DEF Observe
    <3>3. CASE e.by = "user" /\ e.kind \in {"press", "key"}
      BY <1>1, <1>2, <3>3 DEF Observe
    <3>4. CASE e.by = "user" /\ e.kind = "core"
      BY <1>1, <1>2, <3>4 DEF Observe
    <3> QED
      BY <1>1, <2>2, <3>1, <3>2, <3>3, <3>4
  <2> QED
    BY <2>1, <2>2
<1>5. t = Take(d, e)
  OBVIOUS
<1>6. CASE e.kind = "core"
  <2>1. PICK c : c = IF d.raw = "call" THEN d.click ELSE {e}
    OBVIOUS
  <2>2. t = [d EXCEPT !.raw = "none", !.click = c]
    BY <1>5, <1>6, <2>1 DEF Take, Pair
  <2>3. t.px = d.px /\ t.live = d.live /\ t.click = c
    BY <1>1, <2>2
  <2> QED
    BY <1>5, <1>6, <2>1, <2>3
<1>7. CASE e.kind = "press"
  <2>1. t = [o EXCEPT !.raw = e.by]
    BY <1>2, <1>5, <1>7 DEF Take, Pair
  <2>2. t.px = o.px /\ t.live = o.live /\ t.click = o.click /\ t.raw = e.by
    BY <1>4, <2>1
  <2> QED
    BY <1>4, <1>5, <1>7, <2>2
<1>8. CASE e.kind \notin {"core", "press"}
  <2>1. t = o
    BY <1>2, <1>5, <1>8 DEF Take, Pair
  <2> QED
    BY <1>4, <1>5, <1>8, <2>1
<1> QED
  BY <1>6, <1>7, <1>8

\* A frame is certain of the clicks it leaves.
LEMMA ClicksAreKnown ==
  ASSUME NEW batch \in Batches, NEW raw \in Raws, watch.px \in {0, 1}, NEW from \in Nat,
         IsMarked(batch, raw, from), NEW i \in 0..Len(batch)
  PROVE  \A c \in Drains(raw, batch)[i].click : c.n > from => c.by = "user"
<1>1. PICK n, g : n = Len(batch) /\ g = Drains(raw, batch)
  OBVIOUS
<1>2. /\ n \in Nat /\ \A j \in 1..n : batch[j] \in Inputs
      /\ g \in [0..n -> Drained] /\ g[0].click = {} /\ g[0].raw = raw
      /\ \A j \in 1..n : g[j] = Take(g[j - 1], batch[j])
  <2>1. n \in Nat /\ \A j \in 1..n : batch[j] \in Inputs
    BY <1>1 DEF Batches
  <2>2. /\ g \in [0..n -> Drained] /\ \A j \in 1..n : g[j] = Take(g[j - 1], batch[j])
        /\ g[0] = [px |-> watch.px, raw |-> raw, live |-> FALSE, click |-> {}]
    BY <1>1, DrainsStepByStep
  <2> QED
    BY <2>1, <2>2
<1>3. PICK P : P = {j \in 0..n : \A c \in g[j].click : c.n > from => c.by = "user"}
  OBVIOUS
<1>4. 0 \in P
  BY <1>2, <1>3
<1>5. ASSUME NEW j \in 1..n, j - 1 \in P PROVE j \in P
  <2>1. j - 1 \in 0..n /\ g[j - 1] \in Drained /\ batch[j] \in Inputs
    BY <1>2
  <2>2. PICK e, d, t : e = batch[j] /\ d = g[j - 1] /\ t = g[j]
    OBVIOUS
  <2>3. /\ e \in Inputs /\ d \in Drained /\ t = Take(d, e)
        /\ \A c \in d.click : c.n > from => c.by = "user"
    BY <1>2, <1>3, <1>5, <2>1, <2>2
  <2>7. /\ e.kind = "core" => t.click = IF d.raw = "call" THEN d.click ELSE {e}
        /\ e.kind # "core" => t.click = d.click
    <3>1. e \in Inputs /\ d \in Drained /\ t = Take(d, e)
      BY <2>3
    <3>2. e.kind = "core" => t.click = IF d.raw = "call" THEN d.click ELSE {e}
      BY <3>1, TakeEffects, ZenonT(40)
    <3>3. e.kind # "core" => t.click = d.click
      BY <3>1, TakeEffects, ZenonT(40)
    <3> QED
      BY <3>2, <3>3
  <2>4. CASE e.kind # "core"
    <3>1. g[j].click = d.click
      BY <2>2, <2>4, <2>7
    <3> QED
      BY <1>3, <2>3, <3>1
  <2>5. CASE e.kind = "core" /\ (d.raw = "call" \/ ~(e.n > from))
    <3>1. g[j].click = d.click \/ g[j].click = {e}
      BY <2>2, <2>5, <2>7
    <3>2. d.raw = "call" => g[j].click = d.click
      BY <2>2, <2>5, <2>7
    <3> QED
      BY <1>3, <2>3, <2>5, <3>1, <3>2
  <2>6. CASE e.kind = "core" /\ d.raw # "call" /\ e.n > from
    <3>1. d.raw = e.by
      <4>1. j \in DOMAIN batch
        BY <1>1, <1>2 DEF Batches
      <4>2. CASE j > 1 /\ batch[j - 1].kind = "press" /\ batch[j - 1].by = e.by
        <5>1. /\ j - 1 \in 1..n /\ d = Take(g[j - 2], batch[j - 1]) /\ g[j - 2] \in Drained
              /\ batch[j - 1] \in Inputs
          <6>1. j - 1 \in 1..n /\ j - 2 \in 0..n /\ (j - 1) - 1 = j - 2
            BY <1>2, <4>2
          <6> QED
            BY <1>2, <2>2, <6>1
        <5>2. PICK c, b : c = g[j - 2] /\ b = batch[j - 1]
          OBVIOUS
        <5>3. c \in Drained /\ b \in Inputs /\ d = Take(c, b) /\ b.kind = "press" /\ b.by = e.by
          BY <4>2, <5>1, <5>2
        <5>4. b.kind = "press" => d.raw = b.by
          BY <5>3, TakeEffects
        <5> QED
          BY <5>3, <5>4
      <4>3. CASE j = 1 /\ raw = e.by
        BY <1>2, <2>2, <4>3
      <4> QED
        BY <2>2, <2>6, <4>1, <4>2, <4>3 DEF IsMarked
    <3>2. e.by = "user"
      BY <2>3, <2>6, <3>1, EventFields DEF Origins
    <3>3. g[j].click = {e}
      BY <2>2, <2>6, <2>7
    <3> QED
      BY <1>3, <3>2, <3>3
  <2> QED
    BY <2>4, <2>5, <2>6
<1>6. \A j \in 0..n : j \in P
  BY <1>2, <1>4, <1>5, CountUp
<1> QED
  BY <1>1, <1>3, <1>6

\* The raw press a frame has not paired.
LEMMA PressIsKept ==
  ASSUME NEW batch \in Batches, NEW raw \in Raws, watch.px \in {0, 1},
         NEW i \in 1..Len(batch), batch[i].kind = "press"
  PROVE  Drains(raw, batch)[i].raw = batch[i].by
<1>1. /\ Drains(raw, batch)[i] = Take(Drains(raw, batch)[i - 1], batch[i])
      /\ Drains(raw, batch) \in [0..Len(batch) -> Drained]
  BY DrainsStepByStep
<1>2. Drains(raw, batch)[i - 1] \in Drained /\ batch[i] \in Inputs
  BY <1>1 DEF Batches
<1>3. PICK d, e, t : d = Drains(raw, batch)[i - 1] /\ e = batch[i] /\ t = Drains(raw, batch)[i]
  OBVIOUS
<1>4. e.kind = "press" => t.raw = e.by
  BY <1>1, <1>2, <1>3, TakeEffects
<1> QED
  BY <1>3, <1>4

\* A frame that drained the user in passing is live.
LEMMA UserIsSeen ==
  ASSUME NEW batch \in Batches, NEW raw \in Raws, watch.px \in {0, 1},
         NEW k \in 1..Len(batch), batch[k].by = "user",
         batch[k].kind \in {"press", "key", "whole"}
  PROVE  Drains(raw, batch)[Len(batch)].live
<1>1. PICK n, g : n = Len(batch) /\ g = Drains(raw, batch)
  OBVIOUS
<1>2. /\ n \in Nat /\ \A j \in 1..n : batch[j] \in Inputs
      /\ g \in [0..n -> Drained] /\ \A j \in 1..n : g[j] = Take(g[j - 1], batch[j])
  <2>1. n \in Nat /\ \A j \in 1..n : batch[j] \in Inputs
    BY <1>1 DEF Batches
  <2> QED
    BY <1>1, <2>1, DrainsStepByStep
<1>3. PICK P : P = {j \in 0..n : j >= k => g[j].live}
  OBVIOUS
<1>4. 0 \in P
  BY <1>1, <1>2, <1>3
<1>5. ASSUME NEW j \in 1..n, j - 1 \in P PROVE j \in P
  <2>0. j - 1 \in 0..n
    BY ONLY <1>2, j \in 1..n
  <2>1. j - 1 \in 0..n /\ g[j - 1] \in Drained /\ batch[j] \in Inputs
        /\ g[j] = Take(g[j - 1], batch[j])
    BY <1>2, <2>0, Zenon
  <2>2. CASE j = k
    <3>1. g[j].live
      BY <2>1, <2>2, TakeEffects
    <3> QED
      BY <1>3, <3>1
  <2>3. CASE j > k
    <3>1. j - 1 >= k
      BY <1>1, <1>2, <2>3
    <3>2. g[j - 1].live
      BY <1>3, <1>5, <3>1
    <3>3. g[j].live
      BY <2>1, <3>2, TakeEffects
    <3> QED
      BY <1>3, <3>3
  <2>4. CASE ~(j >= k)
    BY <1>3, <2>4
  <2> QED
    BY <1>1, <1>2, <2>2, <2>3, <2>4
<1>6. \A j \in 0..n : j \in P
  BY <1>2, <1>4, <1>5, CountUp
<1>7. n \in P /\ n >= k
  BY <1>1, <1>2, <1>6
<1> QED
  BY <1>1, <1>3, <1>7

\* What is not half a pixel of the user's leaves the pixels alone, unless it makes the frame live.
LEMMA StaysPut ==
  ASSUME NEW d \in Drained, NEW e \in Inputs, NEW t, t = Take(d, e), ~t.live,
         ~(e.by = "user" /\ e.kind = "half")
  PROVE  t.px = d.px
<1>1. ~(e.by = "user" /\ e.kind = "half") => t.px = d.px
  BY TakeEffects, ZenonT(60)
<1> QED
  BY ONLY <1>1, ~(e.by = "user" /\ e.kind = "half")

\* Unless it is live, it has moved its pixels by what the user travelled.
LEMMA TravelIsPending ==
  ASSUME NEW batch \in Batches, NEW raw \in Raws, watch.px \in {0, 1},
         NEW k \in 0..Len(batch), ~Drains(raw, batch)[k].live
  PROVE  Drains(raw, batch)[k].px = watch.px + Travels(batch)[k]
<1>1. PICK n, g, far : n = Len(batch) /\ g = Drains(raw, batch) /\ far = Travels(batch)
  OBVIOUS
<1>2. /\ n \in Nat /\ \A j \in 1..n : batch[j] \in Inputs
      /\ g \in [0..n -> Drained] /\ \A j \in 1..n : g[j] = Take(g[j - 1], batch[j])
      /\ far \in [0..n -> 0..2] /\ \A j \in 1..n : far[j] = Further(far[j - 1], batch[j])
      /\ g[0].px = watch.px /\ far[0] = 0
  <2>1. n \in Nat /\ \A j \in 1..n : batch[j] \in Inputs
    BY <1>1 DEF Batches
  <2>2. /\ far \in [0..n -> 0..2] /\ \A j \in 1..n : far[j] = Further(far[j - 1], batch[j])
        /\ far[0] = 0
    BY <1>1, TravelsStepByStep
  <2>3. /\ g \in [0..n -> Drained] /\ \A j \in 1..n : g[j] = Take(g[j - 1], batch[j])
        /\ g[0] = [px |-> watch.px, raw |-> raw, live |-> FALSE, click |-> {}]
    BY <1>1, DrainsStepByStep
  <2> QED
    BY <2>1, <2>2, <2>3
<1>3. PICK P : P = {j \in 0..n : ~g[j].live => g[j].px = watch.px + far[j]}
  OBVIOUS
<1>4. 0 \in P
  BY <1>2, <1>3
<1>5. ASSUME NEW j \in 1..n, j - 1 \in P PROVE j \in P
  <2>1. PICK e, d, f : e = batch[j] /\ d = g[j - 1] /\ f = far[j - 1]
    OBVIOUS
  <2>2. /\ e \in Inputs /\ d \in Drained /\ g[j] = Take(d, e) /\ far[j] = Further(f, e)
        /\ ~d.live => d.px = watch.px + f
    <3>1. j - 1 \in 0..n /\ g[j - 1] \in Drained /\ batch[j] \in Inputs
      BY <1>2
    <3> QED
      BY <1>2, <1>3, <1>5, <2>1, <3>1
  <2>3. d.px \in {0, 1} /\ f \in 0..2
    BY <1>2, <2>1, <2>2 DEF Drained
  <2>4. CASE ~g[j].live
    <3>1. ~d.live
      BY <2>2, <2>4, TakeEffects
    <3>2. ~(e.by = "user" /\ e.kind = "whole")
      BY <2>2, <2>4, TakeEffects, ZenonT(60)
    <3>3. CASE e.by = "user" /\ e.kind = "half"
      <4>1. d.px = 0 /\ g[j].px = 1
        BY <2>2, <2>4, <3>3, TakeEffects
      <4>2. f = 0 /\ watch.px = 0
        BY <2>2, <2>3, <3>1, <4>1
      <4>3. far[j] = 1
        BY <2>2, <3>3, <4>2 DEF Further
      <4> QED
        BY <1>3, <4>1, <4>2, <4>3
    <3>4. CASE ~(e.by = "user" /\ e.kind = "half")
      <4>1. g[j].px = d.px
        BY <2>2, <2>4, <3>4, StaysPut, ZenonT(60)
      <4>2. far[j] = f
        BY <2>2, <3>2, <3>4 DEF Further
      <4> QED
        BY <1>3, <2>2, <3>1, <4>1, <4>2
    <3> QED
      BY <3>3, <3>4
  <2>5. CASE g[j].live
    BY <1>3, <2>5
  <2> QED
    BY <2>4, <2>5
<1>6. \A j \in 0..n : j \in P
  BY <1>2, <1>4, <1>5, CountUp
<1> QED
  BY <1>1, <1>3, <1>6

-----------------------------------------------------------------------------
(* Pointer: the invariant.                                                 *)

EventsAreNumbered == \A i \in DOMAIN queued : queued[i].n <= inputs
QueueIsMarked ==
  watch.pointer => watch.from # NotYet /\ IsMarked(queued, watch.raw, watch.from)
PointerInv ==
  PointerTypeOK /\ EventsAreNumbered /\ QueueIsMarked /\ drift = watch.px /\ UserIsToldFromCalls

Watches == [pointer : BOOLEAN, keyboard : BOOLEAN, from : Nat \cup {NotYet},
            px : {0, 1}, raw : Raws]
Shots == [connected : BOOLEAN, phase : MachinePhases, seq : Nat]

LEMMA PointerTypes ==
  PointerTypeOK <=>
    /\ queued \in Batches /\ machine \in Machines /\ watch \in Watches /\ shot \in Shots
    /\ inputs \in 0..MaxInputs /\ shots \in 0..MaxShots /\ drift \in 0..2
BY DEF PointerTypeOK, Batches, Watches, Shots, Raws

LEMMA PointerInitially == PointerInit => PointerInv
<1> SUFFICES ASSUME PointerInit PROVE PointerInv
  OBVIOUS
<1>1. watch = [pointer |-> FALSE, keyboard |-> FALSE, from |-> NotYet, px |-> 0, raw |-> "none"]
  BY DEF PointerInit
<1>2. watch \in Watches
  BY <1>1 DEF Watches, Raws
<1>3. machine \in Machines
  BY DEF PointerInit, NewMachine, Machines, MachinePhases
<1>4. shot \in Shots
  BY DEF PointerInit, Shots, MachinePhases
<1>5. queued = << >> /\ queued \in Batches
  BY DEF PointerInit, Batches
<1>6. inputs \in 0..MaxInputs /\ shots \in 0..MaxShots /\ drift = 0
  BY PointerAssumption DEF PointerInit
<1>7. PointerTypeOK
  BY <1>2, <1>3, <1>4, <1>5, <1>6, PointerTypes
<1>8. ~latest.live /\ latest.clicks = {}
  BY DEF PointerInit, NoFrameYet
<1>9. UserIsToldFromCalls
  BY <1>6, <1>8 DEF UserIsToldFromCalls, ClicksAreTheUsers, UserInputStopsIt
<1>10. EventsAreNumbered
  BY <1>5 DEF EventsAreNumbered
<1> QED
  BY <1>1, <1>6, <1>7, <1>9, <1>10 DEF PointerInv, QueueIsMarked

\* A step that is no frame.
LEMMA NothingIsTaken ==
  ASSUME PointerInv, latest' = NoFrameYet, drift' = drift
  PROVE  UserIsToldFromCalls'
<1>1. ~(latest.live)' /\ (latest.clicks)' = {}
  BY DEF NoFrameYet
<1>2. (drift < 2)'
  BY DEF PointerInv, UserIsToldFromCalls, UserInputStopsIt
<1> QED
  BY <1>1, <1>2 DEF UserIsToldFromCalls, ClicksAreTheUsers, UserInputStopsIt

LEMMA AttachKeeps ==
  ASSUME PointerInv, Attach
  PROVE  PointerInv'
<1>1. PICK sees, keyboard \in BOOLEAN :
        watch' = [watch EXCEPT !.from = inputs, !.pointer = sees, !.keyboard = keyboard]
  BY DEF Attach
<1>2. PointerTypeOK
  BY DEF PointerInv
<1>3. watch \in Watches /\ inputs \in Nat
  BY <1>2, PointerTypes, PointerAssumption
<1>4. watch' \in Watches /\ watch'.from = inputs /\ watch'.px = watch.px
  BY <1>1, <1>3 DEF Watches
<1>5. UNCHANGED << queued, machine, shot, inputs, shots, drift >> /\ latest' = NoFrameYet
  BY DEF Attach
<1>6. PointerTypeOK'
  BY <1>2, <1>4, <1>5 DEF PointerTypeOK, Watches, Shots, Raws, Batches
<1>7. EventsAreNumbered /\ EventsAreNumbered'
  BY <1>5 DEF PointerInv, EventsAreNumbered
<1>8. QueueIsMarked'
  <2>1. \A i \in DOMAIN queued : ~(queued[i].n > inputs)
    <3>1. ASSUME NEW i \in DOMAIN queued PROVE ~(queued[i].n > inputs)
      <4>1. queued[i] \in Inputs
        BY <1>2, PointerTypes DEF Batches
      <4>2. queued[i].n \in Nat /\ queued[i].n <= inputs
        BY <1>7, <4>1, EventFields DEF EventsAreNumbered
      <4> QED
        BY <1>3, <4>2
    <3> QED
      BY <3>1
  <2>2. watch'.from # NotYet
    BY <1>3, <1>4 DEF NotYet
  <2> QED
    BY <1>4, <1>5, <2>1, <2>2 DEF QueueIsMarked, IsMarked
<1>9. drift' = watch'.px
  BY <1>4, <1>5 DEF PointerInv
<1> QED
  BY <1>5, <1>6, <1>7, <1>8, <1>9, NothingIsTaken DEF PointerInv

LEMMA SnapshotKeeps ==
  ASSUME PointerInv, SnapshotComes
  PROVE  PointerInv'
<1>1. PointerTypeOK /\ UNCHANGED << queued, watch, machine, inputs, drift >>
      /\ latest' = NoFrameYet /\ shots < MaxShots /\ shots' = shots + 1
  BY DEF PointerInv, SnapshotComes
<1>2. shot \in Shots /\ shots \in 0..MaxShots /\ MaxShots \in Nat
  BY <1>1, PointerTypes, PointerAssumption
<1>3. shot' \in Shots
  <2>1. CASE shot' = [shot EXCEPT !.connected = FALSE]
    BY <1>2, <2>1 DEF Shots
  <2>2. CASE \E p \in MachinePhases, step \in {0, 1} :
               shot' = [connected |-> TRUE, phase |-> p, seq |-> shot.seq + step]
    BY <1>2, <2>2 DEF Shots
  <2> QED
    BY <2>1, <2>2 DEF SnapshotComes
<1>4. shots' \in 0..MaxShots
  BY <1>1, <1>2
<1>5. PointerTypeOK'
  BY <1>1, <1>3, <1>4 DEF PointerTypeOK, Watches, Shots, Raws, Batches
<1>6. EventsAreNumbered' /\ QueueIsMarked' /\ drift' = watch'.px
  BY <1>1 DEF PointerInv, EventsAreNumbered, QueueIsMarked, IsMarked
<1> QED
  BY <1>1, <1>5, <1>6, NothingIsTaken DEF PointerInv

\* What comes is numbered, and a core event comes behind its press.
LEMMA QueueKeeps ==
  ASSUME PointerInv, NEW events \in Batches, Queue(events),
         \A i \in DOMAIN events : events[i].n = inputs + 1,
         watch.pointer =>
           \A i \in DOMAIN events : events[i].kind = "core" =>
             i > 1 /\ events[i - 1].kind = "press" /\ events[i - 1].by = events[i].by
  PROVE  PointerInv'
<1>1. /\ PointerTypeOK /\ UNCHANGED << watch, machine, shot, shots, drift >>
      /\ latest' = NoFrameYet /\ inputs < MaxInputs /\ inputs' = inputs + 1
      /\ queued' = queued \o events
  BY DEF PointerInv, Queue
<1>2. /\ queued \in Batches /\ watch \in Watches /\ inputs \in 0..MaxInputs /\ MaxInputs \in Nat
      /\ inputs' \in 0..MaxInputs
  BY <1>1, PointerTypes, PointerAssumption
<1>3. queued' \in Batches
  BY <1>1, <1>2 DEF Batches
<1>4. PointerTypeOK'
  BY <1>1, <1>2, <1>3 DEF PointerTypeOK, Watches, Shots, Raws, Batches
<1>5. PICK n, k : n = Len(queued) /\ k = Len(events)
  OBVIOUS
<1>6. /\ n \in Nat /\ k \in Nat /\ DOMAIN queued = 1..n /\ DOMAIN events = 1..k
      /\ DOMAIN queued' = 1..(n + k)
      /\ \A i \in 1..n : queued'[i] = queued[i]
      /\ \A i \in (n + 1)..(n + k) : queued'[i] = events[i - n]
  BY <1>1, <1>2, <1>5 DEF Batches
<1>7. EventsAreNumbered'
  <2>1. ASSUME NEW i \in 1..(n + k) PROVE queued'[i].n <= inputs + 1
    <3>1. CASE i \in 1..n
      <4>1. queued[i] \in Inputs
        BY <1>2, <1>6, <3>1 DEF Batches
      <4>2. queued[i].n \in Nat /\ queued[i].n <= inputs
        BY <1>6, <3>1, <4>1, EventFields DEF PointerInv, EventsAreNumbered
      <4> QED
        BY <1>2, <1>6, <3>1, <4>2
    <3>2. CASE i \in (n + 1)..(n + k)
      <4>1. i - n \in 1..k
        BY <1>6, <3>2
      <4> QED
        BY <1>2, <1>6, <3>2, <4>1
    <3> QED
      BY <1>6, <3>1, <3>2
  <2> QED
    BY <1>1, <1>6, <2>1 DEF EventsAreNumbered
<1>8. QueueIsMarked'
  <2> SUFFICES ASSUME watch.pointer PROVE watch.from # NotYet /\ IsMarked(queued', watch.raw, watch.from)
    BY <1>1 DEF QueueIsMarked
  <2>1. watch.from # NotYet /\ IsMarked(queued, watch.raw, watch.from)
    BY DEF PointerInv, QueueIsMarked
  <2>2. ASSUME NEW i \in 1..(n + k), queued'[i].kind = "core", queued'[i].n > watch.from
        PROVE  \/ i > 1 /\ queued'[i - 1].kind = "press" /\ queued'[i - 1].by = queued'[i].by
               \/ i = 1 /\ watch.raw = queued'[i].by
    <3>1. CASE i \in 1..n
      <4>1. queued'[i] = queued[i] /\ (i > 1 => i - 1 \in 1..n /\ queued'[i - 1] = queued[i - 1])
        BY <1>6, <3>1
      <4>2. \/ i > 1 /\ queued[i - 1].kind = "press" /\ queued[i - 1].by = queued[i].by
            \/ i = 1 /\ watch.raw = queued[i].by
        BY <1>6, <2>1, <2>2, <3>1, <4>1 DEF IsMarked
      <4> QED
        BY <4>1, <4>2
    <3>2. CASE i \in (n + 1)..(n + k)
      <4>1. PICK j \in 1..k : j = i - n
        BY <1>6, <3>2
      <4>2. queued'[i] = events[j]
        BY <1>6, <3>2, <4>1
      <4>3. j > 1 /\ events[j - 1].kind = "press" /\ events[j - 1].by = events[j].by
        BY <1>6, <2>2, <4>2
      <4>4. i - 1 \in (n + 1)..(n + k) /\ (i - 1) - n = j - 1 /\ i > 1
        BY <1>6, <3>2, <4>1, <4>3
      <4>5. queued'[i - 1] = events[j - 1]
        BY <1>6, <4>4
      <4> QED
        BY <4>2, <4>3, <4>4, <4>5
    <3> QED
      BY <1>6, <3>1, <3>2
  <2> QED
    BY <1>6, <2>1, <2>2 DEF IsMarked
<1>9. drift' = watch'.px
  BY <1>1 DEF PointerInv
<1> QED
  BY <1>1, <1>4, <1>7, <1>8, <1>9, NothingIsTaken DEF PointerInv

LEMMA OtherKeeps ==
  ASSUME PointerInv, NEW by \in Origins, NEW kind \in {"half", "whole", "key"}, Other(by, kind)
  PROVE  PointerInv'
<1>1. PICK e : e = [kind |-> kind, by |-> by, n |-> inputs + 1]
  OBVIOUS
<1>2. inputs + 1 \in Nat
  BY PointerTypes, PointerAssumption DEF PointerInv
<1>3. e \in Inputs /\ e.kind # "core" /\ e.n = inputs + 1
  BY <1>1, <1>2 DEF Inputs
<1>4. PICK events : events = << e >>
  OBVIOUS
<1>5. events \in Batches /\ DOMAIN events = 1..1 /\ events[1] = e
  BY <1>3, <1>4 DEF Batches
<1>6. Queue(events)
  BY <1>1, <1>4 DEF Other
<1>7. \A i \in DOMAIN events : events[i].n = inputs + 1 /\ events[i].kind # "core"
  BY <1>3, <1>5
<1> QED
  BY <1>5, <1>6, <1>7, QueueKeeps

LEMMA PressKeeps ==
  ASSUME PointerInv, NEW by \in Origins, NEW on \in Targets, PressComes(by, on)
  PROVE  PointerInv'
<1>1. PICK p, c : /\ p = [kind |-> "press", by |-> by, on |-> on, n |-> inputs + 1]
                  /\ c = [kind |-> "core", by |-> by, on |-> on, n |-> inputs + 1]
  OBVIOUS
<1>2. inputs + 1 \in Nat
  BY PointerTypes, PointerAssumption DEF PointerInv
<1>3. /\ p \in Inputs /\ c \in Inputs /\ p.kind = "press" /\ c.kind = "core"
      /\ p.by = by /\ c.by = by /\ p.n = inputs + 1 /\ c.n = inputs + 1
  BY <1>1, <1>2 DEF Inputs
<1>4. PICK raw, core, events : /\ raw = IF watch.pointer THEN << p >> ELSE << >>
                               /\ core = IF on # "elsewhere" THEN << c >> ELSE << >>
                               /\ events = raw \o core
  OBVIOUS
<1>5. Queue(events)
  BY <1>1, <1>4 DEF PressComes
<1>6. \/ events = << >> \/ events = << p >> \/ (events = << c >> /\ ~watch.pointer)
      \/ (raw = << p >> /\ core = << c >>)
  <2>1. << p >> \o << >> = << p >> /\ << >> \o << c >> = << c >> /\ << >> \o << >> = << >>
    OBVIOUS
  <2>2. (raw = << p >> \/ (raw = << >> /\ ~watch.pointer)) /\ core \in {<< c >>, << >>}
    BY <1>4
  <2> QED
    BY <1>4, <2>1, <2>2
<1>7. CASE events = << >>
  <2>1. events \in Batches /\ DOMAIN events = {}
    BY <1>7 DEF Batches
  <2> QED
    BY <1>5, <2>1, QueueKeeps
<1>8. CASE events = << p >>
  <2>1. events \in Batches /\ DOMAIN events = 1..1 /\ events[1] = p
    BY <1>3, <1>8 DEF Batches
  <2>2. \A i \in DOMAIN events : events[i].n = inputs + 1 /\ events[i].kind # "core"
    BY <1>3, <2>1
  <2> QED
    BY <1>5, <2>1, <2>2, QueueKeeps
<1>9. CASE events = << c >> /\ ~watch.pointer
  <2>1. events \in Batches /\ DOMAIN events = 1..1 /\ events[1] = c
    BY <1>3, <1>9 DEF Batches
  <2>2. \A i \in DOMAIN events : events[i].n = inputs + 1
    BY <1>3, <2>1
  <2> QED
    BY <1>5, <1>9, <2>1, <2>2, QueueKeeps
<1>10. CASE raw = << p >> /\ core = << c >>
  <2>1. events \in Batches /\ DOMAIN events = 1..2 /\ events[1] = p /\ events[2] = c
    <3>1. raw \in Batches /\ core \in Batches /\ Len(raw) = 1 /\ Len(core) = 1
          /\ raw[1] = p /\ core[1] = c
      BY <1>3, <1>10 DEF Batches
    <3> QED
      BY <1>4, <3>1 DEF Batches
  <2>2. \A i \in DOMAIN events : events[i].n = inputs + 1
    BY <1>3, <2>1
  <2>3. ASSUME NEW i \in DOMAIN events, events[i].kind = "core"
        PROVE  i > 1 /\ events[i - 1].kind = "press" /\ events[i - 1].by = events[i].by
    <3>1. i = 2
      BY <1>3, <2>1, <2>3
    <3> QED
      BY <1>3, <2>1, <3>1
  <2> QED
    BY <1>5, <2>1, <2>2, <2>3, QueueKeeps
<1> QED
  BY <1>6, <1>7, <1>8, <1>9, <1>10

\* The companion's machine.
LEMMA MachineOperators ==
  ASSUME NEW k \in Machines
  PROVE  /\ UserInput(k) \in Machines /\ UserInput(k).phase # "running"
         /\ NoteDisconnect(k) \in Machines
         /\ Ask(k) \in Machines /\ Ask(k).phase = k.phase
         /\ Resumed(k) \in Machines
         /\ [k EXCEPT !.fresh = FALSE] \in Machines /\ [k EXCEPT !.fresh = FALSE].phase = k.phase
<1>1. UserInput(k) \in Machines /\ UserInput(k).phase # "running"
  BY DEF Machines, MachinePhases, UserInput, EnterPaused
<1>2. NoteDisconnect(k) \in Machines
  BY DEF Machines, MachinePhases, NoteDisconnect, EnterPaused
<1>3. Ask(k) \in Machines /\ Ask(k).phase = k.phase
  BY DEF Machines, MachinePhases, Ask
<1>4. Resumed(k) \in Machines
  BY DEF Machines, MachinePhases, Resumed
<1>5. [k EXCEPT !.fresh = FALSE] \in Machines /\ [k EXCEPT !.fresh = FALSE].phase = k.phase
  BY DEF Machines, MachinePhases
<1> QED
  BY <1>1, <1>2, <1>3, <1>4, <1>5

LEMMA SeeVisorTyped ==
  ASSUME NEW k \in Machines, NEW ph \in MachinePhases, NEW n \in Nat
  PROVE  SeeVisor(k, ph, n) \in Machines
<1>1. CASE ph = "off"
  BY <1>1 DEF SeeVisor, Machines, MachinePhases
<1>2. CASE ph = "running"
  BY <1>2 DEF SeeVisor, SeeRunning, Follows, Machines, MachinePhases
<1>3. CASE ph = "paused"
  <2>1. SeeVisor(k, ph, n) = SeePaused(k, n)
    BY <1>3 DEF SeeVisor
  <2>2. PICK heard : heard = [k EXCEPT !.lastSeq = n]
    OBVIOUS
  <2>3. heard \in Machines
    BY <2>2 DEF Machines
  <2>4. PICK entered : entered = EnterPaused(heard, TRUE)
    OBVIOUS
  <2>5. entered \in Machines
    BY <2>3, <2>4 DEF EnterPaused, Machines, MachinePhases
  <2>6. PICK paused : paused = [entered EXCEPT !.holding = FALSE]
    OBVIOUS
  <2>7. paused \in Machines /\ [paused EXCEPT !.mark = n] \in Machines
    BY <2>5, <2>6 DEF Machines
  <2> QED
    BY <2>1, <2>2, <2>3, <2>4, <2>6, <2>7 DEF SeePaused
<1> QED
  BY <1>1, <1>2, <1>3 DEF MachinePhases

LEMMA SettleStops ==
  ASSUME NEW k \in Machines, shot \in Shots, NEW live \in BOOLEAN
  PROVE  /\ Settle(k, live) \in Machines
         /\ live => Settle(k, live).phase # "running"
<1>1. PICK told : told = IF live THEN UserInput(k) ELSE k
  OBVIOUS
<1>2. told \in Machines
  BY <1>1, MachineOperators
<1>3. PICK seen : seen = SeeShot(told)
  OBVIOUS
<1>4. seen \in Machines
  BY <1>2, <1>3, MachineOperators, SeeVisorTyped DEF SeeShot, Shots
<1>5. Settle(k, live) =
        IF live /\ (~(live /\ PausesOnInput(k)) \/ seen.phase = "running")
        THEN UserInput(seen) ELSE seen
  BY <1>1, <1>3 DEF Settle
<1>6. UserInput(seen) \in Machines /\ UserInput(seen).phase # "running"
  BY <1>4, MachineOperators
<1> QED
  BY <1>4, <1>5, <1>6

\* Nothing but Continue makes a click run, and Continue runs a pause.
LEMMA ClickedRuns ==
  ASSUME NEW k \in Machines, NEW on
  PROVE  /\ Clicked(k, on) \in Machines
         /\ k.phase # "running" /\ Clicked(k, on).phase = "running" => k.phase = "paused"
<1>1. CASE on = "bug" /\ AsksNow(k)
  BY <1>1, MachineOperators DEF Clicked
<1>2. CASE on = "bug" /\ ~AsksNow(k) /\ PausesOnInput(k)
  BY <1>2, MachineOperators DEF Clicked, AsksNow
<1>3. CASE on = "continue" /\ ResumesOnContinue(k)
  BY <1>3, MachineOperators DEF Clicked, ResumesOnContinue
<1>4. CASE /\ ~(on = "bug" /\ AsksNow(k)) /\ ~(on = "bug" /\ ~AsksNow(k) /\ PausesOnInput(k))
           /\ ~(on = "continue" /\ ResumesOnContinue(k))
  <2>1. Clicked(k, on) = k
    BY <1>4 DEF Clicked
  <2> QED
    BY <2>1
<1> QED
  BY <1>1, <1>2, <1>3, <1>4

LEMMA FrameKeeps ==
  ASSUME PointerInv, NEW drained \in 0..Len(queued), NEW moved \in BOOLEAN,
         PointerFrame(drained, moved)
  PROVE  PointerInv'
<1>1. /\ queued \in Batches /\ machine \in Machines /\ watch \in Watches /\ shot \in Shots
      /\ inputs \in 0..MaxInputs /\ shots \in 0..MaxShots /\ drift \in 0..2
  BY PointerTypes DEF PointerInv
<1>2. PICK batch : batch = SubSeq(queued, 1, drained)
  OBVIOUS
<1>3. PICK n, m : n = drained /\ m = Len(queued)
  OBVIOUS
<1>4. /\ m \in Nat /\ n \in 0..m /\ DOMAIN queued = 1..m
      /\ batch \in Batches /\ Len(batch) = n /\ DOMAIN batch = 1..n
      /\ \A i \in 1..n : batch[i] = queued[i]
  BY <1>1, <1>2, <1>3 DEF Batches
<1>5. watch.raw \in Raws /\ watch.px \in {0, 1} /\ watch.pointer \in BOOLEAN
  BY <1>1 DEF Watches
<1>6. PICK g, d : g = Drains(watch.raw, batch) /\ d = g[n]
  OBVIOUS
<1>7. /\ g \in [0..n -> Drained] /\ d \in Drained /\ d = Drain(batch)
      /\ g[0] = [px |-> watch.px, raw |-> watch.raw, live |-> FALSE, click |-> {}]
  <2>1. g \in [0..n -> Drained]
        /\ g[0] = [px |-> watch.px, raw |-> watch.raw, live |-> FALSE, click |-> {}]
    BY <1>4, <1>5, <1>6, DrainsStepByStep
  <2>2. d = Drain(batch)
    BY <1>4, <1>6 DEF Drain
  <2>3. d \in Drained
    <3>1. n \in 0..n
      BY <1>4
    <3> QED
      BY <1>6, <2>1, <3>1
  <2> QED
    BY <2>1, <2>2, <2>3
<1>8. PICK settled : settled = Settle(machine, d.live)
  OBVIOUS
<1>9. PICK viewed : viewed = IF moved THEN UserInput(settled) ELSE settled
  OBVIOUS
<1>10. PICK continued : continued = \E e \in d.click : viewed.phase = "paused"
                                       /\ Clicked(viewed, e.on).phase = "running"
  OBVIOUS
<1>11. PICK after : after = IF d.click = {} THEN viewed
                            ELSE Clicked(viewed, (CHOOSE e \in d.click : TRUE).on)
  OBVIOUS
<1>12. PICK far : far = Travel(batch)
  OBVIOUS
<1>13. /\ watch.from # NotYet
       /\ queued' = SubSeq(queued, n + 1, m)
       /\ watch' = [watch EXCEPT !.px = d.px, !.raw = d.raw]
       /\ machine' = [after EXCEPT !.fresh = FALSE]
       /\ drift' = IF d.live THEN d.px ELSE IF drift + far > 2 THEN 2 ELSE drift + far
       /\ latest' = [live |-> \E i \in DOMAIN batch :
                                 /\ batch[i].by = "user"
                                 /\ batch[i].kind \in {"press", "key", "whole"},
                     clicks |-> {e.by : e \in {c \in d.click : c.n > watch.from}},
                     continued |-> continued]
       /\ UNCHANGED << shot, inputs, shots >>
  <2>1. SubSeq(queued, 1, drained) = batch /\ Drain(batch) = d
    BY <1>2, <1>7
  <2>2. watch.from # NotYet /\ UNCHANGED << shot, inputs, shots >>
        /\ queued' = SubSeq(queued, n + 1, m)
    <3>1. watch.from # NotYet /\ UNCHANGED << shot, inputs, shots >>
      BY DEF PointerFrame
    <3>2. queued' = SubSeq(queued, drained + 1, Len(queued))
      BY DEF PointerFrame
    <3> QED
      BY <1>3, <3>1, <3>2
  <2>3. watch' = [watch EXCEPT !.px = d.px, !.raw = d.raw]
    BY <2>1 DEF PointerFrame
  <2>4. drift' = IF d.live THEN d.px ELSE IF drift + far > 2 THEN 2 ELSE drift + far
    BY <1>12, <2>1 DEF PointerFrame
  <2>5. machine' = [after EXCEPT !.fresh = FALSE]
    BY <1>8, <1>9, <1>11, <2>1 DEF PointerFrame
  <2>6. latest' = [live |-> \E i \in DOMAIN batch :
                              /\ batch[i].by = "user"
                              /\ batch[i].kind \in {"press", "key", "whole"},
                   clicks |-> {e.by : e \in {c \in d.click : c.n > watch.from}},
                   continued |-> continued]
    BY <1>8, <1>9, <1>10, <2>1 DEF PointerFrame
  <2> QED
    BY <2>2, <2>3, <2>4, <2>5, <2>6
<1>14. /\ watch' \in Watches /\ watch'.px = d.px /\ watch'.raw = d.raw
       /\ watch'.pointer = watch.pointer /\ watch'.from = watch.from
       /\ d.px \in {0, 1} /\ d.raw \in Raws /\ d.live \in BOOLEAN
  BY <1>1, <1>7, <1>13 DEF Watches, Drained, Raws
\* The machine.
<1>15. settled \in Machines /\ (d.live => settled.phase # "running")
  BY <1>1, <1>8, <1>14, SettleStops
<1>16. viewed \in Machines /\ (d.live => viewed.phase # "running")
  BY <1>9, <1>15, MachineOperators
<1>17. after \in Machines
  BY <1>11, <1>16, ClickedRuns
<1>18. machine' \in Machines /\ machine'.phase = after.phase
  BY <1>13, <1>17, MachineOperators
<1>19. d.live /\ after.phase = "running" => continued
  <2> SUFFICES ASSUME d.live, after.phase = "running" PROVE continued
    OBVIOUS
  <2>1. d.click # {} /\ viewed.phase # "running"
    BY <1>11, <1>16
  <2>2. PICK e \in d.click : e = CHOOSE c \in d.click : TRUE
    BY <2>1
  <2>3. after = Clicked(viewed, e.on)
    BY <1>11, <2>1, <2>2
  <2>4. viewed.phase = "paused"
    BY <1>16, <2>1, <2>3, ClickedRuns
  <2> QED
    BY <1>10, <2>3, <2>4
\* The pixels.
<1>20. drift' = d.px
  <2>1. CASE d.live
    BY <1>13, <2>1
  <2>2. CASE ~d.live
    <3>1. far = Travels(batch)[n]
      BY <1>4, <1>12 DEF Travel
    <3>2. n \in 0..Len(batch) /\ d = Drains(watch.raw, batch)[n]
      BY <1>4, <1>6
    <3>3. d.px = watch.px + Travels(batch)[n]
      BY <1>4, <1>5, <2>2, <3>2, TravelIsPending
    <3>4. Travels(batch)[n] \in 0..2
      BY <1>4, TravelsStepByStep
    <3>5. drift = watch.px
      BY DEF PointerInv
    <3> QED
      BY <1>5, <1>13, <1>14, <2>2, <3>1, <3>3, <3>4, <3>5
  <2> QED
    BY <2>1, <2>2
\* The queue.
<1>21. /\ queued' \in Batches /\ DOMAIN queued' = 1..(m - n)
       /\ \A i \in 1..(m - n) : queued'[i] = queued[n + i]
  BY <1>1, <1>3, <1>4, <1>13 DEF Batches
<1>22. EventsAreNumbered'
  <2>1. ASSUME NEW i \in 1..(m - n) PROVE queued'[i].n <= inputs
    <3>1. n + i \in 1..m
      BY <1>4
    <3> QED
      BY <1>4, <1>21, <3>1 DEF PointerInv, EventsAreNumbered
  <2> QED
    BY <1>13, <1>21, <2>1 DEF EventsAreNumbered
<1>23. QueueIsMarked'
  <2> SUFFICES ASSUME watch.pointer PROVE watch.from # NotYet /\ IsMarked(queued', d.raw, watch.from)
    BY <1>14 DEF QueueIsMarked
  <2>1. watch.from # NotYet /\ IsMarked(queued, watch.raw, watch.from)
    BY DEF PointerInv, QueueIsMarked
  <2>2. ASSUME NEW i \in 1..(m - n), queued'[i].kind = "core", queued'[i].n > watch.from
        PROVE  \/ i > 1 /\ queued'[i - 1].kind = "press" /\ queued'[i - 1].by = queued'[i].by
               \/ i = 1 /\ d.raw = queued'[i].by
    <3>1. n + i \in 1..m /\ queued'[i] = queued[n + i]
      BY <1>4, <1>21
    <3>2. \/ n + i > 1 /\ queued[n + i - 1].kind = "press" /\ queued[n + i - 1].by = queued[n + i].by
          \/ n + i = 1 /\ watch.raw = queued[n + i].by
      BY <1>4, <2>1, <2>2, <3>1 DEF IsMarked
    <3>3. CASE i > 1
      <4>1. i - 1 \in 1..(m - n) /\ n + (i - 1) = n + i - 1 /\ n + i > 1
        BY <1>4, <3>3
      <4>2. queued'[i - 1] = queued[n + i - 1]
        BY <1>21, <4>1
      <4> QED
        BY <1>4, <3>1, <3>2, <3>3, <4>1, <4>2
    <3>4. CASE i = 1 /\ n = 0
      <4>1. d.raw = watch.raw
        <5>1. d = g[0]
          BY <1>6, <3>4
        <5>2. d = [px |-> watch.px, raw |-> watch.raw, live |-> FALSE, click |-> {}]
          BY <1>7, <5>1
        <5> QED
          BY <5>2
      <4> QED
        BY <3>1, <3>2, <3>4, <4>1
    <3>5. CASE i = 1 /\ n > 0
      <4>1. n + i - 1 = n /\ n \in 1..Len(batch) /\ n + i > 1
        BY <1>4, <3>5
      <4>2. batch[n].kind = "press" /\ batch[n].by = queued[n + i].by
        BY <1>4, <3>2, <3>5, <4>1
      <4>3. d.raw = batch[n].by
        BY <1>4, <1>5, <1>6, <4>1, <4>2, PressIsKept
      <4> QED
        BY <3>1, <3>5, <4>2, <4>3
    <3> QED
      BY <1>4, <3>3, <3>4, <3>5
  <2> QED
    BY <1>21, <2>1, <2>2 DEF IsMarked
\* What the frame did.
<1>24. ClicksAreTheUsers'
  <2> SUFFICES ASSUME watch.pointer PROVE latest'.clicks \subseteq {"user"}
    BY <1>14 DEF ClicksAreTheUsers
  <2>1. watch.from \in Nat /\ IsMarked(queued, watch.raw, watch.from)
    BY <1>1, <1>13 DEF PointerInv, QueueIsMarked, Watches
  <2>2. IsMarked(batch, watch.raw, watch.from)
    <3>1. ASSUME NEW i \in 1..n, batch[i].kind = "core", batch[i].n > watch.from
          PROVE  \/ i > 1 /\ batch[i - 1].kind = "press" /\ batch[i - 1].by = batch[i].by
                 \/ i = 1 /\ watch.raw = batch[i].by
      <4>1. i \in 1..m /\ batch[i] = queued[i]
            /\ (i > 1 => i - 1 \in 1..n /\ batch[i - 1] = queued[i - 1])
        BY <1>4
      <4> QED
        BY <1>4, <2>1, <3>1, <4>1 DEF IsMarked
    <3> QED
      BY <1>4, <3>1 DEF IsMarked
  <2>3. n \in 0..Len(batch) /\ d = Drains(watch.raw, batch)[n]
    BY <1>4, <1>6
  <2>4. \A c \in Drains(watch.raw, batch)[n].click : c.n > watch.from => c.by = "user"
    BY <1>4, <1>5, <2>1, <2>2, <2>3, ClicksAreKnown
  <2>5. \A c \in d.click : c.n > watch.from => c.by = "user"
    BY <2>3, <2>4
  <2>6. latest'.clicks = {e.by : e \in {c \in d.click : c.n > watch.from}}
    BY <1>13
  <2> QED
    BY <2>5, <2>6
<1>25. latest'.live => d.live
  <2> SUFFICES ASSUME latest'.live PROVE d.live
    OBVIOUS
  <2>1. \E i \in DOMAIN batch : batch[i].by = "user" /\ batch[i].kind \in {"press", "key", "whole"}
    BY <1>13
  <2>2. PICK i \in 1..Len(batch) : batch[i].by = "user" /\ batch[i].kind \in {"press", "key", "whole"}
    BY <1>4, <2>1
  <2>3. Drains(watch.raw, batch)[Len(batch)].live
    BY <1>4, <1>5, <2>2, UserIsSeen
  <2> QED
    BY <1>4, <1>6, <2>3
<1>26. UserInputStopsIt'
  <2>1. latest'.continued = continued
    BY <1>13
  <2>2. latest'.live => machine'.phase # "running" \/ latest'.continued
    BY <1>18, <1>19, <1>25, <2>1
  <2>3. drift' < 2
    BY <1>14, <1>20
  <2> QED
    BY <2>2, <2>3 DEF UserInputStopsIt
<1>27. PointerTypeOK'
  BY <1>1, <1>13, <1>14, <1>18, <1>20, <1>21 DEF PointerTypeOK, Watches, Shots, Raws, Batches
<1> QED
  BY <1>14, <1>20, <1>22, <1>23, <1>24, <1>26, <1>27 DEF PointerInv, UserIsToldFromCalls

LEMMA PointerStep == PointerInv /\ [PointerNext]_PointerVars => PointerInv'
<1> SUFFICES ASSUME PointerInv, [PointerNext]_PointerVars PROVE PointerInv'
  OBVIOUS
<1>1. CASE Attach
  BY <1>1, AttachKeeps
<1>2. CASE \E by \in Origins, on \in Targets : PressComes(by, on)
  BY <1>2, PressKeeps
<1>3. CASE \E by \in Origins, kind \in {"half", "whole", "key"} : Other(by, kind)
  BY <1>3, OtherKeeps
<1>4. CASE SnapshotComes
  BY <1>4, SnapshotKeeps
<1>5. CASE \E drained \in 0..Len(queued), moved \in BOOLEAN : PointerFrame(drained, moved)
  BY <1>5, FrameKeeps
<1>6. CASE UNCHANGED PointerVars
  BY <1>6 DEF PointerVars, PointerInv, PointerTypeOK, EventsAreNumbered, QueueIsMarked, IsMarked,
              UserIsToldFromCalls, ClicksAreTheUsers, UserInputStopsIt
<1> QED
  BY <1>1, <1>2, <1>3, <1>4, <1>5, <1>6 DEF PointerNext

\* A frame tells the user from the visor's own calls, in both directions and however it
\* cuts the queue of the X server: a click it takes is the user's, and the user's input
\* stops a running automation (Watch, settle_live_input, on_click).
THEOREM UserAlwaysToldFromCalls == PointerSpec => []UserIsToldFromCalls
<1>1. PointerInv => UserIsToldFromCalls
  BY DEF PointerInv
<1> QED
  BY <1>1, PointerInitially, PointerStep, PTL DEF PointerSpec

(***************************************************************************)
(* Fallback: it pauses for the user alone, and no stream of calls puts its *)
(* judgement off.  The invariant says of the views a poll may show -- the  *)
(* visor's, the one on its way, the one in hand -- in what order they are  *)
(* and how each explains the pointer, and of the track what its baseline,  *)
(* its hold and its wait rest on.                                          *)
(***************************************************************************)

Tracks == [baseline : SUBSET Samples, mask : BOOLEAN, hold : Unset..ConfirmEpochs,
           openFor : Unset..HoldTicks, blocked : BOOLEAN, settled : Nat, ignore : BOOLEAN]

\* The injection of sequence k is behind a view.
IsBehind(k, v) == k <= v.injectSeq /\ (v.injecting => k < v.injectSeq)

ViewIsSound(v) ==
  /\ ~v.injecting => v.settledSeq = v.injectSeq
  /\ v.injecting => v.injectSeq > 0
  /\ \A d \in v.drive :
       d.resumeSeq = v.resumeSeq /\ d.injectSeq > 0 /\ IsBehind(d.injectSeq, v)
  /\ \A d, e \in v.drive : d = e

\* a is v or what the visor showed later.
IsLater(a, v) ==
  /\ v.injectSeq <= a.injectSeq /\ v.resumeSeq <= a.resumeSeq
  /\ v.injectSeq = a.injectSeq /\ ~v.injecting => ~a.injecting
  /\ \A e \in a.drive : e \in v.drive \/ ~IsBehind(e.injectSeq, v)
  /\ v.resumeSeq = a.resumeSeq /\ v.phase = "paused" => a.phase = "paused"

ViewsAreSound == ViewIsSound(visor) /\ ViewIsSound(snap) /\ \A a \in answer : ViewIsSound(a)

ViewsAreOrdered ==
  /\ IsLater(visor, snap)
  /\ \A a \in answer : IsLater(a, snap) /\ IsLater(visor, a)

CallIsShown ==
  /\ visor.injecting <=> call.pc # "none"
  /\ call.pc # "none" => visor.phase \in {"running", "paused"}
  /\ pointer.call => call.pc = "pointed"

\* What the frames have noted is behind what they look at.
NotesAreOld ==
  IsBehind(track.settled, snap) /\ IsBehind(age.of, snap) /\ IsBehind(judged, snap)

\* A drive that does not count is from before a resume the visor has not heard.
CutOffIsOld ==
  resumes.after # Unset =>
    /\ resumes.after <= snap.resumeSeq
    /\ resumes.after = snap.resumeSeq => snap.phase = "paused"

ResumeIsWanted ==
  \/ want \in Seq({"pause"})
  \/ want = << "resume" >> /\ resumes.after = visor.resumeSeq

LastPointIsKept == lastPoint = {} => \A d \in visor.drive : ~d.known

\* The pointer is where the drive of the visor has it, unless a call has moved it.
Known(d) == d.known /\ DriveCounts(d, resumes.after)
TargetIsReached ==
  excused = {} /\ call.pc # "pointed" =>
    \A d \in visor.drive : Known(d) => d.at = pointer.at

\* A button the track ignores is the user's, or of a call the pause has stopped.
IgnoresACall ==
  excused = {} /\ ~pointer.user /\ track.ignore =>
    call.pc = "pointed" /\ visor.phase = "paused"

\* The baseline is the pointer, unless a drive that was not judged yet explains it.
BaselineIsPointer ==
  excused = {} /\ call.pc # "pointed" /\ ~pointer.user
    /\ (\A d \in visor.drive : Known(d) => d.injectSeq = judged)
  => \A base \in track.baseline : base.at = pointer.at /\ base.down = FALSE

\* The drive last shown is gone from a view, or a call is under way in it.
IsPast(v) == v.injecting \/ \A d \in v.drive : d.injectSeq # age.of

\* A pointer is held to be off its drive because a later view will not show the
\* drive: so one later poll is enough to let go of it.
HoldIsEarned ==
  /\ track.hold = ConfirmEpochs => phase = "paused"
  /\ excused = {} =>
       /\ track.hold >= 0 => call.pc = "pointed" \/ \A d \in visor.drive : d.injectSeq # age.of
       /\ track.hold >= 1 \/ (track.hold = 0 /\ polled) => \A a \in answer : IsPast(a)
       /\ track.hold >= 1 /\ polled => IsPast(snap)

WaitIsCounted ==
  /\ track.openFor = Unset => unjudged <= (IF framed THEN 0 ELSE 1)
  /\ track.openFor # Unset => unjudged <= track.openFor + 1
  /\ track.openFor = HoldTicks /\ framed => unjudged = 0

ViewInv == FallbackTypeOK /\ ViewsAreSound /\ ViewsAreOrdered /\ CallIsShown
NoteInv == NotesAreOld /\ CutOffIsOld /\ ResumeIsWanted /\ LastPointIsKept
MoveInv == TargetIsReached /\ IgnoresACall /\ BaselineIsPointer /\ HoldIsEarned
FallbackInv == ViewInv /\ NoteInv /\ MoveInv /\ WaitIsCounted

-----------------------------------------------------------------------------
(* Views.                                                                  *)

LEMMA BehindStaysBehind ==
  ASSUME NEW v \in PolledViews, NEW a \in PolledViews, NEW k \in Nat,
         IsLater(a, v), IsBehind(k, v)
  PROVE  IsBehind(k, a)
BY DEF PolledViews, IsLater, IsBehind

LEMMA LaterIsTransitive ==
  ASSUME NEW v \in PolledViews, NEW a \in PolledViews, NEW b \in PolledViews,
         IsLater(a, v), IsLater(b, a)
  PROVE  IsLater(b, v)
<1>1. /\ v.injectSeq <= b.injectSeq /\ v.resumeSeq <= b.resumeSeq
      /\ v.injectSeq = b.injectSeq /\ ~v.injecting => ~b.injecting
  BY DEF PolledViews, IsLater
<1>2. v.resumeSeq = b.resumeSeq /\ v.phase = "paused" => b.phase = "paused"
  BY DEF PolledViews, IsLater
<1>3. ASSUME NEW e \in b.drive PROVE e \in v.drive \/ ~IsBehind(e.injectSeq, v)
  <2>1. e \in Drives /\ e.injectSeq \in Nat
    BY DEF PolledViews, Drives
  <2>2. CASE e \in a.drive
    BY <2>2 DEF IsLater
  <2>3. CASE ~IsBehind(e.injectSeq, a)
    BY <2>1, <2>3, BehindStaysBehind
  <2> QED
    BY <2>2, <2>3 DEF IsLater
<1> QED
  BY <1>1, <1>2, <1>3 DEF IsLater

\* A later view that is past an injection shows no other drive of it.
LEMMA LaterDrive ==
  ASSUME NEW v \in PolledViews, NEW a \in PolledViews, ViewIsSound(v), IsLater(a, v),
         NEW d \in v.drive, NEW e \in a.drive, d.injectSeq = e.injectSeq
  PROVE  d = e
BY DEF ViewIsSound, IsLater

LEMMA LaterViewIsReflexive == ASSUME NEW v \in PolledViews PROVE IsLater(v, v)
BY DEF IsLater, PolledViews

\* The visor goes on: what is behind a view stays behind it.
LEMMA VisorGoesOn ==
  ASSUME FallbackTypeOK, ViewsAreSound, ViewsAreOrdered,
         visor' \in PolledViews, ViewIsSound(visor'), IsLater(visor', visor),
         UNCHANGED << snap, answer >>
  PROVE  ViewsAreSound' /\ ViewsAreOrdered'
<1>1. visor \in PolledViews /\ snap \in PolledViews /\ answer \subseteq PolledViews
  BY DEF FallbackTypeOK
<1>2. IsLater(visor', snap)
  BY <1>1, LaterIsTransitive DEF ViewsAreOrdered
<1>3. ASSUME NEW a \in answer PROVE IsLater(visor', a)
  <2>1. a \in PolledViews /\ IsLater(visor, a)
    BY <1>1 DEF ViewsAreOrdered
  <2> QED
    BY <1>1, <2>1, LaterIsTransitive
<1> QED
  BY <1>2, <1>3 DEF ViewsAreSound, ViewsAreOrdered

LEMMA SampleIsTyped == FallbackTypeOK => Sample \in Samples
BY DEF FallbackTypeOK, Sample, Samples

\* What Spend leaves.
LEMMA SpendCounts ==
  ASSUME FallbackTypeOK, NEW b \in {"calls", "acts", "resumes", "clients"}, Spend(b)
  PROVE  spent' \in [calls : 0..MaxCalls, acts : 0..MaxUserActs, resumes : 0..MaxResumes,
                     clients : 0..MaxClients]
<1>1. PICK n : n = spent[b] + 1
  OBVIOUS
<1>2. spent' = [spent EXCEPT ![b] = n] /\ n = spent[b] + 1 /\ spent[b] < Bounds[b]
  BY <1>1 DEF Spend
<1>3. spent \in [calls : 0..MaxCalls, acts : 0..MaxUserActs, resumes : 0..MaxResumes,
                clients : 0..MaxClients]
  BY DEF FallbackTypeOK
<1>4. /\ Bounds["calls"] = MaxCalls /\ Bounds["acts"] = MaxUserActs
      /\ Bounds["resumes"] = MaxResumes /\ Bounds["clients"] = MaxClients
  BY DEF Bounds
<1> HIDE DEF Bounds
<1>5. CASE b = "calls"
  <2>1. spent' = [spent EXCEPT !.calls = n] /\ n = spent.calls + 1 /\ spent.calls < MaxCalls
    BY <1>2, <1>4, <1>5
  <2>2. MaxCalls \in Nat
    BY FallbackAssumption
  <2>3. n \in 0..MaxCalls
    BY <1>3, <2>1, <2>2
  <2> QED
    BY <1>3, <2>1, <2>3
<1>6. CASE b = "acts"
  <2>1. spent' = [spent EXCEPT !.acts = n] /\ n = spent.acts + 1 /\ spent.acts < MaxUserActs
    BY <1>2, <1>4, <1>6
  <2>2. MaxUserActs \in Nat
    BY FallbackAssumption
  <2>3. n \in 0..MaxUserActs
    BY <1>3, <2>1, <2>2
  <2> QED
    BY <1>3, <2>1, <2>3
<1>7. CASE b = "resumes"
  <2>1. spent' = [spent EXCEPT !.resumes = n] /\ n = spent.resumes + 1 /\ spent.resumes < MaxResumes
    BY <1>2, <1>4, <1>7
  <2>2. MaxResumes \in Nat
    BY FallbackAssumption
  <2>3. n \in 0..MaxResumes
    BY <1>3, <2>1, <2>2
  <2> QED
    BY <1>3, <2>1, <2>3
<1>8. CASE b = "clients"
  <2>1. spent' = [spent EXCEPT !.clients = n] /\ n = spent.clients + 1 /\ spent.clients < MaxClients
    BY <1>2, <1>4, <1>8
  <2>2. MaxClients \in Nat
    BY FallbackAssumption
  <2>3. n \in 0..MaxClients
    BY <1>3, <2>1, <2>2
  <2> QED
    BY <1>3, <2>1, <2>3
<1> QED
  BY <1>5, <1>6, <1>7, <1>8

-----------------------------------------------------------------------------
(* What a step of the visor does to its view.                              *)

\* The rest of the type invariant, for the steps outside a frame.
LEMMA VisorTypes ==
  ASSUME FallbackTypeOK, visor' \in PolledViews, call' \in Calls, lastPoint' \subseteq Places,
         pointer' \in [at : Places, user : BOOLEAN, call : BOOLEAN],
         want' \in Seq({"pause", "resume"}), excused' \subseteq Excuses,
         spent' \in [calls : 0..MaxCalls, acts : 0..MaxUserActs, resumes : 0..MaxResumes,
                     clients : 0..MaxClients],
         UNCHANGED companionVars
  PROVE  FallbackTypeOK'
BY DEF FallbackTypeOK, companionVars

LEMMA CallIsTyped ==
  ASSUME FallbackTypeOK
  PROVE  /\ call \in [pc : {"none", "begun", "pointed"}, to : Places]
         /\ NoCall \in Calls /\ NoCall.pc = "none"
         /\ visor \in PolledViews /\ visor.injectSeq \in Nat /\ visor.resumeSeq \in Nat
         /\ pointer \in [at : Places, user : BOOLEAN, call : BOOLEAN]
BY FallbackAssumption DEF FallbackTypeOK, Calls, NoCall, PolledViews

LEMMA BeginShows ==
  ASSUME FallbackInv, CallBegins
  PROVE  /\ call' \in Calls /\ call'.pc = "begun" /\ visor' \in PolledViews
         /\ visor'.phase = "running" /\ visor'.injecting /\ visor'.injectSeq = visor.injectSeq + 1
         /\ visor'.settledSeq = visor.settledSeq /\ visor'.resumeSeq = visor.resumeSeq
         /\ visor'.drive = visor.drive /\ ~visor.injecting /\ visor.phase # "paused"
<1>1. /\ call \in [pc : {"none", "begun", "pointed"}, to : Places] /\ call.pc = "none"
      /\ visor \in PolledViews /\ visor.phase # "paused" /\ ~visor.injecting
  BY CallIsTyped DEF FallbackInv, ViewInv, CallIsShown, CallBegins
<1>2. PICK n : n = visor.injectSeq + 1
  OBVIOUS
<1>3. PICK shown : shown = TRUE
  OBVIOUS
<1>4. n \in Nat /\ shown \in BOOLEAN
  BY <1>1, <1>2, <1>3 DEF PolledViews
<1>5. /\ call' = [call EXCEPT !.pc = "begun"]
      /\ visor' = [visor EXCEPT !.phase = "running", !.injecting = shown, !.injectSeq = n]
  BY <1>2, <1>3 DEF CallBegins
<1>6. /\ visor' \in PolledViews /\ visor'.phase = "running" /\ visor'.injecting = shown
      /\ visor'.injectSeq = n /\ visor'.settledSeq = visor.settledSeq
      /\ visor'.resumeSeq = visor.resumeSeq /\ visor'.drive = visor.drive
  BY <1>1, <1>4, <1>5 DEF PolledViews
<1>7. call' \in Calls /\ call'.pc = "begun"
  BY <1>1, <1>5 DEF Calls
<1> QED
  BY <1>1, <1>2, <1>3, <1>6, <1>7

LEMMA SettledShows ==
  ASSUME NEW v \in PolledViews
  PROVE  /\ Settled(v) \in PolledViews /\ Settled(v).injecting = FALSE
         /\ Settled(v).settledSeq = v.injectSeq /\ Settled(v).injectSeq = v.injectSeq
         /\ Settled(v).phase = v.phase /\ Settled(v).resumeSeq = v.resumeSeq
         /\ Settled(v).drive = v.drive
BY DEF PolledViews, Settled

\* The drive a call leaves.
DriveOf(p, known) == [at |-> p, known |-> known, resumeSeq |-> visor.resumeSeq,
                      injectSeq |-> visor.injectSeq]

LEMMA DriveIsTyped ==
  ASSUME FallbackTypeOK, NEW p \in Places, NEW known \in BOOLEAN
  PROVE  /\ DriveOf(p, known) \in Drives
         /\ DriveOf(p, known).at = p /\ DriveOf(p, known).known = known
         /\ DriveOf(p, known).resumeSeq = visor.resumeSeq
         /\ DriveOf(p, known).injectSeq = visor.injectSeq
BY CallIsTyped DEF DriveOf, Drives

LEMMA RecordShows ==
  ASSUME FallbackInv, NEW p \in Places, NEW known \in BOOLEAN, Records(p, known)
  PROVE  /\ call' \in Calls /\ call'.pc = "none" /\ visor' \in PolledViews
         /\ visor'.phase = visor.phase /\ visor.phase = "running" /\ ~visor'.injecting
         /\ visor'.injectSeq = visor.injectSeq /\ visor'.settledSeq = visor.injectSeq
         /\ visor'.resumeSeq = visor.resumeSeq /\ visor'.drive = {DriveOf(p, known)}
         /\ pointer' \in [at : Places, user : BOOLEAN, call : BOOLEAN]
         /\ pointer'.at = pointer.at /\ pointer'.user = pointer.user /\ pointer'.call = FALSE
<1>1. visor \in PolledViews /\ DriveOf(p, known) \in Drives
  BY CallIsTyped, DriveIsTyped DEF FallbackInv, ViewInv
<1>2. PICK s : s = Settled(visor)
  OBVIOUS
<1>3. PICK ds : ds = {DriveOf(p, known)}
  OBVIOUS
<1>4. ds \in SUBSET Drives
  BY <1>1, <1>3
<1>5. visor' = [s EXCEPT !.drive = ds]
  BY <1>2, <1>3 DEF Records, DriveOf
<1>6. /\ s \in PolledViews /\ s.injecting = FALSE /\ s.settledSeq = visor.injectSeq
      /\ s.injectSeq = visor.injectSeq /\ s.phase = visor.phase /\ s.resumeSeq = visor.resumeSeq
  BY <1>1, <1>2, SettledShows
<1>7. /\ visor' \in PolledViews /\ visor'.drive = ds /\ visor'.injecting = FALSE
      /\ visor'.settledSeq = visor.injectSeq /\ visor'.injectSeq = visor.injectSeq
      /\ visor'.phase = visor.phase /\ visor'.resumeSeq = visor.resumeSeq
  BY <1>4, <1>5, <1>6 DEF PolledViews
<1>8. call' \in Calls /\ call'.pc = "none"
  BY CallIsTyped DEF FallbackInv, ViewInv, Records
<1>9. /\ pointer' \in [at : Places, user : BOOLEAN, call : BOOLEAN]
      /\ pointer'.at = pointer.at /\ pointer'.user = pointer.user /\ pointer'.call = FALSE
  BY CallIsTyped DEF FallbackInv, ViewInv, Records
<1> QED
  BY <1>3, <1>7, <1>8, <1>9 DEF Records

LEMMA FailShows ==
  ASSUME FallbackInv, CallFails
  PROVE  /\ call' \in Calls /\ call'.pc = "none" /\ visor' \in PolledViews
         /\ visor'.phase = visor.phase /\ ~visor'.injecting
         /\ visor'.injectSeq = visor.injectSeq /\ visor'.settledSeq = visor.injectSeq
         /\ visor'.resumeSeq = visor.resumeSeq /\ visor'.drive = visor.drive
         /\ pointer' \in [at : Places, user : BOOLEAN, call : BOOLEAN]
         /\ pointer'.at = pointer.at /\ pointer'.user = pointer.user /\ pointer'.call = FALSE
BY CallIsTyped, SettledShows DEF FallbackInv, ViewInv, CallFails

\* A view that is reopened: the drive is gone and the resume is counted.
LEMMA ReopenedShows ==
  ASSUME NEW v \in PolledViews
  PROVE  /\ Reopened(v) \in PolledViews /\ Reopened(v).phase = "running"
         /\ Reopened(v).drive = {} /\ Reopened(v).resumeSeq = v.resumeSeq + 1
         /\ Reopened(v).injecting = v.injecting /\ Reopened(v).injectSeq = v.injectSeq
         /\ Reopened(v).settledSeq = v.settledSeq
<1>1. PICK n : n = v.resumeSeq + 1
  OBVIOUS
<1>2. PICK ds : ds = {}
  OBVIOUS
<1>3. n \in Nat /\ ds \in SUBSET Drives
  BY <1>1, <1>2 DEF PolledViews
<1>4. PICK w : w = Reopened(v)
  OBVIOUS
<1>5. w = [v EXCEPT !.phase = "running", !.drive = ds, !.resumeSeq = n]
  BY <1>1, <1>2, <1>4 DEF Reopened
<1>6. /\ w \in PolledViews /\ w.phase = "running" /\ w.drive = ds /\ w.resumeSeq = n
      /\ w.injecting = v.injecting /\ w.injectSeq = v.injectSeq /\ w.settledSeq = v.settledSeq
  BY <1>3, <1>5 DEF PolledViews
<1> QED
  BY <1>1, <1>2, <1>4, <1>6

\* VisorHears and ClientActs change the phase, and drop the drive or keep it.
PhaseMoves(v, w) ==
  /\ w \in PolledViews /\ w.injecting = v.injecting /\ w.injectSeq = v.injectSeq
  /\ w.settledSeq = v.settledSeq
  /\ \/ w.drive = {} /\ w.resumeSeq = v.resumeSeq + 1 /\ w.phase = "running" /\ ~v.injecting
     \/ w.drive = {} /\ w.resumeSeq = v.resumeSeq /\ w.phase = "off" /\ v.phase = "running"
          /\ ~v.injecting
     \/ w.drive = v.drive /\ w.resumeSeq = v.resumeSeq /\ w.phase \in {"paused", v.phase}

LEMMA HearingShows ==
  ASSUME FallbackInv, VisorHears
  PROVE  /\ PhaseMoves(visor, visor')
         /\ visor'.resumeSeq # visor.resumeSeq => Head(want) = "resume" /\ visor.phase = "paused"
<1>1. visor \in PolledViews /\ (call.pc = "none" => ~visor.injecting)
  BY CallIsTyped DEF FallbackInv, ViewInv, CallIsShown
<1>2. CASE Head(want) = "pause"
  <2>1. visor' = [visor EXCEPT !.phase = "paused"]
    BY <1>2 DEF VisorHears
  <2>2. /\ visor' \in PolledViews /\ visor'.injecting = visor.injecting
        /\ visor'.injectSeq = visor.injectSeq /\ visor'.settledSeq = visor.settledSeq
        /\ visor'.drive = visor.drive /\ visor'.resumeSeq = visor.resumeSeq
        /\ visor'.phase = "paused"
    BY <1>1, <2>1 DEF PolledViews
  <2> QED
    BY <2>2 DEF PhaseMoves
<1>3. CASE Head(want) = "resume" /\ visor.phase = "paused"
  <2>1. visor' = Reopened(visor) /\ ~visor.injecting
    BY <1>1, <1>3 DEF VisorHears
  <2> QED
    BY <1>1, <1>3, <2>1, ReopenedShows DEF PhaseMoves
<1>4. CASE Head(want) # "pause" /\ ~(Head(want) = "resume" /\ visor.phase = "paused")
  <2>1. visor' = visor
    BY <1>4 DEF VisorHears
  <2> QED
    BY <1>1, <2>1 DEF PhaseMoves, PolledViews
<1> QED
  BY <1>2, <1>3, <1>4

LEMMA ClientShows ==
  ASSUME FallbackInv, ClientActs
  PROVE  PhaseMoves(visor, visor') /\ visor'.drive = {} /\ visor.phase # "paused" /\ ~visor.injecting
<1>1. visor \in PolledViews /\ ~visor.injecting /\ visor.phase # "paused"
  BY CallIsTyped DEF FallbackInv, ViewInv, CallIsShown, ClientActs
<1>2. CASE visor' = Reopened(visor)
  BY <1>1, <1>2, ReopenedShows DEF PhaseMoves
<1>3. CASE visor.phase = "running" /\ visor' = [visor EXCEPT !.phase = "off", !.drive = {}]
  <2>1. /\ visor' \in PolledViews /\ visor'.injecting = visor.injecting
        /\ visor'.injectSeq = visor.injectSeq /\ visor'.settledSeq = visor.settledSeq
        /\ visor'.drive = {} /\ visor'.resumeSeq = visor.resumeSeq
        /\ visor'.phase = "off"
    BY <1>1, <1>3 DEF PolledViews
  <2> QED
    BY <1>1, <1>3, <2>1 DEF PhaseMoves
<1> QED
  BY <1>1, <1>2, <1>3 DEF ClientActs

-----------------------------------------------------------------------------
(* ViewInv.                                                                *)

LEMMA BeginKeepsViews ==
  ASSUME FallbackInv, CallBegins
  PROVE  ViewInv'
<1>1. FallbackTypeOK'
  <2>1. FallbackTypeOK /\ visor' \in PolledViews /\ call' \in Calls
    BY BeginShows DEF FallbackInv, ViewInv
  <2>2. UNCHANGED << pointer, lastPoint, want, companionVars, excused >> /\ Spend("calls")
    BY DEF CallBegins
  <2>3. spent' \in [calls : 0..MaxCalls, acts : 0..MaxUserActs, resumes : 0..MaxResumes,
                    clients : 0..MaxClients]
    BY <2>1, <2>2, SpendCounts
  <2>4. /\ lastPoint' \subseteq Places /\ want' \in Seq({"pause", "resume"})
        /\ excused' \subseteq Excuses
        /\ pointer' \in [at : Places, user : BOOLEAN, call : BOOLEAN]
    BY <2>1, <2>2 DEF FallbackTypeOK
  <2> QED
    BY <2>1, <2>2, <2>3, <2>4, VisorTypes
<1>2. ViewIsSound(visor') /\ IsLater(visor', visor)
  BY BeginShows, CallIsTyped
     DEF FallbackInv, ViewInv, ViewsAreSound, ViewIsSound, IsLater, IsBehind, PolledViews, Drives
<1>3. UNCHANGED << snap, answer >>
  BY DEF CallBegins, companionVars
<1>4. CallIsShown'
  BY BeginShows DEF FallbackInv, ViewInv, CallIsShown, CallBegins
<1> QED
  BY <1>1, <1>2, <1>3, <1>4, BeginShows, VisorGoesOn DEF FallbackInv, ViewInv

LEMMA PointKeepsViews ==
  ASSUME FallbackInv, CallPoints
  PROVE  /\ ViewInv' /\ call'.pc = "pointed" /\ pointer'.user = pointer.user
<1>1. PICK p \in Places, down \in BOOLEAN :
        /\ call' = [pc |-> "pointed", to |-> p]
        /\ pointer' = [pointer EXCEPT !.at = p, !.call = down]
  BY DEF CallPoints
<1>2. UNCHANGED << visor, lastPoint, want, companionVars, excused, spent >> /\ call.pc = "begun"
  BY DEF CallPoints
<1>3. call' \in Calls /\ call'.pc = "pointed"
  BY <1>1 DEF Calls
<1>4. pointer' \in [at : Places, user : BOOLEAN, call : BOOLEAN] /\ pointer'.user = pointer.user
  BY <1>1, CallIsTyped DEF FallbackInv, ViewInv
<1>5. FallbackTypeOK'
  BY <1>2, <1>3, <1>4, VisorTypes DEF FallbackInv, ViewInv, FallbackTypeOK
<1>6. UNCHANGED << visor, snap, answer >>
  BY <1>2 DEF companionVars
<1>7. ViewsAreSound' /\ ViewsAreOrdered'
  BY <1>6 DEF FallbackInv, ViewInv, ViewsAreSound, ViewsAreOrdered
<1>8. CallIsShown'
  BY <1>2, <1>3 DEF FallbackInv, ViewInv, CallIsShown
<1> QED
  BY <1>3, <1>4, <1>5, <1>7, <1>8 DEF ViewInv

LEMMA RecordKeepsViews ==
  ASSUME FallbackInv, NEW p \in Places, NEW known \in BOOLEAN, Records(p, known),
         call.pc # "none"
  PROVE  ViewInv'
<1>1. FallbackTypeOK'
  <2>1. /\ FallbackTypeOK /\ visor' \in PolledViews /\ call' \in Calls
        /\ pointer' \in [at : Places, user : BOOLEAN, call : BOOLEAN]
    BY RecordShows DEF FallbackInv, ViewInv
  <2>2. UNCHANGED << want, companionVars, spent >> /\ lastPoint' \subseteq Places
    BY <2>1 DEF Records, FallbackTypeOK
  <2>3. excused' \subseteq Excuses
    BY <2>1 DEF Records, FallbackTypeOK, Excuse, Excuses
  <2> QED
    BY <2>1, <2>2, <2>3, VisorTypes DEF FallbackTypeOK
<1>2. /\ visor \in PolledViews /\ visor.injecting /\ visor.injectSeq \in Nat /\ visor.injectSeq > 0
      /\ visor.resumeSeq \in Nat
  BY CallIsTyped DEF FallbackInv, ViewInv, CallIsShown, ViewsAreSound, ViewIsSound
<1>3. ViewIsSound(visor') /\ IsLater(visor', visor)
  <2> PICK d : d = DriveOf(p, known)
    OBVIOUS
  <2>1. d.resumeSeq = visor.resumeSeq /\ d.injectSeq = visor.injectSeq
    BY DriveIsTyped DEF FallbackInv, ViewInv
  <2>2. /\ visor'.phase = visor.phase /\ ~visor'.injecting /\ visor'.injectSeq = visor.injectSeq
        /\ visor'.settledSeq = visor.injectSeq /\ visor'.resumeSeq = visor.resumeSeq
        /\ visor'.drive = {d}
    BY RecordShows
  <2>3. ViewIsSound(visor')
    BY <1>2, <2>1, <2>2 DEF ViewIsSound, IsBehind
  <2>4. IsLater(visor', visor)
    BY <1>2, <2>1, <2>2 DEF IsLater, IsBehind
  <2> QED
    BY <2>3, <2>4
<1>4. UNCHANGED << snap, answer >>
  BY DEF Records, companionVars
<1>5. CallIsShown'
  BY RecordShows DEF CallIsShown
<1> QED
  BY <1>1, <1>3, <1>4, <1>5, RecordShows, VisorGoesOn DEF FallbackInv, ViewInv

LEMMA FailKeepsViews ==
  ASSUME FallbackInv, CallFails
  PROVE  ViewInv'
<1>1. FallbackTypeOK'
  <2>1. /\ FallbackTypeOK /\ visor' \in PolledViews /\ call' \in Calls
        /\ pointer' \in [at : Places, user : BOOLEAN, call : BOOLEAN]
    BY FailShows DEF FallbackInv, ViewInv
  <2>2. UNCHANGED << lastPoint, want, companionVars, spent >>
    BY DEF CallFails
  <2>3. excused' \subseteq Excuses
    BY <2>1 DEF CallFails, FallbackTypeOK, Excuse, Excuses
  <2> QED
    BY <2>1, <2>2, <2>3, VisorTypes DEF FallbackTypeOK
<1>2. visor \in PolledViews /\ visor.injecting /\ ViewIsSound(visor)
  BY CallIsTyped DEF FallbackInv, ViewInv, CallIsShown, CallFails, ViewsAreSound
<1>3. ViewIsSound(visor') /\ IsLater(visor', visor)
  <2>1. /\ visor'.phase = visor.phase /\ ~visor'.injecting /\ visor'.injectSeq = visor.injectSeq
        /\ visor'.settledSeq = visor.injectSeq /\ visor'.resumeSeq = visor.resumeSeq
        /\ visor'.drive = visor.drive
    BY FailShows
  <2>2. visor.injectSeq \in Nat /\ visor.resumeSeq \in Nat /\ visor.drive \subseteq Drives
    BY <1>2 DEF PolledViews
  <2>3. ViewIsSound(visor')
    BY <1>2, <2>1, <2>2 DEF ViewIsSound, IsBehind, Drives
  <2>4. IsLater(visor', visor)
    BY <2>1, <2>2 DEF IsLater
  <2> QED
    BY <2>3, <2>4
<1>4. UNCHANGED << snap, answer >>
  BY DEF CallFails, companionVars
<1>5. CallIsShown'
  BY FailShows DEF CallIsShown
<1> QED
  BY <1>1, <1>3, <1>4, <1>5, FailShows, VisorGoesOn DEF FallbackInv, ViewInv

\* A phase that moves leaves the views in order.
LEMMA PhaseKeepsViews ==
  ASSUME FallbackInv, PhaseMoves(visor, visor'), FallbackTypeOK',
         UNCHANGED << pointer, call, snap, answer >>,
         visor'.phase \in {"running", "paused"} \/ call.pc = "none"
  PROVE  ViewInv'
<1>1. visor \in PolledViews /\ visor' \in PolledViews
  BY CallIsTyped DEF FallbackInv, ViewInv, PhaseMoves
<1>2. ViewIsSound(visor')
  BY <1>1 DEF FallbackInv, ViewInv, ViewsAreSound, ViewIsSound, IsBehind, PhaseMoves, PolledViews
<1>3. IsLater(visor', visor)
  BY <1>1 DEF IsLater, PhaseMoves, PolledViews
<1>4. CallIsShown'
  BY DEF FallbackInv, ViewInv, CallIsShown, PhaseMoves
<1> QED
  BY <1>1, <1>2, <1>3, <1>4, VisorGoesOn DEF FallbackInv, ViewInv

LEMMA HearingKeepsViews ==
  ASSUME FallbackInv, VisorHears
  PROVE  ViewInv'
<1>1. PhaseMoves(visor, visor')
  BY HearingShows
<1>2. UNCHANGED << pointer, call, lastPoint, companionVars, excused, spent >>
  BY DEF VisorHears
<1>3. FallbackTypeOK'
  <2>1. FallbackTypeOK /\ visor' \in PolledViews
    BY <1>1 DEF FallbackInv, ViewInv, PhaseMoves
  <2>2. want' \in Seq({"pause", "resume"})
    BY <2>1 DEF VisorHears, FallbackTypeOK
  <2> QED
    BY <1>2, <2>1, <2>2, VisorTypes DEF FallbackTypeOK
<1>4. visor'.phase \in {"running", "paused"} \/ call.pc = "none"
  BY <1>1, HearingShows DEF FallbackInv, ViewInv, CallIsShown, PhaseMoves
<1> QED
  BY <1>1, <1>2, <1>3, <1>4, PhaseKeepsViews DEF companionVars

LEMMA ClientKeepsViews ==
  ASSUME FallbackInv, ClientActs
  PROVE  ViewInv'
<1>1. PhaseMoves(visor, visor') /\ call.pc = "none"
  BY ClientShows DEF ClientActs
<1>2. UNCHANGED << pointer, call, lastPoint, want, companionVars >> /\ Spend("clients")
  BY DEF ClientActs
<1>3. FallbackTypeOK'
  <2>1. FallbackTypeOK /\ visor' \in PolledViews
    BY <1>1 DEF FallbackInv, ViewInv, PhaseMoves
  <2>2. excused' \subseteq Excuses
    BY <2>1 DEF ClientActs, FallbackTypeOK, Excuse, Excuses
  <2>3. spent' \in [calls : 0..MaxCalls, acts : 0..MaxUserActs, resumes : 0..MaxResumes,
                    clients : 0..MaxClients]
    BY <1>2, <2>1, SpendCounts
  <2> QED
    BY <1>2, <2>1, <2>2, <2>3, VisorTypes DEF FallbackTypeOK
<1> QED
  BY <1>1, <1>2, <1>3, PhaseKeepsViews DEF companionVars

LEMMA UserKeepsViews ==
  ASSUME FallbackInv, UserActs
  PROVE  ViewInv' /\ excused' # {}
<1>1. UNCHANGED << visorVars, companionVars >> /\ Spend("acts")
  BY DEF UserActs
<1>2. pointer' \in [at : Places, user : BOOLEAN, call : BOOLEAN] /\ pointer'.call = pointer.call
  BY CallIsTyped DEF FallbackInv, ViewInv, UserActs
<1>3. excused' \subseteq Excuses /\ excused' # {}
  BY DEF UserActs, FallbackInv, ViewInv, FallbackTypeOK, Excuse, Excuses
<1>4. FallbackTypeOK'
  <2>1. FallbackTypeOK
    BY DEF FallbackInv, ViewInv
  <2>2. spent' \in [calls : 0..MaxCalls, acts : 0..MaxUserActs, resumes : 0..MaxResumes,
                    clients : 0..MaxClients]
    BY <1>1, <2>1, SpendCounts
  <2>3. /\ visor' \in PolledViews /\ call' \in Calls /\ lastPoint' \subseteq Places
        /\ want' \in Seq({"pause", "resume"})
    BY <1>1, <2>1 DEF visorVars, FallbackTypeOK
  <2> QED
    BY <1>1, <1>2, <1>3, <2>1, <2>2, <2>3, VisorTypes
<1>5. ViewsAreSound' /\ ViewsAreOrdered' /\ CallIsShown'
  BY <1>1, <1>2
     DEF visorVars, companionVars, FallbackInv, ViewInv, ViewsAreSound, ViewsAreOrdered, CallIsShown
<1> QED
  BY <1>3, <1>4, <1>5 DEF ViewInv

LEMMA AnswerKeepsViews ==
  ASSUME FallbackInv, Answer
  PROVE  ViewInv'
<1>1. answer' = {visor} /\ visor \in PolledViews
  BY CallIsTyped DEF Answer, FallbackInv, ViewInv
<1>2. UNCHANGED << pointer, visor, call, snap >>
  BY DEF Answer, visorVars
<1>3. FallbackTypeOK'
  BY <1>1 DEF Answer, visorVars, FallbackInv, ViewInv, FallbackTypeOK
<1>4. ViewsAreSound'
  BY <1>1, <1>2 DEF FallbackInv, ViewInv, ViewsAreSound
<1>5. ViewsAreOrdered'
  BY <1>1, <1>2, LaterViewIsReflexive DEF FallbackInv, ViewInv, ViewsAreOrdered
<1>6. CallIsShown'
  BY <1>2 DEF FallbackInv, ViewInv, CallIsShown
<1> QED
  BY <1>3, <1>4, <1>5, <1>6 DEF ViewInv

LEMMA ReceiveKeepsViews ==
  ASSUME FallbackInv, Receive
  PROVE  ViewInv'
<1>1. snap' \in answer /\ answer' = {} /\ UNCHANGED << pointer, visor, call >>
  BY DEF Receive, visorVars
<1>2. FallbackTypeOK'
  BY <1>1 DEF Receive, visorVars, FallbackInv, ViewInv, FallbackTypeOK
<1>3. ViewsAreSound' /\ ViewsAreOrdered' /\ CallIsShown'
  BY <1>1 DEF FallbackInv, ViewInv, ViewsAreSound, ViewsAreOrdered, CallIsShown
<1> QED
  BY <1>2, <1>3 DEF ViewInv

-----------------------------------------------------------------------------
(* What a frame makes of the track.                                        *)

LEMMA FrameTypes ==
  ASSUME FallbackTypeOK
  PROVE  /\ track \in Tracks /\ (track.blocked => track.openFor = Unset)
         /\ snap \in PolledViews /\ snap.injectSeq \in Nat /\ snap.resumeSeq \in Nat
         /\ snap.drive \subseteq Drives
         /\ SeenPhase \in {"off", "running", "paused"}
         /\ SeenPhase = "off" <=> snap.phase = "off"
         /\ resumes.after \in Nat \cup {Unset} /\ CutOff \in Nat \cup {Unset}
         /\ HoldTicks \in Nat /\ HoldTicks > 0 /\ ConfirmEpochs \in Nat /\ ConfirmEpochs >= 2
         /\ SettleTicks \in Nat /\ SettleTicks > 0
<1>1. track \in Tracks /\ (track.blocked => track.openFor = Unset)
  BY DEF FallbackTypeOK, Tracks
<1>2. /\ snap \in PolledViews /\ snap.injectSeq \in Nat /\ snap.resumeSeq \in Nat
      /\ snap.drive \subseteq Drives /\ snap.phase \in {"off", "running", "paused"}
  BY DEF FallbackTypeOK, PolledViews
<1>3. SeenPhase \in {"off", "running", "paused"} /\ (SeenPhase = "off" <=> snap.phase = "off")
  BY <1>2 DEF FallbackTypeOK, SeenPhase
<1>4. resumes.after \in Nat \cup {Unset} /\ CutOff \in Nat \cup {Unset}
  BY DEF FallbackTypeOK, CutOff
<1>5. /\ HoldTicks \in Nat /\ HoldTicks > 0 /\ ConfirmEpochs \in Nat /\ ConfirmEpochs >= 2
      /\ SettleTicks \in Nat /\ SettleTicks > 0
  BY FallbackAssumption
<1> QED
  BY <1>1, <1>2, <1>3, <1>4, <1>5

LEMMA OutstandingIsInjection ==
  ASSUME FallbackTypeOK, ViewIsSound(snap)
  PROVE  /\ Outstanding = IF snap.injecting THEN snap.injectSeq ELSE 0
         /\ snap.injecting => snap.injectSeq > 0
BY FrameTypes DEF Outstanding, ViewIsSound, PolledViews

\* The part of the track a wait does not touch, and what it does to the rest.
SameSamples(t, w) ==
  w.baseline = t.baseline /\ w.mask = t.mask /\ w.hold = t.hold /\ w.ignore = t.ignore

WaitLeaves(t, w) ==
  /\ w \in Tracks /\ SameSamples(t, w) /\ (w.blocked => w.openFor = Unset)
  /\ IF Waits(t)
     THEN /\ w.openFor = OpenFor(t) /\ OpenFor(t) < HoldTicks /\ ~w.blocked
          /\ w.settled = t.settled
     ELSE /\ w.openFor \in {Unset, t.openFor}
          /\ w.settled = t.settled \/ (~snap.injecting /\ w.settled = snap.injectSeq)
          /\ snap.injecting /\ IsBehind(t.settled, snap) => w.blocked

LEMMA WaitFacts ==
  ASSUME FallbackTypeOK, ViewIsSound(snap)
  PROVE  WaitLeaves(track, AfterWait(track))
<1> PICK t : t = track
  OBVIOUS
<1>1. /\ t \in Tracks /\ (t.blocked => t.openFor = Unset) /\ snap.injectSeq \in Nat
      /\ Outstanding = (IF snap.injecting THEN snap.injectSeq ELSE 0)
      /\ (snap.injecting => snap.injectSeq > 0) /\ HoldTicks \in Nat /\ HoldTicks > 0
  BY FrameTypes, OutstandingIsInjection
<1>2. /\ t.openFor \in Unset..HoldTicks /\ t.blocked \in BOOLEAN /\ t.settled \in Nat
      /\ SameSamples(t, t) /\ Unset \in Unset..HoldTicks /\ OpenFor(t) \in 0..HoldTicks
  BY <1>1 DEF Tracks, SameSamples, Unset, OpenFor
<1>3. CASE Outstanding = 0
  <2>1. PICK s : s = (IF t.settled < snap.injectSeq THEN snap.injectSeq ELSE t.settled)
    OBVIOUS
  <2>2. PICK b : b = FALSE
    OBVIOUS
  <2>3. s \in Nat /\ b \in BOOLEAN
    BY <1>1, <1>2, <2>1, <2>2
  <2>4. ~Waits(t)
    <3>1. ~(0 > t.settled)
      BY <1>2
    <3> QED
      BY <1>3, <3>1 DEF Waits
  <2>5. ~snap.injecting
    BY <1>1, <1>3
  <2>6. AfterWait(t) = [t EXCEPT !.openFor = Unset, !.blocked = b, !.settled = s]
    BY <1>3, <2>1, <2>2, <2>4 DEF AfterWait
  <2>7. /\ AfterWait(t) \in Tracks /\ AfterWait(t).openFor = Unset /\ AfterWait(t).blocked = b
        /\ AfterWait(t).settled = s /\ SameSamples(t, AfterWait(t))
    <3> PICK o : o = Unset
      OBVIOUS
    <3>1. AfterWait(t) = [t EXCEPT !.openFor = o, !.blocked = b, !.settled = s] /\ o \in Unset..HoldTicks
      BY <1>2, <2>6
    <3>2. o = Unset
      OBVIOUS
    <3>3. t \in Tracks /\ s \in Nat /\ b \in BOOLEAN /\ o \in Unset..HoldTicks
      BY <1>1, <2>3, <3>1
    <3>4. /\ AfterWait(t) \in Tracks /\ AfterWait(t).openFor = o /\ AfterWait(t).blocked = b
          /\ AfterWait(t).settled = s /\ SameSamples(t, AfterWait(t))
      BY <3>1, <3>3 DEF Tracks, SameSamples
    <3> QED
      BY <3>2, <3>4
  <2> QED
    BY <2>1, <2>2, <2>4, <2>5, <2>7 DEF WaitLeaves
<1>4. CASE Outstanding # 0 /\ (Outstanding <= t.settled \/ t.blocked)
  <2>2. ~Waits(t)
    BY <1>1, <1>2, <1>4 DEF Waits
  <2>1. AfterWait(t) = t
    BY <1>4, <2>2 DEF AfterWait
  <2>3. snap.injecting /\ IsBehind(t.settled, snap) => t.blocked
    BY <1>1, <1>2, <1>4 DEF IsBehind
  <2> QED
    BY <1>1, <1>2, <2>1, <2>2, <2>3 DEF WaitLeaves
<1>5. CASE Waits(t) /\ Outstanding # 0
  <2>1. ~(Outstanding # 0 /\ (Outstanding <= t.settled \/ t.blocked))
    BY <1>1, <1>2, <1>5 DEF Waits
  <2>2. PICK o : o = OpenFor(t)
    OBVIOUS
  <2>3. AfterWait(t) = [t EXCEPT !.openFor = o]
    BY <1>5, <2>1, <2>2 DEF AfterWait
  <2>4. o \in Unset..HoldTicks
    BY <1>1, <1>2, <2>2 DEF Unset
  <2>5. /\ AfterWait(t) \in Tracks /\ AfterWait(t).openFor = o
        /\ AfterWait(t).blocked = t.blocked /\ AfterWait(t).settled = t.settled
        /\ SameSamples(t, AfterWait(t))
    BY <1>1, <2>3, <2>4 DEF Tracks, SameSamples
  <2> QED
    BY <1>5, <2>2, <2>5 DEF WaitLeaves, Waits
<1>6. CASE Outstanding # 0 /\ ~Waits(t) /\ ~(Outstanding <= t.settled \/ t.blocked)
  <2>1. PICK b : b = TRUE
    OBVIOUS
  <2>2. AfterWait(t) = [t EXCEPT !.openFor = Unset, !.blocked = b]
    BY <1>6, <2>1 DEF AfterWait
  <2>3. /\ AfterWait(t) \in Tracks /\ AfterWait(t).openFor = Unset
        /\ AfterWait(t).blocked = b /\ AfterWait(t).settled = t.settled
        /\ SameSamples(t, AfterWait(t))
    BY <1>1, <1>2, <2>1, <2>2 DEF Tracks, SameSamples
  <2> QED
    BY <1>6, <2>1, <2>3 DEF WaitLeaves
<1> QED
  BY <1>3, <1>4, <1>5, <1>6

\* A new baseline is the sample itself, however it came about.
AllAre(baseline, sample) ==
  \A base \in baseline : base.at = sample.at /\ base.down = sample.down

BaselineLeaves(t, n) ==
  /\ n \in Tracks /\ n.hold = Unset /\ n.openFor = t.openFor /\ n.blocked = t.blocked
  /\ n.settled = t.settled /\ n.mask = Sample.down
  /\ n.ignore => t.ignore /\ Sample.down
  /\ AllAre(n.baseline, Sample)

LEMMA BaselineFacts ==
  ASSUME FallbackTypeOK, NEW t \in Tracks
  PROVE  BaselineLeaves(t, [AfterBaseline(t) EXCEPT !.hold = Unset])
<1>1. PICK s : s = Sample
  OBVIOUS
<1>2. s \in Samples /\ s.at = pointer.at /\ s.down \in BOOLEAN
  BY <1>1, SampleIsTyped DEF Sample, Samples
<1>3. PICK ig : ig = (t.ignore /\ s.down)
  OBVIOUS
<1>4. PICK now : now = [t EXCEPT !.mask = s.down, !.ignore = ig]
  OBVIOUS
<1>5. t.ignore \in BOOLEAN /\ t.baseline \subseteq Samples
  BY DEF Tracks
<1>6. ig \in BOOLEAN
  BY <1>2, <1>3, <1>5, Zenon
<1>7. PICK single, unset, no : single = {s} /\ unset = Unset /\ no = FALSE
  OBVIOUS
<1>8. /\ single \in SUBSET Samples /\ unset \in Unset..ConfirmEpochs /\ no \in BOOLEAN
  <2>1. single \in SUBSET Samples /\ no \in BOOLEAN
    BY <1>2, <1>7
  <2>2. unset \in Unset..ConfirmEpochs
    BY <1>7, FrameTypes DEF Unset
  <2> QED
    BY <2>1, <2>2
<1>9. /\ now \in Tracks /\ now.mask = s.down /\ now.ignore = ig /\ now.openFor = t.openFor
      /\ now.blocked = t.blocked /\ now.settled = t.settled /\ now.baseline = t.baseline
  BY <1>2, <1>4, <1>6 DEF Tracks
<1>10. PICK n : n = [AfterBaseline(t) EXCEPT !.hold = unset]
  OBVIOUS
<1>11. CASE t.baseline = {}
  <2>1. AfterBaseline(t) = [now EXCEPT !.baseline = single, !.ignore = no]
    <3>1. ~BaselineMoved(t)
      BY <1>11 DEF BaselineMoved
    <3> QED
      BY <1>1, <1>3, <1>4, <1>7, <1>11, <3>1 DEF AfterBaseline
  <2>2. n = [[now EXCEPT !.baseline = single, !.ignore = no] EXCEPT !.hold = unset]
    BY <1>10, <2>1
  <2>3. /\ n \in Tracks /\ n.hold = unset /\ n.openFor = now.openFor /\ n.blocked = now.blocked
        /\ n.settled = now.settled /\ n.mask = now.mask /\ n.ignore = no /\ n.baseline = single
    BY <1>8, <1>9, <2>2 DEF Tracks
  <2> QED
    BY <1>1, <1>7, <1>9, <1>10, <2>3 DEF BaselineLeaves, AllAre
<1>12. CASE t.baseline # {} /\ BaselineMoved(t)
  <2>1. AfterBaseline(t) = [now EXCEPT !.baseline = single]
    BY <1>1, <1>3, <1>4, <1>7, <1>12 DEF AfterBaseline
  <2>2. n = [[now EXCEPT !.baseline = single] EXCEPT !.hold = unset]
    BY <1>10, <2>1
  <2>3. /\ n \in Tracks /\ n.hold = unset /\ n.openFor = now.openFor /\ n.blocked = now.blocked
        /\ n.settled = now.settled /\ n.mask = now.mask /\ n.ignore = ig /\ n.baseline = single
    BY <1>8, <1>9, <2>2 DEF Tracks
  <2> QED
    BY <1>1, <1>3, <1>7, <1>9, <1>10, <2>3 DEF BaselineLeaves, AllAre
<1>13. CASE t.ignore /\ ~BaselineMoved(t) /\ t.baseline # {}
  <2>1. PICK kept : kept = {[base EXCEPT !.down = s.down] : base \in t.baseline}
    OBVIOUS
  <2>2. AfterBaseline(t) = [now EXCEPT !.baseline = kept]
    <3>1. now.baseline = t.baseline
      BY <1>9
    <3> QED
      BY <1>1, <1>3, <1>4, <1>13, <2>1, <3>1 DEF AfterBaseline
  <2>3. \A base \in t.baseline : base.at = pointer.at
    BY <1>13 DEF BaselineMoved, Active
  <2>4. kept \subseteq Samples /\ AllAre(kept, s)
    BY <1>2, <1>5, <2>1, <2>3 DEF Samples, AllAre
  <2>5. n = [[now EXCEPT !.baseline = kept] EXCEPT !.hold = unset]
    BY <1>10, <2>2
  <2>6. /\ n \in Tracks /\ n.hold = unset /\ n.openFor = now.openFor /\ n.blocked = now.blocked
        /\ n.settled = now.settled /\ n.mask = now.mask /\ n.ignore = ig /\ n.baseline = kept
    BY <1>8, <1>9, <2>4, <2>5 DEF Tracks
  <2> QED
    BY <1>1, <1>3, <1>7, <1>9, <1>10, <2>4, <2>6 DEF BaselineLeaves
<1>14. CASE t.baseline # {} /\ ~BaselineMoved(t) /\ ~t.ignore
  <2>1. AfterBaseline(t) = now
    BY <1>1, <1>3, <1>4, <1>14 DEF AfterBaseline
  <2>2. \A base \in t.baseline : base.at = pointer.at /\ base.down = s.down
    <3>1. ASSUME NEW base \in t.baseline
          PROVE  base.at = pointer.at /\ base.down = (Sample.down \/ t.ignore)
      BY <1>14 DEF BaselineMoved, Active
    <3>2. (Sample.down \/ t.ignore) = s.down
      BY <1>1, <1>2, <1>14, Zenon
    <3> QED
      BY <3>1, <3>2
  <2>3. n = [now EXCEPT !.hold = unset]
    BY <1>10, <2>1
  <2>4. /\ n \in Tracks /\ n.hold = unset /\ n.openFor = now.openFor /\ n.blocked = now.blocked
        /\ n.settled = now.settled /\ n.mask = now.mask /\ n.ignore = ig /\ n.baseline = t.baseline
    BY <1>8, <1>9, <2>3 DEF Tracks
  <2> QED
    BY <1>1, <1>2, <1>3, <1>7, <1>9, <1>10, <2>2, <2>4 DEF BaselineLeaves, AllAre
<1> QED
  BY <1>11, <1>12, <1>13, <1>14

-----------------------------------------------------------------------------
(* The four ways a frame judges.                                           *)

LEMMA EmptyIsTyped ==
  /\ EmptyTrack \in Tracks /\ EmptyTrack.baseline = {} /\ EmptyTrack.hold = Unset
  /\ EmptyTrack.openFor = Unset /\ EmptyTrack.settled = 0 /\ EmptyTrack.ignore = FALSE
BY FallbackAssumption DEF EmptyTrack, Tracks, Unset

LEMMA OffJudgement ==
  ASSUME FallbackTypeOK, SeenPhase = "off"
  PROVE  Judged.by = "none" /\ Judged.moved = FALSE /\ Judged.track = EmptyTrack
BY DEF Judged, Judgement

LEMMA WaitJudgement ==
  ASSUME FallbackTypeOK, ViewIsSound(snap), SeenPhase # "off", Waits(track)
  PROVE  /\ Judged.by = "none" /\ Judged.moved = FALSE
         /\ Judged.track \in Tracks /\ Judged.track.hold = Unset
         /\ Judged.track.baseline = track.baseline /\ Judged.track.ignore = track.ignore
         /\ Judged.track.openFor = OpenFor(track) /\ OpenFor(track) < HoldTicks
         /\ ~Judged.track.blocked /\ Judged.track.settled = track.settled
<1>1. PICK w : w = AfterWait(track)
  OBVIOUS
<1>2. WaitLeaves(track, w)
  BY <1>1, WaitFacts
<1>3. /\ Judged.by = "none" /\ Judged.moved = FALSE
      /\ Judged.track = [w EXCEPT !.hold = Unset]
  BY <1>1 DEF Judged, Judgement
<1>4. Unset \in Unset..ConfirmEpochs /\ w \in Tracks
  BY <1>2, FrameTypes DEF Unset, WaitLeaves
<1>5. /\ Judged.track \in Tracks /\ Judged.track.hold = Unset
      /\ Judged.track.baseline = w.baseline /\ Judged.track.ignore = w.ignore
      /\ Judged.track.openFor = w.openFor /\ Judged.track.blocked = w.blocked
      /\ Judged.track.settled = w.settled
  BY <1>3, <1>4 DEF Tracks
<1> QED
  BY <1>2, <1>3, <1>5 DEF WaitLeaves, SameSamples

LEMMA BaselineJudgement ==
  ASSUME FallbackTypeOK, ViewIsSound(snap), SeenPhase # "off", ~Waits(track),
         SeenPhase = "paused" \/ UsableDrives(CutOff) = {}
  PROVE  /\ Judged.by = "baseline" /\ Judged.moved = BaselineMoved(track)
         /\ BaselineLeaves(AfterWait(track), Judged.track)
<1>1. AfterWait(track) \in Tracks
  BY WaitFacts DEF WaitLeaves
<1>2. /\ Judged.by = "baseline" /\ Judged.moved = BaselineMoved(track)
      /\ Judged.track = [AfterBaseline(AfterWait(track)) EXCEPT !.hold = Unset]
  BY DEF Judged, Judgement
<1> QED
  BY <1>1, <1>2, BaselineFacts

LEMMA TheDriveIsUsable ==
  ASSUME NEW after, UsableDrives(after) # {}
  PROVE  TheDrive(after) \in UsableDrives(after)
BY DEF TheDrive

LEMMA HoldIsTyped ==
  ASSUME FallbackTypeOK, NEW d
  PROVE  Hold(track, d) \in Unset..ConfirmEpochs
<1>1. track.hold \in Unset..ConfirmEpochs /\ ConfirmEpochs \in Nat /\ ConfirmEpochs >= 2
  BY FrameTypes DEF Tracks
<1> QED
  BY <1>1 DEF Hold, Unset

LEMMA DriveJudgement ==
  ASSUME FallbackTypeOK, ViewIsSound(snap), SeenPhase = "running", ~Waits(track),
         UsableDrives(CutOff) # {}
  PROVE  LET d == TheDrive(CutOff)
             w == AfterWait(track)
         IN  /\ d \in UsableDrives(CutOff)
             /\ Judged.by = IF Confirmed(track, d) THEN "drive" ELSE "button"
             /\ Judged.moved = (Confirmed(track, d) \/ (Sample.down /\ ~track.mask))
             /\ Judged.track \in Tracks /\ Judged.track.hold = Hold(track, d)
             /\ Judged.track.baseline = {Sample} /\ Judged.track.ignore = track.ignore
             /\ Judged.track.openFor = w.openFor /\ Judged.track.blocked = w.blocked
             /\ Judged.track.settled = w.settled
<1> DEFINE d == TheDrive(CutOff)
<1>1. PICK w : w = AfterWait(track)
  OBVIOUS
<1>2. WaitLeaves(track, w)
  BY <1>1, WaitFacts
<1>3. PICK h, s, b : h = Hold(track, d) /\ s = Sample /\ b = {Sample}
  OBVIOUS
<1>4. /\ Judged.by = IF Confirmed(track, d) THEN "drive" ELSE "button"
      /\ Judged.moved = (Confirmed(track, d) \/ (Sample.down /\ ~track.mask))
      /\ Judged.track = [w EXCEPT !.hold = Hold(track, d), !.mask = Sample.down, !.baseline = {Sample}]
  BY <1>1 DEF Judged, Judgement
<1>5. Judged.track = [w EXCEPT !.hold = h, !.mask = s.down, !.baseline = b]
  BY <1>3, <1>4
<1>6. h \in Unset..ConfirmEpochs /\ s.down \in BOOLEAN /\ b \in SUBSET Samples /\ w \in Tracks
  BY <1>2, <1>3, HoldIsTyped, SampleIsTyped DEF WaitLeaves, Samples
<1>7. /\ Judged.track \in Tracks /\ Judged.track.hold = h
      /\ Judged.track.baseline = b /\ Judged.track.ignore = w.ignore
      /\ Judged.track.openFor = w.openFor /\ Judged.track.blocked = w.blocked
      /\ Judged.track.settled = w.settled
  BY <1>5, <1>6 DEF Tracks
<1>8. w.ignore = track.ignore
  BY <1>2 DEF WaitLeaves, SameSamples
<1>9. d \in UsableDrives(CutOff)
  BY TheDriveIsUsable
<1> QED
  BY <1>1, <1>3, <1>4, <1>7, <1>8, <1>9

LEMMA RebaselineFacts ==
  ASSUME FallbackTypeOK, NEW t \in Tracks
  PROVE  /\ Rebaselined(t) \in Tracks /\ Rebaselined(t).baseline = {Sample}
         /\ Rebaselined(t).hold = Unset /\ Rebaselined(t).ignore = Sample.down
         /\ Rebaselined(t).openFor = t.openFor /\ Rebaselined(t).blocked = t.blocked
         /\ Rebaselined(t).settled = t.settled
<1>1. PICK s, b, u : s = Sample /\ b = {Sample} /\ u = Unset
  OBVIOUS
<1>2. Rebaselined(t) = [t EXCEPT !.baseline = b, !.mask = s.down, !.hold = u, !.ignore = s.down]
  BY <1>1 DEF Rebaselined
<1>3. s.down \in BOOLEAN /\ b \in SUBSET Samples
  BY <1>1, SampleIsTyped DEF Samples
<1>4. u \in Unset..ConfirmEpochs
  BY <1>1, FrameTypes DEF Unset
<1>5. PICK r : r = Rebaselined(t)
  OBVIOUS
<1>6. /\ r \in Tracks /\ r.baseline = b /\ r.hold = u /\ r.ignore = s.down
      /\ r.openFor = t.openFor /\ r.blocked = t.blocked /\ r.settled = t.settled
  BY <1>2, <1>3, <1>4, <1>5 DEF Tracks
<1> QED
  BY <1>1, <1>5, <1>6

-----------------------------------------------------------------------------
(* What a frame leaves, for each part of the invariant.                    *)

\* The frame compares the pointer with the drive of the snapshot.
Compares == SeenPhase = "running" /\ ~Waits(track) /\ UsableDrives(CutOff) # {}

TrackLeft(resume) ==
  /\ track' \in Tracks /\ (track'.blocked => track'.openFor = Unset)
  /\ \/ track'.settled \in {0, track.settled}
     \/ ~snap.injecting /\ track'.settled = snap.injectSeq
  /\ \/ track'.hold = Unset
     \/ resume = "no" /\ Compares /\ track'.hold = Hold(track, TheDrive(CutOff))
  /\ IF resume = "no" THEN track'.ignore => track.ignore ELSE track'.ignore => Sample.down
  /\ \/ AllAre(track'.baseline, Sample)
     \/ /\ resume = "no" /\ SeenPhase # "off" /\ Waits(track) /\ track'.baseline = track.baseline
  /\ SeenPhase # "off" /\ Waits(track) =>
       track'.openFor = OpenFor(track) /\ OpenFor(track) < HoldTicks
  /\ SeenPhase # "off" /\ ~Waits(track) /\ snap.injecting /\ IsBehind(track.settled, snap) =>
       track'.blocked

LEMMA OneSample == AllAre({Sample}, Sample) /\ AllAre({}, Sample)
BY DEF AllAre

LEMMA FrameLeavesTrack ==
  ASSUME FallbackTypeOK, ViewIsSound(snap), NEW resume \in {"no", "timer", "continue"}, Frame(resume)
  PROVE  TrackLeft(resume)
<1>1. /\ track' = IF resume = "continue" THEN Rebaselined(Judged.track) ELSE Judged.track
      /\ resume # "no" => SeenPhase = "paused"
      /\ resume = "timer" => ~Waits(track)
  BY DEF Frame, PauseIsSeen
<1>2. CASE SeenPhase = "off"
  <2>1. resume = "no" /\ track' = EmptyTrack
    BY <1>1, <1>2, OffJudgement
  <2> QED
    BY <1>2, <2>1, EmptyIsTyped, OneSample DEF TrackLeft
<1>3. CASE SeenPhase # "off" /\ Waits(track)
  <2> PICK j : j = Judged.track
    OBVIOUS
  <2>1. /\ j \in Tracks /\ j.hold = Unset /\ j.baseline = track.baseline
        /\ j.ignore = track.ignore /\ j.openFor = OpenFor(track) /\ OpenFor(track) < HoldTicks
        /\ ~j.blocked /\ j.settled = track.settled
    BY <1>3, WaitJudgement
  <2>2. CASE resume = "no"
    <3>1. track' = j
      BY <1>1, <2>2
    <3> QED
      BY <1>3, <2>1, <2>2, <3>1 DEF TrackLeft
  <2>3. CASE resume = "continue"
    <3>1. track' = Rebaselined(j)
      BY <1>1, <2>3
    <3>2. /\ track' \in Tracks /\ track'.baseline = {Sample} /\ track'.hold = Unset
          /\ track'.ignore = Sample.down /\ track'.openFor = j.openFor
          /\ track'.blocked = j.blocked /\ track'.settled = j.settled
      BY <2>1, <3>1, RebaselineFacts
    <3> QED
      BY <1>3, <2>1, <2>3, <3>2, OneSample DEF TrackLeft
  <2> QED
    BY <1>1, <1>3, <2>2, <2>3
<1>4. CASE SeenPhase # "off" /\ ~Waits(track) /\ (SeenPhase = "paused" \/ UsableDrives(CutOff) = {})
  <2> PICK j, w : j = Judged.track /\ w = AfterWait(track)
    OBVIOUS
  <2>1. BaselineLeaves(w, j) /\ WaitLeaves(track, w)
    BY <1>4, BaselineJudgement, WaitFacts
  <2>2. /\ j \in Tracks /\ j.hold = Unset /\ (j.blocked => j.openFor = Unset)
        /\ j.settled = track.settled \/ (~snap.injecting /\ j.settled = snap.injectSeq)
        /\ j.ignore => track.ignore /\ Sample.down
        /\ AllAre(j.baseline, Sample)
        /\ snap.injecting /\ IsBehind(track.settled, snap) => j.blocked
    BY <1>4, <2>1 DEF BaselineLeaves, WaitLeaves, SameSamples
  <2>3. CASE resume # "continue"
    <3>1. track' = j
      BY <1>1, <2>3
    <3> QED
      BY <1>4, <2>2, <2>3, <3>1 DEF TrackLeft
  <2>4. CASE resume = "continue"
    <3>1. track' = Rebaselined(j)
      BY <1>1, <2>4
    <3>2. /\ track' \in Tracks /\ track'.baseline = {Sample} /\ track'.hold = Unset
          /\ track'.ignore = Sample.down /\ track'.openFor = j.openFor
          /\ track'.blocked = j.blocked /\ track'.settled = j.settled
      BY <2>2, <3>1, RebaselineFacts
    <3> QED
      BY <1>4, <2>2, <2>4, <3>2, OneSample DEF TrackLeft
  <2> QED
    BY <2>3, <2>4
<1>5. CASE Compares
  <2> PICK j, w : j = Judged.track /\ w = AfterWait(track)
    OBVIOUS
  <2>1. resume = "no" /\ track' = j /\ SeenPhase # "off" /\ ~Waits(track)
    BY <1>1, <1>5 DEF Compares
  <2>2. /\ j \in Tracks /\ j.hold = Hold(track, TheDrive(CutOff)) /\ j.baseline = {Sample}
        /\ j.ignore = track.ignore /\ j.openFor = w.openFor /\ j.blocked = w.blocked
        /\ j.settled = w.settled
    BY <1>5, DriveJudgement DEF Compares
  <2>3. WaitLeaves(track, w)
    BY WaitFacts
  <2> QED
    BY <1>5, <2>1, <2>2, <2>3, OneSample DEF TrackLeft, WaitLeaves
<1>6. SeenPhase \in {"off", "running", "paused"}
  BY FrameTypes
<1> QED
  BY <1>2, <1>3, <1>4, <1>5, <1>6 DEF Compares

-----------------------------------------------------------------------------
(* Frame and Tick keep the views and the notes.                            *)

LEMMA WithoutResumeIsPauses ==
  ASSUME NEW w \in Seq({"pause", "resume"})
  PROVE  WithoutResume(w) \in Seq({"pause"})
<1>1. PICK n : n = Cardinality({i \in DOMAIN w : w[i] # "resume"})
  OBVIOUS
<1>2. n \in Nat
  <2>1. IsFiniteSet(1..Len(w)) /\ DOMAIN w = 1..Len(w)
    BY FS_Interval
  <2> QED
    BY <1>1, <2>1, FS_Subset, FS_CardinalityType
<1>3. WithoutResume(w) = [i \in 1..n |-> "pause"]
  BY <1>1 DEF WithoutResume
<1>4. [i \in 1..n |-> "pause"] \in [1..n -> {"pause"}]
  OBVIOUS
<1>5. Seq({"pause"}) = UNION {[1..k -> {"pause"}] : k \in Nat}
  BY SeqDef, Zenon
<1> QED
  BY <1>2, <1>3, <1>4, <1>5, Zenon

PausesAreWanted == want' \in Seq({"pause"})

NotesLeft(resume) ==
  /\ \/ judged' = judged
     \/ Compares /\ judged' = TheDrive(CutOff).injectSeq
  /\ \/ age' = age /\ (\A d \in snap.drive : d.injectSeq = age.of)
     \/ \E d \in snap.drive : d.injectSeq # age.of /\ age'.of = d.injectSeq
  /\ polled' = FALSE /\ framed' = TRUE
  /\ resumes' \in [seen : Nat, after : Nat \cup {Unset}]
  /\ IF resume = "no"
     THEN resumes'.after = CutOff /\ excused' = excused
     ELSE /\ resumes'.after = visor.resumeSeq /\ excused' = {} /\ snap.resumeSeq = visor.resumeSeq
          /\ snap.phase = "paused" /\ visor.phase = "paused" /\ want' = << "resume" >>
  /\ resume = "no" => want' \in {want} \/ PausesAreWanted
  /\ UNCHANGED << pointer, visor, call, lastPoint, answer, snap >>

LEMMA WantLeft ==
  ASSUME FallbackTypeOK, Frame("no")
  PROVE  want' = want \/ PausesAreWanted
<1>1. CASE Judged.moved /\ SeenPhase # "off"
  <2>1. PICK fired : fired = (Judged.moved /\ SeenPhase = "running")
    OBVIOUS
  <2>2. want' = WithoutResume(want) \o (IF fired THEN << "pause" >> ELSE << >>)
    BY <1>1, <2>1 DEF Frame
  <2>3. WithoutResume(want) \in Seq({"pause"})
    BY WithoutResumeIsPauses DEF FallbackTypeOK
  <2>4. << "pause" >> \in Seq({"pause"}) /\ << >> \in Seq({"pause"})
    OBVIOUS
  <2>5. CASE fired
    BY <2>2, <2>3, <2>4, <2>5 DEF PausesAreWanted
  <2>6. CASE ~fired
    BY <2>2, <2>3, <2>4, <2>6 DEF PausesAreWanted
  <2> QED
    BY <2>5, <2>6
<1>2. CASE ~(Judged.moved /\ SeenPhase # "off")
  BY <1>2 DEF Frame
<1> QED
  BY <1>1, <1>2

LEMMA JudgedCompares ==
  ASSUME FallbackTypeOK, ViewIsSound(snap), Judged.by \in {"drive", "button"}
  PROVE  Compares
<1>1. SeenPhase \in {"off", "running", "paused"}
  BY FrameTypes
<1>2. SeenPhase # "off"
  BY OffJudgement
<1>3. ~Waits(track)
  BY <1>2, WaitJudgement
<1>4. ~(SeenPhase = "paused" \/ UsableDrives(CutOff) = {})
  BY <1>2, <1>3, BaselineJudgement
<1> QED
  BY <1>1, <1>2, <1>3, <1>4 DEF Compares

LEMMA FrameLeavesNotes ==
  ASSUME FallbackTypeOK, ViewIsSound(snap), NEW resume \in {"no", "timer", "continue"}, Frame(resume)
  PROVE  NotesLeft(resume)
<1>1. /\ polled' = FALSE /\ framed' = TRUE
      /\ UNCHANGED << pointer, visor, call, lastPoint, answer, snap >>
      /\ excused' = IF resume # "no" THEN {} ELSE excused
      /\ judged' = IF Judged.by \in {"drive", "button"} THEN TheDrive(CutOff).injectSeq ELSE judged
      /\ resumes' = [seen |-> snap.resumeSeq,
                     after |-> IF resume = "no" THEN CutOff
                               ELSE IF resumes.seen < snap.resumeSeq
                                    THEN resumes.seen ELSE snap.resumeSeq]
  BY DEF Frame
<1>2. resume # "no" => PauseIsSeen
  BY DEF Frame
<1>3. judged' = judged \/ (Compares /\ judged' = TheDrive(CutOff).injectSeq)
  BY <1>1, JudgedCompares
<1>4. \/ age' = age /\ (\A d \in snap.drive : d.injectSeq = age.of)
      \/ \E d \in snap.drive : d.injectSeq # age.of /\ age'.of = d.injectSeq
  BY DEF Frame
<1>5. resumes.seen \in Nat /\ CutOff \in Nat \cup {Unset} /\ snap.resumeSeq \in Nat
  BY FrameTypes DEF FallbackTypeOK
<1>6. CASE resume = "no"
  <2>1. resumes' = [seen |-> snap.resumeSeq, after |-> CutOff]
    BY <1>1, <1>6
  <2>2. resumes' \in [seen : Nat, after : Nat \cup {Unset}] /\ resumes'.after = CutOff
    BY <1>5, <2>1
  <2>3. want' = want \/ PausesAreWanted
    BY <1>6, WantLeft
  <2> QED
    BY <1>1, <1>3, <1>4, <1>6, <2>2, <2>3 DEF NotesLeft
<1>7. CASE resume # "no"
  <2>1. PauseIsSeen
    BY <1>2, <1>7
  <2>2. resumes' = [seen |-> snap.resumeSeq, after |-> snap.resumeSeq]
    BY <1>1, <1>5, <1>7, <2>1 DEF PauseIsSeen
  <2>3. resumes' \in [seen : Nat, after : Nat \cup {Unset}] /\ resumes'.after = snap.resumeSeq
    BY <1>5, <2>2
  <2>4. want' = << "resume" >>
    <3>1. want' = Append(want, "resume")
      BY <1>7 DEF Frame
    <3> QED
      BY <2>1, <3>1 DEF PauseIsSeen
  <2> QED
    BY <1>1, <1>3, <1>4, <1>7, <2>1, <2>3, <2>4 DEF NotesLeft, PauseIsSeen
<1> QED
  BY <1>6, <1>7

LEMMA FrameKeepsTypes ==
  ASSUME FallbackTypeOK, ViewIsSound(snap), NEW resume \in {"no", "timer", "continue"}, Frame(resume)
  PROVE  FallbackTypeOK'
<1>1. TrackLeft(resume) /\ NotesLeft(resume)
  BY FrameLeavesTrack, FrameLeavesNotes
<1>2. /\ pointer' \in [at : Places, user : BOOLEAN, call : BOOLEAN]
      /\ visor' \in PolledViews /\ snap' \in PolledViews /\ answer' \subseteq PolledViews
      /\ call' \in Calls /\ lastPoint' \subseteq Places
  BY <1>1 DEF NotesLeft, FallbackTypeOK
<1>3. want' \in Seq({"pause", "resume"})
  <2>1. CASE want' = want
    BY <2>1 DEF FallbackTypeOK
  <2>2. CASE PausesAreWanted
    <3>1. {"pause"} \subseteq {"pause", "resume"}
      OBVIOUS
    <3> QED
      BY <2>2, <3>1 DEF PausesAreWanted
  <2>3. CASE want' = << "resume" >>
    BY <2>3
  <2> QED
    BY <1>1, <2>1, <2>2, <2>3 DEF NotesLeft
<1>4. {polled', framed'} \subseteq BOOLEAN /\ excused' \subseteq Excuses
  BY <1>1 DEF NotesLeft, FallbackTypeOK
<1>5. phase' \in {"off", "running", "paused"}
  <2>1. \/ phase' = "running" \/ phase' = "paused" \/ phase' = SeenPhase
    BY DEF Frame
  <2> QED
    BY <2>1, FrameTypes
<1>6. /\ track' \in Tracks /\ (track'.blocked => track'.openFor = Unset)
      /\ resumes' \in [seen : Nat, after : Nat \cup {Unset}]
  BY <1>1 DEF TrackLeft, NotesLeft
<1>7. judged' \in Nat /\ unjudged' \in Nat
  <2>1. Compares => TheDrive(CutOff) \in snap.drive
    BY TheDriveIsUsable DEF Compares, UsableDrives
  <2>2. snap.drive \subseteq Drives
    BY FrameTypes
  <2>3. unjudged' \in {0, unjudged}
    BY DEF Frame
  <2> QED
    BY <1>1, <2>1, <2>2, <2>3 DEF NotesLeft, FallbackTypeOK, Drives
<1>8. age' \in [of : Nat, ticks : 0..(SettleTicks + 1)]
  <2>1. \/ age' = age
        \/ \E d \in snap.drive : age' = [of |-> d.injectSeq, ticks |-> 0]
    BY DEF Frame
  <2>2. \A d \in snap.drive : d.injectSeq \in Nat
    BY FrameTypes DEF Drives
  <2>3. 0 \in 0..(SettleTicks + 1)
    BY FrameTypes
  <2>4. CASE age' = age
    BY <2>4 DEF FallbackTypeOK
  <2>5. CASE \E d \in snap.drive : age' = [of |-> d.injectSeq, ticks |-> 0]
    BY <2>2, <2>3, <2>5
  <2> QED
    BY <2>1, <2>4, <2>5
<1>9. spent' \in [calls : 0..MaxCalls, acts : 0..MaxUserActs, resumes : 0..MaxResumes,
                  clients : 0..MaxClients]
  <2>1. spent' = spent \/ Spend("resumes")
    BY DEF Frame
  <2> QED
    BY <2>1, SpendCounts DEF FallbackTypeOK
<1> QED
  BY <1>2, <1>3, <1>4, <1>5, <1>6, <1>7, <1>8, <1>9 DEF FallbackTypeOK, Tracks

LEMMA FrameKeepsViews ==
  ASSUME FallbackInv, NEW resume \in {"no", "timer", "continue"}, Frame(resume)
  PROVE  ViewInv'
<1>1. FallbackTypeOK /\ ViewIsSound(snap)
  BY DEF FallbackInv, ViewInv, ViewsAreSound
<1>2. UNCHANGED << pointer, visor, call, answer, snap >>
  BY DEF Frame
<1>3. ViewsAreSound' /\ ViewsAreOrdered' /\ CallIsShown'
  BY <1>2 DEF FallbackInv, ViewInv, ViewsAreSound, ViewsAreOrdered, CallIsShown
<1> QED
  BY <1>1, <1>3, FrameKeepsTypes DEF ViewInv

LEMMA FrameKeepsNotes ==
  ASSUME FallbackInv, NEW resume \in {"no", "timer", "continue"}, Frame(resume)
  PROVE  NoteInv'
<1>1. FallbackTypeOK /\ ViewIsSound(snap) /\ IsLater(visor, snap)
  BY DEF FallbackInv, ViewInv, ViewsAreSound, ViewsAreOrdered
<1>2. TrackLeft(resume) /\ NotesLeft(resume)
  BY <1>1, FrameLeavesTrack, FrameLeavesNotes
<1>3. /\ snap \in PolledViews /\ visor \in PolledViews /\ snap.injectSeq \in Nat
      /\ UNCHANGED << visor, snap, lastPoint >>
  BY <1>1, <1>2, CallIsTyped, FrameTypes DEF NotesLeft
<1>4. \A d \in snap.drive : IsBehind(d.injectSeq, snap)
  BY <1>1 DEF ViewIsSound
<1>5. NotesAreOld'
  <2>1. IsBehind(track'.settled, snap)
    <3>1. IsBehind(0, snap) /\ IsBehind(track.settled, snap)
          /\ (~snap.injecting => IsBehind(snap.injectSeq, snap))
      BY <1>1, <1>3 DEF ViewIsSound, IsBehind, FallbackInv, NoteInv, NotesAreOld
    <3> QED
      BY <1>2, <3>1 DEF TrackLeft
  <2>2. IsBehind(age'.of, snap)
    BY <1>2, <1>4 DEF NotesLeft, FallbackInv, NoteInv, NotesAreOld
  <2>3. IsBehind(judged', snap)
    <3>1. Compares => TheDrive(CutOff) \in snap.drive
      BY TheDriveIsUsable DEF Compares, UsableDrives
    <3> QED
      BY <1>2, <1>4, <3>1 DEF NotesLeft, FallbackInv, NoteInv, NotesAreOld
  <2> QED
    BY <1>3, <2>1, <2>2, <2>3 DEF NotesAreOld
<1>6. CutOffIsOld'
  <2>1. CASE resume = "no"
    <3>1. resumes'.after = CutOff
      BY <1>2, <2>1 DEF NotesLeft
    <3> QED
      BY <1>3, <3>1 DEF CutOffIsOld, CutOff, FallbackInv, NoteInv
  <2>2. CASE resume # "no"
    <3>1. resumes'.after = snap.resumeSeq /\ snap.phase = "paused" /\ snap.resumeSeq \in Nat
      BY <1>1, <1>2, <2>2, FrameTypes DEF NotesLeft
    <3> QED
      BY <1>3, <3>1 DEF CutOffIsOld
  <2> QED
    BY <2>1, <2>2
<1>7. ResumeIsWanted'
  <2>1. CASE resume = "no" /\ want' = want
    <3>1. resumes'.after = CutOff
      BY <1>2, <2>1 DEF NotesLeft
    <3>2. CASE want \in Seq({"pause"})
      BY <2>1, <3>2 DEF ResumeIsWanted
    <3>3. CASE want = << "resume" >> /\ resumes.after = visor.resumeSeq
      <4>1. visor.resumeSeq \in Nat /\ snap.resumeSeq \in Nat /\ snap.resumeSeq <= visor.resumeSeq
        BY <1>1, <1>3 DEF PolledViews, IsLater
      <4>2. resumes.after # Unset
        BY <3>3, <4>1 DEF Unset
      <4>3. snap.phase = "paused"
        BY <3>3, <4>1, <4>2 DEF FallbackInv, NoteInv, CutOffIsOld
      <4>4. CutOff = resumes.after
        BY <1>1, <4>3, FrameTypes DEF CutOff
      <4> QED
        BY <1>3, <2>1, <3>1, <3>3, <4>4 DEF ResumeIsWanted
    <3> QED
      BY <3>2, <3>3 DEF FallbackInv, NoteInv, ResumeIsWanted
  <2>2. CASE PausesAreWanted
    BY <2>2 DEF PausesAreWanted, ResumeIsWanted
  <2>3. CASE resume # "no"
    BY <1>2, <1>3, <2>3 DEF NotesLeft, ResumeIsWanted
  <2> QED
    BY <1>2, <2>1, <2>2, <2>3 DEF NotesLeft
<1>8. LastPointIsKept'
  BY <1>3 DEF LastPointIsKept, FallbackInv, NoteInv
<1> QED
  BY <1>5, <1>6, <1>7, <1>8 DEF NoteInv

\* Time moves the age of what was seen and an open wait.
LEMMA TickShows ==
  ASSUME FallbackInv, Tick
  PROVE  /\ ViewInv'
         /\ age'.of = age.of /\ framed /\ framed' = FALSE
         /\ track'.openFor = IF track.openFor \in 0..(HoldTicks - 1) THEN track.openFor + 1
                             ELSE track.openFor
         /\ track'.hold = track.hold /\ track'.baseline = track.baseline
         /\ track'.ignore = track.ignore /\ track'.settled = track.settled
         /\ UNCHANGED << pointer, visorVars, answer, snap, polled, phase, resumes,
                         excused, judged >>
<1>1. /\ FallbackTypeOK /\ track \in Tracks /\ HoldTicks \in Nat /\ SettleTicks \in Nat
      /\ age \in [of : Nat, ticks : 0..(SettleTicks + 1)]
  BY FrameTypes DEF FallbackInv, ViewInv, FallbackTypeOK
<1>2. PICK o : o = (IF track.openFor \in 0..(HoldTicks - 1) THEN track.openFor + 1 ELSE track.openFor)
  OBVIOUS
<1>3. PICK n : n = (IF age.ticks > SettleTicks THEN age.ticks ELSE age.ticks + 1)
  OBVIOUS
<1>4. o \in Unset..HoldTicks /\ n \in 0..(SettleTicks + 1)
  BY <1>1, <1>2, <1>3 DEF Tracks, Unset
<1>5. track' = [track EXCEPT !.openFor = o] /\ age' = [age EXCEPT !.ticks = n]
  BY <1>2, <1>3 DEF Tick
<1>6. /\ track' \in Tracks /\ track'.openFor = o /\ track'.hold = track.hold
      /\ track'.baseline = track.baseline /\ track'.ignore = track.ignore
      /\ track'.settled = track.settled /\ track'.blocked = track.blocked
  BY <1>1, <1>4, <1>5 DEF Tracks
<1>7. age' \in [of : Nat, ticks : 0..(SettleTicks + 1)] /\ age'.of = age.of
  BY <1>1, <1>4, <1>5
<1>8. track'.blocked => track'.openFor = Unset
  BY <1>1, <1>2, <1>6, FrameTypes DEF Unset
<1>9. /\ UNCHANGED << pointer, visorVars, answer, snap, polled, phase, resumes, excused, judged, spent >>
      /\ framed /\ framed' = FALSE /\ unjudged' \in Nat
  BY <1>1, SMTT(60) DEF Tick, FallbackTypeOK
<1>10. FallbackTypeOK'
  BY <1>1, <1>6, <1>7, <1>8, <1>9 DEF FallbackTypeOK, visorVars, Tracks
<1>11. ViewsAreSound' /\ ViewsAreOrdered' /\ CallIsShown'
  BY <1>9 DEF FallbackInv, ViewInv, ViewsAreSound, ViewsAreOrdered, CallIsShown, visorVars
<1> QED
  BY <1>2, <1>6, <1>7, <1>9, <1>10, <1>11 DEF ViewInv

-----------------------------------------------------------------------------
(* NoteInv, outside a frame.                                               *)

\* A drive does not count only while the visor has not heard of the resume.
LEMMA CutOffIsPaused ==
  ASSUME FallbackInv, resumes.after = visor.resumeSeq
  PROVE  visor.phase = "paused"
<1>1. /\ visor.resumeSeq \in Nat /\ snap.resumeSeq \in Nat /\ snap.resumeSeq <= visor.resumeSeq
      /\ IsLater(visor, snap)
  BY CallIsTyped, FrameTypes DEF FallbackInv, ViewInv, ViewsAreOrdered, IsLater
<1>2. resumes.after # Unset
  BY <1>1 DEF Unset
<1>3. snap.phase = "paused" /\ snap.resumeSeq = visor.resumeSeq
  BY <1>1, <1>2 DEF FallbackInv, NoteInv, CutOffIsOld
<1> QED
  BY <1>1, <1>3 DEF IsLater

LEMMA CutOffIsNotAhead ==
  ASSUME FallbackInv, resumes.after # Unset
  PROVE  resumes.after \in Nat /\ resumes.after <= visor.resumeSeq
<1>1. /\ visor.resumeSeq \in Nat /\ snap.resumeSeq \in Nat /\ snap.resumeSeq <= visor.resumeSeq
      /\ resumes.after \in Nat
  BY CallIsTyped, FrameTypes DEF FallbackInv, ViewInv, ViewsAreOrdered, IsLater
<1> QED
  BY <1>1 DEF FallbackInv, NoteInv, CutOffIsOld

\* A step of the visor leaves the notes of the frames alone.
LEMMA VisorKeepsNotes ==
  ASSUME FallbackInv, UNCHANGED << want, companionVars >>, visor'.resumeSeq = visor.resumeSeq,
         LastPointIsKept'
  PROVE  NoteInv'
BY DEF companionVars, FallbackInv, NoteInv, NotesAreOld, CutOffIsOld, ResumeIsWanted

LEMMA RecordKeepsNotes ==
  ASSUME FallbackInv, NEW p \in Places, NEW known \in BOOLEAN, Records(p, known)
  PROVE  NoteInv'
<1>1. /\ UNCHANGED << want, companionVars >> /\ lastPoint' = IF known THEN {p} ELSE lastPoint
      /\ visor'.resumeSeq = visor.resumeSeq /\ visor'.drive = {DriveOf(p, known)}
      /\ DriveOf(p, known).known = known
  BY RecordShows, DriveIsTyped DEF Records, FallbackInv, ViewInv
<1>2. LastPointIsKept'
  <2>1. CASE known
    BY <1>1, <2>1 DEF LastPointIsKept
  <2>2. CASE ~known
    BY <1>1, <2>2 DEF LastPointIsKept
  <2> QED
    BY <2>1, <2>2
<1> QED
  BY <1>1, <1>2, VisorKeepsNotes

LEMMA HearingKeepsNotes ==
  ASSUME FallbackInv, VisorHears
  PROVE  NoteInv'
<1>1. /\ UNCHANGED << lastPoint, companionVars >> /\ PhaseMoves(visor, visor')
      /\ want # << >> /\ want' = Tail(want)
  BY HearingShows DEF VisorHears
<1>2. NotesAreOld' /\ CutOffIsOld'
  BY <1>1 DEF companionVars, FallbackInv, NoteInv, NotesAreOld, CutOffIsOld
<1>3. LastPointIsKept'
  BY <1>1 DEF LastPointIsKept, FallbackInv, NoteInv, PhaseMoves
<1>4. CASE want \in Seq({"pause"})
  <2>1. want' \in Seq({"pause"})
    BY <1>1, <1>4
  <2> QED
    BY <1>2, <1>3, <2>1 DEF NoteInv, ResumeIsWanted
<1>5. CASE want = << "resume" >>
  <2>1. want' = << >>
    BY <1>1, <1>5
  <2>2. << >> \in Seq({"pause"})
    OBVIOUS
  <2> QED
    BY <1>2, <1>3, <2>1, <2>2 DEF NoteInv, ResumeIsWanted
<1> QED
  BY <1>4, <1>5 DEF FallbackInv, NoteInv, ResumeIsWanted

LEMMA ClientKeepsNotes ==
  ASSUME FallbackInv, ClientActs
  PROVE  NoteInv'
<1>1. /\ UNCHANGED << lastPoint, want, companionVars >> /\ visor'.drive = {}
      /\ visor.phase # "paused"
  BY ClientShows DEF ClientActs
<1>2. NotesAreOld' /\ CutOffIsOld' /\ LastPointIsKept'
  BY <1>1 DEF companionVars, FallbackInv, NoteInv, NotesAreOld, CutOffIsOld, LastPointIsKept
<1>3. want \in Seq({"pause"})
  BY <1>1, CutOffIsPaused DEF FallbackInv, NoteInv, ResumeIsWanted
<1> QED
  BY <1>1, <1>2, <1>3 DEF NoteInv, ResumeIsWanted

LEMMA ReceiveKeepsNotes ==
  ASSUME FallbackInv, Receive
  PROVE  NoteInv'
<1>1. snap' \in answer /\ UNCHANGED << visor, lastPoint, want, track, age, judged, resumes >>
  BY DEF Receive, visorVars
<1>2. /\ snap \in PolledViews /\ snap' \in PolledViews /\ IsLater(snap', snap)
      /\ track.settled \in Nat /\ age.of \in Nat /\ judged \in Nat
      /\ resumes.after \in Nat \cup {Unset}
  <2>1. snap \in PolledViews /\ answer \subseteq PolledViews
    BY DEF FallbackInv, ViewInv, FallbackTypeOK
  <2>2. IsLater(snap', snap)
    BY <1>1 DEF FallbackInv, ViewInv, ViewsAreOrdered
  <2>3. track.settled \in Nat /\ age.of \in Nat /\ judged \in Nat
    BY DEF FallbackInv, ViewInv, FallbackTypeOK
  <2> QED
    BY <1>1, <2>1, <2>2, <2>3, FrameTypes DEF FallbackInv, ViewInv
<1>3. NotesAreOld'
  BY <1>1, <1>2, BehindStaysBehind DEF FallbackInv, NoteInv, NotesAreOld
<1>4. CutOffIsOld'
  BY <1>1, <1>2 DEF FallbackInv, NoteInv, CutOffIsOld, IsLater, PolledViews
<1>5. ResumeIsWanted' /\ LastPointIsKept'
  BY <1>1 DEF FallbackInv, NoteInv, ResumeIsWanted, LastPointIsKept
<1> QED
  BY <1>3, <1>4, <1>5 DEF NoteInv

LEMMA UserKeepsNotes ==
  ASSUME FallbackInv, UserActs
  PROVE  NoteInv'
BY DEF UserActs, visorVars, companionVars, FallbackInv, NoteInv, NotesAreOld, CutOffIsOld,
       ResumeIsWanted, LastPointIsKept

LEMMA AnswerKeepsNotes ==
  ASSUME FallbackInv, Answer
  PROVE  NoteInv'
BY DEF Answer, visorVars, FallbackInv, NoteInv, NotesAreOld, CutOffIsOld,
       ResumeIsWanted, LastPointIsKept

LEMMA TickKeepsNotes ==
  ASSUME FallbackInv, Tick
  PROVE  NoteInv'
BY TickShows DEF visorVars, FallbackInv, NoteInv, NotesAreOld, CutOffIsOld,
       ResumeIsWanted, LastPointIsKept
-----------------------------------------------------------------------------
(* MoveInv, outside a frame.                                               *)

\* What a step that leaves the companion alone does to the pointer and the drive.
LEMMA BeginKeepsMoves ==
  ASSUME FallbackInv, CallBegins
  PROVE  MoveInv'
<1>1. /\ UNCHANGED << pointer, companionVars, excused >> /\ visor'.drive = visor.drive
      /\ call.pc = "none" /\ call'.pc = "begun" /\ visor.phase # "paused"
  BY BeginShows DEF CallBegins
<1>2. TargetIsReached' /\ IgnoresACall' /\ BaselineIsPointer'
  BY <1>1 DEF companionVars, FallbackInv, MoveInv, TargetIsReached, IgnoresACall,
              BaselineIsPointer, Known, DriveCounts
<1>3. HoldIsEarned'
  BY <1>1 DEF companionVars, FallbackInv, MoveInv, HoldIsEarned, IsPast
<1> QED
  BY <1>2, <1>3 DEF MoveInv

LEMMA PointKeepsMoves ==
  ASSUME FallbackInv, CallPoints
  PROVE  MoveInv'
<1>1. /\ UNCHANGED << visor, companionVars, excused >> /\ call.pc = "begun"
      /\ call'.pc = "pointed" /\ pointer'.user = pointer.user
  BY PointKeepsViews DEF CallPoints
<1>2. TargetIsReached' /\ BaselineIsPointer'
  BY <1>1 DEF TargetIsReached, BaselineIsPointer
<1>3. IgnoresACall'
  BY <1>1 DEF companionVars, FallbackInv, MoveInv, IgnoresACall
<1>4. HoldIsEarned'
  BY <1>1 DEF companionVars, FallbackInv, MoveInv, HoldIsEarned, IsPast
<1> QED
  BY <1>2, <1>3, <1>4 DEF MoveInv

\* A drive that is recorded is newer than all the frames have noted, and counts.
LEMMA RecordKeepsMoves ==
  ASSUME FallbackInv, NEW p \in Places, NEW known \in BOOLEAN, Records(p, known),
         call.pc # "none", ~known => lastPoint = {} /\ call.pc = "begun"
  PROVE  MoveInv'
<1> PICK d : d = DriveOf(p, known)
  OBVIOUS
<1>1. /\ d.at = p /\ d.known = known /\ d.resumeSeq = visor.resumeSeq
      /\ d.injectSeq = visor.injectSeq /\ visor'.drive = {d} /\ visor.phase = "running"
      /\ call'.pc = "none" /\ pointer'.at = pointer.at /\ pointer'.user = pointer.user
      /\ UNCHANGED companionVars
      /\ excused' = {} => excused = {} /\ (known => p = pointer.at)
  <2>1. FallbackTypeOK
    BY DEF FallbackInv, ViewInv
  <2>2. excused' = Excuse("guess", known /\ p # pointer.at) /\ UNCHANGED companionVars
    BY DEF Records
  <2>3. excused' = {} => excused = {} /\ (known => p = pointer.at)
    BY <2>2 DEF Excuse
  <2> QED
    BY <2>1, <2>2, <2>3, RecordShows, DriveIsTyped
<1>2. judged < visor.injectSeq /\ age.of < visor.injectSeq /\ visor.injectSeq \in Nat
      /\ judged \in Nat /\ age.of \in Nat
  <2>1. visor \in PolledViews /\ snap \in PolledViews /\ visor.injecting /\ IsLater(visor, snap)
    BY CallIsTyped, FrameTypes DEF FallbackInv, ViewInv, CallIsShown, ViewsAreOrdered
  <2>2. judged \in Nat /\ age.of \in Nat
    BY DEF FallbackInv, ViewInv, FallbackTypeOK
  <2>3. IsBehind(judged, visor) /\ IsBehind(age.of, visor)
    BY <2>1, <2>2, BehindStaysBehind DEF FallbackInv, NoteInv, NotesAreOld
  <2> QED
    BY <2>1, <2>2, <2>3 DEF IsBehind, PolledViews
<1>3. DriveCounts(d, resumes.after)
  <2>1. resumes.after # visor.resumeSeq
    BY <1>1, CutOffIsPaused
  <2>2. visor.resumeSeq \in Nat
    BY CallIsTyped DEF FallbackInv, ViewInv
  <2> QED
    BY <1>1, <2>1, <2>2, CutOffIsNotAhead DEF DriveCounts
<1>4. resumes' = resumes /\ track' = track /\ age' = age /\ judged' = judged
      /\ UNCHANGED << answer, snap, polled, phase >>
  BY <1>1 DEF companionVars
<1>5. TargetIsReached'
  BY <1>1 DEF TargetIsReached, Known
<1>6. IgnoresACall'
  BY <1>1, <1>4 DEF FallbackInv, MoveInv, IgnoresACall
<1>7. BaselineIsPointer'
  <2>1. SUFFICES ASSUME excused' = {}, ~pointer'.user,
                        \A e \in visor'.drive : Known(e)' => e.injectSeq = judged'
                 PROVE  \A base \in track'.baseline : base.at = pointer'.at /\ base.down = FALSE
    BY DEF BaselineIsPointer
  <2>2. ~known
    BY <1>1, <1>2, <1>3, <1>4, <2>1 DEF Known, DriveCounts
  <2>3. \A e \in visor.drive : ~Known(e)
    BY <2>2 DEF FallbackInv, NoteInv, LastPointIsKept, Known
  <2>4. call.pc # "pointed" /\ excused = {} /\ ~pointer.user
    BY <1>1, <2>1, <2>2
  <2> QED
    BY <1>1, <1>4, <2>3, <2>4 DEF FallbackInv, MoveInv, BaselineIsPointer
<1>8. HoldIsEarned'
  BY <1>1, <1>2, <1>4 DEF FallbackInv, MoveInv, HoldIsEarned, IsPast
<1> QED
  BY <1>5, <1>6, <1>7, <1>8 DEF MoveInv

LEMMA FailKeepsMoves ==
  ASSUME FallbackInv, CallFails
  PROVE  MoveInv'
<1>1. /\ visor'.drive = visor.drive /\ pointer'.at = pointer.at /\ pointer'.user = pointer.user
      /\ UNCHANGED companionVars
      /\ excused' = {} => excused = {} /\ call.pc # "pointed"
  <2>1. excused' = Excuse("call", call.pc = "pointed") /\ UNCHANGED companionVars
    BY DEF CallFails
  <2> QED
    BY <2>1, FailShows DEF Excuse
<1>2. resumes' = resumes /\ track' = track /\ age' = age /\ judged' = judged
      /\ UNCHANGED << answer, snap, polled, phase >>
  BY <1>1 DEF companionVars
<1>3. TargetIsReached' /\ IgnoresACall' /\ BaselineIsPointer'
  BY <1>1, <1>2 DEF FallbackInv, MoveInv, TargetIsReached, IgnoresACall, BaselineIsPointer,
                    Known, DriveCounts
<1>4. HoldIsEarned'
  BY <1>1, <1>2 DEF FallbackInv, MoveInv, HoldIsEarned, IsPast
<1> QED
  BY <1>3, <1>4 DEF MoveInv

\* A resume the visor hears of drops a drive that did not count any more.
LEMMA HearingDrops ==
  ASSUME FallbackInv, VisorHears
  PROVE  \/ visor'.drive = visor.drive
         \/ visor'.drive = {} /\ (\A d \in visor.drive : ~Known(d)) /\ call.pc = "none"
<1>1. visor \in PolledViews /\ visor.resumeSeq \in Nat
  BY CallIsTyped DEF FallbackInv, ViewInv
<1>2. CASE Head(want) = "resume" /\ visor.phase = "paused"
  <2>1. call.pc = "none" /\ visor'.drive = {}
    BY <1>1, <1>2, ReopenedShows DEF VisorHears
  <2>2. resumes.after = visor.resumeSeq
    <3>1. want # << >>
      BY DEF VisorHears
    <3>2. want \notin Seq({"pause"})
      BY <1>2, <3>1
    <3> QED
      BY <3>2 DEF FallbackInv, NoteInv, ResumeIsWanted
  <2>3. \A d \in visor.drive : d.resumeSeq = visor.resumeSeq
    BY DEF FallbackInv, ViewInv, ViewsAreSound, ViewIsSound
  <2> QED
    BY <1>1, <2>1, <2>2, <2>3 DEF Known, DriveCounts, Unset
<1>3. CASE ~(Head(want) = "resume" /\ visor.phase = "paused")
  <2>1. \/ visor' = [visor EXCEPT !.phase = "paused"]
        \/ visor' = visor
    BY <1>3 DEF VisorHears
  <2> QED
    BY <1>1, <2>1 DEF PolledViews
<1> QED
  BY <1>2, <1>3

LEMMA HearingKeepsMoves ==
  ASSUME FallbackInv, VisorHears
  PROVE  MoveInv'
<1>1. /\ UNCHANGED << pointer, call, companionVars, excused >>
      /\ visor'.phase \in {"paused", visor.phase} \/ call.pc = "none"
  <2>1. UNCHANGED << pointer, call, companionVars, excused >>
    BY DEF VisorHears
  <2>2. visor'.phase \in {"paused", visor.phase} \/ ~visor.injecting
    BY HearingShows DEF PhaseMoves
  <2> QED
    BY <2>1, <2>2 DEF FallbackInv, ViewInv, CallIsShown
<1>2. resumes' = resumes /\ track' = track /\ age' = age /\ judged' = judged
      /\ UNCHANGED << answer, snap, polled, phase >>
  BY <1>1 DEF companionVars
<1>3. TargetIsReached' /\ IgnoresACall' /\ BaselineIsPointer'
  <2>1. CASE visor'.drive = visor.drive
    BY <1>1, <1>2, <2>1 DEF FallbackInv, MoveInv, TargetIsReached, IgnoresACall,
                            BaselineIsPointer, Known, DriveCounts
  <2>2. CASE visor'.drive = {} /\ (\A d \in visor.drive : ~Known(d)) /\ call.pc = "none"
    BY <1>1, <1>2, <2>2 DEF FallbackInv, MoveInv, TargetIsReached, IgnoresACall, BaselineIsPointer
  <2> QED
    BY <2>1, <2>2, HearingDrops
<1>4. HoldIsEarned'
  BY <1>1, <1>2, HearingDrops DEF FallbackInv, MoveInv, HoldIsEarned, IsPast
<1> QED
  BY <1>3, <1>4 DEF MoveInv

LEMMA ClientKeepsMoves ==
  ASSUME FallbackInv, ClientActs
  PROVE  MoveInv'
<1>1. /\ UNCHANGED << pointer, call, companionVars >> /\ call.pc = "none" /\ visor'.drive = {}
      /\ excused' = {} => /\ excused = {}
                          /\ \A d \in visor.drive : d.known => d.injectSeq = judged
  <2>1. /\ excused' = Excuse("call", \E d \in visor.drive : d.known /\ d.injectSeq # judged)
        /\ UNCHANGED << pointer, call, companionVars >> /\ call.pc = "none"
    BY DEF ClientActs
  <2> QED
    BY <2>1, ClientShows DEF Excuse
<1>2. resumes' = resumes /\ track' = track /\ age' = age /\ judged' = judged
      /\ UNCHANGED << answer, snap, polled, phase >>
  BY <1>1 DEF companionVars
<1>3. TargetIsReached' /\ IgnoresACall' /\ BaselineIsPointer'
  BY <1>1, <1>2 DEF FallbackInv, MoveInv, TargetIsReached, IgnoresACall, BaselineIsPointer, Known
<1>4. HoldIsEarned'
  BY <1>1, <1>2 DEF FallbackInv, MoveInv, HoldIsEarned, IsPast
<1> QED
  BY <1>3, <1>4 DEF MoveInv

LEMMA UserKeepsMoves ==
  ASSUME FallbackInv, UserActs
  PROVE  MoveInv'
<1>1. excused' # {} /\ UNCHANGED << track, phase >>
  BY UserKeepsViews DEF UserActs, companionVars
<1> QED
  BY <1>1 DEF FallbackInv, MoveInv, TargetIsReached, IgnoresACall, BaselineIsPointer, HoldIsEarned

LEMMA AnswerKeepsMoves ==
  ASSUME FallbackInv, Answer
  PROVE  MoveInv'
<1>1. UNCHANGED << pointer, visor, call, snap, polled, phase, track, resumes, age, excused, judged >>
  BY DEF Answer, visorVars
<1>2. TargetIsReached' /\ IgnoresACall' /\ BaselineIsPointer'
  BY <1>1 DEF FallbackInv, MoveInv, TargetIsReached, IgnoresACall, BaselineIsPointer,
              Known, DriveCounts
<1>3. HoldIsEarned'
  <2>1. answer' = {visor} /\ (call.pc = "pointed" => visor.injecting)
    BY DEF Answer, FallbackInv, ViewInv, CallIsShown
  <2>2. track.hold >= 1 \/ (track.hold = 0 /\ polled) => track.hold >= 0
    BY FrameTypes DEF FallbackInv, ViewInv, Tracks, Unset
  <2> QED
    BY <1>1, <2>1, <2>2 DEF FallbackInv, MoveInv, HoldIsEarned, IsPast
<1> QED
  BY <1>2, <1>3 DEF MoveInv

LEMMA ReceiveKeepsMoves ==
  ASSUME FallbackInv, Receive
  PROVE  MoveInv'
<1>1. /\ UNCHANGED << pointer, visor, call, phase, track, resumes, age, excused, judged >>
      /\ snap' \in answer /\ answer' = {}
  BY DEF Receive, visorVars
<1>2. TargetIsReached' /\ IgnoresACall' /\ BaselineIsPointer'
  BY <1>1 DEF FallbackInv, MoveInv, TargetIsReached, IgnoresACall, BaselineIsPointer,
              Known, DriveCounts
<1>3. HoldIsEarned'
  BY <1>1 DEF FallbackInv, MoveInv, HoldIsEarned, IsPast
<1> QED
  BY <1>2, <1>3 DEF MoveInv

LEMMA TickKeepsMoves ==
  ASSUME FallbackInv, Tick
  PROVE  MoveInv'
<1>1. /\ age'.of = age.of /\ track'.hold = track.hold /\ track'.baseline = track.baseline
      /\ track'.ignore = track.ignore
      /\ UNCHANGED << pointer, visor, call, answer, snap, polled, phase, resumes, excused, judged >>
  BY TickShows DEF visorVars
<1>2. TargetIsReached' /\ IgnoresACall' /\ BaselineIsPointer'
  BY <1>1 DEF FallbackInv, MoveInv, TargetIsReached, IgnoresACall, BaselineIsPointer,
              Known, DriveCounts
<1>3. HoldIsEarned'
  BY <1>1 DEF FallbackInv, MoveInv, HoldIsEarned, IsPast
<1> QED
  BY <1>2, <1>3 DEF MoveInv
-----------------------------------------------------------------------------
(* MoveInv in a frame, and the wait.                                       *)

\* Whether a drive counts is the same before and after a frame that ends no pause.
LEMMA CountsAsBefore ==
  ASSUME FallbackInv, NEW d \in snap.drive \cup visor.drive
  PROVE  DriveCounts(d, CutOff) <=> DriveCounts(d, resumes.after)
<1>1. /\ snap.resumeSeq \in Nat /\ visor.resumeSeq \in Nat /\ snap.resumeSeq <= visor.resumeSeq
      /\ d.resumeSeq \in {snap.resumeSeq, visor.resumeSeq}
      /\ resumes.after \in Nat \cup {Unset}
      /\ SeenPhase = "off" <=> snap.phase = "off"
  BY CallIsTyped, FrameTypes
     DEF FallbackInv, ViewInv, ViewsAreOrdered, IsLater, ViewsAreSound, ViewIsSound
<1>2. CASE SeenPhase = "off" /\ resumes.after # Unset
  <2>1. resumes.after <= snap.resumeSeq /\ resumes.after # snap.resumeSeq /\ resumes.after \in Nat
    BY <1>1, <1>2 DEF FallbackInv, NoteInv, CutOffIsOld
  <2> QED
    BY <1>1, <1>2, <2>1 DEF DriveCounts, CutOff
<1>3. CASE ~(SeenPhase = "off" /\ resumes.after # Unset)
  BY <1>3 DEF CutOff
<1> QED
  BY <1>2, <1>3

\* What a frame that holds the pointer to be off its drive has seen.
LEMMA HoldFacts ==
  ASSUME FallbackInv, NEW d \in snap.drive
  PROVE  /\ Hold(track, d) >= 0 => age.of = d.injectSeq /\ pointer.at # d.at
         /\ Hold(track, d) >= 1 => track.hold >= 1 \/ (track.hold = 0 /\ polled)
<1>1. /\ track.hold \in Unset..ConfirmEpochs /\ ConfirmEpochs \in Nat /\ SettleTicks \in Nat
      /\ age.ticks \in Nat
  BY FrameTypes DEF FallbackInv, ViewInv, FallbackTypeOK, Tracks
<1>2. Hold(track, d) >= 0 => Displaced(d)
  BY <1>1 DEF Hold, Unset
<1>3. Displaced(d) => age.of = d.injectSeq /\ pointer.at # d.at
  BY <1>1 DEF Displaced, Age
<1>4. Hold(track, d) >= 1 => track.hold >= 1 \/ (track.hold = 0 /\ polled)
  BY <1>1 DEF Hold, Unset
<1> QED
  BY <1>2, <1>3, <1>4

\* A confirmed displacement pauses.
LEMMA ConfirmedPauses ==
  ASSUME FallbackTypeOK, ViewIsSound(snap), Frame("no"), Compares,
         Hold(track, TheDrive(CutOff)) = ConfirmEpochs
  PROVE  phase' = "paused"
<1>1. Confirmed(track, TheDrive(CutOff))
  BY FrameTypes DEF Confirmed
<1>2. Judged.moved
  BY <1>1, DriveJudgement DEF Compares
<1> QED
  BY <1>2 DEF Frame, Compares

LEMMA FrameKeepsMoves ==
  ASSUME FallbackInv, NEW resume \in {"no", "timer", "continue"}, Frame(resume)
  PROVE  MoveInv'
<1>1. FallbackTypeOK /\ ViewIsSound(snap) /\ IsLater(visor, snap)
  BY DEF FallbackInv, ViewInv, ViewsAreSound, ViewsAreOrdered
<1>2. TrackLeft(resume) /\ NotesLeft(resume)
  BY <1>1, FrameLeavesTrack, FrameLeavesNotes
<1>3. /\ UNCHANGED << pointer, visor, call, answer, snap >> /\ polled' = FALSE
      /\ resume = "no" => resumes'.after = CutOff /\ excused' = excused
      /\ resume # "no" => resumes'.after = visor.resumeSeq /\ visor.phase = "paused"
  BY <1>2 DEF NotesLeft
<1>4. /\ visor.resumeSeq \in Nat /\ \A d \in visor.drive : d.resumeSeq = visor.resumeSeq
      /\ visor \in PolledViews /\ snap \in PolledViews
  BY <1>1, CallIsTyped, FrameTypes DEF FallbackInv, ViewInv, ViewsAreSound, ViewIsSound
<1>5. ASSUME resume = "no", NEW d \in visor.drive
      PROVE  Known(d)' <=> Known(d)
  <2>1. DriveCounts(d, CutOff) <=> DriveCounts(d, resumes.after)
    BY CountsAsBefore
  <2>2. resumes'.after = CutOff
    BY <1>3, <1>5
  <2> QED
    BY <2>1, <2>2 DEF Known, DriveCounts
<1>6. TargetIsReached'
  <2>1. CASE resume = "no"
    BY <1>3, <1>5, <2>1 DEF FallbackInv, MoveInv, TargetIsReached
  <2>2. CASE resume # "no"
    <3>1. \A d \in visor.drive : ~Known(d)'
      BY <1>3, <1>4, <2>2 DEF Known, DriveCounts, Unset
    <3> QED
      BY <1>3, <3>1 DEF TargetIsReached
  <2> QED
    BY <2>1, <2>2
<1>7. pointer.call => call.pc = "pointed"
  BY DEF FallbackInv, ViewInv, CallIsShown
<1>8. IgnoresACall'
  <2>1. CASE resume = "no"
    BY <1>2, <1>3, <2>1 DEF TrackLeft, FallbackInv, MoveInv, IgnoresACall
  <2>2. CASE resume # "no"
    BY <1>2, <1>3, <1>7, <2>2 DEF TrackLeft, IgnoresACall, Sample
  <2> QED
    BY <2>1, <2>2
<1>9. BaselineIsPointer'
  <2>1. CASE AllAre(track'.baseline, Sample)
    <3>1. ~pointer.user /\ call.pc # "pointed" => Sample.down = FALSE
      BY <1>1, <1>7, SampleIsTyped, Zenon DEF Sample, Samples
    <3>2. Sample.at = pointer.at
      BY DEF Sample
    <3> QED
      BY <1>3, <2>1, <3>1, <3>2 DEF AllAre, BaselineIsPointer
  <2>2. CASE resume = "no" /\ SeenPhase # "off" /\ Waits(track) /\ track'.baseline = track.baseline
    <3>1. judged' = judged
      BY <1>2, <2>2 DEF NotesLeft, Compares
    <3> QED
      BY <1>3, <1>5, <2>2, <3>1 DEF FallbackInv, MoveInv, BaselineIsPointer
  <2> QED
    BY <1>2, <2>1, <2>2 DEF TrackLeft
<1>10. HoldIsEarned'
  <2>1. CASE track'.hold = Unset
    BY <1>1, <1>3, <2>1, FrameTypes DEF HoldIsEarned, Unset
  <2>2. CASE resume = "no" /\ Compares /\ track'.hold = Hold(track, TheDrive(CutOff))
    <3> PICK d : d = TheDrive(CutOff)
      OBVIOUS
    <3>1. d \in snap.drive /\ d.known /\ DriveCounts(d, CutOff) /\ SeenPhase = "running"
      BY <2>2, TheDriveIsUsable DEF Compares, UsableDrives
    <3>2. track'.hold = Hold(track, d) /\ excused' = excused
      BY <1>3, <2>2
    <3>3. track'.hold = ConfirmEpochs => phase' = "paused"
      BY <1>1, <2>2, ConfirmedPauses
    <3>4. ASSUME excused = {}, Hold(track, d) >= 0
          PROVE  /\ age' = age
                 /\ call.pc = "pointed" \/ \A e \in visor.drive : e.injectSeq # age.of
      <4>1. age.of = d.injectSeq /\ pointer.at # d.at
        BY <3>1, <3>4, HoldFacts
      <4>2. \A e \in snap.drive : e = d
        BY <1>1, <3>1 DEF ViewIsSound
      <4>3. age' = age
        BY <1>2, <4>1, <4>2 DEF NotesLeft
      <4>4. ASSUME call.pc # "pointed", NEW e \in visor.drive, e.injectSeq = age.of
            PROVE  FALSE
        <5>1. e = d
          BY <1>1, <1>4, <3>1, <4>1, <4>4, LaterDrive
        <5>2. Known(e)
          BY <3>1, <5>1, CountsAsBefore DEF Known
        <5> QED
          BY <3>4, <4>1, <4>4, <5>1, <5>2 DEF FallbackInv, MoveInv, TargetIsReached
      <4> QED
        BY <4>3, <4>4
    <3>5. ASSUME excused = {}, Hold(track, d) >= 1
          PROVE  \A a \in answer : IsPast(a)
      BY <3>1, <3>5, HoldFacts DEF FallbackInv, MoveInv, HoldIsEarned
    <3>6. Hold(track, d) \in Unset..ConfirmEpochs
      BY <1>1, HoldIsTyped
    <3>7. Hold(track, d) >= 1 => Hold(track, d) >= 0
      BY <3>6, FrameTypes, <1>1 DEF Unset
    <3> QED
      BY <1>3, <3>2, <3>3, <3>4, <3>5, <3>7 DEF HoldIsEarned, IsPast
  <2> QED
    BY <1>2, <2>1, <2>2 DEF TrackLeft
<1> QED
  BY <1>6, <1>8, <1>9, <1>10 DEF MoveInv

LEMMA FrameKeepsCount ==
  ASSUME FallbackInv, NEW resume \in {"no", "timer", "continue"}, Frame(resume)
  PROVE  WaitIsCounted'
<1>1. FallbackTypeOK /\ ViewIsSound(snap)
  BY DEF FallbackInv, ViewInv, ViewsAreSound
<1>2. TrackLeft(resume) /\ framed'
  BY <1>1, FrameLeavesTrack DEF Frame
<1>3. /\ track'.openFor \in Unset..HoldTicks /\ track.openFor \in Unset..HoldTicks
      /\ HoldTicks \in Nat /\ unjudged \in Nat
  BY <1>1, <1>2, FrameTypes DEF TrackLeft, Tracks, FallbackTypeOK
<1>4. CASE SeenPhase # "off" /\ Waits(track)
  <2>1. unjudged' = unjudged
    BY <1>4 DEF Frame
  <2>2. track'.openFor = OpenFor(track) /\ OpenFor(track) < HoldTicks
    BY <1>2, <1>4 DEF TrackLeft
  <2>3. unjudged <= OpenFor(track) + 1 /\ OpenFor(track) >= 0
    BY <1>3 DEF OpenFor, FallbackInv, WaitIsCounted, Unset
  <2> QED
    BY <1>2, <1>3, <2>1, <2>2, <2>3 DEF WaitIsCounted, Unset
<1>5. CASE ~(SeenPhase # "off" /\ Waits(track))
  <2>1. unjudged' = 0
    BY <1>5 DEF Frame
  <2> QED
    BY <1>2, <1>3, <2>1 DEF WaitIsCounted, Unset
<1> QED
  BY <1>4, <1>5

LEMMA TickKeepsCount ==
  ASSUME FallbackInv, Tick
  PROVE  WaitIsCounted'
<1>1. /\ framed /\ framed' = FALSE
      /\ track'.openFor = IF track.openFor \in 0..(HoldTicks - 1) THEN track.openFor + 1
                          ELSE track.openFor
  BY TickShows
<1>2. unjudged' = IF unjudged > HoldTicks + 1 THEN unjudged ELSE unjudged + 1
  BY DEF Tick
<1>3. /\ track.openFor \in Unset..HoldTicks /\ HoldTicks \in Nat /\ HoldTicks > 0 /\ unjudged \in Nat
  BY FrameTypes DEF FallbackInv, ViewInv, Tracks, FallbackTypeOK
<1> QED
  BY <1>1, <1>2, <1>3 DEF FallbackInv, WaitIsCounted, Unset

LEMMA OthersKeepCount ==
  ASSUME FallbackInv, UNCHANGED << track, framed, unjudged >>
  PROVE  WaitIsCounted'
BY DEF FallbackInv, WaitIsCounted

-----------------------------------------------------------------------------
(* The invariant, and what follows from it.                                *)

LEMMA InitHolds == FallbackInit => FallbackInv
<1> SUFFICES ASSUME FallbackInit PROVE FallbackInv
  OBVIOUS
<1>1. /\ NothingYet \in PolledViews /\ NothingYet.drive = {} /\ ~NothingYet.injecting
      /\ NothingYet.injectSeq = 0 /\ NothingYet.settledSeq = 0 /\ NothingYet.resumeSeq = 0
      /\ NothingYet.phase = "off"
  BY DEF NothingYet, PolledViews
<1>2. NoCall \in Calls /\ NoCall.pc = "none"
  BY FallbackAssumption DEF NoCall, Calls
<1>3. visor = NothingYet /\ snap = NothingYet /\ answer = {} /\ call = NoCall /\ track = EmptyTrack
      /\ pointer = [at |-> Home, user |-> FALSE, call |-> FALSE] /\ age = [of |-> 0, ticks |-> 0]
      /\ resumes = [seen |-> 0, after |-> Unset] /\ judged = 0 /\ unjudged = 0 /\ excused = {}
      /\ want = << >> /\ lastPoint = {} /\ polled = FALSE /\ framed = TRUE /\ phase = "off"
  BY DEF FallbackInit
<1>4. FallbackTypeOK
  <2>1. pointer \in [at : Places, user : BOOLEAN, call : BOOLEAN]
    BY <1>3, FallbackAssumption
  <2>2. track \in Tracks /\ track.openFor = Unset
    BY <1>3, EmptyIsTyped
  <2>3. age \in [of : Nat, ticks : 0..(SettleTicks + 1)]
    BY <1>3, FallbackAssumption
  <2>4. spent \in [calls : 0..MaxCalls, acts : 0..MaxUserActs, resumes : 0..MaxResumes,
                   clients : 0..MaxClients]
    BY FallbackAssumption DEF FallbackInit
  <2>5. resumes \in [seen : Nat, after : Nat \cup {Unset}] /\ want \in Seq({"pause", "resume"})
    BY <1>3
  <2> QED
    BY <1>1, <1>2, <1>3, <2>1, <2>2, <2>3, <2>4, <2>5 DEF FallbackTypeOK, Tracks
<1>5. ViewsAreSound
  BY <1>1, <1>3 DEF ViewsAreSound, ViewIsSound
<1>6. ViewsAreOrdered
  BY <1>1, <1>3, LaterViewIsReflexive DEF ViewsAreOrdered
<1>7. CallIsShown
  BY <1>1, <1>2, <1>3 DEF CallIsShown
<1>8. NoteInv
  <2>1. track.settled = 0 /\ age.of = 0 /\ resumes.after = Unset
    BY <1>3, EmptyIsTyped
  <2>2. want \in Seq({"pause"})
    BY <1>3
  <2> QED
    BY <1>1, <1>3, <2>1, <2>2
       DEF NoteInv, NotesAreOld, IsBehind, CutOffIsOld, ResumeIsWanted, LastPointIsKept
<1>9. MoveInv
  <2>1. track.baseline = {} /\ track.hold = Unset /\ ~track.ignore
    BY <1>3, EmptyIsTyped
  <2> QED
    BY <1>1, <1>3, <2>1, FallbackAssumption
       DEF MoveInv, TargetIsReached, IgnoresACall, BaselineIsPointer, HoldIsEarned, Unset
<1>10. WaitIsCounted
  BY <1>3, EmptyIsTyped DEF WaitIsCounted
<1> QED
  BY <1>4, <1>5, <1>6, <1>7, <1>8, <1>9, <1>10 DEF FallbackInv, ViewInv

LEMMA VisorActionKeeps ==
  ASSUME FallbackInv, UNCHANGED companionVars, ViewInv', NoteInv', MoveInv'
  PROVE  FallbackInv'
BY OthersKeepCount DEF companionVars, FallbackInv

LEMMA RecordsKeep ==
  ASSUME FallbackInv, MouseRecords \/ TypeRecords
  PROVE  FallbackInv'
<1>1. /\ call.to \in Places /\ Home \in Places /\ pointer.at \in Places /\ lastPoint \subseteq Places
      /\ call.pc # "none"
  BY CallIsTyped, FallbackAssumption
     DEF FallbackInv, ViewInv, FallbackTypeOK, MouseRecords, TypeRecords
<1>2. \E p \in Places, known \in BOOLEAN :
        /\ Records(p, known)
        /\ ~known => lastPoint = {} /\ call.pc = "begun"
  <2>1. CASE MouseRecords
    BY <1>1, <2>1 DEF MouseRecords
  <2>2. CASE TypeRecords
    BY <1>1, <2>2 DEF TypeRecords
  <2> QED
    BY <2>1, <2>2
<1>3. PICK p \in Places, known \in BOOLEAN :
        Records(p, known) /\ (~known => lastPoint = {} /\ call.pc = "begun")
  BY <1>2
<1>4. ViewInv' /\ NoteInv' /\ MoveInv'
  BY <1>1, <1>3, RecordKeepsViews, RecordKeepsNotes, RecordKeepsMoves
<1> QED
  BY <1>3, <1>4, VisorActionKeeps DEF Records

LEMMA StepKeeps == FallbackInv /\ [FallbackNext]_FallbackVars => FallbackInv'
<1> SUFFICES ASSUME FallbackInv, [FallbackNext]_FallbackVars PROVE FallbackInv'
  OBVIOUS
<1>1. CASE CallBegins
  <2>1. UNCHANGED companionVars /\ LastPointIsKept' /\ UNCHANGED want
        /\ visor'.resumeSeq = visor.resumeSeq
    BY <1>1, BeginShows DEF CallBegins, FallbackInv, NoteInv, LastPointIsKept
  <2>2. NoteInv'
    BY <2>1, VisorKeepsNotes
  <2> QED
    BY <1>1, <2>1, <2>2, BeginKeepsViews, BeginKeepsMoves, VisorActionKeeps
<1>2. CASE CallPoints
  <2>1. UNCHANGED companionVars /\ LastPointIsKept' /\ UNCHANGED << want, visor >>
    BY <1>2 DEF CallPoints, FallbackInv, NoteInv, LastPointIsKept
  <2>2. NoteInv'
    BY <2>1, VisorKeepsNotes
  <2> QED
    BY <1>2, <2>1, <2>2, PointKeepsViews, PointKeepsMoves, VisorActionKeeps
<1>3. CASE MouseRecords \/ TypeRecords
  BY <1>3, RecordsKeep
<1>4. CASE CallFails
  <2>1. UNCHANGED companionVars /\ LastPointIsKept' /\ UNCHANGED want
        /\ visor'.resumeSeq = visor.resumeSeq
    BY <1>4, FailShows DEF CallFails, FallbackInv, NoteInv, LastPointIsKept
  <2>2. NoteInv'
    BY <2>1, VisorKeepsNotes
  <2> QED
    BY <1>4, <2>1, <2>2, FailKeepsViews, FailKeepsMoves, VisorActionKeeps
<1>5. CASE VisorHears
  BY <1>5, HearingKeepsViews, HearingKeepsNotes, HearingKeepsMoves, VisorActionKeeps DEF VisorHears
<1>6. CASE ClientActs
  BY <1>6, ClientKeepsViews, ClientKeepsNotes, ClientKeepsMoves, VisorActionKeeps DEF ClientActs
<1>7. CASE UserActs
  BY <1>7, UserKeepsViews, UserKeepsNotes, UserKeepsMoves, VisorActionKeeps DEF UserActs
<1>8. CASE Answer
  BY <1>8, AnswerKeepsViews, AnswerKeepsNotes, AnswerKeepsMoves, OthersKeepCount
     DEF Answer, FallbackInv
<1>9. CASE Receive
  BY <1>9, ReceiveKeepsViews, ReceiveKeepsNotes, ReceiveKeepsMoves, OthersKeepCount
     DEF Receive, FallbackInv
<1>10. CASE Tick
  <2>1. ViewInv' /\ NoteInv' /\ MoveInv' /\ WaitIsCounted'
    BY <1>10, TickShows, TickKeepsNotes, TickKeepsMoves, TickKeepsCount
  <2> QED
    BY <2>1 DEF FallbackInv
<1>11. CASE \E resume \in {"no", "timer", "continue"} : Frame(resume)
  <2>1. ViewInv' /\ NoteInv' /\ MoveInv' /\ WaitIsCounted'
    BY <1>11, FrameKeepsViews, FrameKeepsNotes, FrameKeepsMoves, FrameKeepsCount
  <2> QED
    BY <2>1 DEF FallbackInv
<1>12. CASE UNCHANGED FallbackVars
  <2>1. ViewInv'
    BY <1>12 DEF FallbackVars, FallbackInv, ViewInv, FallbackTypeOK, ViewsAreSound,
                 ViewsAreOrdered, CallIsShown
  <2>2. NoteInv'
    BY <1>12 DEF FallbackVars, FallbackInv, NoteInv, NotesAreOld, CutOffIsOld, ResumeIsWanted,
                 LastPointIsKept
  <2>3. MoveInv'
    BY <1>12 DEF FallbackVars, FallbackInv, MoveInv, TargetIsReached, IgnoresACall,
                 BaselineIsPointer, HoldIsEarned, Known, DriveCounts, IsPast
  <2>4. WaitIsCounted'
    BY <1>12, OthersKeepCount DEF FallbackVars
  <2> QED
    BY <2>1, <2>2, <2>3, <2>4 DEF FallbackInv
<1> QED
  BY <1>1, <1>2, <1>3, <1>4, <1>5, <1>6, <1>7, <1>8, <1>9, <1>10, <1>11, <1>12 DEF FallbackNext

\* Only a frame changes the phase, and only what it judged pauses.
LEMMA PauseIsJudged ==
  ASSUME FallbackInv, FallbackNext, Pauses
  PROVE  Frame("no") /\ Judged.moved /\ SeenPhase = "running" /\ ~Waits(track)
<1>1. SeenPhase = "running" /\ phase' = "paused"
  BY DEF Pauses
<1>2. ViewIsSound(snap) /\ FallbackTypeOK
  BY DEF FallbackInv, ViewInv, ViewsAreSound
<1>3. phase' # phase \/ phase = "paused"
  BY <1>1
<1>4. phase # "paused"
  BY <1>1, <1>2, FrameTypes DEF SeenPhase
<1>5. \E resume \in {"no", "timer", "continue"} : Frame(resume)
  <2>1. CASE CallBegins \/ CallPoints \/ MouseRecords \/ TypeRecords \/ CallFails \/ VisorHears
             \/ ClientActs \/ UserActs \/ Answer \/ Receive \/ Tick
    <3>1. phase' = phase
      BY <2>1 DEF CallBegins, CallPoints, MouseRecords, TypeRecords, Records, CallFails,
                  VisorHears, ClientActs, UserActs, Answer, Receive, Tick, companionVars
    <3> QED
      BY <1>3, <1>4, <3>1
  <2> QED
    BY <2>1 DEF FallbackNext
<1>6. PICK resume \in {"no", "timer", "continue"} : Frame(resume)
  BY <1>5
<1>7. resume = "no" /\ Judged.moved
  BY <1>1, <1>6 DEF Frame
<1>8. ~Waits(track)
  BY <1>1, <1>2, <1>7, WaitJudgement
<1> QED
  BY <1>1, <1>6, <1>7, <1>8

LEMMA PauseIsExcused ==
  ASSUME FallbackInv, FallbackNext, Pauses
  PROVE  \/ excused # {} \/ pointer.user \/ track'.blocked
         \/ Judged.by # "drive" /\ visor.injectSeq > snap.injectSeq
<1>1. Frame("no") /\ Judged.moved /\ SeenPhase = "running" /\ ~Waits(track)
  BY PauseIsJudged
<1>2. /\ FallbackTypeOK /\ ViewIsSound(snap) /\ IsLater(visor, snap)
      /\ visor \in PolledViews /\ snap \in PolledViews
  BY CallIsTyped, FrameTypes DEF FallbackInv, ViewInv, ViewsAreSound, ViewsAreOrdered
<1>3. TrackLeft("no")
  BY <1>1, <1>2, FrameLeavesTrack
<1> SUFFICES ASSUME excused = {}, ~pointer.user, ~track'.blocked,
                    ~(Judged.by # "drive" /\ visor.injectSeq > snap.injectSeq)
             PROVE  FALSE
  OBVIOUS
<1>4. ~snap.injecting
  BY <1>1, <1>3 DEF TrackLeft, FallbackInv, NoteInv, NotesAreOld
<1>5. pointer.call => call.pc = "pointed"
  BY DEF FallbackInv, ViewInv, CallIsShown
<1>6. visor.injecting <=> call.pc # "none"
  BY DEF FallbackInv, ViewInv, CallIsShown
\* With the newest call in hand the visor is quiet and shows no other drive.
<1>7. ASSUME Judged.by # "drive" 
      PROVE  /\ call.pc = "none" /\ Sample.down = FALSE
             /\ \A e \in visor.drive : e \in snap.drive
  <2>1. visor.injectSeq = snap.injectSeq
    BY <1>2, <1>7 DEF IsLater, PolledViews
  <2>2. ~visor.injecting
    BY <1>2, <1>4, <2>1 DEF IsLater
  <2>3. call.pc = "none"
    BY <1>6, <2>2
  <2>4. Sample.down = FALSE
    BY <1>2, <1>5, <2>3, SampleIsTyped, Zenon DEF Sample, Samples
  <2>5. ASSUME NEW e \in visor.drive PROVE e \in snap.drive
    <3>1. IsBehind(e.injectSeq, visor)
      BY <1>2 DEF FallbackInv, ViewInv, ViewsAreSound, ViewIsSound
    <3>2. IsBehind(e.injectSeq, snap)
      BY <1>4, <2>1, <3>1 DEF IsBehind
    <3> QED
      BY <1>2, <3>2 DEF IsLater
  <2> QED
    BY <2>3, <2>4, <2>5
<1>8. CASE UsableDrives(CutOff) = {}
  <2>1. Judged.by = "baseline" /\ BaselineMoved(track)
    BY <1>1, <1>2, <1>8, BaselineJudgement
  <2>2. ~track.ignore
    BY <1>7, <2>1 DEF FallbackInv, MoveInv, IgnoresACall
  <2>3. \A e \in visor.drive : ~Known(e)
    <3>1. ASSUME NEW e \in visor.drive, Known(e) PROVE FALSE
      <4>1. e \in snap.drive
        BY <1>7, <2>1
      <4>2. DriveCounts(e, CutOff)
        BY <3>1, <4>1, CountsAsBefore DEF Known
      <4> QED
        BY <1>8, <3>1, <4>1, <4>2 DEF UsableDrives, Known
    <3> QED
      BY <3>1
  <2>4. \A base \in track.baseline : base.at = pointer.at /\ base.down = FALSE
    BY <1>7, <2>1, <2>3 DEF FallbackInv, MoveInv, BaselineIsPointer
  <2>5. (Sample.down \/ track.ignore) = FALSE
    BY <1>7, <2>1, <2>2
  <2> QED
    BY <2>1, <2>4, <2>5 DEF BaselineMoved, Active
<1>9. CASE UsableDrives(CutOff) # {}
  <2> PICK d : d = TheDrive(CutOff)
    OBVIOUS
  <2>1. /\ d \in UsableDrives(CutOff)
        /\ Judged.by = IF Confirmed(track, d) THEN "drive" ELSE "button"
        /\ Judged.moved = (Confirmed(track, d) \/ (Sample.down /\ ~track.mask))
    BY <1>1, <1>2, <1>9, DriveJudgement
  <2>2. CASE ~Confirmed(track, d)
    BY <1>1, <1>7, <2>1, <2>2
  <2>3. CASE Confirmed(track, d)
    <3>1. d \in snap.drive
      BY <2>1 DEF UsableDrives
    <3>2. track.hold \in Unset..ConfirmEpochs /\ ConfirmEpochs \in Nat /\ ConfirmEpochs >= 2
      BY <1>2, FrameTypes DEF Tracks
    <3>3. track.hold # ConfirmEpochs
      <4>1. phase # "paused"
        BY <1>1, <1>2, FrameTypes DEF SeenPhase
      <4> QED
        BY <4>1 DEF FallbackInv, MoveInv, HoldIsEarned
    <3>4. polled /\ track.hold >= 1
      BY <2>3, <3>2, <3>3 DEF Confirmed, Hold, Unset
    <3>5. IsPast(snap)
      BY <3>4 DEF FallbackInv, MoveInv, HoldIsEarned
    <3>6. Hold(track, d) >= 0
      BY <1>2, <2>3, <3>2, HoldIsTyped DEF Confirmed, Unset
    <3>7. age.of = d.injectSeq
      BY <3>1, <3>6, HoldFacts
    <3> QED
      BY <1>4, <3>1, <3>5, <3>7 DEF IsPast
  <2> QED
    BY <2>2, <2>3
<1> QED
  BY <1>8, <1>9

\* What holds of the fallback in every reachable state (companion/src/automation.rs).
THEOREM FallbackIsSound == FallbackSpec => []FallbackInv
BY InitHolds, StepKeeps, PTL DEF FallbackSpec

\* A pause of the fallback comes for somebody else's use of the pointer alone, and
\* no stream of calls puts off the judgement of a frame (classify_fallback).
THEOREM FallbackPausesForTheUser == FallbackSpec => PausesForTheUser
<1>1. FallbackInv /\ [FallbackNext]_FallbackVars =>
        [Pauses => \/ excused # {} \/ pointer.user \/ track'.blocked
                   \/ Judged.by # "drive" /\ visor.injectSeq > snap.injectSeq]_FallbackVars
  BY PauseIsExcused
<1>2. FallbackInv => DeferralIsBounded
  <2> SUFFICES ASSUME FallbackInv PROVE DeferralIsBounded
    OBVIOUS
  <2>1. /\ track.openFor \in Unset..HoldTicks /\ HoldTicks \in Nat /\ unjudged \in Nat
    BY FrameTypes DEF FallbackInv, ViewInv, Tracks, FallbackTypeOK
  <2> QED
    BY <2>1 DEF FallbackInv, WaitIsCounted, DeferralIsBounded, Unset
<1> QED
  BY <1>1, <1>2, FallbackIsSound, PTL DEF FallbackSpec, PausesForTheUser, OwnMovesDoNotPause

-----------------------------------------------------------------------------
(* Plans: the numbers of a drag.                                           *)

LEMMA Divided ==
  ASSUME NEW n \in Nat, NEW d \in Nat \ {0}
  PROVE  n \div d \in Nat /\ (n \div d) * d <= n /\ n < (n \div d) * d + d
OBVIOUS

LEMMA Cancels ==
  ASSUME NEW a \in Int, NEW b \in Int, NEW k \in Nat \ {0}, a * k < b * k PROVE a < b
OBVIOUS

LEMMA Scales ==
  ASSUME NEW a \in Int, NEW b \in Int, NEW k \in Nat, a <= b PROVE a * k <= b * k
OBVIOUS

Share(e, n, k) == (e * n) \div k

\* n of k equal shares of a length, rounded down.
LEMMA ShareIs ==
  ASSUME NEW e \in Nat, NEW k \in Nat \ {0}, NEW n \in 0..k
  PROVE  /\ Share(e, n, k) \in 0..e
         /\ n = 0 => Share(e, n, k) = 0
         /\ n = k => Share(e, n, k) = e
<1>1. PICK q : q = Share(e, n, k)
  OBVIOUS
<1>2. e * n \in Nat
  OBVIOUS
<1>3. q \in Nat /\ q * k <= e * n /\ e * n < q * k + k
  BY <1>1, <1>2, Divided DEF Share
<1>4. e * n <= e * k
  BY Scales
<1>5. q <= e
  <2>1. q * k < (e + 1) * k
    BY <1>2, <1>3, <1>4
  <2>2. q < e + 1
    BY <1>3, <2>1, Cancels
  <2> QED
    BY <1>3, <2>2
<1>6. n = 0 => q = 0
  <2> SUFFICES ASSUME n = 0 PROVE q = 0
    OBVIOUS
  <2>1. e * n = 0
    OBVIOUS
  <2>2. q * k < 1 * k
    BY <1>3, <2>1
  <2>3. q < 1
    BY <1>3, <2>2, Cancels
  <2> QED
    BY <1>3, <2>3
<1>7. n = k => q = e
  <2> SUFFICES ASSUME n = k PROVE q = e
    OBVIOUS
  <2>1. e * k < q * k + k
    BY <1>3
  <2>2. e * k < (q + 1) * k
    BY <1>3, <2>1
  <2>3. e < q + 1
    BY <1>3, <2>2, Cancels
  <2> QED
    BY <1>3, <1>5, <2>3
<1> QED
  BY <1>1, <1>3, <1>5, <1>6, <1>7

LEMMA ShareNears ==
  ASSUME NEW e \in Nat, NEW k \in Nat \ {0}, NEW n \in 0..k
  PROVE  Share(e, n, k) * k <= e * n /\ e * n < Share(e, n, k) * k + k
<1>1. e * n \in Nat
  OBVIOUS
<1> QED
  BY <1>1, Divided DEF Share

LEMMA ShareHops ==
  ASSUME NEW e \in Nat, NEW k \in Nat \ {0}, NEW n \in 1..k, NEW d \in Nat, e <= d * k
  PROVE  Share(e, n, k) - Share(e, n - 1, k) \in 0..d
<1>1. PICK p, q : p = Share(e, n - 1, k) /\ q = Share(e, n, k)
  OBVIOUS
<1>2. n \in 0..k /\ n - 1 \in 0..k
  OBVIOUS
<1>3. /\ p \in Nat /\ q \in Nat
      /\ p * k <= e * (n - 1) /\ e * (n - 1) < p * k + k
      /\ q * k <= e * n /\ e * n < q * k + k
  BY <1>1, <1>2, ShareIs, ShareNears
<1>4. e * n = e * (n - 1) + e
  OBVIOUS
<1>5. q - p < d + 1
  <2>1. (q - p) * k < (d + 1) * k
    <3>1. PICK a, b, c : a = p * k /\ b = q * k /\ c = e * (n - 1)
      OBVIOUS
    <3>2. a \in Int /\ b \in Int /\ c \in Int /\ b <= c + e /\ c < a + k
      BY <1>3, <1>4, <3>1
    <3>3. (q - p) * k = b - a /\ (d + 1) * k = d * k + k
      BY <1>3, <3>1
    <3> QED
      BY <3>2, <3>3
  <2> QED
    BY <1>3, <2>1, Cancels
<1>6. p < q + 1
  <2>1. p * k < (q + 1) * k
    <3>1. PICK a, b, c : a = p * k /\ b = q * k /\ c = e * (n - 1)
      OBVIOUS
    <3>2. a \in Int /\ b \in Int /\ c \in Int /\ a <= c /\ c + e < b + k
      BY <1>3, <1>4, <3>1
    <3>3. (q + 1) * k = b + k
      BY <1>3, <3>1
    <3> QED
      BY <3>1, <3>2, <3>3
  <2> QED
    BY <1>3, <2>1, Cancels
<1> QED
  BY <1>1, <1>3, <1>5, <1>6

\* The same in both directions: Rust rounds towards zero.
LEMMA QuotientIs ==
  ASSUME NEW d \in Int, NEW k \in Nat \ {0}, NEW n \in 0..k
  PROVE  Quotient(d * n, k) = IF d < 0 THEN -Share(-d, n, k) ELSE Share(d, n, k)
<1>1. CASE d >= 0
  <2>1. ~(d * n < 0)
    BY <1>1
  <2> QED
    BY <1>1, <2>1 DEF Quotient, Share
<1>2. CASE d < 0 /\ n # 0
  <2>1. d * n < 0 /\ -(d * n) = (-d) * n
    BY <1>2
  <2> QED
    BY <1>2, <2>1 DEF Quotient, Share
<1>3. CASE d < 0 /\ n = 0
  <2>1. -d \in Nat
    BY <1>3
  <2>2. Share(-d, n, k) = 0
    BY <1>3, <2>1, ShareIs
  <2>3. d * n = 0 /\ (-d) * n = 0
    BY <1>3
  <2>4. Quotient(d * n, k) = 0 \div k /\ Share(-d, n, k) = 0 \div k
    BY <2>3 DEF Quotient, Share
  <2> QED
    BY <1>3, <2>2, <2>4
<1> QED
  BY <1>1, <1>2, <1>3

Spots == [1..2 -> Int]

LEMMA SpanIs ==
  ASSUME NEW p \in Spots, NEW q \in Spots
  PROVE  /\ Span(p, q) \in Nat
         /\ \A i \in 1..2 : Abs(q[i] - p[i]) \in 0..Span(p, q)
         /\ \A d \in Nat : (\A i \in 1..2 : Abs(q[i] - p[i]) <= d) => Span(p, q) <= d
<1>1. p[1] \in Int /\ p[2] \in Int /\ q[1] \in Int /\ q[2] \in Int /\ 1 \in 1..2 /\ 2 \in 1..2
  BY DEF Spots
<1>2. \A i \in 1..2 : i = 1 \/ i = 2
  OBVIOUS
<1> PICK a, b : a = q[1] - p[1] /\ b = q[2] - p[2]
  OBVIOUS
<1>3. a \in Int /\ b \in Int
  BY <1>1
<1>4. Abs(a) \in Nat /\ Abs(b) \in Nat
  BY <1>3 DEF Abs
<1>5. Span(p, q) = IF Abs(a) < Abs(b) THEN Abs(b) ELSE Abs(a)
  BY DEF Span
<1>6. Span(p, q) \in Nat /\ Abs(a) <= Span(p, q) /\ Abs(b) <= Span(p, q)
  BY <1>4, <1>5
<1>7. \A i \in 1..2 : Abs(q[i] - p[i]) \in 0..Span(p, q)
  BY <1>2, <1>4, <1>6
<1>8. ASSUME NEW d \in Nat, \A i \in 1..2 : Abs(q[i] - p[i]) <= d PROVE Span(p, q) <= d
  <2>1. Abs(a) <= d /\ Abs(b) <= d
    BY <1>1, <1>8
  <2> QED
    BY <1>5, <2>1
<1> QED
  BY <1>6, <1>7, <1>8

\* There are enough points for every hop to be a short one.
LEMMA EnoughPoints ==
  ASSUME NEW r, r.at \in Spots, r.to \in Spots
  PROVE  /\ PointCount(r) \in Nat \ {0}
         /\ \A i \in 1..2 : Abs(r.to[i] - r.at[i]) <= DragStep * PointCount(r)
<1> PICK s \in Nat : s = Span(r.at, r.to)
  BY SpanIs
<1>1. DragStep \in Nat \ {0}
  BY PlansAssumption
<1>2. PointCount(r) \in Nat \ {0} /\ s <= DragStep * PointCount(r)
  <2>1. CASE s <= DragStep
    <3>1. PointCount(r) = 1
      BY <2>1 DEF PointCount
    <3> QED
      BY <1>1, <2>1, <3>1
  <2>2. CASE ~(s <= DragStep)
    <3> PICK c : c = (s + DragStep - 1) \div DragStep
      OBVIOUS
    <3>1. PointCount(r) = c
      BY <2>2 DEF PointCount
    <3>2. s + DragStep - 1 \in Nat
      BY <1>1
    <3>3. c \in Nat /\ s + DragStep - 1 < c * DragStep + DragStep
      BY <1>1, <3>2, Divided
    <3>4. s - 1 < c * DragStep
      <4>1. PICK m : m = c * DragStep
        OBVIOUS
      <4>2. m \in Int
        BY <1>1, <3>3, <4>1
      <4> QED
        BY <1>1, <3>3, <4>1, <4>2
    <3>5. c # 0
      <4>1. s > 0
        BY <1>1, <2>2
      <4>2. c = 0 => c * DragStep = 0
        BY <1>1
      <4> QED
        BY <3>4, <4>1, <4>2
    <3>6. s <= DragStep * c
      <4>1. DragStep * c = c * DragStep
        BY <1>1, <3>3
      <4>2. c * DragStep \in Int
        BY <1>1, <3>3
      <4> QED
        BY <3>4, <4>1, <4>2
    <3> QED
      BY <3>1, <3>3, <3>5, <3>6
  <2> QED
    BY <2>1, <2>2
<1>3. ASSUME NEW i \in 1..2 PROVE Abs(r.to[i] - r.at[i]) <= DragStep * PointCount(r)
  <2>1. Abs(r.to[i] - r.at[i]) \in 0..s
    BY SpanIs
  <2>2. PICK m : m = DragStep * PointCount(r)
    OBVIOUS
  <2>3. m \in Int /\ s <= m
    BY <1>1, <1>2, <2>2
  <2>4. PICK a : a = Abs(r.to[i] - r.at[i])
    OBVIOUS
  <2>5. a <= m
    BY <2>1, <2>3, <2>4
  <2> QED
    BY <2>2, <2>4, <2>5
<1> QED
  BY <1>2, <1>3

IsOnAxis(x, y, k, n, w) == w \in Int /\ Between(x, w, y) /\ (n = 0 => w = x) /\ (n = k => w = y)

\* What one coordinate does on the way.
LEMMA OneAxis ==
  ASSUME NEW x \in Int, NEW y \in Int, NEW k \in Nat \ {0}, NEW n \in 0..k
  PROVE  IsOnAxis(x, y, k, n, x + Quotient((y - x) * n, k))
<1> PICK d \in Int : d = y - x
  OBVIOUS
<1> PICK q : q = Quotient(d * n, k)
  OBVIOUS
<1>1. CASE d >= 0
  <2>1. q = Share(d, n, k) /\ d \in Nat
    BY <1>1, QuotientIs
  <2>2. q \in 0..d /\ (n = 0 => q = 0) /\ (n = k => q = d)
    BY <2>1, ShareIs
  <2> QED
    BY <2>1, <2>2 DEF Between, IsOnAxis
<1>2. CASE d < 0
  <2> PICK e \in Nat : e = -d
    BY <1>2
  <2>1. q = -Share(e, n, k)
    BY <1>2, QuotientIs
  <2>2. Share(e, n, k) \in 0..e /\ (n = 0 => Share(e, n, k) = 0) /\ (n = k => Share(e, n, k) = e)
    BY ShareIs
  <2>3. q \in Int /\ d <= q /\ q <= 0 /\ (n = 0 => q = 0) /\ (n = k => q = d)
    BY <2>1, <2>2
  <2> QED
    BY <1>2, <2>3 DEF Between, IsOnAxis
<1> QED
  BY <1>1, <1>2

LEMMA OneAxisHops ==
  ASSUME NEW x \in Int, NEW y \in Int, NEW k \in Nat \ {0}, NEW n \in 1..k, NEW m \in Nat,
         Abs(y - x) <= m * k
  PROVE  Abs((x + Quotient((y - x) * n, k)) - (x + Quotient((y - x) * (n - 1), k))) <= m
<1> PICK d \in Int : d = y - x
  OBVIOUS
<1> PICK p, q : p = Quotient(d * (n - 1), k) /\ q = Quotient(d * n, k)
  OBVIOUS
<1>0. n \in 0..k /\ n - 1 \in 0..k
  OBVIOUS
<1>1. p \in Int /\ q \in Int /\ Abs(q - p) <= m
  <2>1. CASE d >= 0
    <3>0. d \in Nat /\ d <= m * k
      BY <2>1 DEF Abs
    <3>1. q = Share(d, n, k) /\ p = Share(d, n - 1, k) /\ d \in Nat /\ d <= m * k
      <4>1. q = Share(d, n, k)
        BY <1>0, <2>1, QuotientIs
      <4>2. p = Share(d, n - 1, k)
        BY <1>0, <2>1, QuotientIs
      <4> QED
        BY ONLY <3>0, <4>1, <4>2
    <3>2. q \in 0..d /\ p \in 0..d
      BY <1>0, <3>1, ShareIs
    <3>3. q - p \in 0..m
      BY <3>1, ShareHops
    <3> QED
      BY <3>2, <3>3 DEF Abs
  <2>2. CASE d < 0
    <3> PICK e \in Nat : e = -d
      BY <2>2
    <3>1. q = -Share(e, n, k) /\ p = -Share(e, n - 1, k) /\ e <= m * k
      BY <1>0, <2>2, QuotientIs DEF Abs
    <3>2. /\ Share(e, n, k) \in 0..e /\ Share(e, n - 1, k) \in 0..e
          /\ Share(e, n, k) - Share(e, n - 1, k) \in 0..m
      BY <1>0, <3>1, ShareIs, ShareHops
    <3>3. p \in Int /\ q \in Int /\ p - q \in 0..m
      BY <3>1, <3>2
    <3> QED
      BY <3>3 DEF Abs
  <2> QED
    BY <2>1, <2>2
<1>2. (x + q) - (x + p) = q - p
  BY <1>1
<1> QED
  BY <1>1, <1>2

\* Where a drag is after n of its points.
LEMMA OnTheWay ==
  ASSUME NEW r, r.at \in Spots, r.to \in Spots, NEW n \in 0..PointCount(r)
  PROVE  /\ Waypoint(r, n) \in Spots
         /\ \A c \in 1..2 : Between(r.at[c], Waypoint(r, n)[c], r.to[c])
         /\ n = 0 => Waypoint(r, n) = r.at
         /\ n = PointCount(r) => Waypoint(r, n) = r.to
<1> PICK k : k = PointCount(r)
  OBVIOUS
<1>1. k \in Nat \ {0} /\ n \in 0..k
  BY EnoughPoints
<1>2. ASSUME NEW c \in 1..2
      PROVE  /\ Waypoint(r, n)[c] \in Int /\ Between(r.at[c], Waypoint(r, n)[c], r.to[c])
             /\ n = 0 => Waypoint(r, n)[c] = r.at[c]
             /\ n = k => Waypoint(r, n)[c] = r.to[c]
  <2> PICK x, y : x = r.at[c] /\ y = r.to[c]
    OBVIOUS
  <2>1. x \in Int /\ y \in Int
    BY DEF Spots
  <2>2. Waypoint(r, n)[c] = x + Quotient((y - x) * n, k)
    BY DEF Waypoint
  <2>3. IsOnAxis(x, y, k, n, x + Quotient((y - x) * n, k))
    BY <1>1, <2>1, OneAxis, Zenon
  <2> QED
    BY <2>2, <2>3 DEF IsOnAxis
<1>3. Waypoint(r, n) \in Spots
  <2>1. DOMAIN Waypoint(r, n) = 1..2 /\ Waypoint(r, n) = [c \in 1..2 |-> Waypoint(r, n)[c]]
    BY DEF Waypoint
  <2> QED
    BY <1>2, <2>1 DEF Spots
<1>4. n = 0 => Waypoint(r, n) = r.at
  BY <1>2, <1>3 DEF Spots
<1>5. n = k => Waypoint(r, n) = r.to
  BY <1>2, <1>3 DEF Spots
<1> QED
  BY <1>2, <1>3, <1>4, <1>5

LEMMA ShortHops ==
  ASSUME NEW r, r.at \in Spots, r.to \in Spots, NEW n \in 1..PointCount(r)
  PROVE  Span(Waypoint(r, n - 1), Waypoint(r, n)) <= DragStep
<1> PICK k : k = PointCount(r)
  OBVIOUS
<1>1. k \in Nat \ {0} /\ n \in 1..k /\ DragStep \in Nat
  BY EnoughPoints, PlansAssumption
<1>2. n \in 0..PointCount(r) /\ n - 1 \in 0..PointCount(r)
  BY <1>1
<1>3. Waypoint(r, n - 1) \in Spots /\ Waypoint(r, n) \in Spots
  BY <1>2, OnTheWay
<1>4. ASSUME NEW c \in 1..2
      PROVE  Abs(Waypoint(r, n)[c] - Waypoint(r, n - 1)[c]) <= DragStep
  <2> PICK x, y : x = r.at[c] /\ y = r.to[c]
    OBVIOUS
  <2>1. x \in Int /\ y \in Int /\ Abs(y - x) <= DragStep * k
    BY EnoughPoints DEF Spots
  <2>2. /\ Waypoint(r, n)[c] = x + Quotient((y - x) * n, k)
        /\ Waypoint(r, n - 1)[c] = x + Quotient((y - x) * (n - 1), k)
    BY DEF Waypoint
  <2>3. Abs((x + Quotient((y - x) * n, k)) - (x + Quotient((y - x) * (n - 1), k))) <= DragStep
    BY <1>1, <2>1, OneAxisHops
  <2> QED
    BY <2>2, <2>3
<1> QED
  BY <1>1, <1>3, <1>4, SpanIs

-----------------------------------------------------------------------------
(* Plans: the steps of a plan, one by one.                                 *)

WheelWords == {"left", "right", "up", "down"}
PlanSteps == {Move(p) : p \in Spots} \cup {Turn(what) : what \in WheelWords \cup {"press", "lift"}}

LEMMA RowIsASequence ==
  ASSUME NEW S, NEW n \in Nat, NEW f \in [1..n -> S] PROVE f \in Seq(S) /\ Len(f) = n
OBVIOUS

InARow(a, b, c, s) ==
  /\ Len(s) = Len(a) + Len(b) + Len(c)
  /\ \A i \in 1..Len(a) : s[i] = a[i]
  /\ \A i \in 1..Len(b) : s[Len(a) + i] = b[i]
  /\ \A i \in 1..Len(c) : s[Len(a) + Len(b) + i] = c[i]

LEMMA ThreeInARow ==
  ASSUME NEW S, NEW a \in Seq(S), NEW b \in Seq(S), NEW c \in Seq(S)
  PROVE  InARow(a, b, c, (a \o b) \o c) /\ (a \o b) \o c \in Seq(S)
<1>1. /\ a \o b \in Seq(S) /\ Len(a \o b) = Len(a) + Len(b)
      /\ \A i \in 1..(Len(a) + Len(b)) : (a \o b)[i] = IF i <= Len(a) THEN a[i] ELSE b[i - Len(a)]
  BY ConcatProperties
<1> PICK d \in Seq(S) : d = a \o b
  BY <1>1
<1>2. /\ d \o c \in Seq(S) /\ Len(d \o c) = Len(d) + Len(c)
      /\ \A i \in 1..(Len(d) + Len(c)) : (d \o c)[i] = IF i <= Len(d) THEN d[i] ELSE c[i - Len(d)]
  BY ConcatProperties
<1> PICK s \in Seq(S) : s = d \o c
  BY <1>2
<1> PICK la \in Nat, lb \in Nat, lc \in Nat : la = Len(a) /\ lb = Len(b) /\ lc = Len(c)
  OBVIOUS
<1>3. /\ Len(s) = la + lb + lc
      /\ \A i \in 1..(la + lb) : d[i] = IF i <= la THEN a[i] ELSE b[i - la]
      /\ \A i \in 1..(la + lb + lc) : s[i] = IF i <= la + lb THEN d[i] ELSE c[i - (la + lb)]
  BY <1>1, <1>2
<1>4. ASSUME NEW i \in 1..la PROVE s[i] = a[i]
  BY <1>3
<1>5. ASSUME NEW i \in 1..lb PROVE s[la + i] = b[i]
  <2> PICK j \in Int : j = la + i
    OBVIOUS
  <2>1. j \in 1..(la + lb) /\ j \in 1..(la + lb + lc) /\ ~(j <= la) /\ j <= la + lb /\ j - la = i
    OBVIOUS
  <2> QED
    BY <1>3, <2>1
<1>6. ASSUME NEW i \in 1..lc PROVE s[la + lb + i] = c[i]
  <2> PICK j \in Int : j = la + lb + i
    OBVIOUS
  <2>1. j \in 1..(la + lb + lc) /\ ~(j <= la + lb) /\ j - (la + lb) = i
    OBVIOUS
  <2> QED
    BY <1>3, <2>1
<1> QED
  BY <1>3, <1>4, <1>5, <1>6 DEF InARow

IsWheel(w, n, ways) == w \in Seq(PlanSteps) /\ Len(w) = n /\ \A i \in 1..n : w[i].step \in ways

LEMMA WheelIs ==
  ASSUME NEW delta \in Int, NEW back \in WheelWords, NEW forth \in WheelWords
  PROVE  IsWheel(WheelTurns(delta, back, forth), Abs(delta), {back, forth})
<1> PICK n \in Nat : n = Abs(delta)
  BY DEF Abs
<1> PICK t : t = Turn(IF delta < 0 THEN back ELSE forth)
  OBVIOUS
<1>1. t \in PlanSteps /\ t.step \in {back, forth}
  BY DEF PlanSteps, Turn
<1> PICK w : w = [i \in 1..n |-> t]
  OBVIOUS
<1>2. w = WheelTurns(delta, back, forth)
  BY DEF WheelTurns
<1>3. w \in [1..n -> PlanSteps] /\ \A i \in 1..n : w[i].step \in {back, forth}
  BY <1>1
<1>4. w \in Seq(PlanSteps) /\ Len(w) = n
  BY <1>3, RowIsASequence
<1> QED
  BY <1>2, <1>3, <1>4 DEF IsWheel

LEMMA RequestIs ==
  ASSUME NEW r \in RequestsTried
  PROVE  /\ r.at \in Spots /\ r.to \in Spots /\ r.delta[1] \in Int /\ r.delta[2] \in Int
         /\ r.action \in {"move", "click", "scroll", "drag"} /\ (r.action # "drag" => r.to = r.at)
BY PlansAssumption DEF Spots

IsScroll(s, at, a, b) ==
  /\ a \in Nat /\ b \in Nat /\ Len(s) = 1 + a + b /\ s[1] = Move(at)
  /\ \A i \in 1..a : s[1 + i].step \in {"left", "right"}
  /\ \A i \in 1..b : s[1 + a + i].step \in {"up", "down"}

\* Move to the place, then turn the wheel, across before along.
LEMMA ScrollIs ==
  ASSUME NEW r \in RequestsTried, r.action = "scroll",
         NEW a, a = Abs(r.delta[1]), NEW b, b = Abs(r.delta[2])
  PROVE  IsScroll(StepsOf(r), r.at, a, b)
<1>1. a \in Nat /\ b \in Nat
  BY RequestIs DEF Abs
<1> PICK m : m = << Move(r.at) >>
  OBVIOUS
<1> PICK v : v = WheelTurns(r.delta[1], "left", "right")
  OBVIOUS
<1> PICK w : w = WheelTurns(r.delta[2], "up", "down")
  OBVIOUS
<1>2. m \in Seq(PlanSteps) /\ Len(m) = 1 /\ m[1] = Move(r.at)
  <2>1. Move(r.at) \in PlanSteps
    BY RequestIs DEF PlanSteps
  <2> QED
    BY <2>1
<1>3. v \in Seq(PlanSteps) /\ Len(v) = a /\ \A i \in 1..a : v[i].step \in {"left", "right"}
  <2>1. "left" \in WheelWords /\ "right" \in WheelWords /\ r.delta[1] \in Int
    BY RequestIs DEF WheelWords
  <2>2. IsWheel(WheelTurns(r.delta[1], "left", "right"), Abs(r.delta[1]), {"left", "right"})
    BY <2>1, WheelIs, Zenon
  <2>3. IsWheel(v, a, {"left", "right"})
    BY <2>2, Zenon
  <2> QED
    BY ONLY <2>3 DEF IsWheel
<1>4. w \in Seq(PlanSteps) /\ Len(w) = b /\ \A i \in 1..b : w[i].step \in {"up", "down"}
  <2>1. "up" \in WheelWords /\ "down" \in WheelWords /\ r.delta[2] \in Int
    BY RequestIs DEF WheelWords
  <2>2. IsWheel(WheelTurns(r.delta[2], "up", "down"), Abs(r.delta[2]), {"up", "down"})
    BY <2>1, WheelIs, Zenon
  <2>3. IsWheel(w, b, {"up", "down"})
    BY <2>2, Zenon
  <2> QED
    BY ONLY <2>3 DEF IsWheel
<1> PICK s : s = StepsOf(r)
  OBVIOUS
<1>5. s = (m \o v) \o w
  BY DEF StepsOf
<1>6. InARow(m, v, w, s)
  <2>1. m \in Seq(PlanSteps) /\ v \in Seq(PlanSteps) /\ w \in Seq(PlanSteps)
    BY <1>2, <1>3, <1>4
  <2>2. InARow(m, v, w, (m \o v) \o w)
    BY ONLY <2>1, ThreeInARow
  <2> QED
    BY <1>5, <2>2, Zenon
<1>7. /\ Len(s) = 1 + a + b /\ s[1] = Move(r.at)
      /\ \A i \in 1..a : s[1 + i] = v[i]
      /\ \A i \in 1..b : s[1 + a + i] = w[i]
  BY ONLY <1>2, <1>3, <1>4, <1>6 DEF InARow
<1>8. s[1] = Move(r.at) /\ Len(s) = 1 + a + b
      /\ (\A i \in 1..a : s[1 + i].step \in {"left", "right"})
      /\ \A i \in 1..b : s[1 + a + i].step \in {"up", "down"}
  BY ONLY <1>1, <1>3, <1>4, <1>7
<1>9. IsScroll(s, r.at, a, b)
  BY ONLY <1>1, <1>8 DEF IsScroll
<1> QED
  BY <1>9, Zenon

\* Move to the start, press, go from point to point, lift.
LEMMA DragIs ==
  ASSUME NEW r \in RequestsTried, r.action = "drag", NEW k, k = PointCount(r)
  PROVE  /\ k \in Nat \ {0} /\ Len(StepsOf(r)) = k + 3 /\ StepsOf(r)[1] = Move(r.at)
         /\ StepsOf(r)[2] = Turn("press") /\ StepsOf(r)[k + 3] = Turn("lift")
         /\ \A n \in 1..k : StepsOf(r)[2 + n] = Move(Waypoint(r, n))
<1>0. k \in Nat \ {0}
  BY EnoughPoints, RequestIs
<1> PICK m : m = << Move(r.at), Turn("press") >>
  OBVIOUS
<1> PICK v : v = [n \in 1..PointCount(r) |-> Move(Waypoint(r, n))]
  OBVIOUS
<1> PICK w : w = << Turn("lift") >>
  OBVIOUS
<1>1. Move(r.at) \in PlanSteps /\ Turn("press") \in PlanSteps /\ Turn("lift") \in PlanSteps
  BY RequestIs DEF PlanSteps
<1>2. m \in Seq(PlanSteps) /\ Len(m) = 2 /\ m[1] = Move(r.at) /\ m[2] = Turn("press")
  BY <1>1
<1>3. v \in Seq(PlanSteps) /\ Len(v) = k /\ \A n \in 1..k : v[n] = Move(Waypoint(r, n))
  <2>1. ASSUME NEW n \in 1..k PROVE Move(Waypoint(r, n)) \in PlanSteps
    <3>1. n \in 0..PointCount(r)
      BY <1>0
    <3>2. Waypoint(r, n) \in Spots
      BY <3>1, OnTheWay, RequestIs
    <3> QED
      BY <3>2 DEF PlanSteps
  <2>2. v \in [1..k -> PlanSteps]
    BY <2>1
  <2> QED
    BY <1>0, <2>2, RowIsASequence
<1>4. w \in Seq(PlanSteps) /\ Len(w) = 1 /\ w[1] = Turn("lift")
  BY <1>1
<1> PICK s : s = StepsOf(r)
  OBVIOUS
<1>5. s = (m \o v) \o w
  BY DEF StepsOf
<1>6. InARow(m, v, w, s)
  BY <1>2, <1>3, <1>4, <1>5, ThreeInARow, ZenonT(60)
<1>7. /\ Len(s) = 2 + k + 1 /\ s[1] = m[1] /\ s[2] = m[2]
      /\ \A i \in 1..k : s[2 + i] = v[i]
      /\ s[2 + k + 1] = w[1]
  BY <1>0, <1>2, <1>3, <1>4, <1>6 DEF InARow
<1> QED
  BY <1>0, <1>2, <1>3, <1>4, <1>7

-----------------------------------------------------------------------------
(* Plans: what may be said of any part of a plan that is walked.           *)

TurnsAt(r, n) == {i \in 1..n : StepsOf(r)[i].step \in WheelWords}

MovesAreWell(r, n) ==
  /\ \A i \in MovesAt(r, n), c \in 1..2 : Between(r.at[c], StepsOf(r)[i].to[c], r.to[c])
  /\ \A i \in MovesAt(r, n), j \in MovesAt(r, n) :
       i < j /\ (\A k \in MovesAt(r, n) : k <= i \/ j <= k) =>
         Span(StepsOf(r)[i].to, StepsOf(r)[j].to) <= DragStep
  /\ Cardinality(MovesAt(r, n)) <= DragCap + 1

TurnsAreWell(r, n) ==
  /\ Cardinality(TurnsAt(r, n)) <= MaxTicks
  /\ \A i \in TurnsAt(r, n) :
       StepsOf(r)[i].step \in {"left", "right"} <=>
         Cardinality({j \in TurnsAt(r, n) : j <= i}) <= Abs(r.delta[1])

EndsWell(r) ==
  /\ Pointer(r, Len(StepsOf(r))) = r.to
  /\ r.action = "scroll" =>
       Cardinality(TurnsAt(r, Len(StepsOf(r)))) = Abs(r.delta[1]) + Abs(r.delta[2])

IsWalked(r, n) == MovesAreWell(r, n) /\ TurnsAreWell(r, n) /\ (n = Len(StepsOf(r)) => EndsWell(r))

LEMMA StepsAre ==
  /\ \A p : Move(p).step = "move" /\ Move(p).to = p
  /\ \A what : Turn(what).step = what
BY DEF Move, Turn

\* A request that goes to its place and stays there.
LEMMA MovesOnce ==
  ASSUME NEW r \in RequestsTried, r.to = r.at, NEW n \in Nat, StepsOf(r)[1] = Move(r.at),
         \A i \in 2..n : StepsOf(r)[i].step # "move"
  PROVE  MovesAreWell(r, n) /\ (n >= 1 => Pointer(r, n) = r.to)
<1>1. MovesAt(r, n) = IF n = 0 THEN {} ELSE {1}
  <2>1. \A i \in 1..n : i = 1 \/ i \in 2..n
    OBVIOUS
  <2> QED
    BY <2>1, StepsAre DEF MovesAt
<1>2. MovesAreWell(r, n)
  <2>1. Cardinality({}) = 0 /\ Cardinality({1}) = 1 /\ DragCap \in Nat
    BY FS_EmptySet, FS_Singleton, PlansAssumption
  <2>2. Cardinality(MovesAt(r, n)) <= DragCap + 1
    BY <1>1, <2>1
  <2>3. \A i \in MovesAt(r, n) : i = 1
    BY <1>1
  <2>4. \A c \in 1..2 : Between(r.at[c], StepsOf(r)[1].to[c], r.to[c])
    <3> SUFFICES ASSUME NEW c \in 1..2 PROVE Between(r.at[c], r.at[c], r.at[c])
      BY StepsAre
    <3>1. r.at[c] \in Int
      BY RequestIs DEF Spots
    <3> QED
      BY <3>1 DEF Between
  <2>5. \A i \in MovesAt(r, n), c \in 1..2 : Between(r.at[c], StepsOf(r)[i].to[c], r.to[c])
    BY <2>3, <2>4, Zenon
  <2>6. \A i \in MovesAt(r, n), j \in MovesAt(r, n) : ~(i < j)
    BY <2>3
  <2> QED
    BY <2>2, <2>5, <2>6 DEF MovesAreWell
<1>3. ASSUME n >= 1 PROVE Pointer(r, n) = r.to
  <2>1. MovesAt(r, n) = {1}
    BY <1>1, <1>3
  <2>2. (CHOOSE i \in {1} : \A j \in {1} : j <= i) = 1
    OBVIOUS
  <2> QED
    BY <2>1, <2>2, StepsAre DEF Pointer
<1> QED
  BY <1>2, <1>3

LEMMA NeverTurns ==
  ASSUME NEW r, NEW n \in Nat, \A i \in 1..n : StepsOf(r)[i].step \notin WheelWords
  PROVE  TurnsAreWell(r, n)
<1>1. TurnsAt(r, n) = {}
  BY DEF TurnsAt
<1>2. Cardinality({}) = 0 /\ MaxTicks \in Nat
  BY FS_EmptySet, PlansAssumption
<1> QED
  BY <1>1, <1>2 DEF TurnsAreWell

LEMMA PointIsWalked ==
  ASSUME NEW r \in RequestsTried, r.action \in {"move", "click"}, NEW n \in 0..Len(StepsOf(r))
  PROVE  IsWalked(r, n)
<1>1. /\ StepsOf(r)[1] = Move(r.at) /\ Len(StepsOf(r)) >= 1 /\ r.to = r.at /\ n \in Nat
      /\ \A i \in 2..Len(StepsOf(r)) : StepsOf(r)[i].step \in {"press", "lift"}
  <2>1. r.to = r.at
    BY RequestIs
  <2>2. CASE r.action = "move"
    <3>1. StepsOf(r) = << Move(r.at) >>
      BY <2>2 DEF StepsOf
    <3> QED
      BY <2>1, <3>1
  <2>3. CASE r.action = "click"
    <3>1. StepsOf(r) = << Move(r.at), Turn("press"), Turn("lift") >>
      BY <2>3 DEF StepsOf
    <3> PICK m, p, q : m = Move(r.at) /\ p = Turn("press") /\ q = Turn("lift")
      OBVIOUS
    <3>2. p.step = "press" /\ q.step = "lift"
      BY StepsAre
    <3>3. StepsOf(r) = << m, p, q >>
      BY <3>1
    <3> QED
      BY <2>1, <3>2, <3>3
  <2> QED
    BY <2>2, <2>3
<1>2. \A i \in 2..n : StepsOf(r)[i].step # "move"
  <2>1. \A i \in 2..n : i \in 2..Len(StepsOf(r))
    BY <1>1
  <2> QED
    BY <1>1, <2>1
<1>3. MovesAreWell(r, n) /\ (n >= 1 => Pointer(r, n) = r.to)
  BY <1>1, <1>2, MovesOnce
<1>4. TurnsAreWell(r, n)
  <2>1. ASSUME NEW i \in 1..n PROVE StepsOf(r)[i].step \notin WheelWords
    <3>1. CASE i = 1
      BY <1>1, <3>1, StepsAre DEF WheelWords
    <3>2. CASE i # 1
      <4>1. i \in 2..Len(StepsOf(r))
        BY <1>1, <3>2
      <4> QED
        BY <1>1, <4>1 DEF WheelWords
    <3> QED
      BY <3>1, <3>2
  <2> QED
    BY <1>1, <2>1, NeverTurns
<1>5. r.action # "scroll"
  OBVIOUS
<1> QED
  BY <1>1, <1>3, <1>4, <1>5 DEF IsWalked, EndsWell

LEMMA ScrollIsWalked ==
  ASSUME NEW r \in RequestsTried, r.action = "scroll", ~OutOfRange(r), NEW n \in 0..Len(StepsOf(r))
  PROVE  IsWalked(r, n)
<1> PICK a, b : a = Abs(r.delta[1]) /\ b = Abs(r.delta[2])
  OBVIOUS
<1> PICK s : s = StepsOf(r)
  OBVIOUS
<1>1. /\ a \in Nat /\ b \in Nat /\ Len(s) = 1 + a + b /\ s[1] = Move(r.at)
      /\ \A i \in 1..a : s[1 + i].step \in {"left", "right"}
      /\ \A i \in 1..b : s[1 + a + i].step \in {"up", "down"}
  <2>1. IsScroll(s, r.at, a, b)
    BY ScrollIs, Zenon
  <2> QED
    BY ONLY <2>1 DEF IsScroll
<1>2. n \in Nat /\ n <= 1 + a + b /\ r.to = r.at
  BY <1>1, RequestIs
<1>3. ASSUME NEW i \in 2..n
      PROVE  s[i].step \in WheelWords /\ s[i].step # "move" /\ (s[i].step \in {"left", "right"} <=> i - 1 <= a)
  <2>1. CASE i - 1 <= a
    <3> PICK j \in 1..a : i = 1 + j
      BY <1>1, <2>1
    <3>1. s[i].step \in {"left", "right"}
      BY <1>1
    <3> QED
      BY <2>1, <3>1 DEF WheelWords
  <2>2. CASE ~(i - 1 <= a)
    <3>1. i - 1 - a \in 1..b /\ i = 1 + a + (i - 1 - a)
      BY <1>1, <1>2, <2>2, SMTT(60)
    <3>2. PICK j \in 1..b : i = 1 + a + j
      BY <3>1
    <3>3. s[i].step \in {"up", "down"}
      BY <1>1, <3>2
    <3> QED
      BY <2>2, <3>3 DEF WheelWords
  <2> QED
    BY <2>1, <2>2
<1>4. s[1].step = "move"
  BY <1>1, StepsAre
<1>5. MovesAreWell(r, n) /\ (n >= 1 => Pointer(r, n) = r.to)
  <2>1. \A i \in 2..n : StepsOf(r)[i].step # "move"
    BY <1>3
  <2> QED
    BY <1>1, <1>2, <2>1, MovesOnce
<1>6. TurnsAt(r, n) = 2..n
  <2>1. \A i \in 1..n : i = 1 \/ i \in 2..n
    BY <1>2
  <2> QED
    BY <1>2, <1>3, <1>4, <2>1 DEF TurnsAt, WheelWords
<1>7. \A m \in Nat : m >= 1 => Cardinality(2..m) = m - 1
  BY FS_Interval
<1>8. n >= 1 => Cardinality(TurnsAt(r, n)) = n - 1
  BY <1>2, <1>6, <1>7
<1>9. TurnsAreWell(r, n)
  <2>1. Cardinality(TurnsAt(r, n)) <= MaxTicks
    <3>1. a + b \in 1..MaxTicks /\ MaxTicks \in Nat
      BY PlansAssumption DEF OutOfRange, TicksFit
    <3>2. CASE n >= 1
      BY <1>1, <1>2, <1>8, <3>1, <3>2
    <3>3. CASE n = 0
      <4>1. TurnsAt(r, n) = {}
        BY <1>6, <3>3
      <4> QED
        BY <3>1, <4>1, FS_EmptySet
    <3> QED
      BY <1>2, <3>2, <3>3
  <2>2. ASSUME NEW i \in TurnsAt(r, n)
        PROVE  s[i].step \in {"left", "right"} <=> Cardinality({j \in TurnsAt(r, n) : j <= i}) <= a
    <3>1. i \in 2..n /\ {j \in TurnsAt(r, n) : j <= i} = 2..i
      BY <1>2, <1>6, <2>2
    <3>2. Cardinality(2..i) = i - 1
      BY <1>7, <3>1
    <3> QED
      BY <1>3, <3>1, <3>2
  <2> QED
    BY <2>1, <2>2 DEF TurnsAreWell
<1>10. ASSUME n = Len(StepsOf(r)) PROVE EndsWell(r)
  <2>1. n = 1 + a + b /\ n >= 1
    BY <1>1, <1>2, <1>10
  <2>2. Pointer(r, n) = r.to /\ Cardinality(TurnsAt(r, n)) = a + b
    BY <1>1, <1>5, <1>8, <2>1
  <2> QED
    BY <1>10, <2>2 DEF EndsWell
<1> QED
  BY <1>5, <1>9, <1>10 DEF IsWalked

LEMMA DragIsWalked ==
  ASSUME NEW r \in RequestsTried, r.action = "drag", ~OutOfRange(r), NEW n \in 0..Len(StepsOf(r))
  PROVE  IsWalked(r, n)
<1> PICK k : k = PointCount(r)
  OBVIOUS
<1> PICK s : s = StepsOf(r)
  OBVIOUS
<1>1. /\ k \in Nat \ {0} /\ Len(s) = k + 3 /\ s[1] = Move(r.at)
      /\ s[2] = Turn("press") /\ s[k + 3] = Turn("lift")
      /\ \A m \in 1..k : s[2 + m] = Move(Waypoint(r, m))
  BY DragIs
<1>2. r.at \in Spots /\ r.to \in Spots /\ n \in Nat /\ n <= k + 3 /\ k <= DragCap /\ DragCap \in Nat
  BY <1>1, RequestIs, PlansAssumption DEF OutOfRange
<1> DEFINE PointOf(i) == IF i = 1 THEN 0 ELSE i - 2
<1>3. \A i \in 1..n : i = 1 \/ i = 2 \/ i = k + 3 \/ i \in 3..(k + 2)
  BY <1>1, <1>2
<1>4. ASSUME NEW i \in {1} \cup (3..(k + 2))
      PROVE  s[i].step = "move" /\ s[i].to = Waypoint(r, PointOf(i)) /\ PointOf(i) \in 0..k
  <2>1. CASE i = 1
    <3>1. Waypoint(r, 0) = r.at
      <4>1. 0 \in 0..PointCount(r)
        BY <1>1
      <4> QED
        BY <1>2, <4>1, OnTheWay
    <3> QED
      BY <1>1, <2>1, <3>1, StepsAre
  <2>2. CASE i # 1
    <3> PICK m \in 1..k : i = 2 + m
      <4>1. i - 2 \in 1..k /\ i = 2 + (i - 2)
        BY <1>1, <2>2
      <4> QED
        BY <4>1
    <3>1. s[2 + m] = Move(Waypoint(r, m)) /\ PointOf(i) = m
      BY <1>1, <2>2
    <3> QED
      BY <3>1, StepsAre
  <2> QED
    BY <2>1, <2>2
<1>5. s[2].step = "press" /\ s[k + 3].step = "lift"
  BY <1>1, StepsAre
<1>6. MovesAt(r, n) = {i \in 1..n : i = 1 \/ i \in 3..(k + 2)}
  <2>1. \A i \in 1..n : s[i].step = "move" <=> i = 1 \/ i \in 3..(k + 2)
    <3> SUFFICES ASSUME NEW i \in 1..n PROVE s[i].step = "move" <=> i = 1 \/ i \in 3..(k + 2)
      OBVIOUS
    <3>1. CASE i = 1 \/ i \in 3..(k + 2)
      BY <1>4, <3>1
    <3>2. CASE i = 2
      BY <1>1, <1>5, <3>2
    <3>3. CASE i = k + 3
      BY <1>1, <1>5, <3>3
    <3> QED
      BY <1>3, <3>1, <3>2, <3>3
  <2> QED
    BY <2>1 DEF MovesAt
<1> PICK M : M = MovesAt(r, n)
  OBVIOUS
<1>7. \A i \in M : i \in {1} \cup (3..(k + 2)) /\ i \in 1..n
  BY <1>6
<1>8. \A i \in M, c \in 1..2 : Between(r.at[c], s[i].to[c], r.to[c])
  <2> SUFFICES ASSUME NEW i \in M, NEW c \in 1..2 PROVE Between(r.at[c], s[i].to[c], r.to[c])
    OBVIOUS
  <2>1. s[i].to = Waypoint(r, PointOf(i)) /\ PointOf(i) \in 0..k
    BY <1>4, <1>7
  <2>2. \A m \in 0..k : \A d \in 1..2 : Between(r.at[d], Waypoint(r, m)[d], r.to[d])
    BY <1>2, OnTheWay
  <2> QED
    BY <2>1, <2>2
<1>9. ASSUME NEW i \in M, NEW j \in M, i < j, \A m \in M : m <= i \/ j <= m
      PROVE  Span(s[i].to, s[j].to) <= DragStep
  <2>1. PointOf(j) = PointOf(i) + 1
    <3>1. CASE i = 1
      <4>1. j >= 3 /\ j <= n /\ j <= k + 2
        BY <1>1, <1>7, <1>9, <3>1
      <4>2. 3 \in M
        BY <1>1, <1>2, <1>6, <4>1
      <4>3. j <= 3
        BY <1>9, <3>1, <4>2
      <4> QED
        BY <1>1, <1>7, <3>1, <4>1, <4>3
    <3>2. CASE i # 1
      <4>1. i \in 3..(k + 2) /\ j \in 3..(k + 2) /\ j <= n
        BY <1>1, <1>2, <1>7, <1>9, <3>2
      <4>2. i + 1 \in M
        BY <1>1, <1>2, <1>6, <1>9, <4>1
      <4>3. j <= i + 1
        BY <1>9, <4>1, <4>2
      <4> QED
        BY <1>1, <1>9, <3>2, <4>1, <4>3
    <3> QED
      BY <3>1, <3>2
  <2>2. /\ s[i].to = Waypoint(r, PointOf(i)) /\ PointOf(i) \in 0..k
        /\ s[j].to = Waypoint(r, PointOf(j)) /\ PointOf(j) \in 0..k
    BY <1>4, <1>7
  <2> PICK m : m = PointOf(j)
    OBVIOUS
  <2>3. m \in 1..k /\ PointOf(i) = m - 1
    BY <1>1, <2>1, <2>2
  <2>4. Span(Waypoint(r, m - 1), Waypoint(r, m)) <= DragStep
    BY <1>2, <2>3, ShortHops
  <2> QED
    BY <2>2, <2>3, <2>4
<1>10. Cardinality(M) <= DragCap + 1
  <2> PICK m \in Nat : m = k + 2
    BY <1>1
  <2>1. M \subseteq (1..m) \ {2}
    BY <1>1, <1>6
  <2>2. IsFiniteSet(1..m) /\ Cardinality(1..m) = m
    BY FS_Interval
  <2>3. 2 \in 1..m
    BY <1>1
  <2>4. IsFiniteSet((1..m) \ {2}) /\ Cardinality((1..m) \ {2}) = m - 1
    BY <2>2, <2>3, FS_RemoveElement
  <2>5. Cardinality(M) <= k + 1 /\ IsFiniteSet(M)
    <3>1. Cardinality(M) <= m - 1 /\ IsFiniteSet(M)
      BY <2>1, <2>4, FS_Subset
    <3> QED
      BY <1>1, <3>1
  <2>6. Cardinality(M) \in Nat
    BY <2>5, FS_CardinalityType
  <2> QED
    BY <1>1, <1>2, <2>5, <2>6
<1>11. MovesAreWell(r, n)
  BY <1>8, <1>9, <1>10 DEF MovesAreWell
<1>12. TurnsAreWell(r, n)
  <2>1. ASSUME NEW i \in 1..n PROVE s[i].step \notin WheelWords
    <3>1. CASE i \in {1} \cup (3..(k + 2))
      BY <1>4, <3>1 DEF WheelWords
    <3>2. CASE i \notin {1} \cup (3..(k + 2))
      <4>1. i = 2 \/ i = k + 3
        BY <1>3, <3>2
      <4> QED
        BY <1>5, <4>1 DEF WheelWords
    <3> QED
      BY <3>1, <3>2
  <2> QED
    BY <1>2, <2>1, NeverTurns
<1>13. ASSUME n = Len(StepsOf(r)) PROVE EndsWell(r)
  <2>1. n = k + 3
    BY <1>1, <1>13
  <2>2. k + 2 \in M /\ \A i \in M : i \in Nat /\ i <= k + 2
    BY <1>1, <1>6, <1>7, <2>1
  <2>3. (CHOOSE i \in M : \A j \in M : j <= i) = k + 2
    <3> PICK t \in M : t = k + 2
      BY <2>2
    <3>1. \A i \in M : i \in Nat /\ i <= t
      BY <2>2
    <3>2. (CHOOSE i \in M : \A j \in M : j <= i) = t
      BY ONLY <3>1, t \in M
    <3> QED
      BY <3>2
  <2>4. Pointer(r, n) = s[k + 2].to
    BY <2>3 DEF Pointer
  <2>5. s[k + 2].to = Waypoint(r, k)
    <3>1. k + 2 \in {1} \cup (3..(k + 2)) /\ PointOf(k + 2) = k
      BY <1>1
    <3> QED
      BY <1>4, <3>1
  <2>6. Waypoint(r, k) = r.to
    <3>1. k \in 0..PointCount(r)
      BY <1>1
    <3> QED
      BY <1>2, <3>1, OnTheWay
  <2> QED
    BY <1>13, <2>4, <2>5, <2>6 DEF EndsWell
<1> QED
  BY <1>11, <1>12, <1>13 DEF IsWalked

\* A plan is begun only for a request in range, and no step is sent that is not in it.
PlansInv ==
  /\ request \in RequestsTried /\ walked \in 0..Len(StepsOf(request))
  /\ fate \in {"walks", "paused", "done"} => ~OutOfRange(request)

LEMMA PlansStep == PlansInv /\ [PlansNext]_planVars => PlansInv'
<1> SUFFICES ASSUME PlansInv, [PlansNext]_planVars PROVE PlansInv'
  OBVIOUS
<1>1. request' = request
  BY DEF PlansNext, Judges, Steps, IsPaused, IsRecorded, planVars
<1>2. CASE Judges
  BY <1>1, <1>2 DEF PlansInv, Judges
<1>3. CASE Steps
  <2>1. walked \in 0..Len(StepsOf(request)) /\ walked < Len(StepsOf(request)) /\ walked' = walked + 1
    BY <1>3 DEF PlansInv, Steps
  <2> PICK l : l = Len(StepsOf(request))
    OBVIOUS
  <2>2. walked' \in 0..l
    BY <2>1
  <2> QED
    BY <1>1, <1>3, <2>2 DEF PlansInv, Steps
<1>4. CASE IsPaused \/ IsRecorded
  BY <1>1, <1>4 DEF PlansInv, IsPaused, IsRecorded
<1>5. CASE UNCHANGED planVars
  BY <1>1, <1>5 DEF PlansInv, planVars
<1> QED
  BY <1>2, <1>3, <1>4, <1>5 DEF PlansNext

LEMMA PlansInitially == PlansInit => PlansInv
<1> SUFFICES ASSUME PlansInit PROVE PlansInv
  OBVIOUS
<1>1. request \in RequestsTried /\ walked = 0 /\ fate = "asked"
  BY DEF PlansInit
<1>2. Len(StepsOf(request)) \in Nat
  <2>1. CASE request.action = "drag"
    BY <1>1, <2>1, DragIs
  <2>2. CASE request.action = "scroll"
    <3>1. IsScroll(StepsOf(request), request.at, Abs(request.delta[1]), Abs(request.delta[2]))
      BY <1>1, <2>2, ScrollIs, Zenon
    <3> QED
      BY ONLY <3>1 DEF IsScroll
  <2>3. CASE request.action = "move"
    BY <2>3 DEF StepsOf
  <2>4. CASE request.action = "click"
    BY <2>4 DEF StepsOf
  <2> QED
    BY <1>1, <2>1, <2>2, <2>3, <2>4, RequestIs
<1> QED
  BY <1>1, <1>2 DEF PlansInv

LEMMA PlansHold == PlansInv => PlanIsWalked
<1> SUFFICES ASSUME PlansInv, fate \in {"walks", "paused", "done"} PROVE PlanIsWalked
  BY DEF PlanIsWalked
<1>1. IsWalked(request, walked)
  <2>1. request \in RequestsTried /\ walked \in 0..Len(StepsOf(request)) /\ ~OutOfRange(request)
    BY DEF PlansInv
  <2>2. request.action \in {"move", "click"} \/ request.action = "scroll" \/ request.action = "drag"
    BY <2>1, RequestIs
  <2> QED
    BY <2>1, <2>2, PointIsWalked, ScrollIsWalked, DragIsWalked
<1>2. TurnsAt(request, walked) =
        {i \in 1..walked : StepsOf(request)[i].step \in {"left", "right", "up", "down"}}
  BY DEF TurnsAt, WheelWords
<1>3. MovesAreWell(request, walked) /\ TurnsAreWell(request, walked)
  BY <1>1 DEF IsWalked
<1>4. walked = Len(StepsOf(request)) =>
        /\ Pointer(request, walked) = request.to
        /\ request.action = "scroll" =>
             Cardinality(TurnsAt(request, walked)) = Abs(request.delta[1]) + Abs(request.delta[2])
  BY <1>1, Zenon DEF IsWalked, EndsWell
<1> QED
  BY <1>2, <1>3, <1>4, Zenon DEF PlanIsWalked, MovesAreWell, TurnsAreWell

\* Whatever the range of the pointer, the length of a hop and the caps, a plan that is begun
\* can be walked (MouseOp, DragWaypoints and scroll_steps of input.rs).
THEOREM PlansAreAlwaysWalked == PlansSpec => []PlanIsWalked
<1> QED
  BY PlansInitially, PlansStep, PlansHold, PTL DEF PlansSpec

-----------------------------------------------------------------------------
(* The adapter: one line after the other, and requests that outlive their  *)
(* wait.                                                                   *)

Fates == {"none", "has", "did", "refused"}
Replied == {"no method", "result", "bad params", "success", "failed"}
Answerings == [to : Nat, what : Replied]

AdapterTyped ==
  /\ line \in Seq(AgentLines) /\ served \in Seq(Fates) /\ Len(served) = Len(line)
  /\ effects \in Seq(Nat) /\ answers \in Seq(Answerings)
  /\ asking \in {"reads", "waits"} /\ (asking = "waits" => Len(line) > 0)

\* Answers are to lines that were read, in their order, and none is missing.
AnswersAreInOrder ==
  /\ \A a \in DOMAIN answers :
       answers[a].to \in 1..Len(line) /\ (asking = "waits" => answers[a].to # Len(line))
  /\ \A a, b \in DOMAIN answers : a < b => answers[a].to < answers[b].to
  /\ \A n \in DOMAIN line : (n < Len(line) \/ asking = "reads") /\ IsOwed(line[n]) =>
       \E a \in DOMAIN answers : answers[a].to = n

\* The visor has only requests that were checked.
ServedWereChecked ==
  \A n \in DOMAIN served : served[n] # "none" => IsCall(line[n]) /\ Fits(line[n])

EffectsAreServed ==
  /\ \A i \in DOMAIN effects : effects[i] \in 1..Len(line) /\ served[effects[i]] = "did"
  /\ \A i, j \in DOMAIN effects : effects[i] = effects[j] => i = j
  /\ \A n \in DOMAIN served : served[n] = "did" => \E i \in DOMAIN effects : effects[i] = n

\* What succeeded was done, and before whatever was read after its answer.
SuccessesWereDone ==
  /\ \A a \in DOMAIN answers : answers[a].what = "success" => served[answers[a].to] = "did"
  /\ \A a \in DOMAIN answers, i, j \in DOMAIN effects :
       answers[a].what = "success" /\ effects[i] = answers[a].to /\ effects[i] < effects[j] => i < j

AdapterInv ==
  AdapterTyped /\ AnswersAreInOrder /\ ServedWereChecked /\ EffectsAreServed /\ SuccessesWereDone

LEMMA AdapterInitially == AdapterInit => AdapterInv
BY DEF AdapterInit, AdapterInv, AdapterTyped, AnswersAreInOrder, ServedWereChecked, EffectsAreServed,
       SuccessesWereDone

\* What appending to a sequence leaves of it.
LEMMA Appended ==
  ASSUME NEW S, NEW s \in Seq(S), NEW x \in S, NEW t, t = Append(s, x)
  PROVE  /\ t \in Seq(S) /\ Len(t) = Len(s) + 1 /\ t[Len(s) + 1] = x
         /\ \A i \in 1..Len(s) : t[i] = s[i]
         /\ DOMAIN s = 1..Len(s) /\ DOMAIN t = 1..(Len(s) + 1) /\ Len(s) \in Nat
OBVIOUS

LEMMA AnswerAppended ==
  ASSUME answers \in Seq(Answerings), NEW r \in Answerings, answers' = Append(answers, r)
  PROVE  /\ Len(answers') = Len(answers) + 1 /\ answers'[Len(answers) + 1] = r
         /\ \A i \in 1..Len(answers) : answers'[i] = answers[i]
         /\ answers' \in Seq(Answerings)
         /\ DOMAIN answers' = 1..(Len(answers) + 1)
BY Appended

\* A line is read: what becomes of it at once.
LEMMA ReadingKeeps ==
  ASSUME AdapterInv, NEW l \in AgentLines, NEW x \in {"none", "has"},
         line' = Append(line, l), served' = Append(served, x), effects' = effects,
         asking = "reads", x = "has" => IsCall(l) /\ Fits(l),
         \/ asking' = "reads" /\ answers' = answers /\ ~IsOwed(l)
         \/ asking' = "waits" /\ answers' = answers
         \/ \E w \in Replied \ {"success"} :
              asking' = "reads" /\ answers' = Append(answers, [to |-> Len(line) + 1, what |-> w])
  PROVE  AdapterInv'
<1> PICK N : N = Len(line)
  OBVIOUS
<1>1. N \in Nat /\ DOMAIN line = 1..N /\ DOMAIN served = 1..N /\ Len(served) = N
  BY DEF AdapterInv, AdapterTyped
<1>2. /\ line' \in Seq(AgentLines) /\ Len(line') = N + 1 /\ line'[N + 1] = l
      /\ \A i \in 1..N : line'[i] = line[i]
      /\ DOMAIN line' = 1..(N + 1)
  BY Appended DEF AdapterInv, AdapterTyped
<1>3. /\ served' \in Seq(Fates) /\ Len(served') = N + 1 /\ served'[N + 1] = x
      /\ \A i \in 1..N : served'[i] = served[i]
      /\ DOMAIN served' = 1..(N + 1)
  <2>1. x \in Fates
    BY DEF Fates
  <2>2. served \in Seq(Fates)
    BY DEF AdapterInv, AdapterTyped
  <2> QED
    BY <1>1, <2>1, <2>2, Appended
<1> PICK K : K = Len(answers)
  OBVIOUS
<1>4. answers \in Seq(Answerings) /\ DOMAIN answers = 1..K /\ K \in Nat /\ K = Len(answers)
  BY DEF AdapterInv, AdapterTyped
<1>5. \/ answers' = answers /\ (asking' = "waits" \/ ~IsOwed(l))
      \/ \E w \in Replied \ {"success"} :
           /\ asking' = "reads"
           /\ answers'[K + 1].to = N + 1 /\ answers'[K + 1].what = w
           /\ \A i \in 1..K : answers'[i] = answers[i]
           /\ answers' \in Seq(Answerings)
           /\ DOMAIN answers' = 1..(K + 1)
  <2>2. ASSUME NEW w \in Replied \ {"success"}, asking' = "reads",
               answers' = Append(answers, [to |-> Len(line) + 1, what |-> w])
        PROVE  /\ answers'[K + 1].to = N + 1 /\ answers'[K + 1].what = w
               /\ \A i \in 1..K : answers'[i] = answers[i]
               /\ answers' \in Seq(Answerings)
               /\ DOMAIN answers' = 1..(K + 1)
    <3>1. PICK r : r = [to |-> N + 1, what |-> w]
      OBVIOUS
    <3>2. r \in Answerings
      BY <1>1, <3>1 DEF Answerings
    <3>3. answers' = Append(answers, r)
      BY <2>2, <3>1
    <3>4. Len(answers) + 1 \in Nat /\ r = [to |-> Len(line) + 1, what |-> w]
      BY <1>4, <3>1
    <3> HIDE <2>2
    <3>5. /\ Len(answers') = Len(answers) + 1 /\ answers'[Len(answers) + 1] = r
          /\ \A i \in 1..Len(answers) : answers'[i] = answers[i]
          /\ answers' \in Seq(Answerings)
          /\ DOMAIN answers' = 1..(Len(answers) + 1)
      BY <1>4, <3>2, <3>3, AnswerAppended, Zenon
    <3> QED
      BY <1>4, <3>1, <3>5
  <2> QED
    BY <2>2
<1>6. \A a \in DOMAIN answers : answers'[a] = answers[a] /\ a \in DOMAIN answers'
  BY <1>4, <1>5
<1>7. \A a \in DOMAIN answers' : a \in DOMAIN answers \/
        (a = K + 1 /\ answers'[a].to = N + 1 /\ answers'[a].what # "success" /\ asking' = "reads")
  BY <1>4, <1>5
<1>8. \A a \in DOMAIN answers : answers[a].to \in 1..N
  BY DEF AdapterInv, AnswersAreInOrder
<1>9. AdapterTyped'
  <2>1. answers' \in Seq(Answerings)
    BY <1>4, <1>5
  <2>2. effects' \in Seq(Nat)
    BY DEF AdapterInv, AdapterTyped
  <2>3. asking' \in {"reads", "waits"}
    OBVIOUS
  <2>4. Len(served') = Len(line') /\ Len(line') > 0
    BY <1>1, <1>2, <1>3
  <2> QED
    BY <1>2, <1>3, <2>1, <2>2, <2>3, <2>4 DEF AdapterTyped
<1>10. AnswersAreInOrder'
  <2>1. ASSUME NEW a \in DOMAIN answers'
        PROVE answers'[a].to \in 1..Len(line') /\ (asking' = "waits" => answers'[a].to # Len(line'))
    BY <1>1, <1>2, <1>6, <1>7, <1>8
  <2>2. ASSUME NEW a \in DOMAIN answers', NEW b \in DOMAIN answers', a < b
        PROVE  answers'[a].to < answers'[b].to
    <3>1. CASE b \in DOMAIN answers
      <4>1. a \in DOMAIN answers
        BY <1>4, <1>7, <2>2, <3>1
      <4> QED
        BY <1>6, <2>2, <3>1, <4>1 DEF AdapterInv, AnswersAreInOrder
    <3>2. CASE b \notin DOMAIN answers
      <4>1. b = K + 1 /\ answers'[b].to = N + 1
        BY <1>7, <3>2
      <4>2. a \in DOMAIN answers
        BY <1>7, <2>2, <4>1
      <4>3. answers'[a].to \in 1..N
        BY <1>6, <1>8, <4>2
      <4> QED
        BY <1>1, <4>1, <4>3
    <3> QED
      BY <3>1, <3>2
  <2>3. ASSUME NEW n \in DOMAIN line', n < Len(line') \/ asking' = "reads", IsOwed(line'[n])
        PROVE  \E a \in DOMAIN answers' : answers'[a].to = n
    <3>1. CASE n \in 1..N
      <4>1. IsOwed(line[n]) /\ n \in DOMAIN line
        BY <1>1, <1>2, <2>3, <3>1
      <4>2. PICK a \in DOMAIN answers : answers[a].to = n
        BY <4>1 DEF AdapterInv, AnswersAreInOrder
      <4> QED
        BY <1>6, <4>2
    <3>2. CASE n = N + 1
      <4>1. IsOwed(l) /\ asking' = "reads"
        BY <1>1, <1>2, <2>3, <3>2
      <4>2. K + 1 \in DOMAIN answers' /\ answers'[K + 1].to = N + 1
        BY <1>4, <1>5, <4>1
      <4> QED
        BY <3>2, <4>2
    <3> QED
      BY <1>1, <1>2, <3>1, <3>2
  <2> QED
    BY <2>1, <2>2, <2>3 DEF AnswersAreInOrder
<1>11. ServedWereChecked'
  <2> SUFFICES ASSUME NEW n \in DOMAIN served', served'[n] # "none"
               PROVE  IsCall(line'[n]) /\ Fits(line'[n])
    BY DEF ServedWereChecked
  <2>1. CASE n \in 1..N
    BY <1>1, <1>2, <1>3, <2>1 DEF AdapterInv, ServedWereChecked
  <2>2. CASE n = N + 1
    BY <1>2, <1>3, <2>2
  <2> QED
    BY <1>1, <1>3, <2>1, <2>2
<1>12. EffectsAreServed'
  <2>1. \A i \in DOMAIN effects : effects[i] \in 1..N /\ served[effects[i]] = "did"
    BY DEF AdapterInv, EffectsAreServed
  <2>2. \A i \in DOMAIN effects' : effects'[i] \in 1..Len(line') /\ served'[effects'[i]] = "did"
    BY <1>1, <1>2, <1>3, <2>1
  <2>3. \A n \in DOMAIN served' : served'[n] = "did" => \E i \in DOMAIN effects' : effects'[i] = n
    BY <1>1, <1>3 DEF AdapterInv, EffectsAreServed
  <2>4. \A i, j \in DOMAIN effects' : effects'[i] = effects'[j] => i = j
    BY DEF AdapterInv, EffectsAreServed
  <2> QED
    BY <2>2, <2>3, <2>4 DEF EffectsAreServed
<1>13. SuccessesWereDone'
  <2>1. \A a \in DOMAIN answers' : answers'[a].what = "success" =>
           a \in DOMAIN answers /\ answers'[a] = answers[a]
    BY <1>6, <1>7
  <2>2. \A a \in DOMAIN answers' : answers'[a].what = "success" => served'[answers'[a].to] = "did"
    BY <1>3, <1>8, <2>1 DEF AdapterInv, SuccessesWereDone
  <2>3. \A a \in DOMAIN answers', i, j \in DOMAIN effects' :
          answers'[a].what = "success" /\ effects'[i] = answers'[a].to /\ effects'[i] < effects'[j] => i < j
    BY <2>1 DEF AdapterInv, SuccessesWereDone
  <2> QED
    BY <2>2, <2>3 DEF SuccessesWereDone
<1> QED
  BY <1>9, <1>10, <1>11, <1>12, <1>13 DEF AdapterInv

LEMMA IgnoresKeeps == ASSUME AdapterInv, Ignores PROVE AdapterInv'
<1>1. PICK l \in AgentLines :
        /\ \/ l.method \in {"none", "notifications/initialized"}
           \/ l.method = "tools/call" /\ l.id # "id"
           \/ l.method = "other" /\ l.id = "none"
        /\ Reads(l) /\ UNCHANGED << asking, answers >>
        /\ served' = Append(served, "none")
  BY DEF Ignores
<1>2. ~IsOwed(l)
  BY <1>1 DEF IsOwed
<1> QED
  BY <1>1, <1>2, ReadingKeeps DEF Reads

LEMMA AnswersAtOnceKeeps == ASSUME AdapterInv, AnswersAtOnce PROVE AdapterInv'
<1>1. PICK l \in AgentLines :
        /\ Reads(l) /\ UNCHANGED asking
        /\ Replies(Here + 1, IF l.method = "other" THEN "no method" ELSE "result")
        /\ served' = Append(served, "none")
  BY DEF AnswersAtOnce
<1>2. PICK w : w = IF l.method = "other" THEN "no method" ELSE "result"
  OBVIOUS
<1>3. w \in Replied \ {"success"}
  BY <1>2 DEF Replied
<1>4. answers' = Append(answers, [to |-> Len(line) + 1, what |-> w])
  BY <1>1, <1>2 DEF Replies, Here
<1> QED
  BY <1>1, <1>3, <1>4, ReadingKeeps DEF Reads

LEMMA RejectsKeeps == ASSUME AdapterInv, Rejects PROVE AdapterInv'
<1>1. PICK l \in AgentLines :
        /\ Reads(l) /\ Replies(Here + 1, "bad params") /\ UNCHANGED asking /\ served' = Append(served, "none")
  BY DEF Rejects
<1>2. "bad params" \in Replied \ {"success"}
  BY DEF Replied
<1>3. answers' = Append(answers, [to |-> Len(line) + 1, what |-> "bad params"])
  BY <1>1 DEF Replies, Here
<1> QED
  BY <1>1, <1>2, <1>3, ReadingKeeps DEF Reads

LEMMA AsksKeeps == ASSUME AdapterInv, Asks PROVE AdapterInv'
<1>1. PICK l \in AgentLines :
        /\ IsCall(l) /\ Fits(l) /\ Reads(l) /\ asking' = "waits"
        /\ served' = Append(served, "has") /\ UNCHANGED answers
  BY DEF Asks
<1> QED
  BY <1>1, ReadingKeeps DEF Reads

\* What is said of the line at hand, and what becomes of its request with it.
LEMMA AnsweringKeeps ==
  ASSUME AdapterInv, asking = "waits", asking' = "reads", line' = line, effects' = effects,
         NEW w \in Replied, answers' = Append(answers, [to |-> Len(line), what |-> w]),
         w = "success" => served[Len(line)] = "did",
         \/ served' = served
         \/ served[Len(line)] = "has" /\ served' = [served EXCEPT ![Len(line)] = "refused"]
  PROVE  AdapterInv'
<1> PICK N : N = Len(line)
  OBVIOUS
<1> PICK K : K = Len(answers)
  OBVIOUS
<1>1. N \in Nat /\ N > 0 /\ DOMAIN line = 1..N /\ DOMAIN served = 1..N /\ Len(served) = N
  BY DEF AdapterInv, AdapterTyped
<1>2. /\ answers \in Seq(Answerings) /\ DOMAIN answers = 1..K /\ K \in Nat /\ K = Len(answers)
  BY DEF AdapterInv, AdapterTyped
<1>3. PICK r : r = [to |-> N, what |-> w]
  OBVIOUS
<1>4. r \in Answerings
  BY <1>1, <1>3 DEF Answerings
<1>5. answers' = Append(answers, r)
  BY <1>3
<1>6. /\ answers'[K + 1] = r /\ answers' \in Seq(Answerings) /\ DOMAIN answers' = 1..(K + 1)
      /\ \A i \in 1..K : answers'[i] = answers[i]
  BY <1>2, <1>4, <1>5, AnswerAppended
<1>7. r.to = N /\ r.what = w
  BY <1>3
<1>8. /\ served' \in Seq(Fates) /\ Len(served') = N /\ DOMAIN served' = 1..N
      /\ \A n \in 1..N : served'[n] = served[n] \/ (served[n] = "has" /\ served'[n] = "refused")
  <2>1. served \in Seq(Fates)
    BY DEF AdapterInv, AdapterTyped
  <2>2. CASE served' = served
    BY <1>1, <2>1, <2>2
  <2>3. CASE served[N] = "has" /\ served' = [served EXCEPT ![N] = "refused"]
    <3>1. "refused" \in Fates
      BY DEF Fates
    <3> QED
      BY <1>1, <2>1, <2>3, <3>1
  <2> QED
    BY <2>2, <2>3
<1>9. \A a \in DOMAIN answers : answers[a].to \in 1..N /\ answers[a].to # N
  BY DEF AdapterInv, AnswersAreInOrder
<1>10. \A n \in 1..N : served'[n] = "did" <=> served[n] = "did"
  BY <1>8
<1>11. AdapterTyped'
  <2>1. effects' \in Seq(Nat) /\ line' \in Seq(AgentLines)
    BY DEF AdapterInv, AdapterTyped
  <2> QED
    BY <1>6, <1>8, <2>1 DEF AdapterTyped
<1>12. AnswersAreInOrder'
  <2>1. ASSUME NEW a \in DOMAIN answers' PROVE answers'[a].to \in 1..Len(line')
    BY <1>1, <1>2, <1>6, <1>7, <1>9
  <2>2. ASSUME NEW a \in DOMAIN answers', NEW b \in DOMAIN answers', a < b
        PROVE  answers'[a].to < answers'[b].to
    <3>1. CASE b \in 1..K
      <4>1. a \in 1..K
        BY <1>2, <1>6, <2>2, <3>1
      <4> QED
        BY <1>2, <1>6, <2>2, <3>1, <4>1 DEF AdapterInv, AnswersAreInOrder
    <3>2. CASE b = K + 1
      <4>1. a \in 1..K
        BY <1>2, <1>6, <2>2, <3>2
      <4>2. answers'[a].to \in 1..N /\ answers'[a].to # N
        BY <1>2, <1>6, <1>9, <4>1
      <4> QED
        BY <1>1, <1>6, <1>7, <3>2, <4>2
    <3> QED
      BY <1>2, <1>6, <3>1, <3>2
  <2>3. ASSUME NEW n \in DOMAIN line', IsOwed(line'[n])
        PROVE  \E a \in DOMAIN answers' : answers'[a].to = n
    <3>1. CASE n = N
      <4>1. K + 1 \in DOMAIN answers'
        BY <1>2, <1>6
      <4> QED
        BY <1>6, <1>7, <3>1, <4>1
    <3>2. CASE n # N
      <4>1. n \in DOMAIN line /\ n < Len(line) /\ IsOwed(line[n])
        BY <1>1, <2>3, <3>2
      <4>2. PICK a \in DOMAIN answers : answers[a].to = n
        BY <4>1 DEF AdapterInv, AnswersAreInOrder
      <4>3. a \in 1..K /\ a \in DOMAIN answers'
        BY <1>2, <1>6
      <4> QED
        BY <1>6, <4>2, <4>3
    <3> QED
      BY <3>1, <3>2
  <2> QED
    BY <2>1, <2>2, <2>3 DEF AnswersAreInOrder
<1>13. ServedWereChecked'
  BY <1>1, <1>8 DEF AdapterInv, ServedWereChecked
<1>14. EffectsAreServed'
  BY <1>1, <1>8, <1>10 DEF AdapterInv, EffectsAreServed
<1>15. SuccessesWereDone'
  <2>1. \A a \in DOMAIN answers' : answers'[a].what = "success" => served'[answers'[a].to] = "did"
    <3> SUFFICES ASSUME NEW a \in DOMAIN answers', answers'[a].what = "success"
                 PROVE  served'[answers'[a].to] = "did"
      OBVIOUS
    <3>1. CASE a = K + 1
      BY <1>1, <1>6, <1>7, <1>10, <3>1
    <3>2. CASE a \in 1..K
      <4>1. answers'[a] = answers[a] /\ a \in DOMAIN answers
        BY <1>2, <1>6, <3>2
      <4>2. served[answers[a].to] = "did"
        BY <4>1 DEF AdapterInv, SuccessesWereDone
      <4> QED
        BY <1>9, <1>10, <4>1, <4>2
    <3> QED
      BY <1>2, <1>6, <3>1, <3>2
  <2>2. \A i \in DOMAIN effects : effects[i] \in 1..N
    BY DEF AdapterInv, EffectsAreServed
  <2>3. ASSUME NEW a \in DOMAIN answers', NEW i \in DOMAIN effects', NEW j \in DOMAIN effects',
               answers'[a].what = "success", effects'[i] = answers'[a].to, effects'[i] < effects'[j]
        PROVE  i < j
    <3>1. CASE a = K + 1
      <4>1. effects[i] = N /\ effects[j] \in 1..N
        BY <1>6, <1>7, <2>2, <2>3, <3>1
      <4> QED
        BY <1>1, <2>3, <4>1
    <3>2. CASE a \in 1..K
      <4>1. answers'[a] = answers[a] /\ a \in DOMAIN answers
        BY <1>2, <1>6, <3>2
      <4> QED
        BY <2>3, <4>1 DEF AdapterInv, SuccessesWereDone
    <3> QED
      BY <1>2, <1>6, <3>1, <3>2
  <2> QED
    BY <2>1, <2>3 DEF SuccessesWereDone
<1> QED
  BY <1>11, <1>12, <1>13, <1>14, <1>15 DEF AdapterInv

LEMMA IsAnsweredKeeps == ASSUME AdapterInv, IsAnswered PROVE AdapterInv'
<1>1. PICK readable \in BOOLEAN :
        Replies(Here, IF served[Here] = "did" /\ readable THEN "success" ELSE "failed")
  BY DEF IsAnswered
<1>2. PICK w : w = IF served[Here] = "did" /\ readable THEN "success" ELSE "failed"
  OBVIOUS
<1>3. w \in Replied /\ (w = "success" => served[Len(line)] = "did")
  BY <1>2 DEF Replied, Here
<1>4. answers' = Append(answers, [to |-> Len(line), what |-> w])
  BY <1>1, <1>2 DEF Replies, Here
<1> QED
  BY <1>3, <1>4, AnsweringKeeps DEF IsAnswered

LEMMA GivesUpOnVisorKeeps == ASSUME AdapterInv, GivesUpOnVisor PROVE AdapterInv'
<1>1. PICK left \in {served[Here]} \cup IF served[Here] = "has" THEN {"refused"} ELSE {} :
        served' = [served EXCEPT ![Here] = left]
  BY DEF GivesUpOnVisor
<1>2. \/ served' = served
      \/ served[Len(line)] = "has" /\ served' = [served EXCEPT ![Len(line)] = "refused"]
  <2>1. CASE left = served[Here]
    BY <1>1, <2>1 DEF AdapterInv, AdapterTyped
  <2>2. CASE left # served[Here]
    BY <1>1, <2>2 DEF Here
  <2> QED
    BY <2>1, <2>2
<1>3. "failed" \in Replied
  BY DEF Replied
<1>4. answers' = Append(answers, [to |-> Len(line), what |-> "failed"])
  BY DEF GivesUpOnVisor, Replies, Here
<1> QED
  BY <1>2, <1>3, <1>4, AnsweringKeeps DEF GivesUpOnVisor

LEMMA DoesKeeps == ASSUME AdapterInv, NEW m \in DOMAIN served, Does(m) PROVE AdapterInv'
<1> PICK N : N = Len(line)
  OBVIOUS
<1> PICK E : E = Len(effects)
  OBVIOUS
<1>1. N \in Nat /\ DOMAIN line = 1..N /\ DOMAIN served = 1..N /\ Len(served) = N /\ m \in 1..N
  BY DEF AdapterInv, AdapterTyped
<1>2. effects \in Seq(Nat) /\ DOMAIN effects = 1..E /\ E \in Nat
  BY DEF AdapterInv, AdapterTyped
<1>3. /\ effects' \in Seq(Nat) /\ DOMAIN effects' = 1..(E + 1) /\ effects'[E + 1] = m
      /\ \A i \in 1..E : effects'[i] = effects[i]
  <2>1. m \in Nat /\ effects' = Append(effects, m)
    BY <1>1 DEF Does
  <2> QED
    BY <1>2, <2>1, Appended
<1>4. line' = line /\ asking' = asking /\ answers' = answers /\ served[m] = "has"
  BY DEF Does
<1>5. /\ served' \in Seq(Fates) /\ Len(served') = N /\ DOMAIN served' = 1..N /\ served'[m] = "did"
      /\ \A n \in 1..N : n # m => served'[n] = served[n]
  <2>1. served \in Seq(Fates)
    BY DEF AdapterInv, AdapterTyped
  <2>2. "did" \in Fates
    BY DEF Fates
  <2>3. served' = [served EXCEPT ![m] = "did"]
    BY DEF Does
  <2> QED
    BY <1>1, <2>1, <2>2, <2>3
<1>6. \A i \in 1..E : effects[i] \in 1..N /\ served[effects[i]] = "did" /\ effects[i] # m
  BY <1>2, <1>4 DEF AdapterInv, EffectsAreServed
<1>7. AdapterTyped'
  BY <1>1, <1>3, <1>4, <1>5 DEF AdapterInv, AdapterTyped
<1>8. AnswersAreInOrder'
  BY <1>4 DEF AdapterInv, AnswersAreInOrder
<1>9. ServedWereChecked'
  BY <1>1, <1>4, <1>5 DEF AdapterInv, ServedWereChecked
<1>10. EffectsAreServed'
  <2>1. \A i \in DOMAIN effects' : effects'[i] \in 1..Len(line') /\ served'[effects'[i]] = "did"
    <3> SUFFICES ASSUME NEW i \in 1..(E + 1)
                 PROVE  effects'[i] \in 1..Len(line') /\ served'[effects'[i]] = "did"
      BY <1>3
    <3>1. CASE i = E + 1
      BY <1>1, <1>3, <1>4, <1>5, <3>1
    <3>2. CASE i \in 1..E
      <4>1. effects'[i] = effects[i] /\ effects[i] \in 1..N /\ served[effects[i]] = "did" /\ effects[i] # m
        BY <1>3, <1>6, <3>2
      <4>2. served'[effects[i]] = "did"
        BY <1>5, <4>1
      <4> QED
        BY <1>1, <1>4, <4>1, <4>2
    <3> QED
      BY <1>2, <3>1, <3>2
  <2>2. ASSUME NEW i \in DOMAIN effects', NEW j \in DOMAIN effects', effects'[i] = effects'[j]
        PROVE  i = j
    <3>1. CASE i \in 1..E /\ j \in 1..E
      BY <1>2, <1>3, <2>2, <3>1 DEF AdapterInv, EffectsAreServed
    <3> QED
      BY <1>2, <1>3, <1>6, <2>2, <3>1, SMTT(60)
  <2>3. ASSUME NEW n \in DOMAIN served', served'[n] = "did" PROVE \E i \in DOMAIN effects' : effects'[i] = n
    <3>1. CASE n = m
      BY <1>2, <1>3, <3>1
    <3>2. CASE n # m
      <4>1. served[n] = "did" /\ n \in DOMAIN served
        BY <1>1, <1>5, <2>3, <3>2
      <4>2. PICK i \in 1..E : effects[i] = n
        BY <1>2, <4>1 DEF AdapterInv, EffectsAreServed
      <4>3. i \in DOMAIN effects' /\ effects'[i] = n
        BY <1>2, <1>3, <4>2
      <4> QED
        BY <4>3
    <3> QED
      BY <3>1, <3>2
  <2> QED
    BY <2>1, <2>2, <2>3 DEF EffectsAreServed
<1>11. SuccessesWereDone'
  <2>1. \A a \in DOMAIN answers : answers[a].to \in 1..N
    BY DEF AdapterInv, AnswersAreInOrder
  <2>2. \A a \in DOMAIN answers : answers[a].what = "success" =>
          served[answers[a].to] = "did" /\ answers[a].to # m
    BY <1>4 DEF AdapterInv, SuccessesWereDone
  <2>3. \A a \in DOMAIN answers' : answers'[a].what = "success" => served'[answers'[a].to] = "did"
    BY <1>4, <1>5, <2>1, <2>2
  <2>4. ASSUME NEW a \in DOMAIN answers', NEW i \in DOMAIN effects', NEW j \in DOMAIN effects',
               answers'[a].what = "success", effects'[i] = answers'[a].to, effects'[i] < effects'[j]
        PROVE  i < j
    <3>1. i \in 1..E
      BY <1>2, <1>3, <1>4, <2>2, <2>4
    <3>2. CASE j \in 1..E
      BY <1>2, <1>3, <1>4, <2>4, <3>1, <3>2 DEF AdapterInv, SuccessesWereDone
    <3>3. CASE j = E + 1
      BY <1>2, <3>1, <3>3
    <3> QED
      BY <1>2, <1>3, <3>2, <3>3
  <2> QED
    BY <2>3, <2>4 DEF SuccessesWereDone
<1> QED
  BY <1>7, <1>8, <1>9, <1>10, <1>11 DEF AdapterInv

LEMMA RefusesKeeps == ASSUME AdapterInv, NEW m \in DOMAIN served, Refuses(m) PROVE AdapterInv'
<1> PICK N : N = Len(line)
  OBVIOUS
<1>1. N \in Nat /\ DOMAIN line = 1..N /\ DOMAIN served = 1..N /\ Len(served) = N /\ m \in 1..N
  BY DEF AdapterInv, AdapterTyped
<1>2. /\ line' = line /\ asking' = asking /\ effects' = effects /\ answers' = answers
      /\ served[m] = "has"
  BY DEF Refuses
<1>3. /\ served' \in Seq(Fates) /\ Len(served') = N /\ DOMAIN served' = 1..N /\ served'[m] = "refused"
      /\ \A n \in 1..N : n # m => served'[n] = served[n]
  <2>1. served \in Seq(Fates)
    BY DEF AdapterInv, AdapterTyped
  <2>2. "refused" \in Fates
    BY DEF Fates
  <2>3. served' = [served EXCEPT ![m] = "refused"]
    BY DEF Refuses
  <2> QED
    BY <1>1, <2>1, <2>2, <2>3
<1>4. \A n \in 1..N : served'[n] = "did" <=> served[n] = "did"
  BY <1>2, <1>3
<1>5. AdapterTyped'
  BY <1>1, <1>2, <1>3 DEF AdapterInv, AdapterTyped
<1>6. AnswersAreInOrder'
  BY <1>2 DEF AdapterInv, AnswersAreInOrder
<1>7. ServedWereChecked'
  BY <1>1, <1>2, <1>3 DEF AdapterInv, ServedWereChecked
<1>8. EffectsAreServed'
  BY <1>1, <1>2, <1>3, <1>4 DEF AdapterInv, EffectsAreServed
<1>9. SuccessesWereDone'
  <2>1. \A a \in DOMAIN answers : answers[a].to \in 1..N
    BY DEF AdapterInv, AnswersAreInOrder
  <2> QED
    BY <1>2, <1>4, <2>1 DEF AdapterInv, SuccessesWereDone
<1> QED
  BY <1>5, <1>6, <1>7, <1>8, <1>9 DEF AdapterInv

LEMMA AdapterStep == AdapterInv /\ [AdapterNext]_adapterVars => AdapterInv'
<1> SUFFICES ASSUME AdapterInv, [AdapterNext]_adapterVars PROVE AdapterInv'
  OBVIOUS
<1>1. CASE Ignores
  BY <1>1, IgnoresKeeps
<1>2. CASE AnswersAtOnce
  BY <1>2, AnswersAtOnceKeeps
<1>3. CASE Rejects
  BY <1>3, RejectsKeeps
<1>4. CASE Asks
  BY <1>4, AsksKeeps
<1>5. CASE IsAnswered
  BY <1>5, IsAnsweredKeeps
<1>6. CASE GivesUpOnVisor
  BY <1>6, GivesUpOnVisorKeeps
<1>7. CASE \E n \in DOMAIN served : Does(n) \/ Refuses(n)
  BY <1>7, DoesKeeps, RefusesKeeps
<1>8. CASE UNCHANGED adapterVars
  BY <1>8 DEF adapterVars, AdapterInv, AdapterTyped, AnswersAreInOrder, ServedWereChecked,
              EffectsAreServed, SuccessesWereDone
<1> QED
  BY <1>1, <1>2, <1>3, <1>4, <1>5, <1>6, <1>7, <1>8 DEF AdapterNext

\* What the adapter lets through is within the limits of the visor.
LEMMA FittingIsInRange ==
  ASSUME NEW l \in AgentLines, Fits(l), l.tool \in PointerTools
  PROVE  ~OutOfRange(l.args)
<1>1. \A i \in 1..2 : l.args.at[i] \in 0..MaxCoord
  BY DEF Fits
<1>2. l.args.to = l.args.at /\ l.args.action \in {"move", "click", "scroll"}
  BY AdapterAssumption DEF PointerTools
<1>3. l.args.action = "scroll" => l.tool = "mouse_scroll"
  BY AdapterAssumption DEF PointerTools
<1>4. InBounds(l.args)
  <2>1. ASSUME NEW i \in 1..2 PROVE AxisMin <= l.args.at[i] /\ l.args.at[i] <= AxisMax
    BY <1>1, AdapterAssumption
  <2> QED
    BY <1>2, <2>1 DEF InBounds
<1>5. l.args.action # "drag"
  BY <1>2
<1>6. l.args.action = "scroll" => TicksFit(l.args.delta)
  BY <1>3 DEF Fits, DeltasFit
<1> QED
  BY <1>4, <1>5, <1>6 DEF OutOfRange

LEMMA AdapterInvIsEnough == AdapterInv => AnswersAreTrue
<1> SUFFICES ASSUME AdapterInv PROVE AnswersAreTrue
  OBVIOUS
<1>1. DOMAIN line = 1..Len(line) /\ DOMAIN served = 1..Len(line) /\ Len(line) \in Nat
  BY DEF AdapterInv, AdapterTyped
<1>2. DOMAIN answers \subseteq Nat /\ \A a \in DOMAIN answers : answers[a].to \in Nat
  BY <1>1 DEF AdapterInv, AdapterTyped, AnswersAreInOrder
<1>3. ASSUME NEW n \in DOMAIN line, n < Here \/ asking = "reads", IsOwed(line[n])
      PROVE  Cardinality(To(n)) = 1
  <2>1. PICK a \in DOMAIN answers : answers[a].to = n
    BY <1>3 DEF AdapterInv, AnswersAreInOrder, Here
  <2>2. ASSUME NEW b \in DOMAIN answers, answers[b].to = n PROVE b = a
    <3>1. ~(a < b) /\ ~(b < a)
      BY <1>2, <2>1, <2>2 DEF AdapterInv, AnswersAreInOrder
    <3>2. a \in Nat /\ b \in Nat
      BY <1>2
    <3> QED
      BY <3>1, <3>2
  <2>3. To(n) = {a}
    BY <2>1, <2>2 DEF To
  <2> QED
    BY <2>3, FS_Singleton
<1>4. \A a, b \in DOMAIN answers : a < b => answers[a].to < answers[b].to
  BY DEF AdapterInv, AnswersAreInOrder
<1>5. ASSUME NEW i \in DOMAIN effects PROVE Cardinality(Indices(effects, effects[i])) = 1
  <2>1. \A j \in DOMAIN effects : effects[j] = effects[i] => j = i
    BY DEF AdapterInv, EffectsAreServed
  <2>2. Indices(effects, effects[i]) = {i}
    BY <2>1 DEF Indices
  <2> QED
    BY <2>2, FS_Singleton
<1>6. ASSUME NEW n \in Success PROVE \E a \in DOMAIN answers : answers[a].to = n /\ answers[a].what = "success"
  BY DEF Success, To
<1>7. ASSUME NEW n \in Success PROVE Cardinality(Indices(effects, n)) = 1
  <2>1. PICK a \in DOMAIN answers : answers[a].to = n /\ answers[a].what = "success"
    BY <1>6
  <2>2. served[n] = "did" /\ n \in DOMAIN served
    BY <1>1, <2>1 DEF AdapterInv, SuccessesWereDone, AnswersAreInOrder
  <2>3. PICK i \in DOMAIN effects : effects[i] = n
    BY <2>2 DEF AdapterInv, EffectsAreServed
  <2> QED
    BY <1>5, <2>3
<1>8. ASSUME NEW n \in Success, NEW i \in Indices(effects, n), NEW k \in Success,
             NEW j \in Indices(effects, k), n < k
      PROVE  i < j
  <2>1. PICK a \in DOMAIN answers : answers[a].to = n /\ answers[a].what = "success"
    BY <1>6
  <2>2. i \in DOMAIN effects /\ effects[i] = n /\ j \in DOMAIN effects /\ effects[j] = k
    BY DEF Indices
  <2> QED
    BY <1>8, <2>1, <2>2 DEF AdapterInv, SuccessesWereDone
<1>9. ASSUME NEW i \in DOMAIN effects
      PROVE  /\ line[effects[i]].method = "tools/call" /\ line[effects[i]].id = "id"
             /\ line[effects[i]].tool \in PointerTools => ~OutOfRange(line[effects[i]].args)
  <2>1. PICK n : n = effects[i]
    OBVIOUS
  <2>2. n \in 1..Len(line) /\ served[n] = "did"
    BY <2>1 DEF AdapterInv, EffectsAreServed
  <2>3. IsCall(line[n]) /\ Fits(line[n])
    BY <1>1, <2>2 DEF AdapterInv, ServedWereChecked
  <2>4. line[n] \in AgentLines
    BY <2>2 DEF AdapterInv, AdapterTyped
  <2> QED
    BY <2>1, <2>3, <2>4, FittingIsInRange DEF IsCall
<1> QED
  BY <1>3, <1>4, <1>5, <1>7, <1>8, <1>9 DEF AnswersAreTrue

\* What the agent is told is so, however long the visor goes on with what the adapter no
\* longer waits for: one answer to each request, in order, a success only for what was
\* done once and in that order, and nothing unchecked reaches the desktop (main,
\* handle_call, tool_request, tool_result).
THEOREM AnswersStayTrue == AdapterSpec => []AnswersAreTrue
BY AdapterInitially, AdapterStep, AdapterInvIsEnough, PTL DEF AdapterSpec

-----------------------------------------------------------------------------
(* Options: a command line, word by word.                                  *)

Words == FlagWords \cup ValueWords

LEMMA WhatIsTaken ==
  ASSUME NEW f
  PROVE  /\ TakesNext(f) \in {"nothing", "anything", "text", "pair", "error"}
         /\ TakesValue(f) <=> TakesNext(f) \notin {"nothing", "error"}
BY DEF TakesNext, TakesValue

LEMMA ReadStepByStep ==
  ASSUME NEW ws \in Seq(Words), NEW r, r = ReadAs(ws)
  PROVE  /\ r[0] = "flag"
         /\ \A i \in 1..Len(ws) : r[i] = IF r[i - 1] = "flag" /\ TakesValue(ws[i]) THEN "value" ELSE "flag"
<1>1. PICK n, S : n = Len(ws) /\ S = {"flag", "value"}
  OBVIOUS
<1>N. n \in Nat
  BY <1>1
<1>2. n \in Nat /\ "flag" \in S /\ "value" \in S
  BY <1>1
<1>3. PICK step : step = [i \in 1..n |-> [x \in S |-> IF x = "flag" /\ TakesValue(ws[i]) THEN "value" ELSE "flag"]]
  OBVIOUS
<1>4. step \in [1..n -> [S -> S]]
  BY <1>2, <1>3
<1>5. PICK f \in [0..n -> S] : f[0] = "flag" /\ \A i \in 1..n : f[i] = step[i][f[i - 1]]
  <2>1. ASSUME NEW base \in S
        PROVE  \E f \in [0..n -> S] : f[0] = base /\ \A i \in 1..n : f[i] = step[i][f[i - 1]]
    BY <1>N, <1>4, TableExists
  <2> QED
    BY <1>2, <2>1
<1>6. ASSUME NEW i \in 1..n
      PROVE  f[i] = IF f[i - 1] = "flag" /\ TakesValue(ws[i]) THEN "value" ELSE "flag"
  <2>1. f[i - 1] \in S
    BY <1>2, <1>5
  <2> QED
    BY <1>3, <1>5, <2>1
<1>7. f = [i \in 0..n |-> IF i = 0 THEN "flag"
                          ELSE IF f[i - 1] = "flag" /\ TakesValue(ws[i]) THEN "value" ELSE "flag"]
  <2>1. ASSUME NEW i \in 0..n
        PROVE  f[i] = IF i = 0 THEN "flag"
                      ELSE IF f[i - 1] = "flag" /\ TakesValue(ws[i]) THEN "value" ELSE "flag"
    <3>1. CASE i = 0
      BY <1>5, <3>1
    <3>2. CASE i # 0
      <4>1. i \in 1..n
        BY <1>2, <3>2
      <4> QED
        BY <1>6, <3>2, <4>1
    <3> QED
      BY <3>1, <3>2
  <2> QED
    BY <1>5, <2>1
<1>8. r = [i \in 0..n |-> IF i = 0 THEN "flag"
                          ELSE IF r[i - 1] = "flag" /\ TakesValue(ws[i]) THEN "value" ELSE "flag"]
  BY <1>1, <1>7 DEF ReadAs
<1> QED
  BY <1>1, <1>2, <1>8

ReadsOn(ws, w, vs) ==
  /\ \A i \in 0..Len(ws) : ReadAs(vs)[i] = ReadAs(ws)[i] /\ ReadAs(ws)[i] \in {"flag", "value"}
  /\ ReadAs(vs)[Len(ws) + 1] =
       IF ReadAs(ws)[Len(ws)] = "flag" /\ TakesValue(w) THEN "value" ELSE "flag"

\* A further word changes nothing of how those before it were read.
LEMMA ReadGrows ==
  ASSUME NEW ws \in Seq(Words), NEW w \in Words, NEW vs, vs = Append(ws, w)
  PROVE  ReadsOn(ws, w, vs)
<1> PICK n \in Nat : n = Len(ws)
  OBVIOUS
<1> PICK r, q : r = ReadAs(ws) /\ q = ReadAs(vs)
  OBVIOUS
<1>1. n \in Nat /\ vs \in Seq(Words) /\ Len(vs) = n + 1 /\ vs[n + 1] = w /\ \A i \in 1..n : vs[i] = ws[i]
  OBVIOUS
<1>2. /\ r[0] = "flag"
      /\ \A i \in 1..n : r[i] = IF r[i - 1] = "flag" /\ TakesValue(ws[i]) THEN "value" ELSE "flag"
  BY <1>1, ReadStepByStep
<1>3. /\ q[0] = "flag"
      /\ \A i \in 1..(n + 1) : q[i] = IF q[i - 1] = "flag" /\ TakesValue(vs[i]) THEN "value" ELSE "flag"
  <2>1. vs \in Seq(Words) /\ q = ReadAs(vs)
    BY <1>1
  <2>2. /\ q[0] = "flag"
        /\ \A i \in 1..Len(vs) : q[i] = IF q[i - 1] = "flag" /\ TakesValue(vs[i]) THEN "value" ELSE "flag"
    BY ONLY <2>1, ReadStepByStep
  <2> QED
    BY <1>1, <2>2
<1>4. \A i \in 0..n : q[i] = r[i]
  <2>1. PICK P : P = {i \in 0..n : q[i] = r[i]}
    OBVIOUS
  <2>2. 0 \in P
    BY <1>1, <1>2, <1>3, <2>1
  <2>3. ASSUME NEW i \in 1..n, i - 1 \in P PROVE i \in P
    <3>1. q[i - 1] = r[i - 1] /\ vs[i] = ws[i] /\ i \in 1..(n + 1)
      BY <1>1, <2>1, <2>3
    <3>2. q[i] = r[i]
      BY <1>2, <1>3, <3>1
    <3> QED
      BY <2>1, <3>2
  <2>4. \A i \in 0..n : i \in P
    <3>1. PICK m : m = n
      OBVIOUS
    <3>2. m \in Nat /\ 0 \in P /\ \A i \in 1..m : i - 1 \in P => i \in P
      BY <2>2, <2>3, <3>1
    <3>3. \A i \in 0..m : i \in P
      BY ONLY <3>2, CountUp
    <3> QED
      BY <3>1, <3>3
  <2>5. ASSUME NEW i \in 0..n PROVE q[i] = r[i]
    BY <2>1, <2>4
  <2> QED
    BY <2>5
<1>5. \A i \in 0..n : r[i] \in {"flag", "value"}
  <2> SUFFICES ASSUME NEW i \in 0..n PROVE r[i] \in {"flag", "value"}
    OBVIOUS
  <2>1. CASE i = 0
    BY <1>2, <2>1
  <2>2. CASE i \in 1..n
    BY <1>2, <2>2
  <2> QED
    BY <1>1, <2>1, <2>2
<1>6. q[n + 1] = IF q[n] = "flag" /\ TakesValue(w) THEN "value" ELSE "flag"
  <2>1. n + 1 \in 1..(n + 1) /\ n + 1 - 1 = n
    BY <1>1
  <2> QED
    BY <1>1, <1>3, <2>1
<1>7. q[n] = r[n]
  BY <1>1, <1>4
<1> QED
  BY <1>4, <1>5, <1>6, <1>7 DEF ReadsOn

FlagsIn(ws, f) == {i \in DOMAIN ws : ws[i] = f /\ ReadAs(ws)[i - 1] = "flag"}

FlagsGrowOn(ws, w, vs, f) ==
  FlagsIn(vs, f) = FlagsIn(ws, f) \cup
    IF w = f /\ ReadAs(ws)[Len(ws)] = "flag" THEN {Len(ws) + 1} ELSE {}

LEMMA FlagsGrow ==
  ASSUME NEW ws \in Seq(Words), NEW w \in Words, NEW vs, vs = Append(ws, w), NEW f
  PROVE  FlagsGrowOn(ws, w, vs, f)
<1> PICK n \in Nat : n = Len(ws)
  OBVIOUS
<1> PICK r, q : r = ReadAs(ws) /\ q = ReadAs(vs)
  OBVIOUS
<1>1. n \in Nat /\ DOMAIN ws = 1..n /\ DOMAIN vs = 1..(n + 1) /\ vs[n + 1] = w /\ \A i \in 1..n : vs[i] = ws[i]
  OBVIOUS
<1>2. \A i \in 0..n : q[i] = r[i]
  <2>1. ReadsOn(ws, w, vs)
    BY ReadGrows, Zenon
  <2> QED
    BY <2>1 DEF ReadsOn
<1>3. \A i \in 1..n : i \in FlagsIn(vs, f) <=> i \in FlagsIn(ws, f)
  BY <1>1, <1>2 DEF FlagsIn
<1>4. n + 1 \in FlagsIn(vs, f) <=> w = f /\ r[n] = "flag"
  BY <1>1, <1>2 DEF FlagsIn
<1>5. FlagsIn(vs, f) \subseteq 1..(n + 1) /\ FlagsIn(ws, f) \subseteq 1..n
  BY <1>1 DEF FlagsIn
<1> QED
  BY <1>1, <1>3, <1>4, <1>5 DEF FlagsGrowOn

LEMMA FlagsAreFinite ==
  ASSUME NEW ws \in Seq(Words), NEW f
  PROVE  FlagsIn(ws, f) \subseteq 1..Len(ws) /\ IsFiniteSet(FlagsIn(ws, f))
<1>1. FlagsIn(ws, f) \subseteq 1..Len(ws) /\ Len(ws) \in Nat
  BY DEF FlagsIn
<1>2. IsFiniteSet(1..Len(ws))
  BY <1>1, FS_Interval
<1> QED
  BY <1>1, <1>2, FS_Subset

StartPcs == {"reading", "helped", "refused", "parsed", "serving"}

\* The flags of a name whose value, if they take one, is there.
SettledFlags(f) == FlagsIn(words, f) \ IF wanting = f THEN {Len(words)} ELSE {}

OptionsTyped ==
  /\ words \in Seq(Words) /\ Len(words) <= MaxWords /\ wanting \in FlagWords \cup {Absent}
  /\ given \in [FlagWords -> Seq(Words)] /\ start.pc \in StartPcs
  /\ DOMAIN start = {"pc", "tcpEnv", "port", "desktop", "url"}

WantedIsLast ==
  /\ wanting # Absent <=> ReadAs(words)[Len(words)] = "value"
  /\ wanting # Absent => /\ Len(words) > 0 /\ words[Len(words)] = wanting
                         /\ ReadAs(words)[Len(words) - 1] = "flag" /\ TakesValue(wanting)

EachWordIsUnderstood ==
  \A i \in DOMAIN words :
    /\ ReadAs(words)[i - 1] = "flag" => words[i] # "--help" /\ TakesNext(words[i]) # "error"
    /\ ReadAs(words)[i - 1] = "value" => IsFit(words[i], TakesNext(words[i - 1]))

\* What is kept of a flag, by what it takes.
FlagGiven(f) == TakesNext(f) = "nothing" => (given[f] = << >> <=> FlagsIn(words, f) = {})
ValueGiven(f) ==
  TakesValue(f) /\ f \notin ListFlags =>
    \/ SettledFlags(f) = {} /\ given[f] = << >>
    \/ \E i \in SettledFlags(f) :
         /\ \A j \in SettledFlags(f) : j <= i
         /\ i + 1 \in DOMAIN words /\ given[f] = << words[i + 1] >>
ListGiven(f) == f \in ListFlags => Len(given[f]) = Cardinality(SettledFlags(f))

LineIsKept ==
  WantedIsLast /\ EachWordIsUnderstood /\ \A f \in FlagWords : FlagGiven(f) /\ ValueGiven(f) /\ ListGiven(f)

OptionsInv ==
  /\ OptionsTyped /\ (start.pc \in {"reading", "parsed"} => LineIsKept)
  /\ start.pc = "parsed" => wanting = Absent /\ (given["--fixture"] = << >> <=> given["--fixture-log"] = << >>)
  /\ StartsAsTold

LEMMA OptionsInitially == OptionsInit => OptionsInv
<1> SUFFICES ASSUME OptionsInit PROVE OptionsInv
  OBVIOUS
<1>1. /\ words = << >> /\ wanting = Absent /\ given = [f \in FlagWords |-> << >>]
      /\ start.pc = "reading" /\ DOMAIN start = {"pc", "tcpEnv", "port", "desktop", "url"}
  BY DEF OptionsInit, Reading
<1>2. ReadAs(<< >>)[0] = "flag"
  <2>1. << >> \in Seq(Words)
    OBVIOUS
  <2> QED
    BY <2>1, ReadStepByStep
<1>3. OptionsTyped
  <2>1. << >> \in Seq(Words) /\ Len(<< >>) <= MaxWords
    BY OptionsAssumption
  <2> QED
    BY <1>1, <2>1 DEF OptionsTyped, StartPcs
<1>4. \A f : FlagsIn(words, f) = {}
  BY <1>1 DEF FlagsIn
<1>5. \A f \in FlagWords : FlagGiven(f) /\ ValueGiven(f) /\ ListGiven(f)
  <2> SUFFICES ASSUME NEW f \in FlagWords PROVE FlagGiven(f) /\ ValueGiven(f) /\ ListGiven(f)
    OBVIOUS
  <2>1. SettledFlags(f) = {} /\ given[f] = << >> /\ Len(<< >>) = 0 /\ Cardinality({}) = 0
    BY <1>1, <1>4, FS_EmptySet DEF SettledFlags
  <2> QED
    BY <1>4, <2>1 DEF FlagGiven, ValueGiven, ListGiven
<1>6. WantedIsLast /\ EachWordIsUnderstood
  <2>1. Len(words) = 0 /\ DOMAIN words = {}
    BY <1>1
  <2> QED
    BY <1>1, <1>2, <2>1 DEF WantedIsLast, EachWordIsUnderstood
<1> QED
  BY <1>1, <1>3, <1>5, <1>6 DEF OptionsInv, LineIsKept, StartsAsTold

\* A line that is not at an end says nothing yet of what is started.
LEMMA NotYetStarted == ASSUME start.pc \notin {"serving", "helped"} PROVE StartsAsTold
BY DEF StartsAsTold

LEMMA ValuesAreNoFlags ==
  ASSUME NEW word \in Words, TakesNext(word) # "error" \/ word = "--help" PROVE word \in FlagWords
BY OptionsAssumption DEF Words, TakesNext

LEMMA SaysIs ==
  ASSUME NEW pc, Says(pc), DOMAIN start = {"pc", "tcpEnv", "port", "desktop", "url"}
  PROVE  start'.pc = pc /\ DOMAIN start' = DOMAIN start
BY DEF Says

\* A further word as the line has it.
LEMMA WordComes ==
  ASSUME OptionsTyped, NEW word \in Words, Len(words) < MaxWords, words' = Append(words, word)
  PROVE  /\ words' \in Seq(Words) /\ Len(words') = Len(words) + 1 /\ Len(words') <= MaxWords
         /\ words'[Len(words) + 1] = word /\ \A i \in DOMAIN words : words'[i] = words[i]
         /\ DOMAIN words = 1..Len(words) /\ DOMAIN words' = 1..(Len(words) + 1) /\ Len(words) \in Nat
BY OptionsAssumption DEF OptionsTyped

LEMMA WordIsRead ==
  ASSUME words \in Seq(Words), NEW word \in Words, words' = Append(words, word)
  PROVE  ReadsOn(words, word, words') /\ \A f : FlagsGrowOn(words, word, words', f)
<1>1. ReadsOn(words, word, words')
  BY ReadGrows, Zenon
<1>2. ASSUME NEW f PROVE FlagsGrowOn(words, word, words', f)
  BY FlagsGrow, Zenon
<1> QED
  BY <1>1, <1>2

LEMMA EachIsStillUnderstood ==
  ASSUME OptionsTyped, EachWordIsUnderstood, NEW word \in Words, Len(words) < MaxWords,
         words' = Append(words, word),
         ReadAs(words)[Len(words)] = "flag" => word # "--help" /\ TakesNext(word) # "error",
         ReadAs(words)[Len(words)] = "value" => Len(words) > 0 /\ IsFit(word, TakesNext(words[Len(words)]))
  PROVE  EachWordIsUnderstood'
<1> PICK n : n = Len(words)
  OBVIOUS
<1>1. /\ words \in Seq(Words) /\ n \in Nat /\ words'[n + 1] = word /\ \A i \in 1..n : words'[i] = words[i]
      /\ DOMAIN words = 1..n /\ DOMAIN words' = 1..(n + 1)
  BY WordComes DEF OptionsTyped
<1>2. \A i \in 0..n : ReadAs(words')[i] = ReadAs(words)[i]
  <2>1. ReadsOn(words, word, words')
    BY <1>1, WordIsRead, Zenon
  <2> QED
    BY <2>1 DEF ReadsOn
<1> SUFFICES ASSUME NEW i \in 1..(n + 1)
             PROVE  /\ ReadAs(words')[i - 1] = "flag" => words'[i] # "--help" /\ TakesNext(words'[i]) # "error"
                    /\ ReadAs(words')[i - 1] = "value" => IsFit(words'[i], TakesNext(words'[i - 1]))
  BY <1>1 DEF EachWordIsUnderstood
<1>3. ReadAs(words')[i - 1] = ReadAs(words)[i - 1]
  <2>1. i - 1 \in 0..n
    BY <1>1
  <2> QED
    BY <1>2, <2>1
<1>4. CASE i \in 1..n
  <2>1. words'[i] = words[i] /\ i \in DOMAIN words
    BY <1>1, <1>4
  <2>2. CASE i = 1
    <3>1. ReadAs(words)[0] = "flag"
      BY <1>1, ReadStepByStep
    <3> QED
      BY <1>3, <2>1, <2>2, <3>1 DEF EachWordIsUnderstood
  <2>3. CASE i # 1
    <3>1. words'[i - 1] = words[i - 1]
      BY <1>1, <1>4, <2>3
    <3> QED
      BY <1>3, <2>1, <3>1 DEF EachWordIsUnderstood
  <2> QED
    BY <2>2, <2>3
<1>5. CASE i = n + 1
  <2>1. i - 1 = n /\ words'[i] = word
    BY <1>1, <1>5
  <2>2. n > 0 => words'[i - 1] = words[n]
    BY <1>1, <2>1
  <2>3. /\ ReadAs(words)[n] = "flag" => word # "--help" /\ TakesNext(word) # "error"
        /\ ReadAs(words)[n] = "value" => n > 0 /\ IsFit(word, TakesNext(words[n]))
    OBVIOUS
  <2>4. ReadAs(words')[i - 1] = ReadAs(words)[n] /\ (n > 0 => words'[i - 1] = words[n])
    BY <1>3, <2>1, <2>2
  <2>6. ReadAs(words')[i - 1] = "flag" => words'[i] # "--help" /\ TakesNext(words'[i]) # "error"
    BY <2>1, <2>3, <2>4
  <2>7. ASSUME ReadAs(words')[i - 1] = "value" PROVE IsFit(words'[i], TakesNext(words'[i - 1]))
    <3>1. n > 0 /\ IsFit(word, TakesNext(words[n])) /\ words'[i - 1] = words[n]
      BY <2>3, <2>4, <2>7
    <3> QED
      BY <2>1, <3>1, Zenon
  <2> QED
    BY <2>6, <2>7, Zenon
<1>6. i \in 1..n \/ i = n + 1
  BY <1>1
<1> QED
  BY <1>4, <1>5, <1>6, Zenon

\* A flag that takes nothing.
LEMMA PlainFlagKeeps ==
  ASSUME OptionsTyped, LineIsKept, NEW word \in FlagWords, Len(words) < MaxWords, wanting = Absent,
         words' = Append(words, word), word # "--help", TakesNext(word) = "nothing",
         given' = [given EXCEPT ![word] = << word >>], wanting' = Absent
  PROVE  LineIsKept'
<1> PICK n : n = Len(words)
  OBVIOUS
<1>1. /\ words \in Seq(Words) /\ n \in Nat /\ word \in Words /\ \A i \in 1..n : words'[i] = words[i]
      /\ DOMAIN words = 1..n /\ DOMAIN words' = 1..(n + 1) /\ Len(words') = n + 1
  BY WordComes DEF OptionsTyped, Words
<1>R. ReadsOn(words, word, words') /\ \A f : FlagsGrowOn(words, word, words', f)
  BY <1>1, WordIsRead, Zenon
<1>2. ReadAs(words)[n] = "flag"
  <2>1. ReadAs(words)[n] \in {"flag", "value"}
    BY <1>1, <1>R DEF ReadsOn
  <2> QED
    BY <2>1 DEF LineIsKept, WantedIsLast
<1>3. ~TakesValue(word) /\ \A f \in ListFlags : TakesValue(f)
  BY DEF TakesValue, TakesNext, ListFlags
<1>4. ReadAs(words')[n + 1] = "flag"
  BY <1>1, <1>2, <1>3, <1>R DEF ReadsOn
<1>5. WantedIsLast'
  BY <1>1, <1>4 DEF WantedIsLast
<1>6. EachWordIsUnderstood'
  BY <1>1, <1>2, EachIsStillUnderstood DEF LineIsKept
<1>7. \A f : FlagsIn(words', f) = FlagsIn(words, f) \cup IF word = f THEN {n + 1} ELSE {}
  BY <1>2, <1>R DEF FlagsGrowOn
<1>8. ASSUME NEW f \in FlagWords PROVE FlagGiven(f)' /\ ValueGiven(f)' /\ ListGiven(f)'
  <2>1. FlagGiven(f) /\ ValueGiven(f) /\ ListGiven(f)
    BY DEF LineIsKept
  <2>2. Absent \notin FlagWords
    BY OptionsAssumption
  <2>3. SettledFlags(f) = FlagsIn(words, f) /\ SettledFlags(f)' = FlagsIn(words', f)
    BY <2>2 DEF SettledFlags
  <2>4. CASE f = word
    <3>1. given'[f] = << word >> /\ << word >> # << >> /\ n + 1 \in FlagsIn(words', f)
      BY <1>7, <2>4 DEF OptionsTyped
    <3> QED
      BY <1>3, <2>4, <3>1 DEF FlagGiven, ValueGiven, ListGiven
  <2>5. CASE f # word
    <3>1. given'[f] = given[f] /\ FlagsIn(words', f) = FlagsIn(words, f)
      BY <1>7, <2>5 DEF OptionsTyped
    <3>2. \A i \in SettledFlags(f) : i + 1 \in DOMAIN words =>
             i + 1 \in DOMAIN words' /\ words'[i + 1] = words[i + 1]
      BY <1>1
    <3>3. SettledFlags(f)' = SettledFlags(f)
      BY <2>3, <3>1
    <3>4. ValueGiven(f)'
      BY <2>1, <3>1, <3>2, <3>3 DEF ValueGiven
    <3> QED
      BY <2>1, <3>1, <3>3, <3>4 DEF FlagGiven, ListGiven
  <2> QED
    BY <2>4, <2>5
<1> QED
  BY <1>5, <1>6, <1>8 DEF LineIsKept

\* A flag that wants a value to follow it.
LEMMA WantingFlagKeeps ==
  ASSUME OptionsTyped, LineIsKept, NEW word \in FlagWords, Len(words) < MaxWords, wanting = Absent,
         words' = Append(words, word), TakesValue(word), given' = given, wanting' = word
  PROVE  LineIsKept'
<1> PICK n : n = Len(words)
  OBVIOUS
<1>1. /\ words \in Seq(Words) /\ n \in Nat /\ word \in Words /\ \A i \in 1..n : words'[i] = words[i]
      /\ DOMAIN words = 1..n /\ DOMAIN words' = 1..(n + 1) /\ Len(words') = n + 1 /\ words'[n + 1] = word
  BY WordComes DEF OptionsTyped, Words
<1>R. ReadsOn(words, word, words') /\ \A f : FlagsGrowOn(words, word, words', f)
  BY <1>1, WordIsRead, Zenon
<1>2. ReadAs(words)[n] = "flag" /\ ReadAs(words')[n] = "flag"
  <2>1. ReadAs(words)[n] \in {"flag", "value"} /\ ReadAs(words')[n] = ReadAs(words)[n]
    BY <1>1, <1>R DEF ReadsOn
  <2> QED
    BY <2>1 DEF LineIsKept, WantedIsLast
<1>3. word # "--help" /\ TakesNext(word) # "error" /\ TakesNext(word) # "nothing" /\ word # Absent
  BY OptionsAssumption DEF TakesValue, TakesNext
<1>4. ReadAs(words')[n + 1] = "value"
  BY <1>1, <1>2, <1>R DEF ReadsOn
<1>5. WantedIsLast'
  BY <1>1, <1>2, <1>3, <1>4 DEF WantedIsLast
<1>6. EachWordIsUnderstood'
  BY <1>1, <1>2, <1>3, EachIsStillUnderstood DEF LineIsKept
<1>7. \A f : FlagsIn(words', f) = FlagsIn(words, f) \cup IF word = f THEN {n + 1} ELSE {}
  BY <1>2, <1>R DEF FlagsGrowOn
<1>8. ASSUME NEW f \in FlagWords PROVE FlagGiven(f)' /\ ValueGiven(f)' /\ ListGiven(f)'
  <2>1. FlagGiven(f) /\ ValueGiven(f) /\ ListGiven(f)
    BY DEF LineIsKept
  <2>2. SettledFlags(f) = FlagsIn(words, f)
    BY OptionsAssumption DEF SettledFlags
  <2>3. n + 1 \notin FlagsIn(words, f)
    BY <1>1 DEF FlagsIn
  <2>4. SettledFlags(f)' = SettledFlags(f)
    <3>1. SettledFlags(f)' = FlagsIn(words', f) \ IF word = f THEN {n + 1} ELSE {}
      BY <1>1 DEF SettledFlags
    <3> QED
      BY <1>7, <2>2, <2>3, <3>1
  <2>5. \A i \in SettledFlags(f) : i + 1 \in DOMAIN words =>
           i + 1 \in DOMAIN words' /\ words'[i + 1] = words[i + 1]
    BY <1>1
  <2>6. ValueGiven(f)'
    BY <2>1, <2>4, <2>5 DEF ValueGiven
  <2>7. ListGiven(f)'
    BY <2>1, <2>4 DEF ListGiven
  <2>8. FlagGiven(f)'
    <3>1. CASE f = word
      BY <1>3, <3>1 DEF FlagGiven
    <3>2. CASE f # word
      BY <1>7, <2>1, <3>2 DEF FlagGiven
    <3> QED
      BY <3>1, <3>2
  <2> QED
    BY <2>6, <2>7, <2>8
<1> QED
  BY <1>5, <1>6, <1>8 DEF LineIsKept

\* A word that is read as the value the flag before it wants.
LEMMA ValueKeeps ==
  ASSUME OptionsTyped, LineIsKept, NEW word \in Words, Len(words) < MaxWords, wanting # Absent,
         words' = Append(words, word), IsFit(word, TakesNext(wanting)),
         given' = [given EXCEPT ![wanting] = Settles(wanting, word)], wanting' = Absent
  PROVE  LineIsKept'
<1> PICK n : n = Len(words)
  OBVIOUS
<1>1. /\ words \in Seq(Words) /\ n \in Nat /\ \A i \in 1..n : words'[i] = words[i]
      /\ DOMAIN words = 1..n /\ DOMAIN words' = 1..(n + 1) /\ Len(words') = n + 1 /\ words'[n + 1] = word
  BY WordComes DEF OptionsTyped, Words
<1>R. ReadsOn(words, word, words') /\ \A f : FlagsGrowOn(words, word, words', f)
  BY <1>1, WordIsRead, Zenon
<1>2. /\ n > 0 /\ words[n] = wanting /\ ReadAs(words)[n] = "value" /\ ReadAs(words)[n - 1] = "flag"
      /\ TakesValue(wanting) /\ wanting \in FlagWords
  BY DEF LineIsKept, WantedIsLast, OptionsTyped
<1>4. ReadAs(words')[n + 1] = "flag"
  BY <1>1, <1>2, <1>R DEF ReadsOn
<1>5. WantedIsLast'
  BY <1>1, <1>4 DEF WantedIsLast
<1>6. EachWordIsUnderstood'
  BY <1>1, <1>2, EachIsStillUnderstood DEF LineIsKept
<1>7. \A f : FlagsIn(words', f) = FlagsIn(words, f)
  BY <1>2, <1>R DEF FlagsGrowOn
<1>8. ASSUME NEW f \in FlagWords PROVE FlagGiven(f)' /\ ValueGiven(f)' /\ ListGiven(f)'
  <2>1. FlagGiven(f) /\ ValueGiven(f) /\ ListGiven(f)
    BY DEF LineIsKept
  <2>2. SettledFlags(f)' = FlagsIn(words, f)
    BY <1>7, OptionsAssumption DEF SettledFlags
  <2>3. CASE f = wanting
    <3>1. n \in FlagsIn(words, f) /\ FlagsIn(words, f) \subseteq 1..n /\ IsFiniteSet(FlagsIn(words, f))
      <4>1. n \in FlagsIn(words, f)
        BY <1>1, <1>2, <2>3 DEF FlagsIn
      <4>2. FlagsIn(words, f) \subseteq 1..Len(words) /\ IsFiniteSet(FlagsIn(words, f))
        BY <1>1, FlagsAreFinite, Zenon
      <4> QED
        BY <4>1, <4>2
    <3>2. SettledFlags(f) = FlagsIn(words, f) \ {n}
      BY <2>3 DEF SettledFlags
    <3>3. given'[f] = Settles(f, word) /\ given[f] \in Seq(Words)
      BY <2>3 DEF OptionsTyped
    <3>4. FlagGiven(f)'
      BY <1>2, <2>3 DEF FlagGiven, TakesValue
    <3>5. ValueGiven(f)'
      <4> SUFFICES ASSUME f \notin ListFlags PROVE ValueGiven(f)'
        BY DEF ValueGiven
      <4>1. given'[f] = << words'[n + 1] >>
        BY <1>1, <3>3 DEF Settles
      <4>2. n \in SettledFlags(f)' /\ n + 1 \in DOMAIN words' /\ \A j \in SettledFlags(f)' : j <= n
        BY <1>1, <2>2, <3>1
      <4> QED
        BY <4>1, <4>2 DEF ValueGiven
    <3>6. ListGiven(f)'
      <4> SUFFICES ASSUME f \in ListFlags PROVE Len(given[f])' = Cardinality(SettledFlags(f)')
        BY DEF ListGiven
      <4>1. Len(given'[f]) = Len(given[f]) + 1
        BY <3>3 DEF Settles
      <4>2. Cardinality(FlagsIn(words, f) \ {n}) = Cardinality(FlagsIn(words, f)) - 1
        BY <3>1, FS_RemoveElement
      <4>3. Cardinality(FlagsIn(words, f)) \in Nat
        BY <3>1, FS_CardinalityType
      <4>4. Len(given[f]) = Cardinality(FlagsIn(words, f)) - 1
        BY <2>1, <3>2, <4>2 DEF ListGiven
      <4> QED
        BY <2>2, <4>1, <4>3, <4>4
    <3> QED
      BY <3>4, <3>5, <3>6
  <2>4. CASE f # wanting
    <3>1. SettledFlags(f)' = SettledFlags(f) /\ given'[f] = given[f]
      BY <2>2, <2>4 DEF SettledFlags, OptionsTyped
    <3>2. \A i \in SettledFlags(f) : i + 1 \in DOMAIN words =>
             i + 1 \in DOMAIN words' /\ words'[i + 1] = words[i + 1]
      BY <1>1
    <3>3. ValueGiven(f)'
      BY <2>1, <3>1, <3>2 DEF ValueGiven
    <3> QED
      BY <1>7, <2>1, <3>1, <3>3 DEF ListGiven, FlagGiven
  <2> QED
    BY <2>3, <2>4
<1> QED
  BY <1>5, <1>6, <1>8 DEF LineIsKept

AtFlags(ws, f) == {i \in DOMAIN ws : ws[i] = f /\ ~(ReadAs(ws)[i - 1] = "value")}

\* A word is a flag or a value: what the property counts is what the proof counts.
LEMMA FlagOrValue ==
  ASSUME NEW ws \in Seq(Words), NEW i \in DOMAIN ws PROVE ReadAs(ws)[i - 1] \in {"flag", "value"}
<1>1. /\ ReadAs(ws)[0] = "flag"
      /\ \A j \in 1..Len(ws) : ReadAs(ws)[j] =
           IF ReadAs(ws)[j - 1] = "flag" /\ TakesValue(ws[j]) THEN "value" ELSE "flag"
  BY ReadStepByStep
<1>2. i \in 1..Len(ws) /\ Len(ws) \in Nat
  OBVIOUS
<1>3. i - 1 = 0 \/ i - 1 \in 1..Len(ws)
  BY <1>2
<1> QED
  BY <1>1, <1>3

LEMMA FlagsAreThose == ASSUME NEW ws \in Seq(Words), NEW f PROVE AtFlags(ws, f) = FlagsIn(ws, f)
BY FlagOrValue DEF AtFlags, FlagsIn

LEMMA SameLine ==
  ASSUME LineIsKept, UNCHANGED << words, given, wanting >> PROVE LineIsKept'
<1>1. words' = words /\ given' = given /\ wanting' = wanting
  OBVIOUS
<1> QED
  BY <1>1 DEF LineIsKept, WantedIsLast, EachWordIsUnderstood, FlagGiven, ValueGiven, ListGiven, SettledFlags

\* The end of a line that is not served.
LEMMA EndsOtherwise ==
  ASSUME OptionsTyped', start'.pc = "refused" PROVE OptionsInv'
BY DEF OptionsInv, StartsAsTold

LEMMA FlagIsRead ==
  ASSUME OptionsInv, NEW word \in FlagWords \cup ValueWords, ReadsFlag(word) PROVE OptionsInv'
<1>1. /\ OptionsTyped /\ LineIsKept /\ word \in Words /\ wanting = Absent /\ Len(words) < MaxWords
      /\ words' = Append(words, word) /\ start.pc = "reading"
  BY DEF OptionsInv, ReadsFlag, Words
<1>2. words' \in Seq(Words) /\ Len(words') <= MaxWords /\ Len(words') = Len(words) + 1 /\ Len(words) \in Nat
  BY <1>1, WordComes, Zenon
<1>3. CASE word = "--help"
  <2>1. start'.pc = "helped" /\ DOMAIN start' = DOMAIN start /\ given' = given /\ wanting' = wanting
    <3>0. TakesNext(word) = "nothing"
      BY <1>3 DEF TakesNext
    <3>1. Says("helped") /\ given' = given /\ wanting' = wanting
      BY <1>3, <3>0 DEF ReadsFlag
    <3> QED
      BY <1>1, <3>1 DEF Says, OptionsTyped
  <2>2. OptionsTyped'
    BY <1>1, <1>2, <2>1 DEF OptionsTyped, StartPcs
  <2>3. FlagsIn(words, "--help") = {}
    BY <1>1 DEF LineIsKept, EachWordIsUnderstood, FlagsIn
  <2>4. FlagsIn(words', "--help") = {Len(words')}
    <3>1. ReadsOn(words, word, words') /\ FlagsGrowOn(words, word, words', "--help")
      BY <1>1, WordIsRead, Zenon DEF OptionsTyped
    <3>2. ReadAs(words)[Len(words)] = "flag"
      BY <1>1, <1>2, <3>1 DEF ReadsOn, LineIsKept, WantedIsLast
    <3> QED
      BY <1>2, <1>3, <2>3, <3>1, <3>2 DEF FlagsGrowOn
  <2>5. FlagsAt("--help")' = {Len(words')}
    <3>1. AtFlags(words', "--help") = {Len(words')}
      BY <1>2, <2>4, FlagsAreThose, Zenon
    <3> QED
      BY <3>1 DEF FlagsAt, StandsAsValue, AtFlags
  <2>6. StartsAsTold'
    BY <2>1, <2>5 DEF StartsAsTold
  <2> QED
    BY <2>1, <2>2, <2>6 DEF OptionsInv
<1>4. CASE word # "--help" /\ TakesNext(word) = "error"
  <2>1. start'.pc = "refused" /\ DOMAIN start' = DOMAIN start /\ given' = given /\ wanting' = wanting
    <3>1. Says("refused") /\ given' = given /\ wanting' = wanting
      BY <1>4 DEF ReadsFlag
    <3> QED
      BY <1>1, <3>1 DEF Says, OptionsTyped
  <2>2. OptionsTyped'
    BY <1>1, <1>2, <2>1 DEF OptionsTyped, StartPcs
  <2> QED
    BY <2>1, <2>2, EndsOtherwise
<1>5. CASE word # "--help" /\ TakesNext(word) = "nothing"
  <2>1. word \in FlagWords
    BY <1>1, <1>5, ValuesAreNoFlags
  <2>2. given' = [given EXCEPT ![word] = << word >>] /\ wanting' = wanting /\ start' = start
    BY <1>5 DEF ReadsFlag
  <2>3. OptionsTyped'
    <3>1. given' \in [FlagWords -> Seq(Words)]
      BY <1>1, <2>1, <2>2 DEF OptionsTyped
    <3> QED
      BY <1>1, <1>2, <2>2, <3>1 DEF OptionsTyped
  <2>4. LineIsKept'
    BY <1>1, <1>5, <2>1, <2>2, PlainFlagKeeps
  <2> QED
    BY <1>1, <2>2, <2>3, <2>4 DEF OptionsInv, StartsAsTold
<1>6. CASE word # "--help" /\ TakesNext(word) # "nothing" /\ TakesNext(word) # "error"
  <2>1. TakesValue(word) /\ word \in FlagWords
    BY <1>1, <1>6, WhatIsTaken, ValuesAreNoFlags
  <2>2. wanting' = word /\ given' = given /\ start' = start
    BY <1>6 DEF ReadsFlag
  <2>3. OptionsTyped'
    BY <1>1, <1>2, <2>1, <2>2 DEF OptionsTyped
  <2>4. LineIsKept'
    BY <1>1, <2>1, <2>2, WantingFlagKeeps
  <2> QED
    BY <1>1, <2>2, <2>3, <2>4 DEF OptionsInv, StartsAsTold
<1> QED
  BY <1>3, <1>4, <1>5, <1>6

LEMMA ValueIsRead ==
  ASSUME OptionsInv, NEW word \in FlagWords \cup ValueWords, ReadsValue(word) PROVE OptionsInv'
<1>1. /\ OptionsTyped /\ LineIsKept /\ word \in Words /\ wanting # Absent /\ Len(words) < MaxWords
      /\ words' = Append(words, word) /\ start.pc = "reading" /\ wanting \in FlagWords
  BY DEF OptionsInv, ReadsValue, Words, OptionsTyped
<1>2. words' \in Seq(Words) /\ Len(words') <= MaxWords
  BY <1>1, WordComes, Zenon
<1>3. CASE IsFit(word, TakesNext(wanting))
  <2>1. /\ given' = [given EXCEPT ![wanting] = Settles(wanting, word)] /\ wanting' = Absent
        /\ start' = start
    BY <1>3 DEF ReadsValue
  <2>2. given' \in [FlagWords -> Seq(Words)]
    <3>1. Settles(wanting, word) \in Seq(Words)
      BY <1>1 DEF Settles, OptionsTyped
    <3> QED
      BY <1>1, <2>1, <3>1 DEF OptionsTyped
  <2>3. OptionsTyped'
    BY <1>1, <1>2, <2>1, <2>2 DEF OptionsTyped
  <2>4. LineIsKept'
    BY <1>1, <1>3, <2>1, ValueKeeps
  <2> QED
    BY <1>1, <2>1, <2>3, <2>4 DEF OptionsInv, StartsAsTold
<1>4. CASE ~IsFit(word, TakesNext(wanting))
  <2>1. start'.pc = "refused" /\ DOMAIN start' = DOMAIN start /\ given' = given /\ wanting' = wanting
    <3>1. Says("refused") /\ given' = given /\ wanting' = wanting
      BY <1>4 DEF ReadsValue
    <3> QED
      BY <1>1, <3>1 DEF Says, OptionsTyped
  <2>2. OptionsTyped'
    BY <1>1, <1>2, <2>1 DEF OptionsTyped, StartPcs
  <2> QED
    BY <2>1, <2>2, EndsOtherwise
<1> QED
  BY <1>3, <1>4

LEMMA LineEnds == ASSUME OptionsInv, EndsWords PROVE OptionsInv'
<1>1. OptionsTyped /\ LineIsKept /\ start.pc = "reading" /\ UNCHANGED << words, given, wanting >>
  BY DEF OptionsInv, EndsWords
<1>2. start'.pc \in {"refused", "parsed"} /\ DOMAIN start' = DOMAIN start
  BY DEF EndsWords, Says, OptionsTyped
<1>3. OptionsTyped'
  BY <1>1, <1>2 DEF OptionsTyped, StartPcs
<1>4. CASE start'.pc = "refused"
  BY <1>3, <1>4, EndsOtherwise
<1>5. CASE start'.pc = "parsed"
  <2>1. ~(wanting # Absent \/ (given["--fixture"] = << >>) # (given["--fixture-log"] = << >>))
    BY <1>1, <1>5 DEF EndsWords, Says, OptionsTyped
  <2>2. wanting = Absent /\ (given["--fixture"] = << >> <=> given["--fixture-log"] = << >>)
    BY <2>1, Zenon
  <2>3. LineIsKept'
    BY <1>1, SameLine
  <2>4. wanting' = Absent /\ (given'["--fixture"] = << >> <=> given'["--fixture-log"] = << >>)
    BY <1>1, <2>2
  <2> QED
    BY <1>3, <1>5, <2>3, <2>4 DEF OptionsInv, StartsAsTold
<1> QED
  BY <1>2, <1>4, <1>5

\* What the words that were said come to, once the line is over.
LEMMA WhatIsKept ==
  ASSUME OptionsTyped, LineIsKept, wanting = Absent, NEW f \in FlagWords
  PROVE  /\ FlagsAt(f) = FlagsIn(words, f)
         /\ TakesNext(f) = "nothing" => (given[f] = << >> <=> FlagsAt(f) = {})
         /\ f \in ListFlags => Len(given[f]) = Cardinality(FlagsAt(f))
<1>1. FlagsAt(f) = FlagsIn(words, f)
  <2>1. AtFlags(words, f) = FlagsIn(words, f)
    BY FlagsAreThose, Zenon DEF OptionsTyped
  <2> QED
    BY <2>1 DEF FlagsAt, StandsAsValue, AtFlags
<1>2. SettledFlags(f) = FlagsIn(words, f)
  BY OptionsAssumption DEF SettledFlags
<1> QED
  BY <1>1, <1>2 DEF LineIsKept, FlagGiven, ListGiven

LEMMA LastIsKept ==
  ASSUME OptionsTyped, LineIsKept, wanting = Absent, NEW f \in FlagWords, TakesValue(f), f \notin ListFlags,
         NEW otherwise
  PROVE  /\ FlagsAt(f) = {} => given[f] = << >> /\ LastGiven(f, otherwise) = otherwise
         /\ FlagsAt(f) # {} => /\ LastGiven(f, otherwise) = LastOf(f) /\ LastOf(f) \in Words
                               /\ IsFit(LastOf(f), TakesNext(f))
<1>1. FlagsAt(f) = FlagsIn(words, f) /\ SettledFlags(f) = FlagsIn(words, f)
  BY WhatIsKept, OptionsAssumption DEF SettledFlags
<1>2. \/ FlagsAt(f) = {} /\ given[f] = << >>
      \/ \E i \in FlagsAt(f) :
           /\ \A j \in FlagsAt(f) : j <= i
           /\ i + 1 \in DOMAIN words /\ given[f] = << words[i + 1] >>
  BY <1>1 DEF LineIsKept, ValueGiven
<1>3. CASE FlagsAt(f) = {} /\ given[f] = << >>
  BY <1>3 DEF LastGiven
<1>4. ASSUME NEW i \in FlagsAt(f), \A j \in FlagsAt(f) : j <= i,
             i + 1 \in DOMAIN words, given[f] = << words[i + 1] >>
      PROVE  /\ LastGiven(f, otherwise) = LastOf(f) /\ LastOf(f) \in Words
             /\ IsFit(LastOf(f), TakesNext(f)) /\ FlagsAt(f) # {}
  <2>1. words \in Seq(Words) /\ i \in Nat /\ FlagsAt(f) \subseteq Nat
    BY <1>1 DEF OptionsTyped, FlagsIn
  <2>2. (CHOOSE k \in FlagsAt(f) : \A j \in FlagsAt(f) : j <= k) = i
    BY <1>4, <2>1
  <2>3. LastOf(f) = words[i + 1]
    <3>1. LastOf(f) = words[1 + i]
      BY <2>2 DEF LastOf
    <3> QED
      BY <2>1, <3>1
  <2>4. LastGiven(f, otherwise) = words[i + 1]
    <3>1. Len(given[f]) = 1 /\ given[f] # << >> /\ given[f][1] = words[i + 1]
      BY <1>4
    <3> QED
      BY <3>1 DEF LastGiven
  <2>5. ReadAs(words)[i - 1] = "flag" /\ words[i] = f /\ i \in 1..Len(words)
    BY <1>1, <2>1 DEF FlagsIn
  <2>6. ReadAs(words)[i] = "value"
    <3>1. ReadAs(words)[i] = IF ReadAs(words)[i - 1] = "flag" /\ TakesValue(words[i]) THEN "value" ELSE "flag"
      BY <2>1, <2>5, ReadStepByStep
    <3> QED
      BY <2>5, <3>1
  <2>7. IsFit(words[i + 1], TakesNext(words[i]))
    <3>1. PICK k \in DOMAIN words : k = i + 1
      BY <1>4
    <3>2. k - 1 = i
      BY <2>1, <3>1
    <3>3. IsFit(words[k], TakesNext(words[k - 1]))
      BY <2>6, <3>2, Zenon DEF LineIsKept, EachWordIsUnderstood
    <3> QED
      BY <3>1, <3>2, <3>3, Zenon
  <2>8. words[i + 1] \in Words
    BY <1>4, <2>1
  <2> QED
    BY <2>3, <2>4, <2>5, <2>7, <2>8
<1>5. CASE FlagsAt(f) # {}
  <2>1. PICK i \in FlagsAt(f) :
           /\ \A j \in FlagsAt(f) : j <= i
           /\ i + 1 \in DOMAIN words /\ given[f] = << words[i + 1] >>
    BY <1>2, <1>5
  <2>2. LastGiven(f, otherwise) = LastOf(f) /\ LastOf(f) \in Words /\ IsFit(LastOf(f), TakesNext(f))
    BY <1>4, <2>1, Zenon
  <2> QED
    BY <1>5, <2>2
<1> QED
  BY <1>2, <1>3, <1>5

LEMMA VisorStarts == ASSUME OptionsInv, Starts PROVE OptionsInv'
<1>1. OptionsTyped /\ LineIsKept /\ wanting = Absent /\ UNCHANGED << words, given, wanting >> /\ start.pc = "parsed"
      /\ (given["--fixture"] = << >> <=> given["--fixture-log"] = << >>)
  BY DEF OptionsInv, Starts
<1>2. PICK root \in BOOLEAN, tcpEnv \in BOOLEAN, urlEnv \in {Absent, "env"} \cup BlankWords :
         IF root \/ (TcpEnabled(tcpEnv) /\ ~IsHere(LastGiven("--listen", DefaultListen))) THEN Says("refused")
         ELSE start' = [pc |-> "serving", tcpEnv |-> tcpEnv,
                        port |-> IF TcpEnabled(tcpEnv) THEN LastGiven("--listen", DefaultListen) ELSE Absent,
                        desktop |-> IF given["--fixture-log"] # << >> THEN "fixture" ELSE "real",
                        url |-> OrElse("--supervisor-url", urlEnv)]
  BY DEF Starts
<1>3. CASE Says("refused")
  <2>1. start'.pc = "refused" /\ DOMAIN start' = DOMAIN start
    BY <1>1, <1>3 DEF Says, OptionsTyped
  <2>2. OptionsTyped'
    BY <1>1, <2>1 DEF OptionsTyped, StartPcs
  <2> QED
    BY <2>1, <2>2, EndsOtherwise
<1>4. CASE /\ ~(TcpEnabled(tcpEnv) /\ ~IsHere(LastGiven("--listen", DefaultListen)))
           /\ start' = [pc |-> "serving", tcpEnv |-> tcpEnv,
                        port |-> IF TcpEnabled(tcpEnv) THEN LastGiven("--listen", DefaultListen) ELSE Absent,
                        desktop |-> IF given["--fixture-log"] # << >> THEN "fixture" ELSE "real",
                        url |-> OrElse("--supervisor-url", urlEnv)]
  <2> PICK listen : listen = LastGiven("--listen", DefaultListen)
    OBVIOUS
  <2>1. /\ start'.pc = "serving" /\ start'.tcpEnv = tcpEnv
        /\ start'.port = IF TcpEnabled(tcpEnv) THEN listen ELSE Absent
        /\ start'.desktop = IF given["--fixture-log"] # << >> THEN "fixture" ELSE "real"
        /\ start'.url = OrElse("--supervisor-url", urlEnv)
        /\ DOMAIN start' = {"pc", "tcpEnv", "port", "desktop", "url"}
    BY <1>4
  <2>2. OptionsTyped'
    BY <1>1, <2>1 DEF OptionsTyped, StartPcs
  <2>F. /\ "--tcp" \in FlagWords /\ "--listen" \in FlagWords /\ "--fixture" \in FlagWords
        /\ "--fixture-log" \in FlagWords /\ "--supervisor-url" \in FlagWords /\ Absent \notin Words
    BY OptionsAssumption DEF Words
  <2>T. /\ TakesNext("--tcp") = "nothing" /\ TakesNext("--fixture") = "nothing"
        /\ TakesValue("--listen") /\ TakesValue("--supervisor-url") /\ TakesNext("--supervisor-url") = "text"
        /\ "--listen" \notin ListFlags /\ "--supervisor-url" \notin ListFlags
    BY DEF TakesValue, TakesNext, ListFlags
  <2>3. listen = Listened /\ listen # Absent
    <3>1. /\ FlagsAt("--listen") = {} => listen = DefaultListen
          /\ FlagsAt("--listen") # {} => listen = LastOf("--listen") /\ LastOf("--listen") \in Words
      BY <1>1, <2>F, <2>T, LastIsKept
    <3> QED
      BY <2>F, <3>1 DEF Listened, DefaultListen, Absent
  <2>4. FlagsAt("--help") = {}
    BY <1>1, FlagOrValue DEF FlagsAt, StandsAsValue, LineIsKept, EachWordIsUnderstood, OptionsTyped
  <2>5. \A i \in DOMAIN words : StandsAsValue(i) => IsFit(words[i], TakesNext(words[i - 1]))
    BY <1>1, Zenon DEF StandsAsValue, LineIsKept, EachWordIsUnderstood
  <2>6. \A i \in DOMAIN words : ~StandsAsValue(i) => TakesNext(words[i]) # "error"
    BY <1>1, FlagOrValue DEF StandsAsValue, LineIsKept, EachWordIsUnderstood, OptionsTyped
  <2>7. (start'.port # Absent) <=> (start'.tcpEnv \/ FlagsAt("--tcp") # {})
    <3>1. given["--tcp"] = << >> <=> FlagsAt("--tcp") = {}
      BY <1>1, <2>F, <2>T, WhatIsKept
    <3> QED
      BY <2>1, <2>3, <3>1 DEF TcpEnabled
  <2>8. start'.port # Absent => start'.port = Listened /\ IsHere(start'.port)
    BY <1>4, <2>1, <2>3
  <2>9. start'.desktop = "fixture" <=> FlagsAt("--fixture") # {}
    <3>1. given["--fixture"] = << >> <=> FlagsAt("--fixture") = {}
      BY <1>1, <2>F, <2>T, WhatIsKept
    <3> QED
      BY <1>1, <2>1, <3>1
  <2>10. /\ FlagsAt("--supervisor-url") # {} => start'.url = LastOf("--supervisor-url")
         /\ start'.url \notin BlankWords
    <3> PICK env : env = IF urlEnv \in BlankWords THEN Absent ELSE urlEnv
      OBVIOUS
    <3>1. env \notin BlankWords
      BY OptionsAssumption
    <3>2. start'.url = LastGiven("--supervisor-url", env)
      BY <2>1 DEF OrElse
    <3>3. /\ FlagsAt("--supervisor-url") = {} => LastGiven("--supervisor-url", env) = env
          /\ FlagsAt("--supervisor-url") # {} =>
               /\ LastGiven("--supervisor-url", env) = LastOf("--supervisor-url")
               /\ IsFit(LastOf("--supervisor-url"), TakesNext("--supervisor-url"))
      BY <1>1, <2>F, <2>T, LastIsKept
    <3> QED
      BY <2>T, <3>1, <3>2, <3>3 DEF IsFit
  <2>11. \A f \in ListFlags \cap FlagWords : Len(given[f]) = Cardinality(FlagsAt(f))
    BY <1>1, WhatIsKept
  <2>12. StartsAsTold'
    <3> PICK told : told = start'
      OBVIOUS
    <3>1. words' = words /\ given' = given
      BY <1>1
    <3> QED
      BY <2>1, <2>4, <2>5, <2>6, <2>7, <2>8, <2>9, <2>10, <2>11, <3>1
         DEF StartsAsTold, FlagsAt, StandsAsValue, LastOf, Listened
  <2> QED
    BY <2>1, <2>2, <2>12 DEF OptionsInv
<1> QED
  BY <1>2, <1>3, <1>4

LEMMA FailsInTheEnd == ASSUME OptionsInv, FailsToStart PROVE OptionsInv'
<1>1. OptionsTyped /\ UNCHANGED << words, given, wanting >> /\ Says("refused")
  BY DEF OptionsInv, FailsToStart
<1>2. start'.pc = "refused" /\ DOMAIN start' = DOMAIN start
  BY <1>1 DEF Says, OptionsTyped
<1>3. OptionsTyped'
  BY <1>1, <1>2 DEF OptionsTyped, StartPcs
<1> QED
  BY <1>2, <1>3, EndsOtherwise

LEMMA OptionsStep == OptionsInv /\ [OptionsNext]_optionVars => OptionsInv'
<1> SUFFICES ASSUME OptionsInv, [OptionsNext]_optionVars PROVE OptionsInv'
  OBVIOUS
<1>1. CASE UNCHANGED optionVars
  <2>1. words' = words /\ given' = given /\ wanting' = wanting /\ start' = start
    BY <1>1 DEF optionVars
  <2>2. start.pc \in {"reading", "parsed"} => LineIsKept'
    BY <2>1, SameLine DEF OptionsInv
  <2>3. OptionsTyped'
    BY <2>1 DEF OptionsInv, OptionsTyped
  <2>4. StartsAsTold'
    BY <2>1 DEF OptionsInv, StartsAsTold, FlagsAt, StandsAsValue, LastOf, Listened
  <2> QED
    BY <2>1, <2>2, <2>3, <2>4 DEF OptionsInv
<1>2. CASE OptionsNext
  BY <1>2, FlagIsRead, ValueIsRead, LineEnds, VisorStarts, FailsInTheEnd DEF OptionsNext
<1> QED
  BY <1>1, <1>2

\* A visor serves only as its command line and the environment say (Options, parse_args_from
\* and main): for every line, however long, and every set of flags and values.
THEOREM StartsAlwaysAsTold == OptionsSpec => []StartsAsTold
<1>1. OptionsInv => StartsAsTold
  BY DEF OptionsInv
<1> QED
  BY OptionsInitially, OptionsStep, <1>1, PTL DEF OptionsSpec

-----------------------------------------------------------------------------
(* Review: a review, the screen that shows it, and the one request that    *)
(* decides it.                                                             *)

SomeProfile == ReviewedProfiles \cup {""}
Actions == {"approve", "cancel", "revoke", "connect"}
DialogRecords == [pc : {"menu", "shown", "chosen", "target", "waits", "closed"},
                  profile : SomeProfile, review : Nat, post : Nat,
                  told : Actions \cup {"", "error"}]
PostRecords == [action : Actions, word : {"TRUST", "other", "unreadable", "REVOKE", "yes"},
                was : {"sent", "done", "refused", "lost"}, review : Nat,
                profile : SomeProfile, saw : Nat]
MadeRecords == [profile : SomeProfile, contents : Nat]

ReviewTyped ==
  /\ dialogs \in [Screens -> DialogRecords] /\ made \in Seq(MadeRecords)
  /\ undecided \subseteq DOMAIN made /\ grants \in [ReviewedProfiles -> Nat]
  /\ sources \in Nat /\ rented \in Nat /\ posts \in Seq(PostRecords)

IsDecision(x) == x.action \in {"approve", "cancel"}

\* A request: the word typed for it, the review it decides, and that it is taken once.
PostFits(x, mk, und) ==
  /\ x.action = "approve" => x.word = "TRUST"
  /\ x.action = "revoke" => x.word = "REVOKE"
  /\ x.action = "connect" => x.word = "yes"
  /\ IsDecision(x) => x.review \in DOMAIN mk /\ x.saw = mk[x.review].contents
  /\ IsDecision(x) /\ x.was \in {"done", "refused"} => x.review \notin und

\* A screen: the review it shows is undecided by anybody, and what it was told is of the
\* request it sent.
DialogFits(d, mk, ps) ==
  /\ d.pc = "shown" => /\ d.review \in DOMAIN mk
                       /\ \A n \in DOMAIN ps : IsDecision(ps[n]) => ps[n].review # d.review
  /\ d.pc \in {"shown", "chosen", "target", "waits"} => d.told = ""
  /\ d.pc = "waits" \/ d.told \notin {"", "error"} =>
       d.post \in DOMAIN ps /\ ps[d.post].review = d.review
  /\ d.told \notin {"", "error"} => ps[d.post].was = "done" /\ ps[d.post].action = d.told

GrantFits(p, g, ps) ==
  g # None => \E n \in DOMAIN ps : ps[n].word = "TRUST" /\ ps[n].profile = p /\ ps[n].saw = g

OneDecisionEach(ps) ==
  \A n, m \in DOMAIN ps :
    n # m /\ IsDecision(ps[n]) /\ IsDecision(ps[m]) => ps[n].review # ps[m].review

ShownApart(ds) ==
  \A s, t \in Screens :
    s # t /\ ds[s].pc = "shown" /\ ds[t].pc = "shown" => ds[s].review # ds[t].review

ReviewInv ==
  /\ ReviewTyped /\ OneDecisionEach(posts) /\ ShownApart(dialogs)
  /\ \A n \in DOMAIN posts : PostFits(posts[n], made, undecided)
  /\ \A s \in Screens : DialogFits(dialogs[s], made, posts)
  /\ \A p \in ReviewedProfiles : GrantFits(p, grants[p], posts)

\* Later requests: nothing is taken back but what became of one that was only sent.
Later(old, new) ==
  /\ DOMAIN old \subseteq DOMAIN new
  /\ \A n \in DOMAIN old :
       /\ new[n].action = old[n].action /\ new[n].word = old[n].word
       /\ new[n].review = old[n].review /\ new[n].profile = old[n].profile
       /\ new[n].saw = old[n].saw /\ (old[n].was = "done" => new[n].was = "done")

LEMMA ReviewInitially == ReviewInit => ReviewInv
<1> SUFFICES ASSUME ReviewInit PROVE ReviewInv
  OBVIOUS
<1>1. PICK d : d = Idle
  OBVIOUS
<1>2. d \in DialogRecords /\ d.pc = "menu" /\ d.told = ""
  BY <1>1 DEF Idle, DialogRecords, SomeProfile
<1>3. \A s \in Screens : dialogs[s] = d
  BY <1>1 DEF ReviewInit
<1>4. ReviewTyped
  <2>1. dialogs \in [Screens -> DialogRecords]
    BY <1>1, <1>2 DEF ReviewInit
  <2>2. grants \in [ReviewedProfiles -> Nat]
    BY DEF ReviewInit, None
  <2>3. QED
    BY <2>1, <2>2 DEF ReviewInit, ReviewTyped
<1>5. posts = << >> /\ DOMAIN posts = {} /\ \A p \in ReviewedProfiles : grants[p] = None
  BY DEF ReviewInit
<1>6. OneDecisionEach(posts) /\ ShownApart(dialogs)
  BY <1>2, <1>3, <1>5 DEF OneDecisionEach, ShownApart
<1>7. \A s \in Screens : DialogFits(dialogs[s], made, posts)
  BY <1>2, <1>3, <1>5 DEF DialogFits
<1>8. \A p \in ReviewedProfiles : GrantFits(p, grants[p], posts)
  BY <1>5 DEF GrantFits
<1>9. QED
  BY <1>4, <1>5, <1>6, <1>7, <1>8 DEF ReviewInv

LEMMA GrantKept ==
  ASSUME NEW p, NEW g, NEW old, NEW new, Later(old, new), GrantFits(p, g, old)
  PROVE  GrantFits(p, g, new)
BY DEF Later, GrantFits

LEMMA DialogKept ==
  ASSUME NEW d, NEW mk, NEW mk2, NEW old, NEW new, DialogFits(d, mk, old), Later(old, new),
         DOMAIN mk \subseteq DOMAIN mk2,
         d.pc = "shown" => \A n \in DOMAIN new \ DOMAIN old : IsDecision(new[n]) => new[n].review # d.review
  PROVE  DialogFits(d, mk2, new)
<1>1. ASSUME d.pc = "shown", NEW n \in DOMAIN new, IsDecision(new[n]) PROVE new[n].review # d.review
  BY <1>1 DEF DialogFits, Later, IsDecision
<1>2. QED
  BY <1>1 DEF DialogFits, Later

LEMMA LaterIsReflexive == \A ps : Later(ps, ps)
BY DEF Later

\* One screen moves, and shows no review.
LEMMA ScreenMoves ==
  ASSUME ReviewInv, NEW s \in Screens, NEW d \in DialogRecords,
         dialogs' = [dialogs EXCEPT ![s] = d], d.pc # "shown", DialogFits(d, made, posts),
         UNCHANGED << made, undecided, grants, sources, rented, posts >>
  PROVE  ReviewInv'
<1>1. ReviewTyped'
  BY DEF ReviewInv, ReviewTyped
<1>2. dialogs'[s] = d /\ \A t \in Screens \ {s} : dialogs'[t] = dialogs[t]
  BY DEF ReviewInv, ReviewTyped
<1>3. ShownApart(dialogs')
  BY <1>2 DEF ReviewInv, ShownApart
<1>4. ASSUME NEW t \in Screens PROVE DialogFits(dialogs'[t], made, posts)
  BY <1>2 DEF ReviewInv
<1>5. QED
  BY <1>1, <1>3, <1>4 DEF ReviewInv

\* A screen that is on the menu, has something chosen, or is closed shows and waits for nothing.
Rests(d) == d \in DialogRecords /\ d.pc \in {"menu", "chosen", "target", "closed"}
            /\ (d.pc \in {"chosen", "target"} => d.told = "") /\ d.told \in {"", "error"}

LEMMA RestsFits == ASSUME NEW d, Rests(d), NEW mk, NEW ps PROVE DialogFits(d, mk, ps)
BY DEF Rests, DialogFits

LEMMA IdleRests == Rests(Idle) /\ Idle.pc = "menu" /\ Idle.told = "" /\ Idle.review = 0
BY DEF Idle, Rests, DialogRecords, SomeProfile

LEMMA FailsToRest ==
  ASSUME NEW s, ScreenFails(s)
  PROVE  \E d : dialogs' = [dialogs EXCEPT ![s] = d] /\ Rests(d) /\ d.pc = "closed"
<1>1. PICK idle : idle = Idle /\ Rests(idle)
  BY IdleRests
<1>2. PICK d : d = [idle EXCEPT !.pc = "closed", !.told = "error"]
  OBVIOUS
<1>3. Rests(d) /\ d.pc = "closed"
  BY <1>1, <1>2 DEF Rests, DialogRecords
<1>4. QED
  BY <1>1, <1>2, <1>3 DEF ScreenFails

\* The steps of a screen by itself.
LEMMA ScreenStep ==
  ASSUME ReviewInv, NEW s \in Screens, UNCHANGED << made, undecided, grants, sources, rented, posts >>,
         \/ \E p \in ReviewedProfiles : ChoosesGrant(s, p)
         \/ ScreenFails(s) \/ dialogs' = [dialogs EXCEPT ![s] = Idle]
         \/ ChoosesAttachment(s) \/ IsToldResult(s)
  PROVE  ReviewInv'
<1>1. ASSUME NEW d, Rests(d), dialogs' = [dialogs EXCEPT ![s] = d] PROVE ReviewInv'
  <2>1. d \in DialogRecords /\ d.pc # "shown" /\ DialogFits(d, made, posts)
    BY <1>1, RestsFits DEF Rests
  <2>2. QED
    BY <1>1, <2>1, ScreenMoves
<1>2. PICK idle : idle = Idle /\ Rests(idle) /\ idle.told = ""
  BY IdleRests
<1>3. CASE \E p \in ReviewedProfiles : ChoosesGrant(s, p)
  <2>1. PICK p \in ReviewedProfiles :
          dialogs' = [dialogs EXCEPT ![s] = [idle EXCEPT !.pc = "chosen", !.profile = p]]
    BY <1>2, <1>3 DEF ChoosesGrant
  <2>2. PICK d : d = [idle EXCEPT !.pc = "chosen", !.profile = p]
    OBVIOUS
  <2>3. Rests(d)
    BY <1>2, <2>2 DEF Rests, DialogRecords, SomeProfile
  <2>4. QED
    BY <1>1, <2>1, <2>2, <2>3
<1>4. CASE ScreenFails(s) \/ dialogs' = [dialogs EXCEPT ![s] = Idle]
  BY <1>1, <1>4, FailsToRest, IdleRests
<1>5. CASE ChoosesAttachment(s)
  <2>1. PICK n \in Nat : n = rented
    BY DEF ReviewInv, ReviewTyped
  <2>2. PICK d : d = [idle EXCEPT !.pc = "target", !.review = n]
    OBVIOUS
  <2>3. Rests(d)
    BY <1>2, <2>2 DEF Rests, DialogRecords
  <2>4. QED
    BY <1>1, <1>2, <1>5, <2>1, <2>2, <2>3 DEF ChoosesAttachment
<1>6. CASE IsToldResult(s)
  <2>1. CASE ScreenFails(s)
    BY <1>1, <2>1, FailsToRest
  <2>2. CASE ~ScreenFails(s)
    <3>1. PICK x : x = dialogs[s] /\ x \in DialogRecords /\ DialogFits(x, made, posts)
      BY DEF ReviewInv, ReviewTyped
    <3>2. x.pc = "waits" /\ x.post \in DOMAIN posts
      BY <1>6, <3>1 DEF IsToldResult, IsAt, DialogFits
    <3>3. PICK told \in Actions : told = posts[x.post].action
      <4>1. posts[x.post] \in PostRecords
        BY <3>2 DEF ReviewInv, ReviewTyped
      <4>2. QED
        BY <4>1 DEF PostRecords
    <3>4. PICK d : d = [x EXCEPT !.pc = "menu", !.told = told]
      OBVIOUS
    <3>5. /\ dialogs' = [dialogs EXCEPT ![s] = d]
          /\ posts[x.post].was = "done"
      BY <1>6, <2>2, <3>1, <3>3, <3>4 DEF IsToldResult
    <3>6. /\ d \in DialogRecords /\ d.pc = "menu" /\ d.told = told /\ d.post = x.post
          /\ d.review = x.review
      BY <3>1, <3>3, <3>4 DEF DialogRecords
    <3>7. DialogFits(d, made, posts)
      BY <3>1, <3>2, <3>3, <3>5, <3>6 DEF DialogFits
    <3>8. QED
      BY <3>5, <3>6, <3>7, ScreenMoves
  <2>3. QED
    BY <2>1, <2>2
<1>7. QED
  BY <1>3, <1>4, <1>5, <1>6

\* A request is sent: the review on the screen is decided by it and by no other.
LEMMA PostIsSent ==
  ASSUME ReviewInv, NEW s \in Screens, NEW x \in DialogRecords, x = dialogs[s],
         x.pc \in {"shown", "chosen", "target"},
         NEW action \in Actions, NEW word \in {"TRUST", "other", "unreadable", "REVOKE", "yes"},
         Post(s, action, word),
         action = "approve" => word = "TRUST", action = "revoke" => word = "REVOKE",
         action = "connect" => word = "yes", action \in {"approve", "cancel"} => x.pc = "shown",
         UNCHANGED << made, undecided, grants, sources, rented >>
  PROVE  ReviewInv'
<1>1. DialogFits(x, made, posts) /\ posts \in Seq(PostRecords) /\ made \in Seq(MadeRecords)
  BY DEF ReviewInv, ReviewTyped
<1>2. PICK saw \in Nat : saw = IF x.pc = "shown" THEN made[x.review].contents ELSE x.review
  <2>1. CASE x.pc = "shown"
    <3>1. made[x.review] \in MadeRecords
      <4>1. x.review \in DOMAIN made
        BY <1>1, <2>1 DEF DialogFits
      <4>2. QED
        BY <1>1, <4>1
    <3>2. QED
      BY <2>1, <3>1 DEF MadeRecords
  <2>2. CASE x.pc # "shown"
    BY <2>2 DEF DialogRecords
  <2>3. QED
    BY <2>1, <2>2
<1>3. PICK y : y = [action |-> action, word |-> word, was |-> "sent", review |-> x.review,
                    profile |-> x.profile, saw |-> saw]
  OBVIOUS
<1>4. /\ y \in PostRecords /\ y.action = action /\ y.word = word /\ y.was = "sent"
      /\ y.review = x.review /\ y.saw = saw
  BY <1>3 DEF PostRecords, DialogRecords
<1>5. posts' = Append(posts, y)
  BY <1>2, <1>3 DEF Post, IsAt, OnScreen
<1>6. PICK k \in Nat : k = Len(posts) + 1
  BY <1>1
<1>7. /\ posts' \in Seq(PostRecords) /\ Len(posts') = k /\ posts'[k] = y /\ k \notin DOMAIN posts
      /\ \A n : n \in DOMAIN posts' <=> n \in DOMAIN posts \/ n = k
      /\ \A n \in DOMAIN posts : posts'[n] = posts[n]
  BY <1>1, <1>4, <1>5, <1>6
<1>8. Later(posts, posts')
  BY <1>7 DEF Later
<1>9. PICK d : d = [x EXCEPT !.pc = "waits", !.post = k]
  OBVIOUS
<1>10. /\ d \in DialogRecords /\ d.pc = "waits" /\ d.post = k /\ d.told = x.told
       /\ d.review = x.review
  BY <1>9 DEF DialogRecords
<1>11. dialogs' = [dialogs EXCEPT ![s] = d]
  BY <1>7, <1>9 DEF Post
<1>12. dialogs'[s] = d /\ \A t \in Screens \ {s} : dialogs'[t] = dialogs[t]
  BY <1>11 DEF ReviewInv, ReviewTyped
<1>13. ReviewTyped'
  BY <1>7, <1>10, <1>11 DEF ReviewInv, ReviewTyped
<1>14. ShownApart(dialogs')
  BY <1>10, <1>12 DEF ReviewInv, ShownApart
<1>15. IsDecision(y) => x.pc = "shown"
  BY <1>4 DEF IsDecision
<1>16. OneDecisionEach(posts')
  <2>1. ASSUME NEW n \in DOMAIN posts, IsDecision(y), IsDecision(posts[n])
        PROVE  posts[n].review # y.review
    BY <1>1, <1>4, <1>15, <2>1 DEF DialogFits
  <2>2. QED
    BY <1>7, <2>1 DEF ReviewInv, OneDecisionEach
<1>17. PostFits(y, made, undecided)
  BY <1>1, <1>2, <1>4, <1>15 DEF PostFits, DialogFits
<1>18. ASSUME NEW n \in DOMAIN posts' PROVE PostFits(posts'[n], made, undecided)
  BY <1>7, <1>17 DEF ReviewInv
<1>19. ASSUME NEW t \in Screens PROVE DialogFits(dialogs'[t], made, posts')
  <2>1. CASE t = s
    <3>1. DialogFits(d, made, posts')
      BY <1>1, <1>4, <1>7, <1>10 DEF DialogFits
    <3>2. QED
      BY <1>12, <2>1, <3>1
  <2>2. CASE t # s
    <3>1. PICK o : o = dialogs[t] /\ DialogFits(o, made, posts)
      BY DEF ReviewInv
    <3>2. ASSUME o.pc = "shown", NEW n \in DOMAIN posts' \ DOMAIN posts, IsDecision(posts'[n])
          PROVE  posts'[n].review # o.review
      <4>1. posts'[n] = y
        BY <1>7, <3>2
      <4>2. x.pc = "shown"
        BY <1>15, <3>2, <4>1
      <4>3. x.review # o.review
        BY <2>2, <3>1, <3>2, <4>2 DEF ReviewInv, ShownApart
      <4>4. QED
        BY <1>4, <4>1, <4>3
    <3>3. DialogFits(o, made, posts')
      BY <1>8, <3>1, <3>2, DialogKept
    <3>4. QED
      BY <1>12, <2>2, <3>1, <3>3
  <2>3. QED
    BY <2>1, <2>2
<1>20. ASSUME NEW p \in ReviewedProfiles PROVE GrantFits(p, grants[p], posts')
  BY <1>8, GrantKept DEF ReviewInv
<1>21. QED
  BY <1>13, <1>14, <1>16, <1>18, <1>19, <1>20 DEF ReviewInv

\* A review is made: no request knows it yet.
LEMMA PreviewStep ==
  ASSUME ReviewInv, NEW s \in Screens, NEW p \in ReviewedProfiles, Previews(s, p)
  PROVE  ReviewInv'
<1>1. made \in Seq(MadeRecords) /\ undecided \subseteq DOMAIN made /\ sources \in Nat
  BY DEF ReviewInv, ReviewTyped
<1>2. PICK y : y = [profile |-> p, contents |-> sources]
  OBVIOUS
<1>3. y \in MadeRecords
  BY <1>1, <1>2 DEF MadeRecords, SomeProfile
<1>4. PICK k \in Nat : k = Len(made) + 1
  BY <1>1
<1>5. made' = Append(made, y) /\ UNCHANGED << grants, sources, rented, posts >>
  BY <1>2 DEF Previews
<1>6. /\ made' \in Seq(MadeRecords) /\ Len(made') = k /\ k \notin DOMAIN made
      /\ \A n : n \in DOMAIN made' <=> n \in DOMAIN made \/ n = k
      /\ \A n \in DOMAIN made : made'[n] = made[n]
  BY <1>1, <1>3, <1>4, <1>5
<1>7. undecided' = undecided \cup {k}
  BY <1>6 DEF Previews
<1>8. ASSUME NEW n \in DOMAIN posts PROVE PostFits(posts'[n], made', undecided')
  <2>1. PICK x : x = posts[n] /\ PostFits(x, made, undecided)
    BY DEF ReviewInv
  <2>2. PostFits(x, made', undecided')
    BY <1>6, <1>7, <2>1 DEF PostFits
  <2>3. QED
    BY <1>5, <2>1, <2>2
<1>9. PICK d \in DialogRecords : /\ dialogs' = [dialogs EXCEPT ![s] = d]
                                 /\ Rests(d) \/ (d.pc = "shown" /\ d.review = k /\ d.told = "")
  <2>1. CASE ScreenFails(s)
    <3>1. PICK d : dialogs' = [dialogs EXCEPT ![s] = d] /\ Rests(d)
      BY <2>1, FailsToRest
    <3>2. QED
      BY <3>1 DEF Rests
  <2>2. CASE ~ScreenFails(s)
    <3>1. PICK idle : idle = Idle /\ Rests(idle) /\ idle.told = ""
      BY IdleRests
    <3>2. PICK d : d = [idle EXCEPT !.pc = "shown", !.profile = p, !.review = k]
      OBVIOUS
    <3>3. d \in DialogRecords /\ d.pc = "shown" /\ d.review = k /\ d.told = ""
      BY <3>1, <3>2 DEF Rests, DialogRecords, SomeProfile
    <3>4. dialogs' = [dialogs EXCEPT ![s] = d]
      BY <1>6, <2>2, <3>1, <3>2 DEF Previews
    <3>5. QED
      BY <3>3, <3>4
  <2>3. QED
    BY <2>1, <2>2
<1>10. dialogs'[s] = d /\ \A t \in Screens \ {s} : dialogs'[t] = dialogs[t]
  BY <1>9 DEF ReviewInv, ReviewTyped
<1>11. ReviewTyped'
  BY <1>5, <1>6, <1>7, <1>9 DEF ReviewInv, ReviewTyped
<1>12. ASSUME NEW t \in Screens PROVE DialogFits(dialogs'[t], made', posts')
  <2>1. CASE t = s /\ Rests(d)
    BY <1>10, <2>1, RestsFits
  <2>2. CASE t = s /\ ~Rests(d)
    <3>1. ASSUME NEW n \in DOMAIN posts, IsDecision(posts[n]) PROVE posts[n].review # k
      BY <1>6, <3>1 DEF ReviewInv, PostFits
    <3>2. DialogFits(d, made', posts)
      BY <1>6, <1>9, <2>2, <3>1 DEF DialogFits
    <3>3. QED
      BY <1>5, <1>10, <2>2, <3>2
  <2>3. CASE t # s
    <3>1. PICK o : o = dialogs[t] /\ DialogFits(o, made, posts)
      BY DEF ReviewInv
    <3>2. DialogFits(o, made', posts)
      BY <1>6, <3>1, DialogKept, LaterIsReflexive
    <3>3. QED
      BY <1>5, <1>10, <2>3, <3>1, <3>2
  <2>4. QED
    BY <2>1, <2>2, <2>3
<1>13. ShownApart(dialogs')
  <2>1. ASSUME NEW t \in Screens \ {s}, dialogs'[t].pc = "shown", dialogs'[s].pc = "shown"
        PROVE  dialogs'[t].review # dialogs'[s].review
    <3>1. d.review = k
      BY <1>9, <1>10, <2>1 DEF Rests
    <3>2. dialogs[t].review \in DOMAIN made
      BY <1>10, <2>1 DEF ReviewInv, DialogFits
    <3>3. QED
      BY <1>6, <1>10, <3>1, <3>2
  <2>2. ASSUME NEW t \in Screens \ {s}, NEW o \in Screens \ {s}, t # o,
               dialogs'[t].pc = "shown", dialogs'[o].pc = "shown"
        PROVE  dialogs'[t].review # dialogs'[o].review
    BY <1>10, <2>2 DEF ReviewInv, ShownApart
  <2>3. QED
    BY <2>1, <2>2 DEF ShownApart
<1>14. QED
  BY <1>5, <1>8, <1>11, <1>12, <1>13 DEF ReviewInv

\* What became of one request is settled; a screen may give up meanwhile.
LEMMA PostIsSettled ==
  ASSUME ReviewInv, NEW n \in DOMAIN posts, NEW how \in {"done", "refused", "lost"},
         posts[n].was = "sent", posts' = [posts EXCEPT ![n].was = how],
         undecided' \subseteq undecided, UNCHANGED << made, sources, rented >>,
         IsDecision(posts[n]) /\ how # "lost" => posts[n].review \notin undecided',
         dialogs' \in [Screens -> DialogRecords],
         \A t \in Screens : dialogs'[t] = dialogs[t] \/ Rests(dialogs'[t]),
         grants' \in [ReviewedProfiles -> Nat],
         \A p \in ReviewedProfiles : GrantFits(p, grants'[p], posts)
  PROVE  ReviewInv'
<1>1. posts \in Seq(PostRecords) /\ undecided \subseteq DOMAIN made
  BY DEF ReviewInv, ReviewTyped
<1>2. PICK x : x = posts[n] /\ x \in PostRecords /\ PostFits(x, made, undecided)
  BY <1>1 DEF ReviewInv
<1>3. PICK y : y = [x EXCEPT !.was = how]
  OBVIOUS
<1>4. /\ y \in PostRecords /\ y.action = x.action /\ y.word = x.word /\ y.was = how
      /\ y.review = x.review /\ y.profile = x.profile /\ y.saw = x.saw
  BY <1>2, <1>3 DEF PostRecords
<1>5. posts' = [posts EXCEPT ![n] = y]
  BY <1>2, <1>3
<1>6. /\ posts' \in Seq(PostRecords) /\ DOMAIN posts' = DOMAIN posts /\ posts'[n] = y
      /\ \A m \in DOMAIN posts \ {n} : posts'[m] = posts[m]
  <2>1. PICK k \in Nat : k = Len(posts)
    BY <1>1
  <2>2. posts \in [1..k -> PostRecords] /\ n \in 1..k
    BY <1>1, <2>1
  <2>3. posts' \in [1..k -> PostRecords]
    BY <1>4, <1>5, <2>2
  <2>4. posts' \in Seq(PostRecords)
    <3>1. Seq(PostRecords) = UNION {[1..m -> PostRecords] : m \in Nat}
      BY SeqDef, Zenon
    <3>2. [1..k -> PostRecords] \in {[1..m -> PostRecords] : m \in Nat}
      BY <2>1
    <3>3. QED
      BY <2>3, <3>1, <3>2, Zenon
  <2>5. QED
    BY <1>5, <2>2, <2>3, <2>4
<1>7. x.was = "sent"
  BY <1>2
<1>8. Later(posts, posts')
  BY <1>2, <1>4, <1>6, <1>7 DEF Later
<1>9. ReviewTyped'
  BY <1>6 DEF ReviewInv, ReviewTyped
<1>10. OneDecisionEach(posts')
  <2>1. \A m \in DOMAIN posts : posts'[m].action = posts[m].action /\ posts'[m].review = posts[m].review
    BY <1>8 DEF Later
  <2>2. QED
    BY <1>6, <2>1 DEF ReviewInv, OneDecisionEach, IsDecision
<1>11. ShownApart(dialogs')
  BY DEF ReviewInv, ShownApart, Rests
<1>12. PostFits(y, made, undecided')
  <2>1. IsDecision(y) <=> IsDecision(x)
    BY <1>4 DEF IsDecision
  <2>2. QED
    BY <1>2, <1>4, <2>1 DEF PostFits
<1>13. ASSUME NEW m \in DOMAIN posts' PROVE PostFits(posts'[m], made, undecided')
  <2>1. CASE m = n
    BY <1>6, <1>12, <2>1
  <2>2. CASE m # n
    <3>1. PICK z : z = posts[m] /\ z = posts'[m] /\ PostFits(z, made, undecided)
      BY <1>6, <1>13, <2>2 DEF ReviewInv
    <3>2. PostFits(z, made, undecided')
      BY <3>1 DEF PostFits
    <3>3. QED
      BY <3>1, <3>2
  <2>3. QED
    BY <2>1, <2>2
<1>14. ASSUME NEW t \in Screens PROVE DialogFits(dialogs'[t], made, posts')
  <2>1. CASE dialogs'[t] = dialogs[t]
    <3>1. PICK o : o = dialogs[t] /\ DialogFits(o, made, posts)
      BY DEF ReviewInv
    <3>2. DialogFits(o, made, posts')
      BY <1>6, <1>8, <3>1, DialogKept
    <3>3. QED
      BY <2>1, <3>1, <3>2
  <2>2. CASE Rests(dialogs'[t])
    BY <2>2, RestsFits
  <2>3. QED
    BY <2>1, <2>2
<1>15. ASSUME NEW p \in ReviewedProfiles PROVE GrantFits(p, grants'[p], posts')
  BY <1>8, GrantKept
<1>16. QED
  BY <1>9, <1>10, <1>11, <1>13, <1>14, <1>15 DEF ReviewInv

LEMMA DecisionStep ==
  ASSUME ReviewInv, NEW n \in DOMAIN posts, Decides(n) \/ Reattaches(n)
  PROVE  ReviewInv'
<1>1. UNCHANGED << dialogs, made, sources, rented >> /\ posts[n].was = "sent"
  BY DEF Decides, Reattaches
<1>2. PICK x : x = posts[n] /\ x \in PostRecords /\ PostFits(x, made, undecided)
  BY DEF ReviewInv, ReviewTyped
<1>3. dialogs \in [Screens -> DialogRecords] /\ grants \in [ReviewedProfiles -> Nat] /\ sources \in Nat
  BY DEF ReviewInv, ReviewTyped
<1>4. \A p \in ReviewedProfiles : GrantFits(p, grants[p], posts)
  BY DEF ReviewInv
<1>5. ASSUME NEW how \in {"done", "refused"}, IsDecided(n, how), undecided' \subseteq undecided,
             IsDecision(x) => x.review \notin undecided',
             grants' \in [ReviewedProfiles -> Nat],
             \A p \in ReviewedProfiles : GrantFits(p, grants'[p], posts)
      PROVE  ReviewInv'
  <2>1. posts' = [posts EXCEPT ![n].was = how]
    BY <1>5 DEF IsDecided
  <2>2. dialogs' \in [Screens -> DialogRecords] /\ \A t \in Screens : dialogs'[t] = dialogs[t]
    BY <1>1, <1>3
  <2>3. QED
    BY <1>1, <1>2, <1>5, <2>1, <2>2, PostIsSettled
<1>6. CASE x.action = "approve" /\ Decides(n)
  <2>1. undecided' = undecided \ {x.review}
    BY <1>2, <1>6 DEF Decides
  <2>2. CASE IsDecided(n, "refused") /\ UNCHANGED grants
    BY <1>3, <1>4, <1>5, <2>1, <2>2
  <2>3. CASE /\ x.review \in undecided /\ made[x.review].contents = sources
             /\ IsDecided(n, "done") /\ grants' = [grants EXCEPT ![x.profile] = sources]
    <3>1. grants' \in [ReviewedProfiles -> Nat]
      BY <1>3, <2>3
    <3>2. x.word = "TRUST" /\ x.saw = sources
      BY <1>2, <1>6, <2>3 DEF PostFits, IsDecision
    <3>3. ASSUME NEW p \in ReviewedProfiles PROVE GrantFits(p, grants'[p], posts)
      <4>1. CASE p = x.profile
        <5>1. grants'[p] = sources
          BY <1>3, <2>3, <4>1
        <5>2. QED
          BY <1>2, <3>2, <4>1, <5>1 DEF GrantFits
      <4>2. CASE p # x.profile
        BY <1>3, <1>4, <2>3, <4>2
      <4>3. QED
        BY <4>1, <4>2
    <3>4. QED
      BY <1>5, <2>1, <2>3, <3>1, <3>3
  <2>4. QED
    BY <1>2, <1>6, <2>2, <2>3 DEF Decides
<1>7. CASE x.action = "cancel" /\ Decides(n)
  <2>1. undecided' = undecided \ {x.review} /\ IsDecided(n, "done") /\ UNCHANGED grants
    BY <1>2, <1>7 DEF Decides
  <2>2. QED
    BY <1>3, <1>4, <1>5, <2>1
<1>8. CASE x.action = "revoke" /\ Decides(n)
  <2>1. UNCHANGED undecided /\ ~IsDecision(x)
    BY <1>2, <1>8 DEF Decides, IsDecision
  <2>2. CASE IsDecided(n, "refused") /\ UNCHANGED grants
    BY <1>3, <1>4, <1>5, <2>1, <2>2
  <2>3. CASE IsDecided(n, "done") /\ grants' = [grants EXCEPT ![x.profile] = None]
    <3>1. grants' \in [ReviewedProfiles -> Nat]
      BY <1>3, <2>3 DEF None
    <3>2. ASSUME NEW p \in ReviewedProfiles PROVE GrantFits(p, grants'[p], posts)
      <4>1. CASE p = x.profile
        BY <1>3, <2>3, <4>1 DEF GrantFits
      <4>2. CASE p # x.profile
        BY <1>3, <1>4, <2>3, <4>2
      <4>3. QED
        BY <4>1, <4>2
    <3>3. QED
      BY <1>5, <2>1, <2>3, <3>1, <3>2
  <2>4. QED
    BY <1>2, <1>8, <2>2, <2>3 DEF Decides
<1>9. CASE Reattaches(n)
  <2>1. UNCHANGED << undecided, grants >> /\ ~IsDecision(x)
    BY <1>2, <1>9 DEF Reattaches, IsDecision
  <2>2. CASE IsDecided(n, "done")
    BY <1>3, <1>4, <1>5, <2>1, <2>2
  <2>3. CASE IsDecided(n, "refused")
    BY <1>3, <1>4, <1>5, <2>1, <2>3
  <2>4. QED
    BY <1>9, <2>2, <2>3 DEF Reattaches
<1>10. QED
  BY <1>2, <1>6, <1>7, <1>8, <1>9 DEF Decides

LEMMA WaitStep ==
  ASSUME ReviewInv, NEW s \in Screens, GivesUpWaiting(s) PROVE ReviewInv'
<1>1. PICK x : x = dialogs[s] /\ x \in DialogRecords /\ DialogFits(x, made, posts)
  BY DEF ReviewInv, ReviewTyped
<1>2. x.pc = "waits" /\ x.post \in DOMAIN posts
  BY <1>1 DEF GivesUpWaiting, IsAt, DialogFits
<1>3. PICK d : dialogs' = [dialogs EXCEPT ![s] = d] /\ Rests(d)
  BY FailsToRest DEF GivesUpWaiting
<1>4. CASE UNCHANGED posts
  BY <1>4, ScreenStep DEF GivesUpWaiting
<1>5. CASE posts[x.post].was = "sent" /\ posts' = [posts EXCEPT ![x.post].was = "lost"]
  <2>1. dialogs \in [Screens -> DialogRecords] /\ d \in DialogRecords
    BY <1>3 DEF ReviewInv, ReviewTyped, Rests
  <2>2. /\ dialogs' \in [Screens -> DialogRecords]
        /\ \A t \in Screens : dialogs'[t] = dialogs[t] \/ Rests(dialogs'[t])
    BY <1>3, <2>1
  <2>3. /\ UNCHANGED << made, undecided, grants, sources, rented >>
        /\ grants \in [ReviewedProfiles -> Nat]
        /\ \A p \in ReviewedProfiles : GrantFits(p, grants[p], posts)
    BY DEF GivesUpWaiting, ReviewInv, ReviewTyped
  <2>4. QED
    BY <1>2, <1>5, <2>2, <2>3, PostIsSettled
<1>6. QED
  BY <1>1, <1>4, <1>5 DEF GivesUpWaiting

LEMMA SendStep ==
  ASSUME ReviewInv, NEW s \in Screens, Reviews(s) \/ WordsRevocation(s) \/ Connects(s)
  PROVE  ReviewInv'
<1>1. PICK x \in DialogRecords : x = dialogs[s]
  BY DEF ReviewInv, ReviewTyped
<1>2. UNCHANGED << made, undecided, grants, sources, rented >>
  BY DEF Reviews, WordsRevocation, Connects
<1>3. CASE Reviews(s)
  <2>1. PICK word \in {"TRUST", "other", "unreadable"} :
          x.pc = "shown" /\ Post(s, IF Approves(word) THEN "approve" ELSE "cancel", word)
    BY <1>1, <1>3 DEF Reviews, IsAt
  <2>2. CASE word = "TRUST"
    <3>1. Post(s, "approve", word)
      BY <2>1, <2>2 DEF Approves
    <3>2. QED
      BY <1>1, <1>2, <2>1, <2>2, <3>1, PostIsSent DEF Actions
  <2>3. CASE word # "TRUST"
    <3>1. Post(s, "cancel", word)
      BY <2>1, <2>3 DEF Approves
    <3>2. QED
      BY <1>1, <1>2, <2>1, <2>3, <3>1, PostIsSent DEF Actions
  <2>4. QED
    BY <2>2, <2>3
<1>4. CASE WordsRevocation(s)
  <2>1. CASE Post(s, "revoke", "REVOKE")
    <3>1. x.pc = "chosen"
      BY <1>1, <1>4 DEF WordsRevocation, IsAt
    <3>2. QED
      BY <1>1, <1>2, <2>1, <3>1, PostIsSent DEF Actions
  <2>2. CASE ~Post(s, "revoke", "REVOKE")
    BY <1>2, <1>4, <2>2, ScreenStep DEF WordsRevocation
  <2>3. QED
    BY <2>1, <2>2
<1>5. CASE Connects(s)
  <2>1. CASE Post(s, "connect", "yes")
    <3>1. x.pc = "target"
      BY <1>1, <1>5 DEF Connects, IsAt
    <3>2. QED
      BY <1>1, <1>2, <2>1, <3>1, PostIsSent DEF Actions
  <2>2. CASE ~Post(s, "connect", "yes")
    BY <1>2, <1>5, <2>2, ScreenStep DEF Connects
  <2>3. QED
    BY <2>1, <2>2
<1>6. QED
  BY <1>3, <1>4, <1>5

\* A review is forgotten, a source changes, a session follows another.
LEMMA ReviewRest ==
  ASSUME ReviewInv, Forgets \/ SourcesChange \/ AnotherSession \/ UNCHANGED ReviewVars
  PROVE  ReviewInv'
<1>1. /\ UNCHANGED << dialogs, made, posts >> /\ undecided' \subseteq undecided
      /\ grants' = grants \/ grants' = [p \in ReviewedProfiles |-> None]
  BY DEF Forgets, SourcesChange, AnotherSession, ReviewVars
<1>2. sources' \in Nat /\ rented' \in Nat
  BY DEF Forgets, SourcesChange, AnotherSession, ReviewVars, ReviewInv, ReviewTyped
<1>3. grants' \in [ReviewedProfiles -> Nat]
  BY <1>1 DEF ReviewInv, ReviewTyped, None
<1>4. ReviewTyped'
  BY <1>1, <1>2, <1>3 DEF ReviewInv, ReviewTyped
<1>5. ASSUME NEW n \in DOMAIN posts PROVE PostFits(posts[n], made, undecided')
  <2>1. PICK z : z = posts[n] /\ PostFits(z, made, undecided)
    BY DEF ReviewInv
  <2>2. PostFits(z, made, undecided')
    BY <1>1, <2>1 DEF PostFits
  <2>3. QED
    BY <2>1, <2>2
<1>6. ASSUME NEW p \in ReviewedProfiles PROVE GrantFits(p, grants'[p], posts)
  BY <1>1 DEF ReviewInv, GrantFits
<1>7. QED
  BY <1>1, <1>4, <1>5, <1>6 DEF ReviewInv

LEMMA ReviewStep == ReviewInv /\ [ReviewNext]_ReviewVars => ReviewInv'
<1>1. ASSUME ReviewInv, NEW s \in Screens,
             Closes(s) \/ ChoosesAttachment(s) \/ IsToldResult(s)
             \/ \E p \in ReviewedProfiles : ChoosesGrant(s, p)
      PROVE  ReviewInv'
  <2>1. UNCHANGED << made, undecided, grants, sources, rented, posts >>
    BY <1>1 DEF Closes, ChoosesAttachment, IsToldResult, ChoosesGrant
  <2>2. QED
    BY <1>1, <2>1, ScreenStep DEF Closes
<1>2. QED
  BY <1>1, PreviewStep, SendStep, WaitStep, DecisionStep, ReviewRest DEF ReviewNext

\* Trust is the user's word, however late it reaches the visor: a profile is trusted with
\* the very contents on the screen on which TRUST was typed, a review gets one decision,
\* and a screen that says cancelled speaks of a review that nothing approves any more
\* (mcp_trust.rs, mcp_trust_gui.rs, mcp_connections.rs).
THEOREM TrustIsAlwaysTheUsersWord == ReviewSpec => []TrustIsTheUsersWord
<1>1. ASSUME ReviewInv PROVE TrustIsTheUsersWord
  <2>1. ASSUME NEW p \in ReviewedProfiles, grants[p] # None
        PROVE  \E n \in DOMAIN posts : /\ posts[n].word = "TRUST" /\ posts[n].profile = p
                                       /\ posts[n].saw = grants[p]
    BY <1>1, <2>1 DEF ReviewInv, GrantFits
  <2>2. ASSUME NEW n \in DOMAIN posts
        PROVE  /\ Said(n, "approve", "TRUST") /\ Said(n, "revoke", "REVOKE")
               /\ Said(n, "connect", "yes")
    BY <1>1 DEF ReviewInv, PostFits, Said
  <2>3. ASSUME NEW n \in DOMAIN posts, posts[n].action \in {"approve", "cancel"}
        PROVE  Deciding(posts[n].review) = {n}
    BY <1>1, <2>3 DEF ReviewInv, OneDecisionEach, IsDecision, Deciding
  <2>4. ASSUME NEW s \in Screens
        PROVE  /\ dialogs[s].told \notin {"", "error"} =>
                     /\ posts[dialogs[s].post].was = "done"
                     /\ posts[dialogs[s].post].action = dialogs[s].told
               /\ dialogs[s].told = "cancel" => dialogs[s].review \notin undecided
               /\ dialogs[s].pc = "waits" /\ dialogs[s].review # 0 =>
                     posts[dialogs[s].post].review = dialogs[s].review
    <3>1. PICK d : d = dialogs[s] /\ DialogFits(d, made, posts)
      BY <1>1 DEF ReviewInv
    <3>2. ASSUME d.told = "cancel" PROVE d.review \notin undecided
      <4>1. PICK x : /\ x = posts[d.post] /\ d.post \in DOMAIN posts /\ x.was = "done"
                     /\ x.action = "cancel" /\ x.review = d.review
        BY <3>1, <3>2 DEF DialogFits
      <4>2. PostFits(x, made, undecided)
        BY <1>1, <4>1 DEF ReviewInv
      <4>3. QED
        BY <4>1, <4>2 DEF PostFits, IsDecision
    <3>3. QED
      BY <3>1, <3>2 DEF DialogFits
  <2>5. QED
    BY <2>1, <2>2, <2>3, <2>4 DEF TrustIsTheUsersWord
<1>2. QED
  BY <1>1, ReviewInitially, ReviewStep, PTL DEF ReviewSpec

-----------------------------------------------------------------------------
(* Sources: what is listed of what is there.                               *)

\* A finite set of numbers has its largest.
LEMMA LargestOf ==
  ASSUME NEW S \in SUBSET Nat, IsFiniteSet(S), S # {}
  PROVE  \E x \in S : \A y \in S : y <= x
<1> PICK n : n = Cardinality(S)
  OBVIOUS
<1> PICK P : P = {i \in 0..n : \A T \in SUBSET S : Cardinality(T) = i /\ T # {} =>
                                  \E x \in T : \A y \in T : y <= x}
  OBVIOUS
<1>1. n \in Nat /\ \A T \in SUBSET S : IsFiniteSet(T) /\ Cardinality(T) \in Nat
  BY FS_CardinalityType, FS_Subset
<1>2. 0 \in P
  <2>1. \A T \in SUBSET S : Cardinality(T) = 0 => T = {}
    BY <1>1, FS_EmptySet
  <2>2. 0 \in 0..n
    BY <1>1
  <2> QED
    BY <2>1, <2>2
<1>3. ASSUME NEW i \in 1..n, i - 1 \in P PROVE i \in P
  <2> SUFFICES ASSUME NEW T \in SUBSET S, Cardinality(T) = i, T # {}
               PROVE  \E x \in T : \A y \in T : y <= x
    OBVIOUS
  <2>1. PICK t \in T : TRUE
    OBVIOUS
  <2>2. Cardinality(T \ {t}) = i - 1 /\ T \ {t} \in SUBSET S
    BY <1>1, FS_RemoveElement
  <2>3. CASE T \ {t} = {}
    <3>1. \A y \in T : y <= t
      BY <2>3
    <3> QED
      BY <3>1
  <2>4. CASE T \ {t} # {}
    <3>1. PICK x \in T \ {t} : \A y \in T \ {t} : y <= x
      BY <1>3, <2>2, <2>4
    <3>2. x \in Nat /\ t \in Nat /\ T \subseteq Nat
      OBVIOUS
    <3>3. CASE t <= x
      BY <3>1, <3>3
    <3>4. CASE x < t
      <4>1. \A y \in T : y <= t
        BY <3>1, <3>2, <3>4
      <4> QED
        BY <4>1
    <3> QED
      BY <3>2, <3>3, <3>4
  <2> QED
    BY <2>3, <2>4
<1>4. n \in P
  <2>1. \A i \in 1..n : i - 1 \in P => i \in P
    BY <1>3
  <2>2. n \in 0..n
    BY <1>1
  <2>3. \A i \in 0..n : i \in P
    BY <1>1, <1>2, <2>1, CountUp
  <2> QED
    BY <2>2, <2>3
<1> QED
  BY <1>4

\* The first of a set of numbers are as many as asked, or all, and before the others.
LEMMA FirstAreFirst ==
  ASSUME NEW S \in SUBSET Names
  PROVE  /\ FirstOf(S) \subseteq S /\ Cardinality(FirstOf(S)) <= ListMost
         /\ Cardinality(S) <= ListMost => FirstOf(S) = S
         /\ \A n \in FirstOf(S), m \in S \ FirstOf(S) : n < m
<1> PICK F : F = FirstOf(S)
  OBVIOUS
<1>1. S \subseteq Nat /\ IsFiniteSet(S) /\ ListMost \in Nat
  BY SourcesAssumption, FS_Subset
<1>2. \A T \in SUBSET S : IsFiniteSet(T) /\ Cardinality(T) \in Nat
  BY <1>1, FS_Subset, FS_CardinalityType
<1>3. F \in SUBSET S /\ \A n \in S : n \in F <=> Cardinality({m \in S : m < n}) < ListMost
  BY DEF FirstOf
<1>4. ASSUME NEW T \in SUBSET S, NEW U \in SUBSET T PROVE Cardinality(U) <= Cardinality(T)
  BY <1>2, FS_Subset
<1>5. Cardinality(F) <= ListMost
  <2>1. CASE F = {}
    BY <1>1, <2>1, FS_EmptySet
  <2>2. CASE F # {}
    <3>1. PICK x \in F : \A y \in F : y <= x
      BY <1>1, <1>2, <1>3, <2>2, LargestOf
    <3>2. PICK B : B = {m \in S : m < x}
      OBVIOUS
    <3>3. F \ {x} \subseteq B /\ B \in SUBSET S
      <4>1. B \in SUBSET S
        BY <3>2
      <4>2. ASSUME NEW y \in F \ {x} PROVE y \in B
        <5>1. y \in Nat /\ x \in Nat /\ y \in S /\ y <= x /\ y # x
          BY <1>1, <1>3, <3>1
        <5> QED
          BY <3>2, <5>1
      <4> QED
        BY <4>1, <4>2
    <3>4. Cardinality(F \ {x}) <= Cardinality(B) /\ Cardinality(B) < ListMost
      BY <1>3, <1>4, <3>1, <3>2, <3>3
    <3>5. Cardinality(F \ {x}) = Cardinality(F) - 1
      BY <1>2, <1>3, <3>1, FS_RemoveElement
    <3> QED
      BY <1>1, <1>2, <1>3, <3>3, <3>4, <3>5
  <2> QED
    BY <2>1, <2>2
<1>6. ASSUME Cardinality(S) <= ListMost, NEW n \in S PROVE n \in F
  <2>1. PICK B : B = {m \in S : m < n}
    OBVIOUS
  <2>2. B \subseteq S \ {n}
    BY <1>1, <2>1
  <2>3. Cardinality(B) <= Cardinality(S \ {n})
    BY <1>4, <2>2
  <2>4. Cardinality(S \ {n}) = Cardinality(S) - 1
    BY <1>1, FS_RemoveElement
  <2>5. Cardinality(B) \in Nat /\ Cardinality(S) \in Nat
    BY <1>2, <2>2
  <2> QED
    BY <1>1, <1>3, <1>6, <2>1, <2>3, <2>4, <2>5
<1>7. ASSUME NEW n \in F, NEW m \in S \ F PROVE n < m
  <2>1. PICK B : B = {k \in S : k < n}
    OBVIOUS
  <2>2. PICK C : C = {k \in S : k < m}
    OBVIOUS
  <2>3. Cardinality(B) < ListMost /\ ~(Cardinality(C) < ListMost)
    BY <1>3, <2>1, <2>2
  <2>4. n \in Nat /\ m \in Nat /\ n # m
    BY <1>1, <1>3
  <2>5. ASSUME m < n PROVE FALSE
    <3>1. C \subseteq B /\ B \in SUBSET S
      <4>1. B \in SUBSET S
        BY <2>1
      <4>2. ASSUME NEW k \in C PROVE k \in B
        <5>1. k \in Nat /\ k \in S /\ k < m
          BY <1>1, <2>2
        <5>2. k < n
          BY <2>4, <2>5, <5>1
        <5> QED
          BY <2>1, <5>1, <5>2
      <4> QED
        BY <4>1, <4>2
    <3>2. Cardinality(C) <= Cardinality(B)
      BY <1>4, <3>1
    <3>3. Cardinality(B) \in Nat /\ Cardinality(C) \in Nat
      BY <1>2, <3>1
    <3> QED
      BY <1>1, <2>3, <3>2, <3>3
  <2> QED
    BY <2>4, <2>5
<1> QED
  BY <1>3, <1>5, <1>6, <1>7

LEMMA SourcesTyped == SourcesSpec => []SourcesTypeOK
<1>1. SourcesInit => SourcesTypeOK
  BY DEF SourcesInit, SourcesTypeOK, EntryKinds, FolderKinds
<1>2. SourcesTypeOK /\ [SourcesNext]_sourceVars => SourcesTypeOK'
  BY DEF SourcesTypeOK, SourcesNext, EntryComes, sourceVars
<1> QED
  BY <1>1, <1>2, PTL DEF SourcesSpec

LEMMA ListedLocations ==
  ASSUME SourcesTypeOK, NEW l
  PROVE  l \in Locations <=>
           \/ \E i \in InHome : places.home = "absolute" /\ l = << Id(i), "home" >>
           \/ \E i \in InConfig : ConfigRoot # "none" /\ l = << Id(i), ConfigRoot >>
           \/ \E n \in ListedProfiles : ConfigRoot # "none" /\ l = << ProfileId(n), ConfigRoot >>
           \/ ConfigRoot # "none" /\ Noticed /\ l = << NoticeId, ConfigRoot >>
BY DEF Locations

LEMMA RootIsAbsolute ==
  ASSUME SourcesTypeOK, ConfigRoot # "none" PROVE places[ConfigRoot] = "absolute"
BY DEF SourcesTypeOK, ConfigRoot

LEMMA IdsDiffer ==
  /\ \A i, j \in InHome \cup InConfig : Id(i) = Id(j) => i = j
  /\ \A i \in InHome \cup InConfig, n \in Names : Id(i) # ProfileId(n)
  /\ \A n, m \in Names : ProfileId(n) = ProfileId(m) => n = m
  /\ \A i \in InHome \cup InConfig : Id(i) # NoticeId
  /\ \A n \in Names : ProfileId(n) # NoticeId
  /\ InHome \cap InConfig = {}
BY DEF Id, ProfileId, NoticeId, InHome, InConfig

LEMMA ListIsComplete == SourcesTypeOK => ListLeavesNothingOutUnsaid
<1> SUFFICES ASSUME SourcesTypeOK PROVE ListLeavesNothingOutUnsaid
  OBVIOUS
<1> PICK root : root = ConfigRoot
  OBVIOUS
<1> PICK listed : listed = Locations
  OBVIOUS
<1> PICK profilesThere : profilesThere = ProfilesThere
  OBVIOUS
<1> DEFINE found == {n \in Names : << ProfileId(n), root >> \in listed}
           there == {n \in Names \ Unfit : folder.kind = "directory" /\ folder.entries[n] = "profile"}
<1>1. \A l : l \in listed <=>
        \/ \E i \in InHome : places.home = "absolute" /\ l = << Id(i), "home" >>
        \/ \E i \in InConfig : root # "none" /\ l = << Id(i), root >>
        \/ \E n \in ListedProfiles : root # "none" /\ l = << ProfileId(n), root >>
        \/ root # "none" /\ Noticed /\ l = << NoticeId, root >>
  BY ListedLocations
<1>2. profilesThere \in SUBSET Names /\ ListedProfiles \subseteq profilesThere
  <2>1. profilesThere \in SUBSET Names
    BY DEF ProfilesThere
  <2>2. FirstOf(profilesThere) \subseteq profilesThere
    BY <2>1, FirstAreFirst
  <2> QED
    BY <2>1, <2>2 DEF ListedProfiles
<1>3. ASSUME NEW l \in listed, l[1] # NoticeId PROVE Selected(listed, l[1]) = {l}
  <2>1. ASSUME NEW k \in listed, k[1] = l[1] PROVE k = l
    <3>1. PICK id, below : l = << id, below >>
      BY <1>1
    <3>2. PICK below2 : k = << id, below2 >>
      BY <1>1, <2>1, <3>1
    <3>3. id # NoticeId
      BY <1>3, <3>1
    <3>4. \/ \E i \in InHome : id = Id(i) /\ below = "home"
          \/ \E i \in InConfig : id = Id(i) /\ below = root
          \/ \E n \in Names : id = ProfileId(n) /\ below = root
      BY <1>1, <1>2, <3>1, <3>3
    <3>5. \/ \E i \in InHome : id = Id(i) /\ below2 = "home"
          \/ \E i \in InConfig : id = Id(i) /\ below2 = root
          \/ \E n \in Names : id = ProfileId(n) /\ below2 = root
      BY <1>1, <1>2, <3>2, <3>3
    <3>6. below = below2
      BY <3>4, <3>5, IdsDiffer
    <3> QED
      BY <3>1, <3>2, <3>6
  <2> QED
    BY <1>3, <2>1 DEF Selected
<1>4. ASSUME NEW l \in listed PROVE places[l[2]] = "absolute"
  BY <1>1, RootIsAbsolute
<1>5. root # "none" => found = ListedProfiles
  BY <1>1, <1>2, IdsDiffer
<1>6. root = "none" => found = {}
  BY <1>1, IdsDiffer
<1>7. folder.kind = "directory" => there = profilesThere
  BY DEF ProfilesThere
<1>8. folder.kind # "directory" => there = {} /\ ListedProfiles = {}
  BY DEF ListedProfiles, Unlistable
<1>9. found \subseteq there
  BY <1>2, <1>5, <1>6, <1>7, <1>8
<1>10. Cardinality(ListedProfiles) <= ListMost /\ Cardinality({}) <= ListMost
  <2>1. Cardinality(FirstOf(profilesThere)) <= ListMost
    BY <1>2, FirstAreFirst
  <2>2. Cardinality({}) = 0 /\ ListMost \in Nat
    BY FS_EmptySet, SourcesAssumption
  <2> QED
    BY <2>1, <2>2 DEF ListedProfiles
<1>11. Cardinality(found) <= ListMost
  BY <1>5, <1>6, <1>10
<1>12. ASSUME root # "none", there # found PROVE << NoticeId, root >> \in listed
  <2>1. folder.kind = "directory" /\ there = profilesThere /\ found = ListedProfiles
    BY <1>5, <1>7, <1>8, <1>12
  <2>2. CASE Unlistable
    BY <1>1, <1>12, <2>1, <2>2 DEF Noticed
  <2>3. CASE ~Unlistable
    <3>1. ListedProfiles = FirstOf(profilesThere)
      BY <2>1, <2>3 DEF ListedProfiles
    <3>2. ~(Cardinality(profilesThere) <= ListMost)
      BY <1>2, <1>12, <2>1, <3>1, FirstAreFirst
    <3>3. Cardinality(profilesThere) \in Nat /\ ListMost \in Nat
      BY <1>2, SourcesAssumption, FS_Subset, FS_CardinalityType
    <3>4. Overflows(profilesThere)
      BY <3>2, <3>3 DEF Overflows
    <3> QED
      BY <1>1, <1>12, <2>1, <3>4 DEF Noticed
  <2> QED
    BY <2>2, <2>3
<1>13. ASSUME NEW n \in found, NEW m \in there \ found PROVE n < m
  <2>1. root # "none" /\ n \in ListedProfiles
    BY <1>5, <1>6
  <2>2. ListedProfiles = FirstOf(profilesThere) /\ folder.kind = "directory"
    BY <2>1, <1>8 DEF ListedProfiles
  <2> QED
    BY <1>2, <1>5, <1>7, <2>1, <2>2, FirstAreFirst
<1> QED
  BY <1>3, <1>4, <1>9, <1>11, <1>12, <1>13 DEF ListLeavesNothingOutUnsaid

\* The list of places leaves no profile out without a word, lists what can be chosen and
\* is first by id, below a directory that is absolute (list, add_profiles, selected).
THEOREM ListNeverLeavesOutUnsaid == SourcesSpec => []ListLeavesNothingOutUnsaid
BY SourcesTyped, ListIsComplete, PTL

-----------------------------------------------------------------------------
(* Imports: an entry field by field.                                       *)

LEMMA TypedIs ==
  ASSUME NEW e, NEW t, t = Typed(e), TransportFits(e)
  PROVE  /\ DOMAIN t = (DOMAIN e \ {"transport"}) \cup IF "transport" \in DOMAIN e THEN {"type"} ELSE {}
         /\ \A f \in DOMAIN e : f \notin {"type", "transport"} => t[f] = e[f]
         /\ "transport" \in DOMAIN e => t["type"] = "http"
         /\ "transport" \notin DOMAIN e /\ "type" \in DOMAIN e =>
              t["type"] = IF e["type"] = "streamable-http" THEN "http" ELSE e["type"]
<1>1. PICK named : named = Moved(e, "transport", "type")
  OBVIOUS
<1>2. /\ "transport" \notin DOMAIN e => named = e
      /\ "transport" \in DOMAIN e =>
           /\ DOMAIN named = (DOMAIN e \ {"transport"}) \cup {"type"} /\ named["type"] = e["transport"]
           /\ \A k \in DOMAIN e : k \notin {"transport", "type"} => named[k] = e[k]
  BY <1>1 DEF Moved, Having, Lacking
<1>3. "transport" \in DOMAIN e => e["transport"] = "http"
  BY DEF TransportFits
<1>4. t = IF "type" \in DOMAIN named /\ named["type"] = "streamable-http"
          THEN Having(named, "type", "http") ELSE named
  BY <1>1 DEF Typed
<1>5. CASE "type" \in DOMAIN named /\ named["type"] = "streamable-http"
  <2>1. DOMAIN t = DOMAIN named \cup {"type"} /\ t["type"] = "http"
        /\ \A g \in DOMAIN named : g # "type" => t[g] = named[g]
    BY <1>4, <1>5 DEF Having
  <2> QED
    BY <1>2, <1>3, <1>5, <2>1
<1>6. CASE ~("type" \in DOMAIN named /\ named["type"] = "streamable-http")
  BY <1>2, <1>3, <1>4, <1>6
<1> QED
  BY <1>5, <1>6

\* What an entry is once its transport and its address have their own names.
IsRerouted(e, r) ==
  /\ "type" \in DOMAIN r <=> {"type", "transport", "serverUrl"} \cap DOMAIN e # {}
  /\ \A f : f \notin {"type", "transport", "serverUrl", "url"} => (f \in DOMAIN r <=> f \in DOMAIN e)
  /\ "url" \in DOMAIN r <=> {"url", "serverUrl"} \cap DOMAIN e # {}
  /\ \A f \in DOMAIN e : f \notin {"type", "transport", "serverUrl"} => r[f] = e[f]
  /\ "serverUrl" \in DOMAIN e => r["url"] = e["serverUrl"] /\ "url" \notin DOMAIN e
  /\ {"transport", "serverUrl"} \cap DOMAIN e # {} => r["type"] = "http"
  /\ "transport" \in DOMAIN e => e["transport"] = "http"
  /\ "type" \in DOMAIN e =>
       /\ e["type"] \in {"stdio", "http", "streamable-http"}
       /\ r["type"] = IF e["type"] = "streamable-http" THEN "http" ELSE e["type"]
  /\ {"transport", "serverUrl"} \cap DOMAIN r = {}

LEMMA ReroutedIs ==
  ASSUME NEW map, NEW e, NEW r, r = Rerouted(e), TransportFits(e), TypeFits(e), ServerUrlFits(map, e)
  PROVE  IsRerouted(e, r)
<1>1. PICK t : t = Typed(e)
  OBVIOUS
<1>2. /\ DOMAIN t = (DOMAIN e \ {"transport"}) \cup IF "transport" \in DOMAIN e THEN {"type"} ELSE {}
      /\ \A f \in DOMAIN e : f \notin {"type", "transport"} => t[f] = e[f]
      /\ "transport" \in DOMAIN e => t["type"] = "http"
      /\ "transport" \notin DOMAIN e /\ "type" \in DOMAIN e =>
           t["type"] = IF e["type"] = "streamable-http" THEN "http" ELSE e["type"]
  BY <1>1, TypedIs
<1>3. "transport" \in DOMAIN e => "type" \notin DOMAIN e /\ e["transport"] = "http"
  BY DEF TransportFits
<1>4. "type" \in DOMAIN t => t["type"] \in {"stdio", "http"}
  BY <1>1 DEF TypeFits
<1>5. CASE "serverUrl" \notin DOMAIN e
  <2>1. r = t
    BY <1>1, <1>5 DEF Rerouted
  <2> QED
    BY <1>2, <1>3, <1>4, <1>5, <2>1 DEF IsRerouted
<1>6. CASE "serverUrl" \in DOMAIN e
  <2>1. "url" \notin DOMAIN e /\ ("type" \in DOMAIN t => t["type"] = "http")
    BY <1>1, <1>6 DEF ServerUrlFits
  <2>2. PICK m : m = Moved(t, "serverUrl", "url")
    OBVIOUS
  <2>3. "serverUrl" \in DOMAIN t
    BY <1>2, <1>6
  <2>4. /\ DOMAIN m = (DOMAIN t \ {"serverUrl"}) \cup {"url"} /\ m["url"] = t["serverUrl"]
        /\ \A k \in DOMAIN t : k \notin {"serverUrl", "url"} => m[k] = t[k]
    BY <2>2, <2>3 DEF Moved, Having, Lacking
  <2>5. r = Having(m, "type", "http")
    BY <1>1, <1>6, <2>2 DEF Rerouted
  <2>6. DOMAIN r = DOMAIN m \cup {"type"} /\ r["type"] = "http"
        /\ \A g \in DOMAIN m : g # "type" => r[g] = m[g]
    BY <2>5 DEF Having
  <2>7. "type" \in DOMAIN e => e["type"] \in {"http", "streamable-http"}
    BY <1>2, <1>3, <2>1
  <2> QED
    BY <1>2, <1>3, <1>4, <1>6, <2>1, <2>4, <2>6, <2>7 DEF IsRerouted
<1> QED
  BY <1>5, <1>6

\* What an entry says of its transport, and of whether it is on.
TransportSaid(e, x) ==
  \/ "type" \in DOMAIN e /\ x = CASE e["type"] = "local" -> "stdio"
                                  [] e["type"] \in {"remote", "streamable-http"} -> "http"
                                  [] OTHER -> e["type"]
  \/ "transport" \in DOMAIN e /\ x = CASE e["transport"] = "local" -> "stdio"
                                       [] e["transport"] \in {"remote", "streamable-http"} -> "http"
                                       [] OTHER -> e["transport"]
  \/ "serverUrl" \in DOMAIN e /\ x = "http"

LEMMA SaidIs ==
  ASSUME NEW e, NEW x
  PROVE  /\ x \in SaidTransports(e) => TransportSaid(e, x)
         /\ SaidTransports(e) = {} => {"type", "transport", "serverUrl"} \cap DOMAIN e = {}
<1>1. x \in SaidTransports(e) => TransportSaid(e, x)
  BY DEF SaidTransports, TransportSaid
<1>2. SaidTransports(e) = {} => {"type", "transport"} \cap DOMAIN e = {}
  BY ZenonT(60) DEF SaidTransports
<1>3. SaidTransports(e) = {} => {"serverUrl"} \cap DOMAIN e = {}
  BY Zenon DEF SaidTransports
<1>4. SaidTransports(e) = {} => {"type", "transport", "serverUrl"} \cap DOMAIN e = {}
  BY <1>2, <1>3
<1> QED
  BY <1>1, <1>4

\* What normalize keeps of an entry it does not refuse.
IsNormalized(e, got) ==
  /\ "type" \in DOMAIN got <=> {"type", "transport", "serverUrl"} \cap DOMAIN e # {}
  /\ {"transport", "serverUrl"} \cap DOMAIN e # {} => got["type"] = "http"
  /\ "transport" \in DOMAIN e => e["transport"] = "http"
  /\ "type" \in DOMAIN e =>
       /\ e["type"] \in {"stdio", "http", "streamable-http"}
       /\ got["type"] = IF e["type"] = "streamable-http" THEN "http" ELSE e["type"]
  /\ \A f \in DOMAIN e \ {"type", "transport", "serverUrl", "enabled", "disabled"} :
       f \in DOMAIN got /\ got[f] = e[f]
  /\ "url" \in DOMAIN got <=> {"url", "serverUrl"} \cap DOMAIN e # {}
  /\ "serverUrl" \in DOMAIN e => got["url"] = e["serverUrl"]
  /\ DOMAIN e \subseteq KnownFields \cup {"transport", "serverUrl"}
  /\ "enabled" \in DOMAIN got <=> {"enabled", "disabled"} \cap DOMAIN e # {}
  /\ "enabled" \in DOMAIN e => got["enabled"] = e["enabled"] /\ "disabled" \notin DOMAIN e
  /\ "disabled" \in DOMAIN e =>
       e["disabled"] \in {"true", "false"} /\ got["enabled"] = Negated(e["disabled"])
  /\ \A f \in DOMAIN e : e[f] \in Dollars => f = "env" /\ e[f] = "env_var"

LEMMA NormalizedMeans ==
  ASSUME NEW map, NEW e, NEW got, got = Normalized(map, e), got # Refused
  PROVE  IsNormalized(e, got)
<1> PICK r : r = Rerouted(e)
  OBVIOUS
<1>1. /\ TransportFits(e) /\ TypeFits(e) /\ ServerUrlFits(map, e)
      /\ DOMAIN r \subseteq KnownFields /\ FlagsFit(e) /\ VariablesFit(r) /\ got = WithoutDisabled(r)
  BY DEF Normalized
<1>2. /\ "type" \in DOMAIN r <=> {"type", "transport", "serverUrl"} \cap DOMAIN e # {}
      /\ \A f : f \notin {"type", "transport", "serverUrl", "url"} => (f \in DOMAIN r <=> f \in DOMAIN e)
      /\ "url" \in DOMAIN r <=> {"url", "serverUrl"} \cap DOMAIN e # {}
      /\ \A f \in DOMAIN e : f \notin {"type", "transport", "serverUrl"} => r[f] = e[f]
      /\ "serverUrl" \in DOMAIN e => r["url"] = e["serverUrl"] /\ "url" \notin DOMAIN e
      /\ {"transport", "serverUrl"} \cap DOMAIN e # {} => r["type"] = "http"
      /\ "transport" \in DOMAIN e => e["transport"] = "http"
      /\ "type" \in DOMAIN e =>
           /\ e["type"] \in {"stdio", "http", "streamable-http"}
           /\ r["type"] = IF e["type"] = "streamable-http" THEN "http" ELSE e["type"]
      /\ {"transport", "serverUrl"} \cap DOMAIN r = {}
  <2>1. IsRerouted(e, r)
    BY <1>1, ReroutedIs
  <2> QED
    BY <2>1 DEF IsRerouted
<1>3. "disabled" \in DOMAIN e => "enabled" \notin DOMAIN e /\ e["disabled"] \in {"true", "false"}
  BY <1>1 DEF FlagsFit
<1>4. /\ \A f : f \notin {"enabled", "disabled"} => (f \in DOMAIN got <=> f \in DOMAIN r)
      /\ \A f \in DOMAIN r : f \notin {"enabled", "disabled"} => got[f] = r[f]
      /\ "enabled" \in DOMAIN got <=> {"enabled", "disabled"} \cap DOMAIN e # {}
      /\ "enabled" \in DOMAIN e => got["enabled"] = e["enabled"]
      /\ "disabled" \in DOMAIN e => got["enabled"] = Negated(e["disabled"])
  <2>1. CASE "disabled" \notin DOMAIN e
    <3>1. got = r /\ "disabled" \notin DOMAIN r
      BY <1>1, <1>2, <2>1 DEF WithoutDisabled
    <3> QED
      BY <1>2, <2>1, <3>1
  <2>2. CASE "disabled" \in DOMAIN e
    <3>1. "disabled" \in DOMAIN r /\ r["disabled"] = e["disabled"]
      BY <1>2, <2>2
    <3>2. got = Having(Lacking(r, "disabled"), "enabled", Negated(r["disabled"]))
      BY <1>1, <3>1 DEF WithoutDisabled
    <3>3. /\ DOMAIN got = (DOMAIN r \ {"disabled"}) \cup {"enabled"}
          /\ got["enabled"] = Negated(e["disabled"])
          /\ \A f \in DOMAIN r : f \notin {"enabled", "disabled"} => got[f] = r[f]
      BY <3>1, <3>2 DEF Having, Lacking
    <3> QED
      BY <1>3, <2>2, <3>3
  <2> QED
    BY <2>1, <2>2
<1>5. \A f \in DOMAIN e : e[f] \in Dollars => f = "env" /\ e[f] = "env_var"
  <2> SUFFICES ASSUME NEW f \in DOMAIN e, e[f] \in Dollars PROVE f = "env" /\ e[f] = "env_var"
    OBVIOUS
  <2>1. f # "transport" /\ f # "type"
    BY <1>2 DEF Dollars
  <2>2. CASE f = "serverUrl"
    <3>1. "url" \in DOMAIN r /\ r["url"] \in Dollars
      BY <1>2, <2>2
    <3> QED
      BY <1>1, <3>1 DEF VariablesFit
  <2>3. CASE f # "serverUrl"
    <3>1. f \in DOMAIN r /\ r[f] = e[f]
      BY <1>2, <2>1, <2>3
    <3> QED
      BY <1>1, <3>1 DEF VariablesFit
  <2> QED
    BY <2>2, <2>3
<1>6. DOMAIN e \subseteq KnownFields \cup {"transport", "serverUrl"}
  BY <1>1, <1>2 DEF KnownFields
<1>7. \A f \in DOMAIN e \ {"type", "transport", "serverUrl", "enabled", "disabled"} :
        f \in DOMAIN got /\ got[f] = e[f]
  BY <1>2, <1>4
<1> QED
  BY <1>2, <1>3, <1>4, <1>5, <1>6, <1>7 DEF IsNormalized

Texts == {"command", "args", "env", "url", "headers", "cwd"}
PutAs(f) == CASE f = "serverUrl" -> "url" [] f = "environment" -> "env" [] OTHER -> f

\* The conjuncts of ImportsKeepTheirMeaning.
EntryIsKept(map, e, got) ==
  /\ SaidTransports(e) \subseteq {Transport(got)}
  /\ SaidTransports(e) = {} => (Transport(got) = "http" <=> IsSaid(e, "url"))
  /\ SaidEnabled(e) \subseteq {IsEnabled(got)}
  /\ SaidEnabled(e) = {} => IsEnabled(got)
  /\ \A f \in DOMAIN e : PutAs(f) \in Texts => got[PutAs(f)] = IF e[f] \in Arrays THEN "plain" ELSE e[f]
  /\ \A f \in DOMAIN e :
       (e[f] \in Dollars \/ (map = "mcp" /\ e[f] \in Braces)) => Expands(PutAs(f), e[f]) /\ map # "mcp"
  /\ DOMAIN e \ {"type", "transport", "enabled", "disabled"}
       \subseteq Texts \cup {"serverUrl", "environment"}
                 \cup {f \in {"oauth"} \cap DOMAIN e : map = "mcp" /\ e[f] = "false"}

LEMMA SameTruth == ASSUME NEW x \in BOOLEAN, NEW y \in BOOLEAN, x <=> y PROVE x = y
<1>1. (x = TRUE \/ x = FALSE) /\ (y = TRUE \/ y = FALSE)
  OBVIOUS
<1>2. CASE x = TRUE
  <2>1. y = TRUE
    BY <1>1, <1>2, Zenon
  <2> QED
    BY <1>2, <2>1
<1>3. CASE x = FALSE
  <2>1. y = FALSE
    BY <1>1, <1>3, Zenon
  <2> QED
    BY <1>3, <2>1
<1> QED
  BY <1>1, <1>2, <1>3

\* Whether a server is on.
LEMMA EnabledIsKept ==
  ASSUME NEW e, NEW got,
         "enabled" \in DOMAIN got <=> {"enabled", "disabled"} \cap DOMAIN e # {},
         "enabled" \in DOMAIN e => got["enabled"] = e["enabled"] /\ "disabled" \notin DOMAIN e,
         "disabled" \in DOMAIN e =>
           e["disabled"] \in {"true", "false"} /\ got["enabled"] = Negated(e["disabled"])
  PROVE  SaidEnabled(e) \subseteq {IsEnabled(got)} /\ (SaidEnabled(e) = {} => IsEnabled(got))
<1>1. "enabled" \in DOMAIN e => (IsEnabled(got) <=> e["enabled"] = "true")
  BY DEF IsEnabled
<1>2. "disabled" \in DOMAIN e => (IsEnabled(got) <=> e["disabled"] = "false")
  BY DEF IsEnabled, Negated
<1>3. IsEnabled(got) \in BOOLEAN
  BY DEF IsEnabled
<1>4. ASSUME NEW x \in SaidEnabled(e) PROVE x = IsEnabled(got)
  <2>1. \/ "enabled" \in DOMAIN e /\ x = (e["enabled"] = "true")
        \/ "disabled" \in DOMAIN e /\ x = (e["disabled"] = "false")
    BY Zenon DEF SaidEnabled
  <2>2. CASE "enabled" \in DOMAIN e /\ x = (e["enabled"] = "true")
    <3>1. (e["enabled"] = "true") \in BOOLEAN
      OBVIOUS
    <3>2. x \in BOOLEAN /\ (x <=> IsEnabled(got))
      BY <1>1, <2>2, <3>1, Zenon
    <3> QED
      BY <1>3, <3>2, SameTruth, Zenon
  <2>3. CASE "disabled" \in DOMAIN e /\ x = (e["disabled"] = "false")
    <3>1. (e["disabled"] = "false") \in BOOLEAN
      OBVIOUS
    <3>2. x \in BOOLEAN /\ (x <=> IsEnabled(got))
      BY <1>2, <2>3, <3>1, Zenon
    <3> QED
      BY <1>3, <3>2, SameTruth, Zenon
  <2> QED
    BY <2>1, <2>2, <2>3
<1>5. SaidEnabled(e) = {} => {"enabled", "disabled"} \cap DOMAIN e = {}
  <2>1. "enabled" \in DOMAIN e => (e["enabled"] = "true") \in SaidEnabled(e)
    BY Zenon DEF SaidEnabled
  <2>2. "disabled" \in DOMAIN e => (e["disabled"] = "false") \in SaidEnabled(e)
    BY Zenon DEF SaidEnabled
  <2> QED
    BY <2>1, <2>2
<1>6. SaidEnabled(e) = {} => IsEnabled(got)
  BY <1>5 DEF IsEnabled
<1> QED
  BY <1>4, <1>6

LEMMA NormalizedKeeps ==
  ASSUME NEW map, map # "mcp", NEW e, NEW got, got = Normalized(map, e), got # Refused, Readable(got)
  PROVE  EntryIsKept(map, e, got)
<1>1. /\ "type" \in DOMAIN got <=> {"type", "transport", "serverUrl"} \cap DOMAIN e # {}
      /\ {"transport", "serverUrl"} \cap DOMAIN e # {} => got["type"] = "http"
      /\ "transport" \in DOMAIN e => e["transport"] = "http"
      /\ "type" \in DOMAIN e =>
           /\ e["type"] \in {"stdio", "http", "streamable-http"}
           /\ got["type"] = IF e["type"] = "streamable-http" THEN "http" ELSE e["type"]
      /\ \A f \in DOMAIN e \ {"type", "transport", "serverUrl", "enabled", "disabled"} :
           f \in DOMAIN got /\ got[f] = e[f]
      /\ "url" \in DOMAIN got <=> {"url", "serverUrl"} \cap DOMAIN e # {}
      /\ "serverUrl" \in DOMAIN e => got["url"] = e["serverUrl"]
      /\ DOMAIN e \subseteq KnownFields \cup {"transport", "serverUrl"}
      /\ "enabled" \in DOMAIN got <=> {"enabled", "disabled"} \cap DOMAIN e # {}
      /\ "enabled" \in DOMAIN e => got["enabled"] = e["enabled"] /\ "disabled" \notin DOMAIN e
      /\ "disabled" \in DOMAIN e =>
           e["disabled"] \in {"true", "false"} /\ got["enabled"] = Negated(e["disabled"])
      /\ \A f \in DOMAIN e : e[f] \in Dollars => f = "env" /\ e[f] = "env_var"
  <2>1. IsNormalized(e, got)
    BY NormalizedMeans
  <2> QED
    BY <2>1 DEF IsNormalized
<1>2. ASSUME NEW x \in SaidTransports(e) PROVE x = Transport(got)
  <2>1. TransportSaid(e, x)
    BY SaidIs
  <2> QED
    BY <1>1, <2>1 DEF Transport, TransportSaid
<1>3. SaidTransports(e) = {} => (Transport(got) = "http" <=> IsSaid(e, "url"))
  <2> SUFFICES ASSUME SaidTransports(e) = {} PROVE Transport(got) = "http" <=> IsSaid(e, "url")
    OBVIOUS
  <2>1. {"type", "transport", "serverUrl"} \cap DOMAIN e = {}
    BY SaidIs
  <2>2. Transport(got) = IF IsSaid(got, "url") THEN "http" ELSE "stdio"
    BY <1>1, <2>1 DEF Transport
  <2>3. IsSaid(got, "url") <=> IsSaid(e, "url")
    BY <1>1, <2>1 DEF IsSaid
  <2> QED
    BY <2>2, <2>3
<1>4. SaidEnabled(e) \subseteq {IsEnabled(got)} /\ (SaidEnabled(e) = {} => IsEnabled(got))
  BY <1>1, EnabledIsKept
<1>5. ASSUME NEW f \in DOMAIN e, PutAs(f) \in Texts
      PROVE  got[PutAs(f)] = IF e[f] \in Arrays THEN "plain" ELSE e[f]
  <2>1. f # "environment"
    BY <1>1 DEF KnownFields
  <2>2. PutAs(f) \in DOMAIN got /\ got[PutAs(f)] = e[f]
    BY <1>1, <1>5, <2>1 DEF PutAs, Texts
  <2> QED
    BY <2>2 DEF Readable
<1>6. ASSUME NEW f \in DOMAIN e, e[f] \in Dollars PROVE Expands(PutAs(f), e[f])
  BY <1>1, <1>6 DEF Expands, PutAs
<1>7. DOMAIN e \ {"type", "transport", "enabled", "disabled"} \subseteq Texts \cup {"serverUrl", "environment"}
  BY <1>1 DEF KnownFields, Texts
<1> QED
  BY <1>2, <1>3, <1>4, <1>5, <1>6, <1>7 DEF EntryIsKept

\* What of an entry of OpenCode's is handed to normalize.
IsPut(e, put) ==
  /\ "type" \in DOMAIN e
  /\ \/ /\ e["type"] = "local" /\ DOMAIN e \subseteq {"type", "command", "environment", "enabled"}
        /\ "command" \in DOMAIN e /\ e["command"] \in Arrays
        /\ \A f : f \in DOMAIN put <=> \/ f \in {"type", "command", "args"}
                                       \/ f = "env" /\ "environment" \in DOMAIN e
                                       \/ f = "enabled" /\ "enabled" \in DOMAIN e
        /\ put["type"] = "stdio" /\ put["command"] = "plain" /\ put["args"] = "plain"
        /\ "environment" \in DOMAIN e => put["env"] = e["environment"]
        /\ "enabled" \in DOMAIN e => put["enabled"] = e["enabled"]
     \/ /\ e["type"] = "remote" /\ DOMAIN e \subseteq {"type", "url", "headers", "enabled", "oauth"}
        /\ "oauth" \in DOMAIN e /\ e["oauth"] = "false" /\ IsSaid(e, "url")
        /\ DOMAIN put = DOMAIN e \ {"oauth"} /\ put["type"] = "http"
        /\ \A f \in DOMAIN put : f # "type" => put[f] = e[f]

LEMMA PutIs ==
  ASSUME NEW e, NEW e1, e1 = FromOpenCode(e), e1 # Refused, NEW put,
         put = CASE e1.type = "local" -> Having(Having(e1, "type", "stdio"), "command", "plain")
                 [] e1.type = "remote" -> Having(e1, "type", "http")
  PROVE  IsPut(e, put)
<1>1. "type" \in DOMAIN e
  BY DEF FromOpenCode
<1>2. \/ e["type"] = "local" /\ LocalFits(e) /\ e1 = Having(Moved(e, "environment", "env"), "args", "plain")
      \/ e["type"] = "remote" /\ RemoteFits(e) /\ e1 = Lacking(e, "oauth")
  BY <1>1 DEF FromOpenCode
<1>3. CASE e["type"] = "local" /\ LocalFits(e) /\ e1 = Having(Moved(e, "environment", "env"), "args", "plain")
  <2>1. /\ DOMAIN e \subseteq {"type", "command", "environment", "enabled"}
        /\ "command" \in DOMAIN e /\ e["command"] \in Arrays
    BY <1>3 DEF LocalFits
  <2>2. PICK m : m = Moved(e, "environment", "env")
    OBVIOUS
  <2>3. /\ \A f : f \in DOMAIN m <=> \/ f \in DOMAIN e \ {"environment"}
                                     \/ f = "env" /\ "environment" \in DOMAIN e
        /\ "environment" \in DOMAIN e => m["env"] = e["environment"]
        /\ \A f \in DOMAIN e : f # "environment" => m[f] = e[f]
    BY <2>1, <2>2 DEF Moved, Having, Lacking
  <2>4. e1 = Having(m, "args", "plain")
    BY <1>3, <2>2
  <2>5. /\ DOMAIN e1 = DOMAIN m \cup {"args"} /\ e1["args"] = "plain"
        /\ \A f \in DOMAIN m : f # "args" => e1[f] = m[f]
    BY <2>4 DEF Having
  <2>6. e1["type"] = "local"
    BY <1>1, <1>3, <2>3, <2>5
  <2>7. PICK p : p = Having(e1, "type", "stdio")
    OBVIOUS
  <2>8. put = Having(p, "command", "plain")
    BY <2>6, <2>7
  <2>9. /\ DOMAIN p = DOMAIN e1 \cup {"type"} /\ p["type"] = "stdio"
        /\ \A f \in DOMAIN e1 : f # "type" => p[f] = e1[f]
    BY <2>7 DEF Having
  <2>10. /\ DOMAIN put = DOMAIN p \cup {"command"} /\ put["command"] = "plain"
         /\ \A f \in DOMAIN p : f # "command" => put[f] = p[f]
    BY <2>8 DEF Having
  <2>11. \A f : f \in DOMAIN put <=> \/ f \in {"type", "command", "args"}
                                     \/ f = "env" /\ "environment" \in DOMAIN e
                                     \/ f = "enabled" /\ "enabled" \in DOMAIN e
    BY <1>1, <2>1, <2>3, <2>5, <2>9, <2>10
  <2>12. put["type"] = "stdio" /\ put["args"] = "plain"
    BY <2>5, <2>9, <2>10
  <2>13. "environment" \in DOMAIN e => put["env"] = e["environment"]
    BY <2>3, <2>5, <2>9, <2>10
  <2>14. "enabled" \in DOMAIN e => put["enabled"] = e["enabled"]
    <3> SUFFICES ASSUME "enabled" \in DOMAIN e PROVE put["enabled"] = e["enabled"]
      OBVIOUS
    <3>1. "enabled" \in DOMAIN m /\ m["enabled"] = e["enabled"]
      BY <2>3
    <3>2. "enabled" \in DOMAIN e1 /\ e1["enabled"] = m["enabled"]
      BY <2>5, <3>1
    <3>3. "enabled" \in DOMAIN p /\ p["enabled"] = e1["enabled"]
      BY <2>9, <3>2
    <3>4. put["enabled"] = p["enabled"]
      BY <2>10, <3>3
    <3> QED
      BY <3>1, <3>2, <3>3, <3>4
  <2> QED
    BY <1>1, <1>3, <2>1, <2>10, <2>11, <2>12, <2>13, <2>14 DEF IsPut
<1>4. CASE e["type"] = "remote" /\ RemoteFits(e) /\ e1 = Lacking(e, "oauth")
  <2>1. /\ DOMAIN e \subseteq {"type", "url", "headers", "enabled", "oauth"}
        /\ "oauth" \in DOMAIN e /\ e["oauth"] = "false" /\ IsSaid(e, "url")
    BY <1>4 DEF RemoteFits
  <2>2. DOMAIN e1 = DOMAIN e \ {"oauth"} /\ \A f \in DOMAIN e1 : e1[f] = e[f]
    BY <1>4 DEF Lacking
  <2>3. e1["type"] = "remote"
    BY <1>1, <1>4, <2>2
  <2>4. put = Having(e1, "type", "http")
    BY <2>3
  <2>5. /\ DOMAIN put = DOMAIN e1 \cup {"type"} /\ put["type"] = "http"
        /\ \A f \in DOMAIN e1 : f # "type" => put[f] = e1[f]
    BY <2>4 DEF Having
  <2> QED
    BY <1>1, <1>4, <2>1, <2>2, <2>5 DEF IsPut
<1> QED
  BY <1>2, <1>3, <1>4

LEMMA OpenCodeKeeps ==
  ASSUME NEW d, NEW e, e = d.entry, NEW got, got = OpenCodeNormalized(d), got # Refused, Readable(got)
  PROVE  EntryIsKept("mcp", e, got) /\ d.others \subseteq {"schema"}
<1> PICK e1 : e1 = FromOpenCode(e)
  OBVIOUS
<1> PICK put : put = CASE e1.type = "local" -> Having(Having(e1, "type", "stdio"), "command", "plain")
                       [] e1.type = "remote" -> Having(e1, "type", "http")
  OBVIOUS
<1>1. /\ d.others \subseteq {"schema"} /\ e1 # Refused
      /\ \A f \in DOMAIN put : put[f] \notin Dollars \cup Braces
      /\ got = Normalized("mcpServers", put)
  BY DEF OpenCodeNormalized
<1>2. IsPut(e, put)
  BY <1>1, PutIs, Zenon
<1>3. IsNormalized(put, got)
  BY <1>1, NormalizedMeans
<1>4. "type" \in DOMAIN e /\ "type" \in DOMAIN put /\ {"transport", "serverUrl", "disabled"} \cap DOMAIN e = {}
      /\ {"transport", "serverUrl", "disabled"} \cap DOMAIN put = {}
  BY <1>2 DEF IsPut
<1>5. "type" \in DOMAIN got /\ got["type"] = put["type"]
  <2>1. put["type"] \in {"stdio", "http"}
    BY <1>2 DEF IsPut
  <2> QED
    BY <1>3, <1>4, <2>1 DEF IsNormalized
<1>6. ASSUME NEW x \in SaidTransports(e) PROVE x = Transport(got)
  <2>1. x = CASE e["type"] = "local" -> "stdio"
              [] e["type"] \in {"remote", "streamable-http"} -> "http" [] OTHER -> e["type"]
    BY <1>4, SaidIs DEF TransportSaid
  <2>2. x = put["type"]
    BY <1>2, <2>1 DEF IsPut
  <2> QED
    BY <1>5, <2>2 DEF Transport
<1>7. SaidTransports(e) # {}
  BY <1>4, SaidIs
<1>8. /\ "enabled" \in DOMAIN put <=> "enabled" \in DOMAIN e
      /\ "enabled" \in DOMAIN e => put["enabled"] = e["enabled"]
  BY <1>2 DEF IsPut
<1>9. SaidEnabled(e) \subseteq {IsEnabled(got)} /\ (SaidEnabled(e) = {} => IsEnabled(got))
  <2>1. "enabled" \in DOMAIN got <=> {"enabled", "disabled"} \cap DOMAIN e # {}
    <3>1. "enabled" \in DOMAIN got <=> {"enabled", "disabled"} \cap DOMAIN put # {}
      BY <1>3 DEF IsNormalized
    <3>2. {"enabled", "disabled"} \cap DOMAIN put # {} <=> "enabled" \in DOMAIN put
      BY <1>4
    <3>3. {"enabled", "disabled"} \cap DOMAIN e # {} <=> "enabled" \in DOMAIN e
      BY <1>4
    <3> QED
      BY <1>8, <3>1, <3>2, <3>3
  <2>2. "enabled" \in DOMAIN e => got["enabled"] = e["enabled"] /\ "disabled" \notin DOMAIN e
    BY <1>3, <1>4, <1>8 DEF IsNormalized
  <2> QED
    BY <1>4, <2>1, <2>2, EnabledIsKept
<1>10. \A f \in DOMAIN put \ {"type", "enabled"} : f \in DOMAIN got /\ got[f] = put[f]
  BY <1>3, <1>4 DEF IsNormalized
<1>11. ASSUME NEW f \in DOMAIN e, PutAs(f) \in Texts
       PROVE  got[PutAs(f)] = IF e[f] \in Arrays THEN "plain" ELSE e[f]
  <2>1. CASE e["type"] = "local"
    <3>1. CASE f = "command"
      BY <1>2, <1>10, <2>1, <3>1 DEF IsPut, PutAs
    <3>2. CASE f = "environment"
      <4>1. "env" \in DOMAIN got /\ got["env"] = e["environment"]
        BY <1>2, <1>10, <2>1, <3>2 DEF IsPut
      <4> QED
        BY <3>2, <4>1 DEF PutAs, Readable
    <3>3. f \in {"command", "environment"}
      BY <1>2, <1>11, <2>1 DEF IsPut, PutAs, Texts
    <3> QED
      BY <3>1, <3>2, <3>3
  <2>2. CASE e["type"] = "remote"
    <3>1. f \in {"url", "headers"}
      BY <1>2, <1>11, <2>2 DEF IsPut, PutAs, Texts
    <3>2. f \in DOMAIN got /\ got[f] = e[f]
      BY <1>2, <1>10, <2>2, <3>1 DEF IsPut
    <3> QED
      BY <3>1, <3>2 DEF PutAs, Readable
  <2> QED
    BY <1>2, <2>1, <2>2 DEF IsPut
<1>12. ASSUME NEW f \in DOMAIN e PROVE e[f] \notin Dollars \cup Braces
  <2>1. CASE e["type"] = "local"
    <3>1. f \in {"type", "command", "environment", "enabled"}
      BY <1>2, <2>1 DEF IsPut
    <3>2. CASE f \in {"environment", "enabled"}
      BY <1>1, <1>2, <2>1, <3>2 DEF IsPut
    <3>3. CASE f \in {"type", "command"}
      BY <1>2, <2>1, <3>3 DEF IsPut, Arrays, Dollars, Braces
    <3> QED
      BY <3>1, <3>2, <3>3
  <2>2. CASE e["type"] = "remote"
    <3>1. CASE f \in {"type", "oauth"}
      BY <1>2, <2>2, <3>1 DEF IsPut, Dollars, Braces
    <3>2. CASE f \notin {"type", "oauth"}
      BY <1>1, <1>2, <2>2, <3>2 DEF IsPut
    <3> QED
      BY <3>1, <3>2
  <2> QED
    BY <1>2, <2>1, <2>2 DEF IsPut
<1>13. DOMAIN e \ {"type", "transport", "enabled", "disabled"}
         \subseteq Texts \cup {"serverUrl", "environment"} \cup {f \in {"oauth"} \cap DOMAIN e : e[f] = "false"}
  BY <1>2 DEF IsPut, Texts
<1> QED
  BY <1>1, <1>6, <1>7, <1>9, <1>11, <1>12, <1>13 DEF EntryIsKept

LEMMA MeaningIsKept == ImportsKeepTheirMeaning
<1> PICK got : got = Imported(document)
  OBVIOUS
<1> PICK e : e = document.entry
  OBVIOUS
<1> SUFFICES ASSUME Readable(got)
             PROVE  EntryIsKept(document.map, e, got) /\ document.others \subseteq {"schema", "theme"}
  BY DEF ImportsKeepTheirMeaning, EntryIsKept, PutAs, Texts
<1>1. got # Refused
  BY DEF Readable
<1>2. CASE document.map = "mcp"
  <2>1. got = OpenCodeNormalized(document)
    BY <1>1, <1>2 DEF Imported
  <2>2. EntryIsKept("mcp", e, got) /\ document.others \subseteq {"schema"}
    BY <1>1, <2>1, OpenCodeKeeps
  <2> QED
    BY <1>2, <2>2
<1>3. CASE document.map # "mcp"
  <2>1. RootFits(document) /\ got = Normalized(document.map, e)
    BY <1>1, <1>3 DEF Imported
  <2>2. EntryIsKept(document.map, e, got)
    BY <1>1, <1>3, <2>1, NormalizedKeeps
  <2> QED
    BY <2>1, <2>2 DEF RootFits
<1> QED
  BY <1>2, <1>3

\* What is imported of another program's file means what it meant there, whatever fields
\* its entry has and whatever is in them (normalize, normalize_opencode).
THEOREM ImportsAlwaysKeepMeaning == ImportsSpec => []ImportsKeepTheirMeaning
BY MeaningIsKept, PTL

-----------------------------------------------------------------------------
(* What the six promise together.                                          *)

\* What is asked for, by a request, a line of an agent or a command line, is what is done,
\* and what is told of it is what happened (PlanIsWalked, AnswersAreTrue, StartsAsTold).
THEOREM RequestsAreAlwaysCarriedOut ==
  PlansSpec /\ AdapterSpec /\ OptionsSpec => []RequestsAreCarriedOut
<1>1. PlanIsWalked /\ AnswersAreTrue /\ StartsAsTold => RequestsAreCarriedOut
  BY DEF RequestsAreCarriedOut
<1> QED
  BY <1>1, PlansAreAlwaysWalked, AnswersStayTrue, StartsAlwaysAsTold, PTL

\* Trust is given by the user to what the user was shown, to an entry that means what it
\* meant to the program that wrote it, out of a list that hides nothing
\* (TrustIsTheUsersWord, ImportsKeepTheirMeaning, ListLeavesNothingOutUnsaid).
THEOREM TrustIsAlwaysInformed == ReviewSpec /\ ImportsSpec /\ SourcesSpec => []TrustIsInformed
<1>1. TrustIsTheUsersWord /\ ImportsKeepTheirMeaning /\ ListLeavesNothingOutUnsaid => TrustIsInformed
  BY DEF TrustIsInformed
<1> QED
  BY <1>1, TrustIsAlwaysTheUsersWord, ImportsAlwaysKeepMeaning, ListNeverLeavesOutUnsaid, PTL
=============================================================================
