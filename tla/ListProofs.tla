----------------------------- MODULE ListProofs ------------------------------
(***************************************************************************)
(* What the list algorithms return for every list: the loop that keeps     *)
(* some elements, the flattening of lists, the stable sort and the page.   *)
(* Induction is over the least counterexample, a natural number.           *)
(***************************************************************************)
EXTENDS ListOps, SequenceTheorems, FunctionTheorems, FiniteSetTheorems, WellFoundedInduction, TLAPS

(* A nonempty set of natural numbers has a least element.                  *)
LEMMA Least ==
  ASSUME NEW T, T \subseteq Nat, T # {}
  PROVE  \E n \in T : \A m \in T : n <= m
<1>1. IsWellFoundedOn(OpToRel(<, Nat), Nat)
  BY NatLessThanWellFounded
<1>2. PICK n \in T : \A m \in T : ~(<<m, n>> \in OpToRel(<, Nat))
  BY <1>1, WFMin
<1>3. \A m \in T : ~(m < n)
  BY <1>2, Zenon DEF OpToRel
<1>4. \A m \in T : m \in Nat /\ n \in Nat
  OBVIOUS
<1> QED BY <1>3, <1>4

(* The principle that follows: what holds of 0 and is handed on from each  *)
(* number below n to the next holds up to n.                               *)
LEMMA UpTo ==
  ASSUME NEW n \in Nat, NEW H, 0 \in H,
         \A k \in 0..n : k \in H /\ k < n => k + 1 \in H
  PROVE  0..n \subseteq H
<1> DEFINE Missing == {k \in 0..n : k \notin H}
<1>1. SUFFICES ASSUME Missing # {} PROVE FALSE
  OBVIOUS
<1>2. Missing \subseteq Nat
  OBVIOUS
<1>3. PICK k \in Missing : \A m \in Missing : k <= m
  <2> HIDE DEF Missing
  <2> QED BY <1>1, <1>2, Least
<1>4. k \in 0..n /\ k \notin H
  OBVIOUS
<1>5. k # 0
  BY <1>4
<1>6. k - 1 \in 0..n /\ k - 1 < n /\ k - 1 \notin Missing
  BY <1>3, <1>4, <1>5
<1>7. k - 1 \in H
  BY <1>6
<1>8. (k - 1) + 1 \in H
  BY <1>6, <1>7
<1> QED BY <1>4, <1>8

(* The largest number of a nonempty part of 1..n.                          *)
LEMMA LargestOf ==
  ASSUME NEW n \in Nat, NEW s \in SUBSET (1..n), s # {}
  PROVE  Max(s) \in s /\ \A y \in s : y <= Max(s)
<1> DEFINE Bounds == {m \in Nat : \A y \in s : y <= m}
<1>1. n \in Bounds /\ Bounds \subseteq Nat
  OBVIOUS
<1>2. PICK m \in Bounds : \A k \in Bounds : m <= k
  <2> HIDE DEF Bounds
  <2> QED BY <1>1, Least
<1>3. m \in Nat /\ \A y \in s : y <= m
  OBVIOUS
<1>4. m \in s
  <2>1. SUFFICES ASSUME m \notin s PROVE FALSE
    OBVIOUS
  <2>2. \A y \in s : y <= m - 1 /\ y \in 1..n
    BY <2>1, <1>3
  <2>3. m - 1 \in Nat
    <3>1. PICK y \in s : TRUE
      OBVIOUS
    <3>2. y \in 1..n /\ y <= m - 1
      BY <2>2
    <3> QED BY <3>2, <1>3
  <2>4. m - 1 \in Bounds
    BY <2>2, <2>3
  <2> QED BY <2>4, <1>2, <1>3
<1>5. \E x \in s : \A y \in s : x >= y
  BY <1>3, <1>4
<1>6. Max(s) \in s /\ \A y \in s : Max(s) >= y
  BY <1>5 DEF Max
<1>7. \A y \in s : y \in 1..n
  OBVIOUS
<1> QED BY <1>6, <1>7

LEMMA LargestOfFirst ==
  ASSUME NEW n \in Nat, NEW k \in 1..n
  PROVE  /\ 1..k \in SUBSET (1..n) /\ 1..k # {}
         /\ Max(1..k) = k /\ (1..k) \ {Max(1..k)} = 1..(k - 1)
<1>1. 1..k \in SUBSET (1..n) /\ k \in 1..k
  OBVIOUS
<1>2. Max(1..k) \in 1..k /\ \A y \in 1..k : y <= Max(1..k)
  BY <1>1, LargestOf
<1>3. Max(1..k) = k
  BY <1>1, <1>2
<1>4. (1..k) \ {k} = 1..(k - 1)
  OBVIOUS
<1> QED BY <1>1, <1>3, <1>4

(* The recursion a fold over a list stands for has a solution, and its     *)
(* values stay in every set the folded steps do not leave.                 *)
Steps(n, S) == [1..n -> [S -> S]]

IsFold(h, n, S, b, g) ==
  /\ h \in [SUBSET (1..n) -> S]
  /\ h[{}] = b
  /\ \A s \in SUBSET (1..n) : s # {} => h[s] = g[Max(s)][h[s \ {Max(s)}]]

LEMMA FoldExists ==
  ASSUME NEW n \in Nat, NEW S, NEW b \in S, NEW g \in Steps(n, S)
  PROVE  \E h : IsFold(h, n, S, b, g)
<1>0. g \in [1..n -> [S -> S]]
  BY DEF Steps
<1> DEFINE Solved(m, h) ==
             h = [s \in SUBSET (1..m) |-> IF s = {} THEN b ELSE g[Max(s)][h[s \ {Max(s)}]]]
           H == {m \in 0..n : \E h \in [SUBSET (1..m) -> S] : Solved(m, h)}
<1>1. 0 \in H
  <2>1. SUBSET (1..0) = {{}}
    OBVIOUS
  <2> DEFINE h == [s \in SUBSET (1..0) |-> b]
  <2>2. h \in [SUBSET (1..0) -> S]
    OBVIOUS
  <2>3. Solved(0, h)
    BY <2>1
  <2> QED BY <2>2, <2>3
<1>2. ASSUME NEW m \in 0..n, m \in H, m < n PROVE m + 1 \in H
  <2>1. PICK h \in [SUBSET (1..m) -> S] : Solved(m, h)
    BY <1>2
  <2> DEFINE next == [s \in SUBSET (1..(m + 1)) |->
                        IF s = {} THEN b ELSE g[Max(s)][h[s \ {Max(s)}]]]
  <2>2. ASSUME NEW s \in SUBSET (1..(m + 1)), s # {}
        PROVE  /\ Max(s) \in 1..n /\ s \ {Max(s)} \in SUBSET (1..m)
               /\ g[Max(s)][h[s \ {Max(s)}]] \in S
    <3>0. m + 1 \in Nat /\ m \in Nat /\ m + 1 <= n
      BY <1>2
    <3>1. Max(s) \in s /\ \A y \in s : y <= Max(s)
      BY <2>2, <3>0, LargestOf
    <3>2. Max(s) \in 1..(m + 1) /\ Max(s) \in 1..n
      <4>1. s \subseteq 1..(m + 1)
        OBVIOUS
      <4>2. Max(s) \in 1..(m + 1)
        BY <4>1, <3>1
      <4> QED BY <4>2, <3>0
    <3>3. ASSUME NEW y \in s \ {Max(s)} PROVE y \in 1..m
      <4>1. y \in 1..(m + 1) /\ y <= Max(s) /\ y # Max(s)
        BY <3>1
      <4> QED BY <4>1, <3>0, <3>2
    <3>4. s \ {Max(s)} \in SUBSET (1..m)
      BY <3>3
    <3>5. h[s \ {Max(s)}] \in S
      BY <3>4
    <3>6. g[Max(s)] \in [S -> S]
      BY <1>0, <3>2
    <3> QED BY <3>2, <3>4, <3>5, <3>6
  <2>3. next \in [SUBSET (1..(m + 1)) -> S]
    BY <2>2
  <2>4. ASSUME NEW s \in SUBSET (1..m) PROVE next[s] = h[s]
    <3>1. s \in SUBSET (1..(m + 1))
      OBVIOUS
    <3>2. h[s] = IF s = {} THEN b ELSE g[Max(s)][h[s \ {Max(s)}]]
      BY <2>1
    <3> QED BY <3>1, <3>2
  <2>5. \A s \in SUBSET (1..(m + 1)) : s # {} => next[s \ {Max(s)}] = h[s \ {Max(s)}]
    <3> HIDE DEF next
    <3> QED BY <2>2, <2>4
  <2>6. Solved(m + 1, next)
    <3>1. \A s \in SUBSET (1..(m + 1)) :
            next[s] = IF s = {} THEN b ELSE g[Max(s)][next[s \ {Max(s)}]]
      BY <2>5
    <3>2. next = [s \in SUBSET (1..(m + 1)) |-> next[s]]
      OBVIOUS
    <3> QED BY <3>1, <3>2
  <2> HIDE DEF next, Solved
  <2> QED BY <2>3, <2>6, <1>2
<1>3. 0..n \subseteq H
  <2> HIDE DEF H
  <2> QED BY <1>1, <1>2, UpTo
<1>4. n \in 0..n /\ n \in H
  <2> HIDE DEF H
  <2> QED BY <1>3
<1>5. PICK h \in [SUBSET (1..n) -> S] : Solved(n, h)
  BY <1>4
<1>6. h[{}] = b
  BY <1>5
<1>7. ASSUME NEW s \in SUBSET (1..n), s # {} PROVE h[s] = g[Max(s)][h[s \ {Max(s)}]]
  BY <1>5, <1>7
<1> HIDE DEF Solved, H
<1>8. IsFold(h, n, S, b, g)
  BY <1>6, <1>7 DEF IsFold
<1> QED BY <1>8

(* The values a fold passes through.                                       *)
IsRun(f, n, S, b, g) ==
  /\ f \in [0..n -> S]
  /\ f[0] = b
  /\ \A k \in 1..n : f[k] = g[k][f[k - 1]]

LEMMA FoldRuns ==
  ASSUME NEW n \in Nat, NEW S, NEW b \in S, NEW g \in Steps(n, S), NEW iter,
         iter[{}] = b,
         \A k \in 1..n : iter[1..(k - 1)] \in S => iter[1..k] = g[k][iter[1..(k - 1)]]
  PROVE  \E f : IsRun(f, n, S, b, g) /\ f[n] = iter[1..n]
<1> DEFINE f == [k \in 0..n |-> iter[1..k]]
           H == {k \in 0..n : f[k] \in S}
<1>1. f[0] = b
  <2>1. 1..0 = {}
    OBVIOUS
  <2> QED BY <2>1
<1>2. ASSUME NEW k \in 1..n, f[k - 1] \in S PROVE f[k] = g[k][f[k - 1]] /\ f[k] \in S
  <2>1. f[k - 1] = iter[1..(k - 1)] /\ f[k] = iter[1..k]
    OBVIOUS
  <2>2. g[k] \in [S -> S]
    BY DEF Steps
  <2> HIDE DEF f
  <2> QED BY <1>2, <2>1, <2>2
<1>3. 0 \in H
  <2> HIDE DEF f
  <2> QED BY <1>1
<1>4. ASSUME NEW k \in 0..n, k \in H, k < n PROVE k + 1 \in H
  <2>1. k + 1 \in 1..n /\ k + 1 \in 0..n /\ (k + 1) - 1 = k /\ f[k] \in S
    BY <1>4
  <2> HIDE DEF f
  <2>2. f[k + 1] \in S
    BY <2>1, <1>2
  <2> QED BY <2>1, <2>2
<1>5. 0..n \subseteq H
  <2> HIDE DEF H
  <2> QED BY <1>3, <1>4, UpTo
<1>6. \A k \in 0..n : f[k] \in S
  <2> HIDE DEF f
  <2> QED BY <1>5
<1>7. f \in [0..n -> S]
  <2>1. f = [k \in 0..n |-> f[k]]
    OBVIOUS
  <2> HIDE DEF f
  <2> QED BY <1>6, <2>1
<1>8. \A k \in 1..n : k - 1 \in 0..n
  OBVIOUS
<1>9. f[n] = iter[1..n]
  OBVIOUS
<1> HIDE DEF f, H
<1>10. IsRun(f, n, S, b, g)
  BY <1>1, <1>2, <1>6, <1>7, <1>8 DEF IsRun
<1> QED BY <1>9, <1>10

-----------------------------------------------------------------------------
(* Selected.                                                               *)

ValuesOf(list, n) == {list[i] : i \in 1..n}

(* What was kept of the list's first k elements, for each k.               *)
KeptSoFar(f, list, n, places) ==
  /\ f \in [0..n -> Seq(ValuesOf(list, n))]
  /\ f[0] = <<>>
  /\ \A k \in 1..n : f[k] = IF k \in places THEN Append(f[k - 1], list[k]) ELSE f[k - 1]

(* Selected goes through the list place by place.                          *)
LEMMA SelectedSteps ==
  ASSUME NEW n \in Nat, NEW list, DOMAIN list = 1..n, NEW places
  PROVE  \E f : KeptSoFar(f, list, n, places) /\ f[n] = Selected(list, places)
<1> DEFINE S == Seq(ValuesOf(list, n))
           g == [k \in 1..n |-> [out \in S |-> IF k \in places THEN Append(out, list[k]) ELSE out]]
           own == [i \in DOMAIN list |-> i]
           Solves(iter) == iter = [s \in SUBSET (DOMAIN own) |->
                             IF s = {} THEN <<>>
                             ELSE IF own[Max(s)] \in places
                                  THEN Append(iter[s \ {Max(s)}], list[own[Max(s)]])
                                  ELSE iter[s \ {Max(s)}]]
           iter == CHOOSE iter : Solves(iter)
<1>1. Selected(list, places) = iter[DOMAIN own]
  BY DEF Selected, FoldLeftDomain, FoldLeft, MapThenFoldSet
<1>2. DOMAIN own = 1..n /\ \A k \in 1..n : own[k] = k
  OBVIOUS
<1>3. <<>> \in S /\ \A out \in S, k \in 1..n : Append(out, list[k]) \in S
  <2>1. \A k \in 1..n : list[k] \in ValuesOf(list, n)
    BY DEF ValuesOf
  <2> HIDE DEF own
  <2> QED BY <2>1
<1>4. g \in Steps(n, S)
  <2> HIDE DEF S
  <2> QED BY <1>3 DEF Steps
<1>5. PICK h : IsFold(h, n, S, <<>>, g)
  <2>1. <<>> \in S
    BY <1>3
  <2> HIDE DEF S, g
  <2> QED BY <2>1, <1>4, FoldExists
<1>5b. /\ h \in [SUBSET (1..n) -> S]
       /\ h[{}] = <<>>
       /\ \A s \in SUBSET (1..n) : s # {} => h[s] = g[Max(s)][h[s \ {Max(s)}]]
  BY <1>5 DEF IsFold
<1>6. ASSUME NEW s \in SUBSET (1..n), s # {}
      PROVE  /\ own[Max(s)] = Max(s)
             /\ g[Max(s)][h[s \ {Max(s)}]] =
                  IF own[Max(s)] \in places THEN Append(h[s \ {Max(s)}], list[own[Max(s)]])
                  ELSE h[s \ {Max(s)}]
  <2>1. Max(s) \in s
    BY <1>6, LargestOf
  <2>2. Max(s) \in 1..n
    BY <2>1
  <2>3. s \ {Max(s)} \in SUBSET (1..n)
    OBVIOUS
  <2>4. h[s \ {Max(s)}] \in S
    BY <1>5b, <2>3
  <2>5. own[Max(s)] = Max(s)
    BY <2>2, <1>2
  <2> HIDE DEF S, own
  <2> QED BY <2>2, <2>4, <2>5
<1>7. Solves(h)
  <2>1. \A s \in SUBSET (1..n) :
          h[s] = IF s = {} THEN <<>>
                 ELSE IF own[Max(s)] \in places
                      THEN Append(h[s \ {Max(s)}], list[own[Max(s)]])
                      ELSE h[s \ {Max(s)}]
    <3> HIDE DEF S, g, own
    <3> QED BY <1>5b, <1>6
  <2>2. h = [s \in SUBSET (1..n) |-> h[s]]
    BY <1>5b
  <2>3. SUBSET (DOMAIN own) = SUBSET (1..n)
    BY <1>2
  <2> HIDE DEF S, g, own
  <2> QED BY <2>1, <2>2, <2>3
<1>8. Solves(iter)
  <2> HIDE DEF Solves
  <2> QED BY <1>7
<1>9. \A s \in SUBSET (1..n) :
        iter[s] = IF s = {} THEN <<>>
                  ELSE IF own[Max(s)] \in places
                       THEN Append(iter[s \ {Max(s)}], list[own[Max(s)]])
                       ELSE iter[s \ {Max(s)}]
  <2>1. SUBSET (DOMAIN own) = SUBSET (1..n)
    BY <1>2
  <2> HIDE DEF iter, own
  <2> QED BY <1>8, <2>1
<1>10. iter[{}] = <<>>
  <2> HIDE DEF iter, own
  <2> QED BY <1>9
<1>11. ASSUME NEW k \in 1..n
       PROVE  iter[1..k] = IF k \in places THEN Append(iter[1..(k - 1)], list[k]) ELSE iter[1..(k - 1)]
  <2> DEFINE upto == 1..k
             before == 1..(k - 1)
             all == SUBSET (1..n)
  <2>1. upto \in all /\ upto # {} /\ Max(upto) = k /\ upto \ {Max(upto)} = before
    BY LargestOfFirst
  <2>2. own[k] = k
    BY <1>2
  <2>3. \A s \in all :
          iter[s] = IF s = {} THEN <<>>
                    ELSE IF own[Max(s)] \in places
                         THEN Append(iter[s \ {Max(s)}], list[own[Max(s)]])
                         ELSE iter[s \ {Max(s)}]
    BY ONLY <1>9
  <2> HIDE DEF iter, own, upto, before, all
  <2>4. iter[upto] = IF own[Max(upto)] \in places
                     THEN Append(iter[upto \ {Max(upto)}], list[own[Max(upto)]])
                     ELSE iter[upto \ {Max(upto)}]
    BY ONLY <2>1, <2>3
  <2>5. iter[upto] = IF k \in places THEN Append(iter[before], list[k]) ELSE iter[before]
    BY ONLY <2>1, <2>2, <2>4
  <2> QED BY ONLY <2>5 DEF upto, before
<1>12. g \in Steps(n, S) /\ <<>> \in S
  <2> HIDE DEF S, g
  <2> QED BY <1>3, <1>4
<1>13. \A k \in 1..n : iter[1..(k - 1)] \in S => iter[1..k] = g[k][iter[1..(k - 1)]]
  <2> HIDE DEF iter, S
  <2> QED BY <1>11
<1>14. PICK f : IsRun(f, n, S, <<>>, g) /\ f[n] = iter[1..n]
  <2> HIDE DEF iter, g, S
  <2> QED BY <1>10, <1>12, <1>13, FoldRuns
<1>15. f \in [0..n -> S] /\ f[0] = <<>> /\ \A k \in 1..n : f[k] = g[k][f[k - 1]]
  BY <1>14 DEF IsRun
<1>16. \A k \in 1..n : f[k] = IF k \in places THEN Append(f[k - 1], list[k]) ELSE f[k - 1]
  <2>1. \A k \in 1..n : k - 1 \in 0..n
    OBVIOUS
  <2>2. \A k \in 1..n : f[k - 1] \in S
    <3> HIDE DEF S
    <3> QED BY <2>1, <1>15
  <2> QED BY <1>15, <2>2
<1>17. f[n] = Selected(list, places)
  <2> HIDE DEF iter, own
  <2> QED BY <1>1, <1>2, <1>14
<1> HIDE DEF iter
<1>18. KeptSoFar(f, list, n, places)
  BY <1>15, <1>16 DEF KeptSoFar
<1> QED BY <1>17, <1>18

(* The m places among the first n, in order.                               *)
Selects(at, m, n, places) ==
  /\ at \in [1..m -> places \cap (1..n)]
  /\ \A k, l \in 1..m : k < l => at[k] < at[l]
  /\ \A i \in places \cap (1..n) : \E k \in 1..m : at[k] = i

Taken(list, at, m) == [k \in 1..m |-> list[at[k]]]

(* What Selected returns: the elements at the places, each once and in     *)
(* order.                                                                  *)
LEMMA SelectedAt ==
  ASSUME NEW n \in Nat, NEW list, DOMAIN list = 1..n, NEW places
  PROVE  \E m \in Nat : \E at : Selects(at, m, n, places) /\ Selected(list, places) = Taken(list, at, m)
<1>0. PICK f : KeptSoFar(f, list, n, places) /\ f[n] = Selected(list, places)
  BY SelectedSteps
<1>1. /\ f \in [0..n -> Seq(ValuesOf(list, n))]
      /\ f[0] = <<>> /\ f[n] = Selected(list, places)
      /\ \A k \in 1..n : f[k] = IF k \in places THEN Append(f[k - 1], list[k]) ELSE f[k - 1]
  BY <1>0 DEF KeptSoFar
<1> DEFINE P(j) == \E m \in Nat : \E at : Selects(at, m, j, places) /\ f[j] = Taken(list, at, m)
           H == {j \in 0..n : P(j)}
<1>2. 0 \in H
  <2> DEFINE at == [k \in 1..0 |-> 0]
  <2>1. Selects(at, 0, 0, places)
    BY DEF Selects
  <2>2. Taken(list, at, 0) = <<>>
    BY DEF Taken
  <2> HIDE DEF at
  <2>3. P(0)
    BY <2>1, <2>2, <1>1
  <2> QED BY <2>3
<1>3. ASSUME NEW j \in 0..n, j \in H, j < n PROVE j + 1 \in H
  <2>1e. PICK m \in Nat : \E at : Selects(at, m, j, places) /\ f[j] = Taken(list, at, m)
    BY <1>3
  <2>1. PICK at : Selects(at, m, j, places) /\ f[j] = Taken(list, at, m)
    BY <2>1e
  <2>2. /\ j \in Nat /\ j + 1 \in 1..n /\ j + 1 \in 0..n /\ (j + 1) - 1 = j
        /\ f[j + 1] = IF j + 1 \in places THEN Append(f[j], list[j + 1]) ELSE f[j]
    BY <1>1, <1>3
  <2>3. /\ at \in [1..m -> places \cap (1..j)]
        /\ \A k, l \in 1..m : k < l => at[k] < at[l]
        /\ \A i \in places \cap (1..j) : \E k \in 1..m : at[k] = i
    BY <2>1 DEF Selects
  <2>4. \A k \in 1..m : at[k] \in places /\ at[k] \in 1..j
    BY <2>3
  <2>5. CASE j + 1 \notin places
    <3>1. places \cap (1..(j + 1)) = places \cap (1..j)
      BY <2>2, <2>5
    <3>2. Selects(at, m, j + 1, places)
      BY <2>3, <3>1 DEF Selects
    <3>3. P(j + 1)
      BY <3>2, <2>1, <2>2, <2>5
    <3> QED BY <3>3, <2>2
  <2>6. CASE j + 1 \in places
    <3> DEFINE next == [k \in 1..(m + 1) |-> IF k = m + 1 THEN j + 1 ELSE at[k]]
    <3>1. \A k \in 1..(m + 1) : next[k] \in places \cap (1..(j + 1))
      BY <2>2, <2>4, <2>6
    <3>2. next \in [1..(m + 1) -> places \cap (1..(j + 1))]
      BY <3>1
    <3>3. ASSUME NEW k \in 1..(m + 1), NEW l \in 1..(m + 1), k < l PROVE next[k] < next[l]
      BY <2>2, <2>3, <2>4, <3>3
    <3>4. ASSUME NEW i \in places \cap (1..(j + 1)) PROVE \E k \in 1..(m + 1) : next[k] = i
      <4>1. CASE i = j + 1
        BY <4>1
      <4>2. CASE i # j + 1
        <5>1. i \in places \cap (1..j)
          BY <4>2, <2>2
        <5>2. PICK k \in 1..m : at[k] = i
          BY <5>1, <2>3
        <5>3. k \in 1..(m + 1) /\ k # m + 1
          OBVIOUS
        <5> QED BY <5>2, <5>3
      <4> QED BY <4>1, <4>2
    <3>5. Selects(next, m + 1, j + 1, places)
      <4> HIDE DEF next
      <4> QED BY <3>2, <3>3, <3>4 DEF Selects
    <3>6. f[j + 1] = Append(Taken(list, at, m), list[j + 1])
      BY <2>1, <2>2, <2>6
    <3>7. \A k \in 1..m : list[at[k]] \in ValuesOf(list, n)
      <4>1. \A k \in 1..m : at[k] \in 1..n
        BY <2>2, <2>4
      <4> QED BY <4>1 DEF ValuesOf
    <3>8. Taken(list, at, m) \in Seq(ValuesOf(list, n)) /\ Len(Taken(list, at, m)) = m
      BY <3>7 DEF Taken
    <3>9. f[j + 1] = Taken(list, next, m + 1)
      <4>1. Append(Taken(list, at, m), list[j + 1]) =
              [k \in 1..(m + 1) |-> IF k = m + 1 THEN list[j + 1] ELSE Taken(list, at, m)[k]]
        BY <3>8
      <4>2. \A k \in 1..(m + 1) :
              list[next[k]] = IF k = m + 1 THEN list[j + 1] ELSE Taken(list, at, m)[k]
        BY DEF Taken
      <4> HIDE DEF next
      <4>3. Taken(list, next, m + 1) = [k \in 1..(m + 1) |-> IF k = m + 1 THEN list[j + 1] ELSE Taken(list, at, m)[k]]
        BY <4>2 DEF Taken
      <4> QED BY <3>6, <4>1, <4>3
    <3> HIDE DEF next
    <3>10. m + 1 \in Nat
      OBVIOUS
    <3>11. P(j + 1)
      BY <3>5, <3>9, <3>10
    <3> QED BY <3>11, <2>2
  <2> QED BY <2>5, <2>6
<1>4. 0..n \subseteq H
  <2> HIDE DEF H
  <2> QED BY <1>2, <1>3, UpTo
<1>5. n \in 0..n
  OBVIOUS
<1>6. n \in H
  <2> HIDE DEF H
  <2> QED BY <1>4, <1>5
<1> QED BY <1>6, <1>1

(* The places sel takes its elements from.                                 *)
IsSelection(at, sel, list, places) ==
  /\ at \in [DOMAIN sel -> places \cap DOMAIN list]
  /\ \A k \in DOMAIN sel : sel[k] = list[at[k]]
  /\ \A k, l \in DOMAIN sel : k < l => at[k] < at[l]
  /\ \A i \in places \cap DOMAIN list : \E k \in DOMAIN sel : at[k] = i

LEMMA SelectedIs ==
  ASSUME NEW S, NEW list \in Seq(S), NEW places
  PROVE  /\ Selected(list, places) \in Seq(S)
         /\ \E at : IsSelection(at, Selected(list, places), list, places)
<1> DEFINE n == Len(list)
<1>1. n \in Nat /\ DOMAIN list = 1..n /\ \A i \in 1..n : list[i] \in S
  OBVIOUS
<1> HIDE DEF n
<1>2e. PICK m \in Nat : \E at : Selects(at, m, n, places) /\ Selected(list, places) = Taken(list, at, m)
  BY <1>1, SelectedAt
<1>2. PICK at : Selects(at, m, n, places) /\ Selected(list, places) = Taken(list, at, m)
  BY <1>2e
<1>3. /\ at \in [1..m -> places \cap (1..n)]
      /\ \A k, l \in 1..m : k < l => at[k] < at[l]
      /\ \A i \in places \cap (1..n) : \E k \in 1..m : at[k] = i
  BY <1>2 DEF Selects
<1>4. \A k \in 1..m : list[at[k]] \in S
  BY <1>1, <1>3
<1>5. Taken(list, at, m) \in Seq(S) /\ DOMAIN Taken(list, at, m) = 1..m
  BY <1>4 DEF Taken
<1>6. \A k \in 1..m : Taken(list, at, m)[k] = list[at[k]]
  BY DEF Taken
<1>7. IsSelection(at, Taken(list, at, m), list, places)
  BY <1>1, <1>3, <1>5, <1>6 DEF IsSelection
<1> QED BY <1>2, <1>5, <1>7

-----------------------------------------------------------------------------
(* FlattenSeq.                                                             *)

(* A run of any steps exists.                                              *)
LEMMA RunExists ==
  ASSUME NEW n \in Nat, NEW S, NEW b \in S, NEW g \in Steps(n, S)
  PROVE  \E f : IsRun(f, n, S, b, g)
<1>1. PICK h : IsFold(h, n, S, b, g)
  BY FoldExists
<1>2. h[{}] = b /\ \A s \in SUBSET (1..n) : s # {} => h[s] = g[Max(s)][h[s \ {Max(s)}]]
  BY <1>1 DEF IsFold
<1>3. \A k \in 1..n : h[1..k] = g[k][h[1..(k - 1)]]
  BY <1>2, LargestOfFirst
<1>4. \E f : IsRun(f, n, S, b, g) /\ f[n] = h[1..n]
  BY <1>2, <1>3, FoldRuns
<1> QED BY <1>4

LEMMA ConcatIs ==
  ASSUME NEW T, NEW a \in Seq(T), NEW b \in Seq(T)
  PROVE  /\ a \o b \in Seq(T) /\ Len(a) \in Nat /\ Len(b) \in Nat
         /\ Len(a \o b) = Len(a) + Len(b)
         /\ \A i \in 1..Len(a) : (a \o b)[i] = a[i]
         /\ \A i \in 1..Len(b) : (a \o b)[Len(a) + i] = b[i]
         /\ a = <<>> => a \o b = b
         /\ b = <<>> => a \o b = a
<1>1. a \o b \in Seq(T) /\ Len(a) \in Nat /\ Len(b) \in Nat
  OBVIOUS
<1>2. Len(a \o b) = Len(a) + Len(b)
  OBVIOUS
<1>3. \A i \in 1..Len(a) : (a \o b)[i] = a[i]
  OBVIOUS
<1>4. \A i \in 1..Len(b) : (a \o b)[Len(a) + i] = b[i]
  OBVIOUS
<1>5. a = <<>> => a \o b = b
  OBVIOUS
<1>6. b = <<>> => a \o b = a
  OBVIOUS
<1> QED BY <1>1, <1>2, <1>3, <1>4, <1>5, <1>6

(* What a flattening has put together after each of the sequences.         *)
IsFlattening(f, n, T, seqs) ==
  /\ f \in [0..n -> Seq(T)] /\ f[0] = <<>> /\ f[n] = FlattenSeq(seqs)
  /\ \A k \in 0..n : k < n => f[k + 1] = f[k] \o seqs[k + 1]

(* A list of lists is flattened one list after another.                    *)
LEMMA FlattenRuns ==
  ASSUME NEW T, NEW n \in Nat, NEW seqs \in Seq(Seq(T)), Len(seqs) = n
  PROVE  \E f : IsFlattening(f, n, T, seqs)
<1>1. DOMAIN seqs = 1..n /\ \A k \in 1..n : seqs[k] \in Seq(T)
  OBVIOUS
<1>2. CASE n = 0
  <2>1. FlattenSeq(seqs) = seqs /\ seqs = <<>>
    BY <1>2 DEF FlattenSeq
  <2> DEFINE f == [k \in 0..0 |-> <<>>]
  <2>2. f \in [0..n -> Seq(T)] /\ f[0] = <<>> /\ f[n] = FlattenSeq(seqs)
    BY <1>2, <2>1
  <2>3. \A k \in 0..n : ~(k < n)
    BY <1>2
  <2> HIDE DEF f
  <2>4. IsFlattening(f, n, T, seqs)
    BY <2>2, <2>3 DEF IsFlattening
  <2> QED BY <2>4
<1>3. CASE n # 0
  <2> DEFINE S == Seq(T)
             g == [k \in 1..n |-> [out \in S |-> out \o seqs[k]]]
             Solves(h) == h = [i \in 1..n |-> IF i = 1 THEN seqs[i] ELSE h[i - 1] \o seqs[i]]
             flatten == CHOOSE h : Solves(h)
  <2>1. FlattenSeq(seqs) = flatten[n]
    <3>1. FlattenSeq(seqs) = (CHOOSE h : h = [i \in 1..Len(seqs) |->
                                IF i = 1 THEN seqs[i] ELSE h[i - 1] \o seqs[i]])[Len(seqs)]
      BY <1>3 DEF FlattenSeq
    <3> QED BY <3>1, Zenon
  <2>2. \A k \in 1..n, out \in S : out \o seqs[k] \in S
    BY <1>1
  <2>3. g \in Steps(n, S) /\ <<>> \in S
    <3>1. <<>> \in S
      OBVIOUS
    <3> HIDE DEF S
    <3> QED BY <2>2, <3>1 DEF Steps
  <2>4. PICK f : IsRun(f, n, S, <<>>, g)
    <3> HIDE DEF S, g
    <3> QED BY <2>3, RunExists
  <2>5. f \in [0..n -> S] /\ f[0] = <<>> /\ \A k \in 1..n : f[k] = g[k][f[k - 1]]
    BY <2>4 DEF IsRun
  <2>6. \A k \in 1..n : f[k - 1] \in S /\ f[k] = f[k - 1] \o seqs[k]
    <3>1. \A k \in 1..n : k - 1 \in 0..n
      OBVIOUS
    <3>2. \A k \in 1..n : f[k - 1] \in S
      <4> HIDE DEF S, g
      <4> QED BY <3>1, <2>5
    <3>3. \A k \in 1..n, out \in S : g[k][out] = out \o seqs[k]
      OBVIOUS
    <3> HIDE DEF S, g
    <3> QED BY <3>2, <3>3, <2>5
  <2> DEFINE h == [i \in 1..n |-> f[i]]
  <2>7. Solves(h)
    <3>1. 1 \in 1..n /\ f[1] = seqs[1]
      <4>1. 1 \in 1..n /\ 1 - 1 = 0
        BY <1>3
      <4>2. f[1] = f[1 - 1] \o seqs[1]
        BY <4>1, <2>6
      <4>3. f[1] = <<>> \o seqs[1]
        BY <4>1, <4>2, <2>5
      <4> QED BY <4>1, <4>3, <1>1
    <3>2. ASSUME NEW i \in 1..n PROVE h[i] = IF i = 1 THEN seqs[i] ELSE h[i - 1] \o seqs[i]
      <4>1. CASE i = 1
        BY <4>1, <3>1
      <4>2. CASE i # 1
        <5>1. i - 1 \in 1..n
          BY <4>2
        <5>2. f[i] = f[i - 1] \o seqs[i]
          BY <2>6
        <5> QED BY <4>2, <5>1, <5>2
      <4> QED BY <4>1, <4>2
    <3>3. h = [i \in 1..n |-> h[i]]
      OBVIOUS
    <3> HIDE DEF h
    <3> QED BY <3>2, <3>3
  <2>8. Solves(flatten)
    <3> HIDE DEF Solves
    <3> QED BY <2>7
  <2>9. \A i \in 1..n : flatten[i] = IF i = 1 THEN seqs[i] ELSE flatten[i - 1] \o seqs[i]
    <3> HIDE DEF flatten
    <3> QED BY <2>8
  <2> DEFINE H == {k \in 0..n : k = 0 \/ flatten[k] = f[k]}
  <2>10. 0 \in H
    <3> HIDE DEF flatten
    <3> QED OBVIOUS
  <2>11. ASSUME NEW k \in 0..n, k \in H, k < n PROVE k + 1 \in H
    <3> HIDE DEF flatten
    <3>1. k + 1 \in 1..n /\ k + 1 \in 0..n /\ (k + 1) - 1 = k
      <4> HIDE DEF H, S, g, h
      <4> QED BY <2>11
    <3>2. k = 0 \/ flatten[k] = f[k]
      BY <2>11
    <3>3. seqs[k + 1] \in Seq(T) /\ f[k + 1] = f[k] \o seqs[k + 1]
      BY <1>1, <2>6, <3>1
    <3>4. CASE k = 0
      <4>1. f[k + 1] = seqs[k + 1]
        <5> DEFINE next == seqs[k + 1]
        <5>1. f[k + 1] = <<>> \o next /\ next \in Seq(T)
          BY <2>5, <3>3, <3>4
        <5> HIDE DEF next
        <5>2. <<>> \o next = next
          BY ONLY <5>1
        <5> QED BY ONLY <5>1, <5>2 DEF next
      <4> QED BY <3>1, <3>4, <4>1, <2>9
    <3>5. CASE k # 0
      <4>1. flatten[k + 1] = flatten[k] \o seqs[k + 1]
        <5>1. k + 1 # 1
          BY <2>11, <3>5
        <5>2. flatten[k + 1] = flatten[(k + 1) - 1] \o seqs[k + 1]
          BY <3>1, <5>1, <2>9
        <5> QED BY <3>1, <5>2
      <4> QED BY <4>1, <3>1, <3>2, <3>3, <3>5
    <3> QED BY <3>4, <3>5
  <2>12. 0..n \subseteq H
    <3> HIDE DEF H
    <3> QED BY <2>10, <2>11, UpTo
  <2>13. f[n] = FlattenSeq(seqs)
    <3>1. n \in 0..n
      OBVIOUS
    <3> HIDE DEF flatten
    <3>2. n = 0 \/ flatten[n] = f[n]
      BY <2>12, <3>1
    <3> QED BY <2>1, <3>2, <1>3
  <2>14. \A k \in 0..n : k < n => f[k + 1] = f[k] \o seqs[k + 1]
    <3> SUFFICES ASSUME NEW k \in 0..n, k < n PROVE f[k + 1] = f[k] \o seqs[k + 1]
      OBVIOUS
    <3>1. k + 1 \in 1..n /\ (k + 1) - 1 = k
      OBVIOUS
    <3>2. f[k + 1] = f[(k + 1) - 1] \o seqs[k + 1]
      BY <2>6, <3>1
    <3> QED BY <3>1, <3>2
  <2>15. IsFlattening(f, n, T, seqs)
    <3> HIDE DEF flatten, g, h
    <3> QED BY <2>5, <2>13, <2>14 DEF IsFlattening
  <2> QED BY <2>15
<1> QED BY <1>2, <1>3

(* What a list of lists over T is flattened to is a list over T.           *)
LEMMA FlattenedIs ==
  ASSUME NEW T, NEW n \in Nat, NEW seqs \in Seq(Seq(T)), Len(seqs) = n
  PROVE  FlattenSeq(seqs) \in Seq(T)
<1>1. PICK f : IsFlattening(f, n, T, seqs)
  BY FlattenRuns
<1> QED BY <1>1 DEF IsFlattening

(* What has been put together stays where it is.                           *)
LEMMA FlattenedSoFar ==
  ASSUME NEW T, NEW n \in Nat, NEW seqs \in Seq(Seq(T)), Len(seqs) = n,
         NEW f, IsFlattening(f, n, T, seqs), NEW k \in 0..n
  PROVE  /\ Len(f[k]) \in Nat /\ Len(f[k]) <= Len(FlattenSeq(seqs))
         /\ \A i \in 1..Len(f[k]) : FlattenSeq(seqs)[i] = f[k][i]
<1>1. /\ \A j \in 0..n : f[j] \in Seq(T)
      /\ f[n] = FlattenSeq(seqs)
      /\ \A j \in 0..n : j < n => f[j + 1] = f[j] \o seqs[j + 1]
  BY Zenon DEF IsFlattening
<1> HIDE DEF IsFlattening
<1> DEFINE H == {j \in 0..n : k <= j => Len(f[k]) <= Len(f[j]) /\ \A i \in 1..Len(f[k]) : f[j][i] = f[k][i]}
<1>2. 0 \in H
  BY <1>1
<1>3. ASSUME NEW j \in 0..n, j \in H, j < n PROVE j + 1 \in H
  <2>1. j + 1 \in 0..n /\ j + 1 \in 1..n
    BY <1>3
  <2>2. seqs[j + 1] \in Seq(T)
    BY <2>1
  <2> SUFFICES ASSUME k <= j + 1
               PROVE  Len(f[k]) <= Len(f[j + 1]) /\ \A i \in 1..Len(f[k]) : f[j + 1][i] = f[k][i]
    BY <2>1
  <2>3. CASE k = j + 1
    BY <1>1, <2>3
  <2>4. CASE k <= j
    <3>1. Len(f[k]) <= Len(f[j]) /\ \A i \in 1..Len(f[k]) : f[j][i] = f[k][i]
      BY <1>3, <2>4
    <3>2. f[j] \in Seq(T) /\ Len(f[j]) \in Nat /\ Len(f[k]) \in Nat
      BY <1>1
    <3>3. f[j + 1] = f[j] \o seqs[j + 1]
      BY <1>1, <1>3
    <3> DEFINE x == f[j]
               y == f[k]
               z == f[j + 1]
    <3> HIDE DEF x, y, z
    <3>4. /\ Len(z) = Len(x) + Len(seqs[j + 1]) /\ Len(seqs[j + 1]) \in Nat
          /\ \A i \in 1..Len(x) : z[i] = x[i]
      <4> DEFINE more == seqs[j + 1]
      <4>1. x \in Seq(T) /\ more \in Seq(T) /\ z = x \o more
        BY <2>2, <3>2, <3>3 DEF x, z
      <4> HIDE DEF more
      <4>2. Len(z) = Len(x) + Len(more) /\ Len(more) \in Nat /\ \A i \in 1..Len(x) : z[i] = x[i]
        BY <4>1, ConcatIs
      <4> QED BY <4>2 DEF more
    <3>5. /\ Len(x) \in Nat /\ Len(y) \in Nat /\ Len(y) <= Len(x)
          /\ \A i \in 1..Len(y) : x[i] = y[i]
      BY <3>1, <3>2 DEF x, y
    <3>6. Len(y) <= Len(z) /\ \A i \in 1..Len(y) : z[i] = y[i]
      BY <3>4, <3>5
    <3> QED BY <3>6 DEF y, z
  <2> QED BY <2>2, <2>3, <2>4
<1>4. 0..n \subseteq H
  <2> HIDE DEF H
  <2> QED BY <1>2, <1>3, UpTo
<1>5. n \in 0..n /\ k <= n
  OBVIOUS
<1>6. Len(f[k]) <= Len(f[n]) /\ \A i \in 1..Len(f[k]) : f[n][i] = f[k][i]
  BY <1>4, <1>5
<1>7. f[k] \in Seq(T) /\ f[n] = FlattenSeq(seqs)
  BY <1>1
<1> HIDE DEF H
<1>8. Len(f[k]) \in Nat
  BY <1>7
<1> QED BY <1>6, <1>7, <1>8, Zenon

(* A flattening of single values.                                          *)
LEMMA FlattenedSingles ==
  ASSUME NEW T, NEW n \in Nat, NEW list \in Seq(T), Len(list) = n
  PROVE  FlattenSeq([i \in DOMAIN list |-> <<list[i]>>]) = list
<1> DEFINE seqs == [i \in DOMAIN list |-> <<list[i]>>]
<1>1. DOMAIN list = 1..n /\ \A i \in 1..n : list[i] \in T
  OBVIOUS
<1>2. seqs \in Seq(Seq(T)) /\ Len(seqs) = n /\ \A i \in 1..n : seqs[i] = <<list[i]>>
  BY <1>1
<1> HIDE DEF seqs
<1>3. PICK f : IsFlattening(f, n, T, seqs)
  BY <1>2, FlattenRuns
<1>4. /\ \A j \in 0..n : f[j] \in Seq(T)
      /\ f[0] = <<>> /\ f[n] = FlattenSeq(seqs)
      /\ \A j \in 0..n : j < n => f[j + 1] = f[j] \o seqs[j + 1]
  BY <1>3, Zenon DEF IsFlattening
<1> DEFINE H == {k \in 0..n : Len(f[k]) = k /\ \A i \in 1..k : f[k][i] = list[i]}
<1>5. 0 \in H
  BY <1>4
<1>6. ASSUME NEW k \in 0..n, k \in H, k < n PROVE k + 1 \in H
  <2>1. k + 1 \in 0..n /\ k + 1 \in 1..n
    BY <1>6
  <2>2. f[k + 1] = f[k] \o <<list[k + 1]>> /\ f[k] \in Seq(T) /\ Len(f[k]) = k
    BY <1>2, <1>4, <1>6, <2>1
  <2> DEFINE x == list[k + 1]
  <2>3. x \in T /\ k \in Nat
    BY <1>1, <2>1
  <2> HIDE DEF x
  <2>4. <<x>> \in Seq(T) /\ Len(<<x>>) = 1 /\ 1 \in 1..Len(<<x>>) /\ <<x>>[1] = x
    BY <2>3
  <2>5. f[k + 1] = f[k] \o <<x>>
    BY <2>2 DEF x
  <2> DEFINE so == f[k]
             one == <<x>>
             next == f[k + 1]
  <2>9. so \in Seq(T) /\ Len(so) = k /\ one \in Seq(T) /\ Len(one) = 1 /\ one[1] = x /\ next = so \o one
    BY <2>2, <2>4, <2>5
  <2> HIDE DEF so, one, next
  <2>10. /\ Len(so \o one) = Len(so) + Len(one)
         /\ \A i \in 1..Len(so) : (so \o one)[i] = so[i]
         /\ \A i \in 1..Len(one) : (so \o one)[Len(so) + i] = one[i]
    <3>1. so \in Seq(T) /\ one \in Seq(T)
      BY <2>9
    <3> QED BY ONLY <3>1, ConcatIs
  <2>11. 1 \in 1..Len(one)
    BY <2>9
  <2>6. Len(f[k + 1]) = k + 1 /\ f[k + 1][k + 1] = x
    BY <2>9, <2>10, <2>11 DEF next
  <2>7. \A i \in 1..k : f[k + 1][i] = f[k][i]
    BY <2>9, <2>10 DEF next, so
  <2>8. \A i \in 1..(k + 1) : i \in 1..k \/ i = k + 1
    OBVIOUS
  <2> QED BY <1>6, <2>1, <2>6, <2>7, <2>8 DEF x
<1>7. 0..n \subseteq H
  <2> HIDE DEF H
  <2> QED BY <1>5, <1>6, UpTo
<1>8. n \in 0..n /\ f[n] \in Seq(T)
  BY <1>4
<1>9. Len(f[n]) = n /\ \A i \in 1..n : f[n][i] = list[i]
  BY <1>7, <1>8
<1>10. f[n] = list
  BY <1>1, <1>8, <1>9
<1> QED BY <1>4, <1>10 DEF seqs

(* Keeping every element is keeping the list.                              *)
LEMMA SelectedAll ==
  ASSUME NEW S, NEW list \in Seq(S), NEW places, DOMAIN list \subseteq places
  PROVE  Selected(list, places) = list
<1> DEFINE n == Len(list)
           FirstOf(k) == [i \in 1..k |-> list[i]]
<1>1. n \in Nat /\ DOMAIN list = 1..n
  OBVIOUS
<1>2. FirstOf(n) = list
  OBVIOUS
<1> HIDE DEF n
<1>3. PICK f : KeptSoFar(f, list, n, places) /\ f[n] = Selected(list, places)
  BY <1>1, SelectedSteps
<1>4. f[0] = <<>> /\ \A k \in 1..n : f[k] = Append(f[k - 1], list[k])
  BY <1>1, <1>3 DEF KeptSoFar
<1> DEFINE H == {k \in 0..n : f[k] = FirstOf(k)}
<1>5. 0 \in H
  BY <1>1, <1>4
<1>6. ASSUME NEW k \in 0..n, k \in H, k < n PROVE k + 1 \in H
  <2>1. k + 1 \in 1..n /\ k + 1 \in 0..n /\ (k + 1) - 1 = k /\ k \in Nat
    BY <1>1, <1>6
  <2>2. f[k + 1] = Append(FirstOf(k), list[k + 1])
    BY <2>1, <1>4, <1>6
  <2>3. FirstOf(k) \in Seq(S) /\ Len(FirstOf(k)) = k
    <3>1. \A i \in 1..k : list[i] \in S
      BY <1>1, <2>1
    <3> QED BY <3>1, <2>1
  <2>4. list[k + 1] \in S
    BY <1>1, <2>1
  <2>5. Append(FirstOf(k), list[k + 1]) = FirstOf(k + 1)
    <3>1. \A i \in 1..k : FirstOf(k)[i] = list[i]
      OBVIOUS
    <3> HIDE DEF FirstOf
    <3>2. DOMAIN Append(FirstOf(k), list[k + 1]) = 1..(k + 1)
      BY <2>1, <2>3, <2>4
    <3>3. \A i \in 1..(k + 1) : Append(FirstOf(k), list[k + 1])[i] = list[i]
      BY <2>1, <2>3, <2>4, <3>1
    <3> USE DEF FirstOf
    <3>4. DOMAIN FirstOf(k + 1) = 1..(k + 1) /\ \A i \in 1..(k + 1) : FirstOf(k + 1)[i] = list[i]
      OBVIOUS
    <3>5. Append(FirstOf(k), list[k + 1]) \in Seq(S) /\ FirstOf(k + 1) \in Seq(S)
      <4>1. \A i \in 1..(k + 1) : list[i] \in S
        BY <1>1, <2>1
      <4>2. FirstOf(k + 1) \in Seq(S)
        BY <4>1, <2>1
      <4> HIDE DEF FirstOf
      <4> QED BY <2>3, <2>4, <4>2
    <3> HIDE DEF FirstOf
    <3> QED BY <3>2, <3>3, <3>4, <3>5, SeqEqual
  <2> HIDE DEF FirstOf
  <2> QED BY <2>1, <2>2, <2>5
<1>7. 0..n \subseteq H
  <2> HIDE DEF H
  <2> QED BY <1>1, <1>5, <1>6, UpTo
<1>8. f[n] = FirstOf(n)
  BY <1>1, <1>7
<1> QED BY <1>2, <1>3, <1>8

(* A list without repetitions.                                             *)
Distinct(list) == \A i, j \in DOMAIN list : list[i] = list[j] => i = j

LEMMA AsManyAsPlaces ==
  ASSUME NEW S, NEW list \in Seq(S), Distinct(list)
  PROVE  Cardinality(ToSet(list)) = Len(list)
<1> DEFINE n == Len(list)
<1>1. n \in Nat /\ DOMAIN list = 1..n /\ list \in [1..n -> ToSet(list)]
  BY DEF ToSet
<1>2. \A v \in ToSet(list) : \E i \in 1..n : list[i] = v
  BY <1>1 DEF ToSet
<1>3. \A i, j \in 1..n : list[i] = list[j] => i = j
  BY <1>1 DEF Distinct
<1> HIDE DEF n
<1> DEFINE T == ToSet(list)
<1> HIDE DEF T
<1>4. list \in Bijection(1..n, T)
  BY <1>1, <1>2, <1>3, Fun_IsBij DEF T
<1>5. ExistsBijection(1..n, T)
  BY <1>4 DEF ExistsBijection
<1> QED BY <1>1, <1>5, FS_CountingElements DEF n, T

(* What the kept elements are.                                             *)
LEMMA SelectedRange ==
  ASSUME NEW S, NEW list \in Seq(S), NEW places
  PROVE  ToSet(Selected(list, places)) = {list[i] : i \in places \cap DOMAIN list}
<1> DEFINE kept == Selected(list, places)
<1>1. PICK place : IsSelection(place, kept, list, places)
  BY SelectedIs
<1> HIDE DEF kept
<1>2. \A k \in DOMAIN kept : place[k] \in places \cap DOMAIN list /\ kept[k] = list[place[k]]
  BY <1>1 DEF IsSelection
<1>3. \A i \in places \cap DOMAIN list : \E k \in DOMAIN kept : kept[k] = list[i]
  BY <1>1 DEF IsSelection
<1>4. ToSet(kept) = {list[i] : i \in places \cap DOMAIN list}
  BY <1>2, <1>3 DEF ToSet
<1> QED BY <1>4 DEF kept

(* Two lists that keep the same list keep its elements in one order.       *)
LEMMA SameOrder ==
  ASSUME NEW S, NEW old \in Seq(S), NEW new \in Seq(S), NEW P, NEW Q,
         Distinct(old), Distinct(new), Selected(old, P) = Selected(new, Q),
         NEW i \in P \cap DOMAIN old, NEW j \in P \cap DOMAIN old,
         NEW k \in DOMAIN new, NEW l \in DOMAIN new,
         old[i] = new[k], old[j] = new[l], i < j
  PROVE  k < l
<1> DEFINE kept == Selected(old, P)
<1>1. PICK at : IsSelection(at, kept, old, P)
  BY SelectedIs
<1>2. PICK to : IsSelection(to, kept, new, Q)
  BY SelectedIs
<1>3. kept \in Seq(S)
  BY SelectedIs
<1> HIDE DEF kept
<1>4. PICK x \in DOMAIN kept : at[x] = i
  BY <1>1 DEF IsSelection
<1>5. PICK y \in DOMAIN kept : at[y] = j
  BY <1>1 DEF IsSelection
<1>6. DOMAIN kept = 1..Len(kept) /\ Len(kept) \in Nat /\ i \in Nat /\ j \in Nat
  BY <1>3
<1>7. x < y
  <2>1. x # y
    BY <1>4, <1>5
  <2>2. ~(y < x)
    BY <1>1, <1>4, <1>5, <1>6 DEF IsSelection
  <2> QED BY <1>6, <2>1, <2>2
<1>8. to[x] \in DOMAIN new /\ to[y] \in DOMAIN new /\ to[x] < to[y]
  BY <1>2, <1>7 DEF IsSelection
<1>9. new[to[x]] = new[k] /\ new[to[y]] = new[l]
  BY <1>1, <1>2, <1>4, <1>5 DEF IsSelection
<1>10. to[x] = k /\ to[y] = l
  BY <1>8, <1>9 DEF Distinct
<1> QED BY <1>8, <1>10

(* A rising sequence of places has risen to k at the k-th.                 *)
LEMMA Rising ==
  ASSUME NEW n \in Nat, NEW f \in [1..n -> Nat \ {0}],
         \A i, j \in 1..n : i < j => f[i] < f[j]
  PROVE  \A i \in 1..n : i <= f[i]
<1> DEFINE H == {k \in 0..n : k = 0 \/ k <= f[k]}
<1>1. 0 \in H
  OBVIOUS
<1>2. ASSUME NEW k \in 0..n, k \in H, k < n PROVE k + 1 \in H
  <2>1. k + 1 \in 1..n /\ k + 1 \in 0..n
    BY <1>2
  <2>2. CASE k = 0
    BY <2>1, <2>2
  <2>3. CASE k # 0
    <3>1. k \in 1..n /\ k <= f[k]
      BY <1>2, <2>3
    <3>2. f[k] < f[k + 1] /\ f[k] \in Nat /\ f[k + 1] \in Nat
      BY <2>1, <3>1
    <3> QED BY <2>1, <3>1, <3>2
  <2> QED BY <2>2, <2>3
<1>3. 0..n \subseteq H
  <2> HIDE DEF H
  <2> QED BY <1>1, <1>2, UpTo
<1> QED BY <1>3

-----------------------------------------------------------------------------
(* The stable sort.                                                        *)

StrictOrder(B, D) ==
  /\ \A i \in D : <<i, i>> \notin B
  /\ \A i, j, k \in D : <<i, j>> \in B /\ <<j, k>> \in B => <<i, k>> \in B
  /\ \A i, j \in D : i = j \/ <<i, j>> \in B \/ <<j, i>> \in B

Arranges(p, B, n) ==
  /\ p \in [1..n -> 1..n]
  /\ \A k, l \in 1..n : k < l => <<p[k], p[l]>> \in B

(* Any strict total order of finitely many places can be listed: each      *)
(* place at the number of those not after it.                              *)
LEMMA Arrangement ==
  ASSUME NEW n \in Nat, NEW B, StrictOrder(B, 1..n)
  PROVE  \E p : Arranges(p, B, n)
<1> DEFINE D == 1..n
           Until(i) == {j \in D : j = i \/ <<j, i>> \in B}
           r == [i \in D |-> Cardinality(Until(i))]
<1>1. IsFiniteSet(D) /\ Cardinality(D) = n
  BY FS_Interval
<1>2. ASSUME NEW i \in D
      PROVE  IsFiniteSet(Until(i)) /\ r[i] \in D /\ r[i] = Cardinality(Until(i))
  <2>1. Until(i) \in SUBSET D /\ i \in Until(i)
    OBVIOUS
  <2>2. r[i] = Cardinality(Until(i))
    OBVIOUS
  <2> HIDE DEF D, Until, r
  <2>3. IsFiniteSet(Until(i)) /\ Cardinality(Until(i)) <= n
    BY <1>1, <2>1, FS_Subset
  <2>4. Cardinality(Until(i)) \in Nat /\ Cardinality(Until(i)) # 0
    BY <2>1, <2>3, FS_EmptySet, FS_CardinalityType
  <2>5. Cardinality(Until(i)) \in 1..n
    BY <2>3, <2>4
  <2> QED BY <2>2, <2>3, <2>5 DEF D
<1>3. ASSUME NEW i \in D, NEW j \in D, <<i, j>> \in B PROVE r[i] < r[j]
  <2>1. Until(i) \in SUBSET Until(j) /\ j \notin Until(i) /\ j \in Until(j)
    BY <1>3 DEF StrictOrder
  <2> HIDE DEF D, Until, r
  <2>2. Cardinality(Until(i)) <= Cardinality(Until(j)) /\ Cardinality(Until(i)) # Cardinality(Until(j))
    BY <1>2, <2>1, FS_Subset
  <2>3. r[i] \in 1..n /\ r[j] \in 1..n
    BY <1>2 DEF D
  <2> QED BY <1>2, <2>2, <2>3
<1>4. r \in [D -> D]
  <2>1. r = [i \in D |-> r[i]]
    OBVIOUS
  <2> HIDE DEF D, Until, r
  <2> QED BY <1>2, <2>1
<1> HIDE DEF Until, r
<1>5. \A i, j \in D : r[i] = r[j] => i = j
  <2> SUFFICES ASSUME NEW i \in D, NEW j \in D, r[i] = r[j] PROVE i = j
    OBVIOUS
  <2>1. r[i] \in Nat /\ r[j] \in Nat
    BY <1>4
  <2>2. <<i, j>> \notin B /\ <<j, i>> \notin B
    BY <1>3, <2>1
  <2> QED BY <2>2 DEF StrictOrder
<1>6. r \in Surjection(D, D)
  <2>1. r \in Injection(D, D)
    BY <1>4, <1>5, Zenon DEF Injection, IsInjective
  <2> HIDE DEF D
  <2> QED BY <1>1, <2>1, FS_Injection
<1>7. \A k \in D : \E i \in D : r[i] = k
  BY <1>6 DEF Surjection
<1> DEFINE p == [k \in D |-> CHOOSE i \in D : r[i] = k]
<1>8. \A k \in D : p[k] \in D /\ r[p[k]] = k
  BY <1>7
<1>9. p \in [D -> D]
  <2>1. p = [k \in D |-> p[k]]
    OBVIOUS
  <2> HIDE DEF D, p
  <2> QED BY <1>8, <2>1
<1> HIDE DEF p
<1>10. ASSUME NEW k \in D, NEW l \in D, k < l PROVE <<p[k], p[l]>> \in B
  <2>1. p[k] \in D /\ p[l] \in D /\ r[p[k]] = k /\ r[p[l]] = l
    BY <1>8
  <2>2. p[k] # p[l]
    BY <2>1, <1>10
  <2>3. <<p[l], p[k]>> \notin B
    <3>1. ~(l < k)
      BY <1>10
    <3> QED BY <1>3, <2>1, <3>1
  <2> QED BY <2>1, <2>2, <2>3 DEF StrictOrder
<1> QED BY <1>9, <1>10 DEF Arranges

Covers(p, n) == \A i \in 1..n : \E k \in 1..n : p[k] = i

(* An arrangement has every place once.                                    *)
LEMMA ArrangesOnce ==
  ASSUME NEW n \in Nat, NEW B, StrictOrder(B, 1..n), NEW p, Arranges(p, B, n)
  PROVE  /\ \A k, l \in 1..n : p[k] = p[l] => k = l
         /\ Covers(p, n)
<1>1. p \in [1..n -> 1..n]
  BY DEF Arranges
<1>2. ASSUME NEW k \in 1..n, NEW l \in 1..n, p[k] = p[l] PROVE k = l
  <2>1. p[k] \in 1..n /\ <<p[k], p[k]>> \notin B
    BY <1>1 DEF StrictOrder
  <2>2. ~(k < l) /\ ~(l < k)
    BY <1>2, <2>1 DEF Arranges
  <2> QED BY <2>2
<1> DEFINE D == 1..n
<1>3. IsFiniteSet(D)
  BY FS_Interval
<1>4. p \in Injection(D, D)
  BY <1>1, <1>2, Zenon DEF Injection, IsInjective
<1> HIDE DEF D
<1>5. p \in Surjection(D, D)
  BY <1>3, <1>4, FS_Injection
<1>6. \A i \in D : \E k \in D : p[k] = i
  BY <1>5 DEF Surjection
<1> QED BY <1>2, <1>6 DEF D, Covers

(* The order the sort arranges a list's places in.                         *)
Ahead(list, key, ascending) ==
  {e \in (DOMAIN list) \X (DOMAIN list) :
     \/ SortsBefore(key[list[e[1]]], key[list[e[2]]], ascending)
     \/ ~SortsBefore(key[list[e[2]]], key[list[e[1]]], ascending) /\ e[1] < e[2]}

HasKeys(list, key) == \A i \in DOMAIN list : key[list[i]] \in Nat \cup {NoKey}

LEMMA AheadIsOrder ==
  ASSUME NEW S, NEW list \in Seq(S), NEW key, HasKeys(list, key), NEW ascending \in BOOLEAN
  PROVE  StrictOrder(Ahead(list, key, ascending), DOMAIN list)
<1> DEFINE D == DOMAIN list
           k(i) == key[list[i]]
           B(i, j) == SortsBefore(k(i), k(j), ascending) \/ (~SortsBefore(k(j), k(i), ascending) /\ i < j)
<1>1. \A i \in D : i \in Nat /\ k(i) \in Nat \cup {NoKey}
  BY DEF HasKeys
<1>2. \A i, j \in D : <<i, j>> \in Ahead(list, key, ascending) <=> B(i, j)
  BY DEF Ahead
<1> HIDE DEF k, D
<1>3. \A i \in D : ~B(i, i)
  BY <1>1 DEF SortsBefore, NoKey
<1>4. \A i, j \in D : i = j \/ B(i, j) \/ B(j, i)
  BY <1>1 DEF SortsBefore, NoKey
<1>5. ASSUME NEW i \in D, NEW j \in D, NEW l \in D, B(i, j), B(j, l) PROVE B(i, l)
  <2>1. CASE ascending
    BY <1>1, <1>5, <2>1 DEF SortsBefore, NoKey
  <2>2. CASE ~ascending
    BY <1>1, <1>5, <2>2 DEF SortsBefore, NoKey
  <2> QED BY <2>1, <2>2
<1> HIDE DEF B
<1>6. StrictOrder(Ahead(list, key, ascending), D)
  BY <1>2, <1>3, <1>4, <1>5 DEF StrictOrder
<1> QED BY <1>6 DEF D

(* sorted shows the list's elements as p arranges them.                    *)
IsSorting(p, sorted, list, key, ascending) ==
  /\ Arranges(p, Ahead(list, key, ascending), Len(list))
  /\ Len(sorted) = Len(list)
  /\ \A k \in 1..Len(list) : sorted[k] = list[p[k]]

(* SortResources arranges the list's elements in the order of their keys,  *)
(* each once.                                                              *)
LEMMA SortedIs ==
  ASSUME NEW S, NEW list \in Seq(S), NEW key, HasKeys(list, key), NEW ascending \in BOOLEAN
  PROVE  /\ SortResources(list, key, ascending) \in Seq(S)
         /\ \E p : IsSorting(p, SortResources(list, key, ascending), list, key, ascending)
<1> DEFINE n == Len(list)
           Before(i, j) == \/ SortsBefore(key[list[i]], key[list[j]], ascending)
                           \/ ~SortsBefore(key[list[j]], key[list[i]], ascending) /\ i < j
           Fit(p) == \A k, l \in DOMAIN list : k < l => Before(p[k], p[l])
           perm == CHOOSE p \in [DOMAIN list -> DOMAIN list] : Fit(p)
<1>1. n \in Nat /\ DOMAIN list = 1..n
  OBVIOUS
<1>2. \A p \in [DOMAIN list -> DOMAIN list] : Fit(p) <=> Arranges(p, Ahead(list, key, ascending), n)
  <2>1. \A i, j \in DOMAIN list : <<i, j>> \in Ahead(list, key, ascending) <=> Before(i, j)
    BY DEF Ahead
  <2> HIDE DEF Before, n
  <2> QED BY <1>1, <2>1 DEF Arranges
<1>3. \E p \in [DOMAIN list -> DOMAIN list] : Fit(p)
  <2>1. StrictOrder(Ahead(list, key, ascending), 1..n)
    BY AheadIsOrder, <1>1
  <2> HIDE DEF Fit, n
  <2>2. PICK p : Arranges(p, Ahead(list, key, ascending), n)
    BY <1>1, <2>1, Arrangement
  <2>3. p \in [DOMAIN list -> DOMAIN list]
    BY <2>2, <1>1 DEF Arranges
  <2> QED BY <1>2, <2>2, <2>3
<1>4. perm \in [DOMAIN list -> DOMAIN list] /\ Fit(perm)
  <2> HIDE DEF Fit
  <2> QED BY <1>3
<1>5. SortResources(list, key, ascending) = [k \in DOMAIN list |-> list[perm[k]]]
  BY Zenon DEF SortResources
<1> HIDE DEF Fit, perm
<1>6. Arranges(perm, Ahead(list, key, ascending), n)
  BY <1>2, <1>4
<1> DEFINE sorted == [k \in DOMAIN list |-> list[perm[k]]]
<1>7. sorted \in Seq(S) /\ Len(sorted) = n /\ \A k \in 1..n : sorted[k] = list[perm[k]]
  <2>1. \A k \in 1..n : list[perm[k]] \in S
    BY <1>1, <1>4
  <2> QED BY <1>1, <2>1
<1> HIDE DEF sorted
<1>8. IsSorting(perm, sorted, list, key, ascending)
  BY <1>6, <1>7 DEF IsSorting
<1>9. SortResources(list, key, ascending) = sorted
  BY <1>5 DEF sorted
<1> QED BY <1>7, <1>8, <1>9

-----------------------------------------------------------------------------
(* The page.                                                               *)

LEMMA TwoNumbers ==
  ASSUME NEW a \in Int, NEW b \in Int
  PROVE  /\ Max({a, b}) = IF a < b THEN b ELSE a
         /\ Min({a, b}) = IF a < b THEN a ELSE b
  BY DEF Max, Min

(* A page of a list shows the asked places the list has.                   *)
IsPage(page, list, startIndex, count) ==
  /\ Len(page) = IF startIndex > Len(list) THEN 0
                 ELSE IF startIndex + count > Len(list) THEN Len(list) - startIndex + 1 ELSE count
  /\ \A k \in 1..Len(page) : startIndex + k - 1 \in DOMAIN list /\ page[k] = list[startIndex + k - 1]

LEMMA PaginateIs ==
  ASSUME NEW S, NEW list \in Seq(S), NEW startIndex \in Nat \ {0}, NEW count \in Nat \ {0}
  PROVE  /\ Paginate(list, startIndex, count) \in Seq(S)
         /\ IsPage(Paginate(list, startIndex, count), list, startIndex, count)
<1> DEFINE last == Min({(startIndex - 1) + count, Len(list)})
           page == SubSeq(list, startIndex, last)
<1>1. last = IF startIndex - 1 + count < Len(list) THEN startIndex - 1 + count ELSE Len(list)
  <2> DEFINE a == (startIndex - 1) + count
             b == Len(list)
  <2>1. a \in Int /\ b \in Int
    OBVIOUS
  <2> HIDE DEF a, b
  <2>2. Min({a, b}) = IF a < b THEN a ELSE b
    BY <2>1, TwoNumbers
  <2> QED BY <2>2 DEF a, b
<1>2. last \in Int /\ last <= Len(list) /\ Len(list) \in Nat
  BY <1>1
<1>3. Paginate(list, startIndex, count) = page
  <2>1. ~(startIndex < 1) /\ ~(count <= 0) /\ (startIndex - 1) + 1 = startIndex
    OBVIOUS
  <2> QED BY <2>1 DEF Paginate
<1> HIDE DEF last
<1>4. \A i \in startIndex..last : list[i] \in S /\ i \in DOMAIN list
  BY <1>2
<1>5. /\ page \in Seq(S)
      /\ Len(page) = IF startIndex <= last THEN last - startIndex + 1 ELSE 0
      /\ \A i \in 1..(last - startIndex + 1) : page[i] = list[startIndex + i - 1]
  BY <1>2, <1>4, SubSeqProperties
<1> HIDE DEF page
<1>6. Len(page) = IF startIndex > Len(list) THEN 0
                  ELSE IF startIndex + count > Len(list) THEN Len(list) - startIndex + 1 ELSE count
  BY <1>1, <1>2, <1>5
<1>7. ASSUME NEW k \in 1..Len(page)
      PROVE  startIndex + k - 1 \in DOMAIN list /\ page[k] = list[startIndex + k - 1]
  <2>1. k \in 1..(last - startIndex + 1) /\ startIndex + k - 1 \in startIndex..last
    BY <1>2, <1>5
  <2> QED BY <2>1, <1>4, <1>5
<1> QED BY <1>3, <1>5, <1>6, <1>7 DEF IsPage

(* No window from the first place on wraps.                                *)
LEMMA FirstPage ==
  ASSUME NEW list, NEW count \in 0..MaxInt
  PROVE  ~WindowWraps(list, 1, count)
<1>1. Wrapped(count) = count /\ ~(count < 0)
  BY IntAssumption DEF Wrapped
<1>2. ~(1 < 1) /\ (1 - 1) + count = count
  OBVIOUS
<1> QED BY <1>1, <1>2 DEF WindowWraps

(* A page that is long enough is the list.                                 *)
LEMMA WholePage ==
  ASSUME NEW S, NEW list \in Seq(S), NEW count \in Nat \ {0}, Len(list) <= count
  PROVE  Paginate(list, 1, count) = list
<1> DEFINE page == Paginate(list, 1, count)
<1>1. page \in Seq(S) /\ IsPage(page, list, 1, count)
  BY PaginateIs
<1> HIDE DEF page
<1>2. Len(list) \in Nat /\ Len(page) = Len(list)
  BY <1>1 DEF IsPage
<1>3. \A k \in 1..Len(page) : page[k] = list[k]
  <2> SUFFICES ASSUME NEW k \in 1..Len(page) PROVE page[k] = list[k]
    OBVIOUS
  <2>1. page[k] = list[1 + k - 1] /\ 1 + k - 1 = k
    BY <1>1, <1>2 DEF IsPage
  <2> QED BY <2>1
<1>4. page = list
  BY <1>1, <1>2, <1>3, SeqEqual
<1> QED BY <1>4 DEF page

-----------------------------------------------------------------------------
(* Lists by rank.                                                          *)

Climbs(list, rank) == \A i, j \in DOMAIN list : i < j => rank[list[i]] < rank[list[j]]

(* There is one list by rank of what it holds.                             *)
LEMMA OneByRank ==
  ASSUME NEW S, NEW rank \in [S -> Nat], NEW a \in Seq(S), NEW b \in Seq(S),
         Climbs(a, rank), Climbs(b, rank), ToSet(a) = ToSet(b)
  PROVE  a = b
<1> DEFINE n == Len(a)
           m == Len(b)
<1>1. /\ n \in Nat /\ DOMAIN a = 1..n /\ \A i \in 1..n : a[i] \in S
      /\ m \in Nat /\ DOMAIN b = 1..m /\ \A i \in 1..m : b[i] \in S
  OBVIOUS
<1> HIDE DEF n, m
<1>2. /\ \A i, j \in 1..n : i < j => rank[a[i]] < rank[a[j]]
      /\ \A i, j \in 1..m : i < j => rank[b[i]] < rank[b[j]]
  BY <1>1 DEF Climbs
<1> DEFINE f == [i \in 1..n |-> CHOOSE j \in 1..m : b[j] = a[i]]
           g == [j \in 1..m |-> CHOOSE i \in 1..n : a[i] = b[j]]
<1>3. /\ \A i \in 1..n : \E j \in 1..m : b[j] = a[i]
      /\ \A j \in 1..m : \E i \in 1..n : a[i] = b[j]
  BY <1>1 DEF ToSet
<1>4. \A i \in 1..n : f[i] \in 1..m /\ b[f[i]] = a[i]
  BY <1>3
<1>5. \A j \in 1..m : g[j] \in 1..n /\ a[g[j]] = b[j]
  BY <1>3
<1>6. f = [i \in 1..n |-> f[i]] /\ g = [j \in 1..m |-> g[j]]
  OBVIOUS
<1> HIDE DEF f, g
<1>7. f \in [1..n -> Nat \ {0}] /\ g \in [1..m -> Nat \ {0}]
  <2>1. \A i \in 1..n : f[i] \in Nat \ {0}
    BY ONLY <1>1, <1>4
  <2>2. \A j \in 1..m : g[j] \in Nat \ {0}
    BY ONLY <1>1, <1>5
  <2>3. f \in [1..n -> Nat \ {0}]
    BY ONLY <1>6, <2>1
  <2>4. g \in [1..m -> Nat \ {0}]
    BY ONLY <1>6, <2>2
  <2> QED BY ONLY <2>3, <2>4
<1>8. ASSUME NEW i \in 1..n, NEW j \in 1..n, i < j PROVE f[i] < f[j]
  <2>1. rank[b[f[i]]] < rank[b[f[j]]] /\ f[i] \in 1..m /\ f[j] \in 1..m
    BY <1>2, <1>4, <1>8
  <2>2. rank[b[f[i]]] \in Nat /\ rank[b[f[j]]] \in Nat
    BY <1>1, <2>1
  <2>3. f[i] # f[j]
    BY <2>1, <2>2
  <2>4. ~(f[j] < f[i])
    <3>1. ~(rank[b[f[j]]] < rank[b[f[i]]])
      BY <2>1, <2>2
    <3> QED BY <1>2, <2>1, <3>1
  <2> QED BY <1>7, <2>1, <2>3, <2>4
<1>9. ASSUME NEW i \in 1..m, NEW j \in 1..m, i < j PROVE g[i] < g[j]
  <2>1. rank[a[g[i]]] < rank[a[g[j]]] /\ g[i] \in 1..n /\ g[j] \in 1..n
    BY <1>2, <1>5, <1>9
  <2>2. rank[a[g[i]]] \in Nat /\ rank[a[g[j]]] \in Nat
    BY <1>1, <2>1
  <2>3. g[i] # g[j]
    BY <2>1, <2>2
  <2>4. ~(g[j] < g[i])
    <3>1. ~(rank[a[g[j]]] < rank[a[g[i]]])
      BY <2>1, <2>2
    <3> QED BY <1>2, <2>1, <3>1
  <2> QED BY <1>7, <2>1, <2>3, <2>4
<1>10. \A i \in 1..n : i <= f[i]
  BY <1>1, <1>7, <1>8, Rising
<1>11. \A j \in 1..m : j <= g[j]
  BY <1>1, <1>7, <1>9, Rising
<1>12. \A i, j \in 1..n : a[i] = a[j] => i = j
  <2> SUFFICES ASSUME NEW i \in 1..n, NEW j \in 1..n, a[i] = a[j] PROVE i = j
    OBVIOUS
  <2>1. rank[a[i]] = rank[a[j]] /\ rank[a[i]] \in Nat
    BY <1>1
  <2>2. ~(i < j) /\ ~(j < i)
    BY <1>2, <2>1
  <2> QED BY <2>2
<1>13. \A i \in 1..n : f[i] = i
  <2> SUFFICES ASSUME NEW i \in 1..n PROVE f[i] = i
    OBVIOUS
  <2>1. f[i] \in 1..m /\ b[f[i]] = a[i]
    BY <1>4
  <2>2. g[f[i]] \in 1..n /\ a[g[f[i]]] = a[i]
    BY <1>5, <2>1
  <2>3. g[f[i]] = i
    BY <1>12, <2>2
  <2> QED BY <1>1, <1>10, <1>11, <2>1, <2>3
<1>14. \A i \in 1..n : i \in 1..m /\ b[i] = a[i]
  BY <1>4, <1>13
<1>15. \A j \in 1..m : j <= n
  BY <1>1, <1>5, <1>11
<1>16. n = m
  <2>1. n # 0 => n <= m
    <3> SUFFICES ASSUME n # 0 PROVE n <= m
      OBVIOUS
    <3>1. n \in 1..n
      BY <1>1
    <3> QED BY <1>1, <1>14, <3>1
  <2>2. m # 0 => m <= n
    <3> SUFFICES ASSUME m # 0 PROVE m <= n
      OBVIOUS
    <3>1. m \in 1..m
      BY <1>1
    <3> QED BY <1>15, <3>1
  <2> QED BY <1>1, <2>1, <2>2
<1> QED BY <1>14, <1>16, SeqEqual DEF n, m

(* Dropping elements of a list by rank leaves one.                         *)
LEMMA SelectedClimbs ==
  ASSUME NEW S, NEW list \in Seq(S), NEW rank, Climbs(list, rank), NEW places
  PROVE  Climbs(Selected(list, places), rank)
<1> DEFINE kept == Selected(list, places)
<1>1. PICK place : IsSelection(place, kept, list, places)
  BY SelectedIs
<1> HIDE DEF kept
<1>2. ASSUME NEW i \in DOMAIN kept, NEW j \in DOMAIN kept, i < j PROVE rank[kept[i]] < rank[kept[j]]
  <2>1. /\ kept[i] = list[place[i]] /\ kept[j] = list[place[j]] /\ place[i] < place[j]
        /\ place[i] \in DOMAIN list /\ place[j] \in DOMAIN list
    BY <1>1, <1>2 DEF IsSelection
  <2> QED BY <2>1 DEF Climbs
<1> QED BY <1>2 DEF Climbs, kept

RanksApart(list, rank) == \A i, j \in DOMAIN list : rank[list[i]] = rank[list[j]] => i = j

(* Sorting by a key that no two elements share makes a list by rank.       *)
LEMMA SortedClimbs ==
  ASSUME NEW S, NEW rank \in [S -> Nat], NEW list \in Seq(S), RanksApart(list, rank)
  PROVE  /\ SortResources(list, rank, TRUE) \in Seq(S)
         /\ Climbs(SortResources(list, rank, TRUE), rank)
         /\ ToSet(SortResources(list, rank, TRUE)) = ToSet(list)
<1> DEFINE out == SortResources(list, rank, TRUE)
           order == Ahead(list, rank, TRUE)
           n == Len(list)
<1>1. n \in Nat /\ DOMAIN list = 1..n /\ \A i \in 1..n : list[i] \in S /\ rank[list[i]] \in Nat
  OBVIOUS
<1>1r. \A i, j \in DOMAIN list : rank[list[i]] = rank[list[j]] => i = j
  BY DEF RanksApart
<1>2. HasKeys(list, rank)
  BY <1>1 DEF HasKeys
<1>3. out \in Seq(S)
  BY <1>2, SortedIs
<1>4. PICK p : IsSorting(p, out, list, rank, TRUE)
  BY <1>2, SortedIs
<1>5. StrictOrder(order, 1..n)
  BY <1>1, <1>2, AheadIsOrder
<1>6. Arranges(p, order, n) /\ Len(out) = n /\ \A k \in 1..n : out[k] = list[p[k]]
  BY <1>4 DEF IsSorting
<1>7. \A i, j \in 1..n : <<i, j>> \in order => rank[list[i]] < rank[list[j]]
  <2> SUFFICES ASSUME NEW i \in 1..n, NEW j \in 1..n, <<i, j>> \in order PROVE rank[list[i]] < rank[list[j]]
    OBVIOUS
  <2>1. \/ SortsBefore(rank[list[i]], rank[list[j]], TRUE)
        \/ ~SortsBefore(rank[list[j]], rank[list[i]], TRUE) /\ i < j
    BY DEF Ahead
  <2>2. rank[list[i]] \in Nat /\ rank[list[j]] \in Nat /\ (rank[list[i]] = rank[list[j]] => i = j)
    BY <1>1, <1>1r
  <2> QED BY <1>1, <2>1, <2>2 DEF SortsBefore, NoKey
<1> HIDE DEF out, order, n
<1>8. p \in [1..n -> 1..n] /\ \A i \in 1..n : \E k \in 1..n : p[k] = i
  <2>1. n \in Nat /\ StrictOrder(order, 1..n) /\ Arranges(p, order, n)
    BY <1>1, <1>5, <1>6
  <2>2. Covers(p, n)
    BY <2>1, ArrangesOnce
  <2> QED BY <1>6, <2>2 DEF Arranges, Covers
<1>9. DOMAIN out = 1..n
  BY <1>3, <1>6
<1>10. Climbs(out, rank)
  <2> SUFFICES ASSUME NEW k \in 1..n, NEW l \in 1..n, k < l PROVE rank[out[k]] < rank[out[l]]
    BY <1>9 DEF Climbs
  <2>1. <<p[k], p[l]>> \in order
    BY <1>6 DEF Arranges
  <2>2. p[k] \in 1..n /\ p[l] \in 1..n
    BY <1>8
  <2>3. rank[list[p[k]]] < rank[list[p[l]]]
    BY <1>7, <2>1, <2>2
  <2> QED BY <1>6, <2>3
<1>11. ToSet(out) = ToSet(list)
  <2>1. ASSUME NEW x \in ToSet(out) PROVE x \in ToSet(list)
    <3>1. PICK k \in 1..n : out[k] = x
      BY <1>9 DEF ToSet
    <3>2. x = list[p[k]] /\ p[k] \in DOMAIN list
      BY <1>1, <1>6, <1>8, <3>1
    <3> QED BY <3>2 DEF ToSet
  <2>2. ASSUME NEW x \in ToSet(list) PROVE x \in ToSet(out)
    <3>1. PICK i \in 1..n : list[i] = x
      BY <1>1 DEF ToSet
    <3>2. PICK k \in 1..n : p[k] = i
      BY <1>8
    <3>3. out[k] = x /\ k \in DOMAIN out
      BY <1>6, <1>9, <3>1, <3>2
    <3> QED BY <3>3 DEF ToSet
  <2> QED BY <2>1, <2>2
<1> QED BY <1>3, <1>10, <1>11 DEF out

(* Sorting a list whose elements have no key leaves it.                    *)
LEMMA UnkeyedStays ==
  ASSUME NEW S, NEW list \in Seq(S), NEW key, \A i \in DOMAIN list : key[list[i]] = NoKey
  PROVE  SortResources(list, key, TRUE) = list
<1> DEFINE out == SortResources(list, key, TRUE)
           order == Ahead(list, key, TRUE)
           n == Len(list)
<1>1. n \in Nat /\ DOMAIN list = 1..n
  OBVIOUS
<1>2. HasKeys(list, key)
  BY DEF HasKeys
<1>3. out \in Seq(S)
  BY <1>2, SortedIs
<1>4. PICK p : IsSorting(p, out, list, key, TRUE)
  BY <1>2, SortedIs
<1>5. StrictOrder(order, 1..n)
  BY <1>1, <1>2, AheadIsOrder
<1>6. Arranges(p, order, n) /\ Len(out) = n /\ \A k \in 1..n : out[k] = list[p[k]]
  BY <1>4 DEF IsSorting
<1>7. \A i, j \in 1..n : <<i, j>> \in order => i < j
  <2> SUFFICES ASSUME NEW i \in 1..n, NEW j \in 1..n, <<i, j>> \in order PROVE i < j
    OBVIOUS
  <2>1. \/ SortsBefore(key[list[i]], key[list[j]], TRUE)
        \/ ~SortsBefore(key[list[j]], key[list[i]], TRUE) /\ i < j
    BY DEF Ahead
  <2>2. key[list[i]] = NoKey /\ key[list[j]] = NoKey
    BY <1>1
  <2> QED BY <2>1, <2>2 DEF SortsBefore
<1> HIDE DEF out, order, n
<1>8. p \in [1..n -> 1..n] /\ \A i \in 1..n : \E k \in 1..n : p[k] = i
  <2>1. n \in Nat /\ StrictOrder(order, 1..n) /\ Arranges(p, order, n)
    BY <1>1, <1>5, <1>6
  <2>2. Covers(p, n)
    BY <2>1, ArrangesOnce
  <2> QED BY <1>6, <2>2 DEF Arranges, Covers
<1>9. \A k, l \in 1..n : k < l => p[k] < p[l]
  BY <1>6, <1>7, <1>8 DEF Arranges
<1> DEFINE q == [i \in 1..n |-> CHOOSE k \in 1..n : p[k] = i]
<1>10. \A i \in 1..n : q[i] \in 1..n /\ p[q[i]] = i
  BY <1>8
<1>11. q = [i \in 1..n |-> q[i]]
  OBVIOUS
<1> HIDE DEF q
<1>12. q \in [1..n -> Nat \ {0}] /\ p \in [1..n -> Nat \ {0}]
  BY <1>8, <1>10, <1>11
<1>13. \A k \in 1..n : k <= p[k]
  BY <1>1, <1>9, <1>12, Rising
<1>14. ASSUME NEW i \in 1..n, NEW j \in 1..n, i < j PROVE q[i] < q[j]
  <2>1. q[i] \in 1..n /\ q[j] \in 1..n
    BY <1>10, <1>14
  <2>2. p[q[i]] = i /\ p[q[j]] = j /\ i \in Nat /\ j \in Nat
    BY <1>10
  <2>3. q[i] # q[j]
    BY <1>14, <2>2
  <2>4. ~(q[j] < q[i])
    <3>1. ~(p[q[j]] < p[q[i]])
      BY <1>14, <2>2
    <3> QED BY <1>9, <2>1, <3>1
  <2> QED BY <2>1, <2>3, <2>4
<1>15. \A i \in 1..n : i <= q[i]
  BY <1>1, <1>12, <1>14, Rising
<1>16. \A k \in 1..n : p[k] = k
  <2> SUFFICES ASSUME NEW k \in 1..n PROVE p[k] = k
    OBVIOUS
  <2>1. q[k] \in 1..n /\ p[q[k]] = k /\ k <= q[k] /\ q[k] <= p[q[k]]
    BY <1>10, <1>13, <1>15
  <2>2. q[k] = k
    BY <2>1
  <2> QED BY <2>1, <2>2
<1>17. \A k \in 1..Len(out) : out[k] = list[k]
  BY <1>6, <1>16
<1>18. out = list
  BY <1>3, <1>6, <1>17, SeqEqual DEF n
<1> QED BY <1>18 DEF out


(* A finite set is listed once over.                                       *)
LEMMA SomeListOf ==
  ASSUME NEW T, IsFiniteSet(T)
  PROVE  SetToSeq(T) \in Seq(T) /\ ToSet(SetToSeq(T)) = T /\ Distinct(SetToSeq(T))
<1> DEFINE n == Cardinality(T)
           s == SetToSeq(T)
<1>1. n \in Nat
  BY FS_CardinalityType
<1>2. \E f \in [1..n -> T] : IsInjective(f)
  <2>1. ExistsBijection(1..n, T)
    BY FS_CardinalityType
  <2>2. PICK f : f \in Bijection(1..n, T)
    BY <2>1 DEF ExistsBijection
  <2> QED BY <2>2 DEF Bijection, Injection
<1>3. s \in [1..n -> T] /\ IsInjective(s)
  BY <1>2 DEF SetToSeq
<1> HIDE DEF n, s
<1>4. s \in Seq(T) /\ Len(s) = n /\ DOMAIN s = 1..n
  BY <1>1, <1>3
<1>5. Distinct(s)
  BY <1>3 DEF Distinct, IsInjective
<1>6. Cardinality(ToSet(s)) = n
  BY <1>4, <1>5, AsManyAsPlaces
<1>7. ToSet(s) \in SUBSET T
  BY <1>3, <1>4 DEF ToSet
<1>8. ToSet(s) = T
  BY <1>6, <1>7, FS_Subset DEF n
<1> QED BY <1>4, <1>5, <1>8 DEF s

(* What a list holds is finite.                                            *)
LEMMA ListedFinite ==
  ASSUME NEW S, NEW list \in Seq(S)
  PROVE  IsFiniteSet(ToSet(list))
<1> DEFINE D == 1..Len(list)
           T == ToSet(list)
<1>1. IsFiniteSet(D)
  BY FS_Interval
<1>2. list \in [D -> T] /\ \A x \in T : \E i \in D : list[i] = x
  BY DEF ToSet
<1> HIDE DEF D, T
<1>3. list \in Surjection(D, T)
  BY <1>2 DEF Surjection
<1> QED BY <1>1, <1>3, FS_Surjection DEF T

-----------------------------------------------------------------------------
(* Lists taken apart and put together.                                     *)

(* The places of the elements in a set.                                    *)
Places(list, T) == {i \in DOMAIN list : list[i] \in T}

(* Selecting from a selection.                                             *)
LEMMA SelectedTwice ==
  ASSUME NEW S, NEW list \in Seq(S), NEW P, NEW T
  PROVE  Selected(Selected(list, P), Places(Selected(list, P), T)) = Selected(list, P \cap Places(list, T))
<1> DEFINE Q == Places(Selected(list, P), T)
           R == P \cap Places(list, T)
           kept == Selected(list, P)
           twice == Selected(kept, Q)
           once == Selected(list, R)
<1>1. /\ kept \in Seq(S) /\ twice \in Seq(S) /\ once \in Seq(S)
  BY SelectedIs
<1>2. PICK at : IsSelection(at, kept, list, P)
  BY SelectedIs
<1>3. PICK to : IsSelection(to, twice, kept, Q)
  BY <1>1, SelectedIs
<1>4. PICK by : IsSelection(by, once, list, R)
  BY SelectedIs
<1>0. /\ Q = {k \in DOMAIN kept : kept[k] \in T}
      /\ R = {i \in P \cap DOMAIN list : list[i] \in T}
  BY DEF Places
<1> HIDE DEF kept, twice, once, Q, R
<1>5. /\ at \in [DOMAIN kept -> P \cap DOMAIN list] /\ \A k \in DOMAIN kept : kept[k] = list[at[k]]
      /\ \A k, l \in DOMAIN kept : k < l => at[k] < at[l]
      /\ \A i \in P \cap DOMAIN list : \E k \in DOMAIN kept : at[k] = i
  BY <1>2 DEF IsSelection
<1>6. /\ to \in [DOMAIN twice -> Q \cap DOMAIN kept] /\ \A k \in DOMAIN twice : twice[k] = kept[to[k]]
      /\ \A k, l \in DOMAIN twice : k < l => to[k] < to[l]
      /\ \A i \in Q \cap DOMAIN kept : \E k \in DOMAIN twice : to[k] = i
  BY <1>3 DEF IsSelection
<1>7. /\ by \in [DOMAIN once -> R \cap DOMAIN list] /\ \A k \in DOMAIN once : once[k] = list[by[k]]
      /\ \A k, l \in DOMAIN once : k < l => by[k] < by[l]
      /\ \A i \in R \cap DOMAIN list : \E k \in DOMAIN once : by[k] = i
  BY <1>4 DEF IsSelection
<1> DEFINE way == [k \in DOMAIN twice |-> at[to[k]]]
           rank == [i \in Nat |-> i]
<1>8. /\ DOMAIN twice = 1..Len(twice) /\ Len(twice) \in Nat
      /\ DOMAIN once = 1..Len(once) /\ Len(once) \in Nat
      /\ DOMAIN list \subseteq Nat
  BY <1>1
<1>9. \A k \in DOMAIN twice : to[k] \in DOMAIN kept /\ to[k] \in Q /\ kept[to[k]] \in T
  BY <1>0, <1>6
<1>10. \A k \in DOMAIN twice : way[k] \in R /\ way[k] \in DOMAIN list /\ way[k] \in Nat /\ twice[k] = list[way[k]]
  BY <1>0, <1>5, <1>6, <1>8, <1>9
<1>11. \A k \in DOMAIN once : by[k] \in R /\ by[k] \in DOMAIN list /\ by[k] \in Nat
  BY <1>7, <1>8
<1>12. way \in Seq(Nat) /\ by \in Seq(Nat) /\ DOMAIN way = DOMAIN twice /\ DOMAIN by = DOMAIN once
  <2>1. way \in [1..Len(twice) -> Nat]
    BY <1>8, <1>10
  <2>2. by \in [1..Len(once) -> Nat]
    BY <1>7, <1>8, <1>11
  <2> QED BY <2>1, <2>2, <1>8
<1>13. ToSet(way) = ToSet(by)
  <2>1. \A i \in R : i \in P \cap DOMAIN list /\ list[i] \in T
    BY <1>0
  <2>2. ASSUME NEW i \in R PROVE \E k \in DOMAIN way : way[k] = i
    <3>1. PICK l \in DOMAIN kept : at[l] = i
      BY <2>1, <1>5
    <3>2. l \in Q
      BY <3>1, <2>1, <1>0, <1>5
    <3>3. PICK k \in DOMAIN twice : to[k] = l
      BY <3>1, <3>2, <1>6
    <3> QED BY <3>1, <3>3
  <2>3. \A i \in R : \E k \in DOMAIN by : by[k] = i
    BY <2>1, <1>7, <1>12
  <2>4. ToSet(way) = R
    <3> HIDE DEF way
    <3> QED BY <2>2, <1>10, <1>12 DEF ToSet
  <2>5. ToSet(by) = R
    BY <2>3, <1>11, <1>12 DEF ToSet
  <2> QED BY <2>4, <2>5
<1>14. Climbs(way, rank) /\ Climbs(by, rank)
  <2>1. \A k, l \in DOMAIN twice : k < l => way[k] < way[l]
    BY <1>5, <1>6, <1>9
  <2> HIDE DEF way
  <2>2. Climbs(way, rank)
    BY <2>1, <1>10, <1>12 DEF Climbs
  <2>3. Climbs(by, rank)
    BY <1>7, <1>11, <1>12 DEF Climbs
  <2> QED BY <2>2, <2>3
<1>15. rank \in [Nat -> Nat]
  OBVIOUS
<1> HIDE DEF way, rank
<1>16. way = by
  BY <1>12, <1>13, <1>14, <1>15, OneByRank
<1>17. DOMAIN twice = DOMAIN once /\ \A k \in DOMAIN once : twice[k] = once[k]
  BY <1>7, <1>10, <1>12, <1>16
<1>18. twice = once
  BY <1>1, <1>17
<1> QED BY <1>18 DEF kept, twice, once, Q, R

(* A list of one list is flattened to that list.                           *)
LEMMA FlattenedOne ==
  ASSUME NEW seqs, DOMAIN seqs = 1..1, Len(seqs) = 1
  PROVE  FlattenSeq(seqs) = seqs[1]
<1> DEFINE Solves(h) == h = [i \in 1..1 |-> IF i = 1 THEN seqs[i] ELSE h[i - 1] \o seqs[i]]
           flatten == CHOOSE h : Solves(h)
           h1 == [i \in 1..1 |-> seqs[1]]
<1>1. FlattenSeq(seqs) = flatten[1]
  <2>1. FlattenSeq(seqs) = (CHOOSE h : h = [i \in 1..Len(seqs) |->
                              IF i = 1 THEN seqs[i] ELSE h[i - 1] \o seqs[i]])[Len(seqs)]
    BY DEF FlattenSeq
  <2> QED BY <2>1, Zenon
<1>2. Solves(h1)
  OBVIOUS
<1>3. Solves(flatten)
  <2> HIDE DEF Solves
  <2> QED BY <1>2
<1>4. flatten[1] = seqs[1]
  <2> HIDE DEF flatten
  <2> QED BY <1>3
<1> QED BY <1>1, <1>4

==============================================================================
