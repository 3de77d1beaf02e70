------------------------------ MODULE FoldFacts ------------------------------
(***************************************************************************)
(* What a fold over a sequence returns, for any operator: the models sum   *)
(* up, build paths and collapse orders with FoldLeft.  A module that       *)
(* proves something of such a fold instantiates this one with the operator *)
(* of the fold and cites the instances of the theorems.                    *)
(*                                                                         *)
(* Induction is stated over sets, {n \in Nat : P(n)} for a property P: that *)
(* is a formula of first-order logic.                                      *)
(***************************************************************************)
EXTENDS Integers, Sequences, SequencesExt, FiniteSetTheorems, TLAPS

CONSTANTS
  Op(_, _),   \* what an element does to the value so far
  Base        \* the value of the empty sequence

Fold(s) == FoldLeft(Op, Base, s)

-----------------------------------------------------------------------------
(* Induction *)

\* A set that holds 0 and the successors of its numbers holds every number.
LEMMA NatSetInduction ==
  ASSUME NEW S, 0 \in S, \A n \in Nat : n \in S => n + 1 \in S
  PROVE  \A n \in Nat : n \in S
<1> DEFINE R == OpToRel(<, Nat)
           T == {n \in Nat : n \notin S}
<1>1. \A x, y \in Nat : <<x, y>> \in R <=> x < y
  BY DEF OpToRel
<1>2. IsWellFoundedOn(R, Nat)
  BY NatLessThanWellFounded
<1> HIDE DEF R
<1> SUFFICES ASSUME T # {} PROVE FALSE
  OBVIOUS
<1>4. PICK x \in T : \A y \in T : ~(<<y, x>> \in R)
  BY <1>2, WFMin
<1>5. x \in Nat /\ x # 0 /\ x - 1 \in Nat /\ x - 1 < x
  BY <1>4
<1>6. x - 1 \notin T
  BY <1>1, <1>4, <1>5
<1> QED BY <1>4, <1>5, <1>6

-----------------------------------------------------------------------------
(* The recursion of a fold *)

\* The function that MapThenFoldSet defines by recursion over sets of positions.
Runs(iter, s, n) ==
  iter = [t \in SUBSET (1..n) |->
            IF t = {} THEN Base ELSE Op(iter[t \ {Max(t)}], s[Max(t)])]

\* The last position is the greatest.
LEMMA MaxOfPrefix ==
  ASSUME NEW k \in Nat, NEW t \in SUBSET (1..(k + 1)), k + 1 \in t
  PROVE  Max(t) = k + 1
<1>1. \A y \in t : k + 1 >= y
  OBVIOUS
<1>2. \A x \in t : (\A y \in t : x >= y) => x = k + 1
  OBVIOUS
<1> QED BY <1>1, <1>2 DEF Max

\* The recursion has a solution for every length.
LEMMA RunExists ==
  ASSUME NEW s, NEW n \in Nat
  PROVE  \E iter : Runs(iter, s, n)
<1> DEFINE S == {k \in Nat : \E iter : Runs(iter, s, k)}
<1>1. 0 \in S
  <2> DEFINE h == [t \in SUBSET (1..0) |-> Base]
  <2>1. \A t \in SUBSET (1..0) : t = {}
    OBVIOUS
  <2>2. Runs(h, s, 0)
    BY <2>1 DEF Runs
  <2> QED BY <2>2
<1>2. ASSUME NEW k \in Nat, k \in S PROVE k + 1 \in S
  <2>1. PICK h : Runs(h, s, k)
    BY <1>2
  <2> DEFINE g == [t \in SUBSET (1..(k + 1)) |->
                     IF k + 1 \in t THEN Op(h[t \ {k + 1}], s[k + 1]) ELSE h[t]]
  <2>2. ASSUME NEW t \in SUBSET (1..(k + 1))
        PROVE  g[t] = IF t = {} THEN Base ELSE Op(g[t \ {Max(t)}], s[Max(t)])
    <3>1. CASE k + 1 \in t
      <4>1. Max(t) = k + 1
        BY <3>1, MaxOfPrefix
      <4>2. t \ {k + 1} \in SUBSET (1..(k + 1)) /\ k + 1 \notin t \ {k + 1}
        OBVIOUS
      <4>3. g[t \ {k + 1}] = h[t \ {k + 1}]
        BY <4>2
      <4> QED BY <3>1, <4>1, <4>3
    <3>2. CASE k + 1 \notin t
      <4>1. t \in SUBSET (1..k)
        BY <3>2
      <4>2. h[t] = IF t = {} THEN Base ELSE Op(h[t \ {Max(t)}], s[Max(t)])
        BY <2>1, <4>1 DEF Runs
      <4>3. t \ {Max(t)} \in SUBSET (1..(k + 1)) /\ k + 1 \notin t \ {Max(t)}
        BY <3>2
      <4>4. g[t \ {Max(t)}] = h[t \ {Max(t)}]
        BY <4>3
      <4>5. g[t] = h[t]
        BY <3>2
      <4> QED BY <4>2, <4>4, <4>5
    <3> QED BY <3>1, <3>2
  <2>3. Runs(g, s, k + 1)
    <3> DEFINE gg == [t \in SUBSET (1..(k + 1)) |->
                        IF t = {} THEN Base ELSE Op(g[t \ {Max(t)}], s[Max(t)])]
    <3>1. g = gg
      <4> SUFFICES ASSUME NEW t \in SUBSET (1..(k + 1)) PROVE g[t] = gg[t]
        OBVIOUS
      <4> QED BY <2>2
    <3> QED BY <3>1 DEF Runs
  <2> QED BY <2>3
<1>3. \A k \in Nat : k \in S
  <2> HIDE DEF S
  <2> QED BY <1>1, <1>2, NatSetInduction
<1> QED BY <1>3

\* A fold is a solution of its recursion, taken at all the positions.
LEMMA FoldRuns ==
  ASSUME NEW s, NEW n \in Nat, DOMAIN s = 1..n
  PROVE  \E iter : Runs(iter, s, n) /\ Fold(s) = iter[1..n]
<1> DEFINE iter == CHOOSE iter : Runs(iter, s, n)
<1>1. Runs(iter, s, n)
  BY RunExists
<1>2. Fold(s) = iter[1..n]
  BY DEF Fold, FoldLeft, MapThenFoldSet, Runs
<1> QED BY <1>1, <1>2
\* A solution takes the positions from the first to the last.
LEMMA RunStep ==
  ASSUME NEW s, NEW n \in Nat, NEW iter, Runs(iter, s, n)
  PROVE  /\ iter[1..0] = Base
         /\ \A k \in 0..(n - 1) : iter[1..(k + 1)] = Op(iter[1..k], s[k + 1])
<1>1. ASSUME NEW t \in SUBSET (1..n)
      PROVE  iter[t] = IF t = {} THEN Base ELSE Op(iter[t \ {Max(t)}], s[Max(t)])
  BY DEF Runs
<1>2. iter[1..0] = Base
  <2>1. 1..0 \in SUBSET (1..n) /\ 1..0 = {}
    OBVIOUS
  <2> QED BY <1>1, <2>1
<1>3. ASSUME NEW k \in 0..(n - 1)
      PROVE  iter[1..(k + 1)] = Op(iter[1..k], s[k + 1])
  <2>1. k \in Nat /\ 1..(k + 1) \in SUBSET (1..n) /\ k + 1 \in 1..(k + 1)
    OBVIOUS
  <2>2. Max(1..(k + 1)) = k + 1
    BY <2>1, MaxOfPrefix
  <2>3. (1..(k + 1)) \ {k + 1} = 1..k /\ 1..(k + 1) # {}
    BY <2>1
  <2> QED BY <1>1, <2>1, <2>2, <2>3
<1> QED BY <1>2, <1>3

-----------------------------------------------------------------------------
(* Facts to cite *)

\* The fold of no element.
THEOREM FoldEmpty == Fold(<<>>) = Base
<1>1. DOMAIN <<>> = 1..0
  OBVIOUS
<1>2. PICK iter : Runs(iter, <<>>, 0) /\ Fold(<<>>) = iter[1..0]
  BY <1>1, FoldRuns
<1> QED BY <1>2, RunStep

\* The fold of one element more.
THEOREM FoldAppend ==
  \A S : \A s \in Seq(S), x \in S : Fold(Append(s, x)) = Op(Fold(s), x)
<1> SUFFICES ASSUME NEW S, NEW s \in Seq(S), NEW x \in S
             PROVE  Fold(Append(s, x)) = Op(Fold(s), x)
  OBVIOUS
<1> DEFINE n == Len(s)
           l == Append(s, x)
<1>1. /\ n \in Nat /\ DOMAIN s = 1..n /\ DOMAIN l = 1..(n + 1)
      /\ l[n + 1] = x /\ \A k \in 1..n : l[k] = s[k]
  OBVIOUS
<1> HIDE DEF n, l
<1>2. PICK f : Runs(f, s, n) /\ Fold(s) = f[1..n]
  BY <1>1, FoldRuns
<1>3. PICK g : Runs(g, l, n + 1) /\ Fold(l) = g[1..(n + 1)]
  BY <1>1, FoldRuns
<1>4. /\ f[1..0] = Base
      /\ \A k \in 0..(n - 1) : f[1..(k + 1)] = Op(f[1..k], s[k + 1])
  BY <1>1, <1>2, RunStep
<1>5. /\ g[1..0] = Base
      /\ \A k \in 0..n : g[1..(k + 1)] = Op(g[1..k], l[k + 1])
  <2>1. n + 1 \in Nat /\ (n + 1) - 1 = n
    BY <1>1
  <2> QED BY <1>3, <2>1, RunStep
<1> DEFINE T == {k \in Nat : k <= n => f[1..k] = g[1..k]}
<1>6. 0 \in T
  BY <1>4, <1>5
<1>7. \A k \in Nat : k \in T => k + 1 \in T
  <2> SUFFICES ASSUME NEW k \in Nat, k \in T, k + 1 <= n
               PROVE  f[1..(k + 1)] = g[1..(k + 1)]
    OBVIOUS
  <2>1. k \in 0..(n - 1) /\ k \in 0..n /\ k + 1 \in 1..n
    BY <1>1
  <2> QED BY <1>1, <1>4, <1>5, <2>1
<1>8. n \in T
  <2> HIDE DEF T
  <2> QED BY <1>1, <1>6, <1>7, NatSetInduction
<1> QED BY <1>1, <1>2, <1>3, <1>5, <1>8 DEF l

\* A set that holds the empty sequence and every longer sequence by one element
\* of those it holds, holds every sequence.
THEOREM SeqInduction ==
  \A S, T :
    /\ <<>> \in T
    /\ \A s \in Seq(S), x \in S : s \in T => Append(s, x) \in T
    => Seq(S) \subseteq T
<1> SUFFICES ASSUME NEW S, NEW T, <<>> \in T,
                    \A s \in Seq(S), x \in S : s \in T => Append(s, x) \in T
             PROVE  Seq(S) \subseteq T
  OBVIOUS
<1> DEFINE N == {n \in Nat : \A s \in Seq(S) : Len(s) = n => s \in T}
<1>1. 0 \in N
  BY \A s \in Seq(S) : Len(s) = 0 => s = <<>>
<1>2. ASSUME NEW n \in Nat, n \in N, NEW s \in Seq(S), Len(s) = n + 1
      PROVE  s \in T
  <2> DEFINE front == SubSeq(s, 1, n)
  <2>1. front \in Seq(S) /\ Len(front) = n /\ s[n + 1] \in S
    BY <1>2
  <2>2. s = Append(front, s[n + 1])
    BY <1>2
  <2> QED BY <1>2, <2>1, <2>2
<1>3. \A n \in Nat : n \in N
  <2> HIDE DEF N
  <2>1. \A n \in Nat : n \in N => n + 1 \in N
    BY <1>2 DEF N
  <2> QED BY <1>1, <2>1, NatSetInduction
<1> QED BY <1>3

\* A set closed under the operator holds the fold.
THEOREM FoldType ==
  \A S, T :
    /\ Base \in T
    /\ \A a \in T, x \in S : Op(a, x) \in T
    => \A s \in Seq(S) : Fold(s) \in T
<1> SUFFICES ASSUME NEW S, NEW T, Base \in T, \A a \in T, x \in S : Op(a, x) \in T
             PROVE  \A s \in Seq(S) : Fold(s) \in T
  OBVIOUS
<1> DEFINE U == {s \in Seq(S) : Fold(s) \in T}
<1>1. <<>> \in U
  BY FoldEmpty
<1>2. \A s \in Seq(S), x \in S : s \in U => Append(s, x) \in U
  BY FoldAppend
<1> HIDE DEF U
<1>3. Seq(S) \subseteq U
  BY <1>1, <1>2, SeqInduction
<1> QED BY <1>3 DEF U

-----------------------------------------------------------------------------
(* The sequences of a sequence, one after the other *)

\* The function that FlattenSeq defines by recursion.
Joins(h, ss, n) == h = [i \in 1..n |-> IF i = 1 THEN ss[i] ELSE h[i - 1] \o ss[i]]

\* The recursion has a solution for every length.
LEMMA JoinsExist ==
  ASSUME NEW ss, NEW n \in Nat
  PROVE  \E h : Joins(h, ss, n)
<1> DEFINE S == {k \in Nat : \E h : Joins(h, ss, k)}
<1>1. 0 \in S
  <2>1. Joins([i \in 1..0 |-> 0], ss, 0)
    BY DEF Joins
  <2> QED BY <2>1
<1>2. ASSUME NEW k \in Nat, k \in S PROVE k + 1 \in S
  <2>1. PICK h : Joins(h, ss, k)
    BY <1>2
  <2> DEFINE last == IF k = 0 THEN ss[1] ELSE h[k] \o ss[k + 1]
             g == [i \in 1..(k + 1) |-> IF i = k + 1 THEN last ELSE h[i]]
             gg == [i \in 1..(k + 1) |-> IF i = 1 THEN ss[i] ELSE g[i - 1] \o ss[i]]
  <2>2. ASSUME NEW i \in 1..(k + 1) PROVE g[i] = gg[i]
    <3>1. CASE i = k + 1
      <4>1. CASE k = 0
        BY <3>1, <4>1
      <4>2. CASE k # 0
        <5>1. k \in 1..(k + 1) /\ k # k + 1 /\ i # 1 /\ i - 1 = k
          BY <3>1, <4>2
        <5>2. g[k] = h[k] /\ g[i] = last
          BY <3>1, <5>1
        <5> QED BY <3>1, <4>2, <5>1, <5>2
      <4> QED BY <4>1, <4>2
    <3>2. CASE i # k + 1
      <4>1. i \in 1..k
        BY <3>2
      <4>2. h[i] = IF i = 1 THEN ss[i] ELSE h[i - 1] \o ss[i]
        BY <2>1, <4>1 DEF Joins
      <4>3. g[i] = h[i]
        BY <3>2
      <4>4. i # 1 => i - 1 \in 1..(k + 1) /\ i - 1 # k + 1
        BY <4>1
      <4>5. i # 1 => g[i - 1] = h[i - 1]
        BY <4>4
      <4> QED BY <4>2, <4>3, <4>5
    <3> QED BY <3>1, <3>2
  <2>3. g = gg
    <3> HIDE DEF last
    <3>1. DOMAIN g = DOMAIN gg
      OBVIOUS
    <3> QED BY <2>2, <3>1
  <2>4. Joins(g, ss, k + 1)
    BY <2>3 DEF Joins
  <2> QED BY <2>4
<1>3. \A k \in Nat : k \in S
  <2> HIDE DEF S
  <2> QED BY <1>1, <1>2, NatSetInduction
<1> QED BY <1>3

\* Where an element of the flattened sequence is from.
IsPlaceOf(p, flat, ss, n) ==
  /\ DOMAIN p = 1..Len(flat)
  /\ \A k \in 1..Len(flat) :
       /\ p[k][1] \in 1..n /\ p[k][2] \in 1..Len(ss[p[k][1]])
       /\ flat[k] = ss[p[k][1]][p[k][2]]
  /\ \A k, l \in 1..Len(flat) : p[k] = p[l] => k = l

\* One sequence more has its places after the others.
LEMMA PlacesAppend ==
  ASSUME NEW S, NEW ss \in Seq(Seq(S)), NEW k \in Nat, k + 1 \in 1..Len(ss),
         NEW flat \in Seq(S), NEW p, IsPlaceOf(p, flat, ss, k)
  PROVE  \E q : IsPlaceOf(q, flat \o ss[k + 1], ss, k + 1)
<1> DEFINE m == Len(flat)
           s == ss[k + 1]
           n == Len(s)
           both == flat \o s
           q == [i \in 1..(m + n) |-> IF i <= m THEN p[i] ELSE <<k + 1, i - m>>]
<1>1. s \in Seq(S) /\ m \in Nat /\ n \in Nat
  OBVIOUS
<1>2. /\ both \in Seq(S) /\ Len(both) = m + n
      /\ \A i \in 1..m : both[i] = flat[i]
      /\ \A i \in 1..(m + n) : i > m => both[i] = s[i - m]
  BY <1>1
<1>3. /\ DOMAIN p = 1..m
      /\ \A i \in 1..m : /\ p[i][1] \in 1..k /\ p[i][2] \in 1..Len(ss[p[i][1]])
                         /\ flat[i] = ss[p[i][1]][p[i][2]]
      /\ \A i, j \in 1..m : p[i] = p[j] => i = j
  BY DEF IsPlaceOf
<1>4. /\ DOMAIN q = 1..(m + n)
      /\ \A i \in 1..(m + n) : q[i] = IF i <= m THEN p[i] ELSE <<k + 1, i - m>>
  OBVIOUS
<1> HIDE DEF both, q, m, n
<1>5. ASSUME NEW i \in 1..(m + n)
      PROVE  /\ q[i][1] \in 1..(k + 1) /\ q[i][2] \in 1..Len(ss[q[i][1]])
             /\ both[i] = ss[q[i][1]][q[i][2]]
  <2>1. CASE i <= m
    <3>1. i \in 1..m /\ q[i] = p[i]
      BY <1>1, <1>4, <2>1
    <3> QED BY <1>2, <1>3, <3>1
  <2>2. CASE ~(i <= m)
    <3>1. q[i] = <<k + 1, i - m>> /\ i - m \in 1..n /\ i > m
      BY <1>1, <1>4, <2>2
    <3>2. q[i][1] = k + 1 /\ q[i][2] = i - m
      BY <3>1
    <3>3. both[i] = s[i - m]
      BY <1>2, <3>1
    <3> QED BY <3>1, <3>2, <3>3 DEF n
  <2> QED BY <2>1, <2>2
<1>6. ASSUME NEW i \in 1..(m + n), NEW j \in 1..(m + n), q[i] = q[j]
      PROVE  i = j
  <2>1. ASSUME NEW x \in 1..(m + n), NEW y \in 1..(m + n), x <= m, y > m
        PROVE  q[x] # q[y]
    <3>1. x \in 1..m /\ q[x] = p[x] /\ q[y] = <<k + 1, y - m>>
      BY <1>1, <1>4, <2>1
    <3>2. q[x][1] # k + 1 /\ q[y][1] = k + 1
      BY <1>3, <3>1
    <3> QED BY <3>2
  <2>2. CASE i <= m /\ j <= m
    <3>1. i \in 1..m /\ j \in 1..m /\ q[i] = p[i] /\ q[j] = p[j]
      BY <1>1, <1>4, <2>2
    <3> QED BY <1>3, <1>6, <3>1
  <2>3. CASE i > m /\ j > m
    <3>1. <<k + 1, i - m>> = <<k + 1, j - m>>
      BY <1>1, <1>4, <1>6, <2>3
    <3> QED BY <1>1, <2>3, <3>1
  <2> QED BY <1>1, <1>6, <2>1, <2>2, <2>3
<1>7. IsPlaceOf(q, both, ss, k + 1)
  BY <1>2, <1>4, <1>5, <1>6 DEF IsPlaceOf
<1> QED BY <1>7 DEF both

\* What is flattened is a sequence of the elements, and each place of each sequence is
\* at one place of it.
THEOREM FlattenPlaces ==
  \A S : \A ss \in Seq(Seq(S)) :
    /\ FlattenSeq(ss) \in Seq(S)
    /\ \E p : IsPlaceOf(p, FlattenSeq(ss), ss, Len(ss))
<1> SUFFICES ASSUME NEW S, NEW ss \in Seq(Seq(S))
             PROVE  /\ FlattenSeq(ss) \in Seq(S)
                    /\ \E p : IsPlaceOf(p, FlattenSeq(ss), ss, Len(ss))
  OBVIOUS
<1> DEFINE n == Len(ss)
<1>1. n \in Nat
  OBVIOUS
<1>2. CASE n = 0
  <2>1. FlattenSeq(ss) = <<>> /\ <<>> \in Seq(S)
    BY <1>2 DEF FlattenSeq
  <2>2. IsPlaceOf(<<>>, <<>>, ss, n)
    BY DEF IsPlaceOf
  <2> QED BY <2>1, <2>2
<1>3. CASE n # 0
  <2> DEFINE h == CHOOSE h : Joins(h, ss, n)
             T == {k \in Nat : k + 1 <= n =>
                     h[k + 1] \in Seq(S) /\ \E p : IsPlaceOf(p, h[k + 1], ss, k + 1)}
  <2>1. Joins(h, ss, n)
    BY <1>1, JoinsExist
  <2>2. FlattenSeq(ss) = h[n]
    BY <1>3 DEF FlattenSeq, Joins
  <2> HIDE DEF h
  <2>3. \A i \in 1..n : h[i] = IF i = 1 THEN ss[i] ELSE h[i - 1] \o ss[i]
    BY <2>1 DEF Joins
  <2>4. 0 \in T
    <3> DEFINE p == [k \in 1..Len(ss[1]) |-> <<1, k>>]
    <3>1. h[1] = ss[1] /\ ss[1] \in Seq(S)
      BY <1>1, <1>3, <2>3
    <3>2. IsPlaceOf(p, ss[1], ss, 1)
      BY DEF IsPlaceOf
    <3> QED BY <3>1, <3>2
  <2>5. ASSUME NEW k \in Nat, k \in T PROVE k + 1 \in T
    <3> DEFINE l == k + 1
    <3> SUFFICES ASSUME l + 1 <= n
                 PROVE  /\ h[l + 1] \in Seq(S)
                        /\ \E p : IsPlaceOf(p, h[l + 1], ss, l + 1)
      OBVIOUS
    <3>1. l \in Nat /\ l + 1 \in 1..n /\ l + 1 # 1 /\ (l + 1) - 1 = l /\ l <= n
      BY <1>1
    <3>2. h[l + 1] = h[l] \o ss[l + 1]
      BY <2>3, <3>1
    <3>3. h[l] \in Seq(S) /\ ss[l + 1] \in Seq(S)
      BY <2>5, <3>1
    <3>4. PICK p : IsPlaceOf(p, h[l], ss, l)
      BY <2>5, <3>1
    <3> HIDE DEF l
    <3>5. \E q : IsPlaceOf(q, h[l] \o ss[l + 1], ss, l + 1)
      BY <3>1, <3>3, <3>4, PlacesAppend
    <3> QED BY <3>2, <3>3, <3>5
  <2>6. n - 1 \in T
    <3> HIDE DEF T
    <3>1. n - 1 \in Nat
      BY <1>1, <1>3
    <3> QED BY <2>4, <2>5, <3>1, NatSetInduction
  <2> QED BY <1>1, <1>3, <2>2, <2>6
<1> QED BY <1>2, <1>3

\* No element of a flattened sequence is new.
THEOREM FlattenFrom ==
  \A S : \A ss \in Seq(Seq(S)) :
    \A k \in 1..Len(FlattenSeq(ss)) :
      \E i \in 1..Len(ss) : \E j \in 1..Len(ss[i]) : FlattenSeq(ss)[k] = ss[i][j]
<1> SUFFICES ASSUME NEW S, NEW ss \in Seq(Seq(S)), NEW k \in 1..Len(FlattenSeq(ss))
             PROVE  \E i \in 1..Len(ss) : \E j \in 1..Len(ss[i]) :
                      FlattenSeq(ss)[k] = ss[i][j]
  OBVIOUS
<1>1. PICK p : IsPlaceOf(p, FlattenSeq(ss), ss, Len(ss))
  BY FlattenPlaces
<1>2. /\ p[k][1] \in 1..Len(ss) /\ p[k][2] \in 1..Len(ss[p[k][1]])
      /\ FlattenSeq(ss)[k] = ss[p[k][1]][p[k][2]]
  BY <1>1 DEF IsPlaceOf
<1> QED BY <1>2

-----------------------------------------------------------------------------
(* Sums of functions over finite sets *)

SumOf(f) == FoldFunction(+, 0, f)

Picked(t) == CHOOSE x \in t : TRUE

\* The value of one set in the recursion, from those of the smaller ones.
SumStep(h, f, t) == IF t = {} THEN 0 ELSE f[Picked(t)] + h[t \ {Picked(t)}]

Sums(h, f, S) == h = [t \in SUBSET S |-> SumStep(h, f, t)]

\* What a set of the recursion is without the element picked.
LEMMA PickedLess ==
  ASSUME NEW S, IsFiniteSet(S), NEW t \in SUBSET S, t # {}
  PROVE  /\ Picked(t) \in t /\ t \ {Picked(t)} \in SUBSET S
         /\ Cardinality(t) \in Nat \ {0}
         /\ Cardinality(t \ {Picked(t)}) = Cardinality(t) - 1
<1>1. Picked(t) \in t
  BY DEF Picked
<1>2. IsFiniteSet(t) /\ Cardinality(t) \in Nat
  BY FS_Subset, FS_CardinalityType
<1>3. Cardinality(t) # 0
  BY <1>2, FS_EmptySet
<1> QED BY <1>1, <1>2, <1>3, FS_RemoveElement

\* A set of sets closed under adding one to the cardinality holds every subset.
LEMMA SubsetInduction ==
  ASSUME NEW S, IsFiniteSet(S), NEW T, {} \in T,
         \A t \in SUBSET S : t # {} /\ t \ {Picked(t)} \in T => t \in T
  PROVE  SUBSET S \subseteq T
<1> DEFINE N == {n \in Nat : \A t \in SUBSET S : Cardinality(t) = n => t \in T}
<1>1. 0 \in N
  <2> SUFFICES ASSUME NEW t \in SUBSET S, Cardinality(t) = 0 PROVE t \in T
    OBVIOUS
  <2>1. t = {}
    BY PickedLess
  <2> QED BY <2>1
<1>2. ASSUME NEW n \in Nat, n \in N PROVE n + 1 \in N
  <2> SUFFICES ASSUME NEW t \in SUBSET S, Cardinality(t) = n + 1 PROVE t \in T
    OBVIOUS
  <2>1. t # {}
    BY FS_EmptySet
  <2>2. t \ {Picked(t)} \in SUBSET S /\ Cardinality(t \ {Picked(t)}) = n
    BY <2>1, PickedLess
  <2>3. t \ {Picked(t)} \in T
    BY <1>2, <2>2
  <2> QED BY <2>1, <2>3
<1>3. \A n \in Nat : n \in N
  <2> HIDE DEF N
  <2> QED BY <1>1, <1>2, NatSetInduction
<1> SUFFICES ASSUME NEW t \in SUBSET S PROVE t \in T
  OBVIOUS
<1>4. Cardinality(t) \in Nat
  BY FS_Subset, FS_CardinalityType
<1> QED BY <1>3, <1>4

\* The recursion has a solution.
LEMMA SumsExist ==
  ASSUME NEW S, IsFiniteSet(S), NEW f
  PROVE  \E h : Sums(h, f, S)
<1> DEFINE Upto(h, n) == \A t \in SUBSET S : Cardinality(t) <= n => h[t] = SumStep(h, f, t)
           N == {n \in Nat : \E h : Upto(h, n)}
<1>1. 0 \in N
  <2> DEFINE h == [t \in SUBSET S |-> 0]
  <2>1. ASSUME NEW t \in SUBSET S, t # {} PROVE ~(Cardinality(t) <= 0)
    <3>1. Cardinality(t) \in Nat \ {0}
      BY <2>1, PickedLess
    <3> QED BY <3>1
  <2>2. Upto(h, 0)
    BY <2>1 DEF SumStep
  <2> QED BY <2>2
<1>2. ASSUME NEW n \in Nat, n \in N PROVE n + 1 \in N
  <2>1. PICK h : Upto(h, n)
    BY <1>2
  <2> DEFINE g == [t \in SUBSET S |->
                     IF Cardinality(t) = n + 1 THEN SumStep(h, f, t) ELSE h[t]]
  <2>2. ASSUME NEW t \in SUBSET S, Cardinality(t) <= n + 1
        PROVE  g[t] = SumStep(g, f, t)
    <3>1. CASE t = {}
      <4>1. Cardinality(t) = 0 /\ 0 <= n /\ 0 # n + 1
        BY <3>1, FS_EmptySet
      <4>2. h[t] = SumStep(h, f, t)
        BY <2>1, <4>1
      <4>3. g[t] = h[t]
        BY <4>1
      <4> QED BY <3>1, <4>2, <4>3 DEF SumStep
    <3>2. CASE t # {}
      <4> DEFINE u == t \ {Picked(t)}
      <4>1. /\ u \in SUBSET S /\ Cardinality(t) \in Nat
            /\ Cardinality(u) = Cardinality(t) - 1
        BY <3>2, PickedLess
      <4> HIDE DEF u
      <4>2. g[u] = h[u]
        BY <2>2, <4>1
      <4>3. SumStep(g, f, t) = SumStep(h, f, t)
        BY <4>2 DEF SumStep, u
      <4>4. g[t] = SumStep(h, f, t)
        BY <2>1, <2>2, <4>1
      <4> QED BY <4>3, <4>4
    <3> QED BY <3>1, <3>2
  <2> HIDE DEF g
  <2> QED BY <2>2
<1>3. \A n \in Nat : n \in N
  <2> HIDE DEF N
  <2> QED BY <1>1, <1>2, NatSetInduction
<1>4. Cardinality(S) \in Nat /\ \A t \in SUBSET S : Cardinality(t) \in Nat /\ Cardinality(t) <= Cardinality(S)
  BY FS_Subset, FS_CardinalityType
<1>5. PICK h : Upto(h, Cardinality(S))
  BY <1>3, <1>4
<1> DEFINE g == [t \in SUBSET S |-> h[t]]
<1>6. ASSUME NEW t \in SUBSET S PROVE g[t] = SumStep(g, f, t)
  <2>1. h[t] = SumStep(h, f, t)
    BY <1>4, <1>5
  <2>2. SumStep(g, f, t) = SumStep(h, f, t)
    BY PickedLess DEF SumStep
  <2> QED BY <2>1, <2>2
<1>7. g = [t \in SUBSET S |-> SumStep(g, f, t)]
  <2> DEFINE k == [t \in SUBSET S |-> SumStep(g, f, t)]
  <2>1. \A t \in SUBSET S : g[t] = k[t]
    BY <1>6
  <2> HIDE DEF k
  <2>2. g = k
    BY <2>1 DEF k
  <2> QED BY <2>2 DEF k
<1> QED BY <1>7 DEF Sums

\* A sum is a solution of its recursion, taken at the whole domain.
LEMMA SumOfSums ==
  ASSUME NEW S, IsFiniteSet(S), NEW f, DOMAIN f = S
  PROVE  \E h : /\ SumOf(f) = h[S]
                /\ \A t \in SUBSET S : h[t] = SumStep(h, f, t)
<1> DEFINE h == CHOOSE h : Sums(h, f, S)
<1>1. Sums(h, f, S)
  BY SumsExist
<1>2. SumOf(f) = h[S]
  BY DEF SumOf, FoldFunction, FoldFunctionOnSet, MapThenFoldSet, Sums, SumStep, Picked
<1> HIDE DEF h
<1>3. \A t \in SUBSET S : h[t] = SumStep(h, f, t)
  BY <1>1 DEF Sums
<1> QED BY <1>2, <1>3
\* The sum of integers is an integer.
THEOREM SumOfType ==
  ASSUME NEW S, IsFiniteSet(S), NEW f \in [S -> Int]
  PROVE  SumOf(f) \in Int
<1>1. PICK h : SumOf(f) = h[S] /\ \A t \in SUBSET S : h[t] = SumStep(h, f, t)
  BY SumOfSums
<1> DEFINE T == {t \in SUBSET S : h[t] \in Int}
<1>2. {} \in T
  BY <1>1 DEF SumStep
<1>3. \A t \in SUBSET S : t # {} /\ t \ {Picked(t)} \in T => t \in T
  <2> SUFFICES ASSUME NEW t \in SUBSET S, t # {}, t \ {Picked(t)} \in T
               PROVE  t \in T
    OBVIOUS
  <2>1. Picked(t) \in S
    BY PickedLess
  <2>2. h[t] = f[Picked(t)] + h[t \ {Picked(t)}]
    BY <1>1 DEF SumStep
  <2> QED BY <2>1, <2>2
<1> HIDE DEF T
<1>4. S \in T
  BY <1>2, <1>3, SubsetInduction
<1> QED BY <1>1, <1>4 DEF T

\* The sum of zeros.
THEOREM SumOfZeros ==
  ASSUME NEW S, IsFiniteSet(S), NEW f \in [S -> {0}]
  PROVE  SumOf(f) = 0
<1>0. DOMAIN f = S
  OBVIOUS
<1>1. PICK h : SumOf(f) = h[S] /\ \A t \in SUBSET S : h[t] = SumStep(h, f, t)
  BY <1>0, SumOfSums
<1> DEFINE T == {t \in SUBSET S : h[t] = 0}
<1>2. {} \in T
  BY <1>1 DEF SumStep
<1>3. \A t \in SUBSET S : t # {} /\ t \ {Picked(t)} \in T => t \in T
  <2> SUFFICES ASSUME NEW t \in SUBSET S, t # {}, t \ {Picked(t)} \in T
               PROVE  t \in T
    OBVIOUS
  <2>1. Picked(t) \in S
    BY PickedLess
  <2>2. h[t] = f[Picked(t)] + h[t \ {Picked(t)}]
    BY <1>1 DEF SumStep
  <2> QED BY <2>1, <2>2
<1> HIDE DEF T
<1>4. S \in T
  BY <1>2, <1>3, SubsetInduction
<1> QED BY <1>1, <1>4 DEF T

\* Raising one value raises the sum by as much.
THEOREM SumOfRaised ==
  ASSUME NEW S, IsFiniteSet(S), NEW f \in [S -> Int], NEW a \in S, NEW d \in Int
  PROVE  SumOf([f EXCEPT ![a] = @ + d]) = SumOf(f) + d
<1> DEFINE g == [f EXCEPT ![a] = @ + d]
<1>1. PICK h : SumOf(f) = h[S] /\ \A t \in SUBSET S : h[t] = SumStep(h, f, t)
  BY SumOfSums
<1>2. /\ DOMAIN g = S
      /\ \A x \in S : f[x] \in Int /\ g[x] = f[x] + IF x = a THEN d ELSE 0
  OBVIOUS
<1> HIDE DEF g
<1>3. PICK k : SumOf(g) = k[S] /\ \A t \in SUBSET S : k[t] = SumStep(k, g, t)
  BY <1>2, SumOfSums
<1> DEFINE T == {t \in SUBSET S : /\ h[t] \in Int
                                  /\ k[t] = h[t] + IF a \in t THEN d ELSE 0}
<1>4. {} \in T
  <2>1. h[{}] = 0 /\ k[{}] = 0
    BY <1>1, <1>3 DEF SumStep
  <2> QED BY <2>1
<1>5. \A t \in SUBSET S : t # {} /\ t \ {Picked(t)} \in T => t \in T
  <2> SUFFICES ASSUME NEW t \in SUBSET S, t # {}, t \ {Picked(t)} \in T
               PROVE  t \in T
    OBVIOUS
  <2> DEFINE x == Picked(t)
  <2>1. x \in t /\ x \in S
    BY PickedLess
  <2>2. h[t] = f[x] + h[t \ {x}] /\ k[t] = g[x] + k[t \ {x}]
    BY <1>1, <1>3 DEF SumStep
  <2>3. h[t \ {x}] \in Int /\ k[t \ {x}] = h[t \ {x}] + IF a \in t \ {x} THEN d ELSE 0
    OBVIOUS
  <2> HIDE DEF x
  <2> QED BY <1>2, <2>1, <2>2, <2>3
<1> HIDE DEF T
<1>6. S \in T
  BY <1>4, <1>5, SubsetInduction
<1> QED BY <1>1, <1>3, <1>6 DEF T, g
=============================================================================
