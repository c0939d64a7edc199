-------------------------- MODULE InductionLemmas --------------------------
(***************************************************************************)
(* Loops as recursive functions.  A definition                             *)
(*   f[x \in D] == IF x \in Stop THEN out[x] ELSE f[next[x]]               *)
(* stands for a CHOOSE: it computes something only if such a function      *)
(* exists.  The lemmas here give the existence, and what holds of the      *)
(* result, whenever a measure into the naturals decreases.  They rest on   *)
(* the least element of a set of naturals, the only form of induction that *)
(* takes no operator as a parameter.                                       *)
(***************************************************************************)
EXTENDS Integers, WellFoundedInduction, TLAPS

(* A set of naturals that is not empty has a least element.                *)
LEMMA Least ==
  ASSUME NEW S \in SUBSET Nat, S # {}
  PROVE  \E m \in S : \A k \in S : m <= k
<1> DEFINE R == OpToRel(<, Nat)
<1>1. IsWellFoundedOn(R, Nat)
  BY NatLessThanWellFounded
<1>2. \A x, y \in Nat : <<y, x>> \in R <=> y < x
  BY DEF OpToRel
<1> HIDE DEF R
<1>3. PICK x \in S : \A y \in S : ~ (<<y, x>> \in R)
  <2>1. S \subseteq Nat /\ S # {}
    OBVIOUS
  <2>2. \E x \in S : \A y \in S : ~ (<<y, x>> \in R)
    BY <1>1, <2>1, WFMin, Zenon
  <2> QED BY <2>2
<1>4. ASSUME NEW y \in S PROVE x <= y
  <2>1. ~ (y < x)
    BY <1>2, <1>3, Zenon
  <2> QED BY <2>1
<1> QED BY <1>4

(* Induction over a set of naturals.                                       *)
LEMMA SetInduction ==
  ASSUME NEW S, 0 \in S, \A n \in Nat : n \in S => n + 1 \in S
  PROVE  Nat \subseteq S
<1> SUFFICES ASSUME Nat \ S # {} PROVE FALSE
  OBVIOUS
<1>1. PICK m \in Nat \ S : \A k \in Nat \ S : m <= k
  BY Least
<1>2. m # 0 /\ m - 1 \in Nat /\ ~(m <= m - 1)
  BY <1>1
<1>3. m - 1 \in S
  BY <1>1, <1>2
<1> QED BY <1>1, <1>2, <1>3

(* What holds of x whenever it holds of all that measures less, holds.     *)
LEMMA MeasureInduction ==
  ASSUME NEW D, NEW measure \in [D -> Nat], NEW Good,
         \A x \in D :
           (\A y \in D : measure[y] < measure[x] => y \in Good) => x \in Good
  PROVE  D \subseteq Good
<1> DEFINE S == {n \in Nat : \A x \in D : measure[x] < n => x \in Good}
<1>1. 0 \in S
  OBVIOUS
<1>2. ASSUME NEW n \in Nat, n \in S PROVE n + 1 \in S
  <2> SUFFICES ASSUME NEW x \in D, measure[x] < n + 1 PROVE x \in Good
    OBVIOUS
  <2>1. \A y \in D : measure[y] < measure[x] => measure[y] < n
    OBVIOUS
  <2> QED BY <1>2, <2>1
<1>3. Nat \subseteq S
  <2> HIDE DEF S
  <2> QED BY <1>1, <1>2, SetInduction
<1>4. ASSUME NEW x \in D PROVE x \in Good
  <2>1. measure[x] + 1 \in Nat /\ measure[x] < measure[x] + 1
    OBVIOUS
  <2> QED BY <1>3, <2>1
<1> QED BY <1>4

(* A recursion over D stops in Stop, and elsewhere goes to next, which     *)
(* measures less.                                                          *)
Decreases(D, Stop, next, measure) ==
  /\ measure \in [D -> Nat]
  /\ \A x \in D \ Stop : next[x] \in D /\ measure[next[x]] < measure[x]

\* What f is where the recursion stops, and what it makes of the rest.
Recurs(f, D, Stop, next, out, combine) ==
  \A x \in D : f[x] = IF x \in Stop THEN out[x] ELSE combine[<<x, f[next[x]]>>]

(* A recursion that goes down in some measure defines a function.          *)
LEMMA RecursionDefined ==
  ASSUME NEW D, NEW V, NEW Stop, NEW next, NEW measure,
         Decreases(D, Stop, next, measure),
         NEW out \in [D -> V], NEW combine \in [D \X V -> V]
  PROVE  \E f \in [D -> V] : Recurs(f, D, Stop, next, out, combine)
<1> USE DEF Decreases
<1> DEFINE Upto(n) == {x \in D : measure[x] < n}
           Solves(f, n) ==
             /\ f \in [Upto(n) -> V]
             /\ \A x \in Upto(n) : f[x] = IF x \in Stop THEN out[x]
                                          ELSE combine[<<x, f[next[x]]>>]
           Good == {n \in Nat : \E f : Solves(f, n)}
<1>1. 0 \in Good
  <2>1. Upto(0) = {}
    OBVIOUS
  <2>2. Solves([x \in {} |-> 0], 0)
    BY <2>1
  <2> QED BY <2>2
<1>2. ASSUME NEW n \in Nat, n \in Good PROVE n + 1 \in Good
  <2>1. PICK f : Solves(f, n)
    BY <1>2
  <2> DEFINE g == [x \in Upto(n + 1) |->
                     IF x \in Stop THEN out[x] ELSE combine[<<x, f[next[x]]>>]]
  <2>2. \A x \in Upto(n) : x \in Upto(n + 1) /\ g[x] = f[x]
    BY <2>1
  <2>3. \A x \in Upto(n + 1) \ Stop : next[x] \in Upto(n)
    OBVIOUS
  <2>4. g \in [Upto(n + 1) -> V]
    BY <2>1, <2>3
  <2>5. \A x \in Upto(n + 1) :
          g[x] = IF x \in Stop THEN out[x] ELSE combine[<<x, g[next[x]]>>]
    <3>1. \A x \in Upto(n + 1) \ Stop : g[next[x]] = f[next[x]]
      BY <2>2, <2>3
    <3> QED BY <3>1
  <2>6. \E h : Solves(h, n + 1)
    <3> HIDE DEF g
    <3> QED BY <2>4, <2>5
  <2> HIDE DEF Solves
  <2> QED BY <2>6
<1>3. Nat \subseteq Good
  <2> HIDE DEF Good
  <2> QED BY <1>1, <1>2, SetInduction
<1> DEFINE fix == [n \in Nat |-> CHOOSE f : Solves(f, n)]
<1>4. \A n \in Nat : Solves(fix[n], n)
  BY <1>3
<1>5. ASSUME NEW n \in Nat, NEW x \in Upto(n)
      PROVE  /\ fix[n][x] \in V
             /\ fix[n][x] = IF x \in Stop THEN out[x]
                            ELSE combine[<<x, fix[n][next[x]]>>]
  <2> DEFINE f == fix[n]
  <2>1. Solves(f, n)
    BY <1>4
  <2> HIDE DEF f
  <2>2. f[x] \in V /\ f[x] = IF x \in Stop THEN out[x]
                             ELSE combine[<<x, f[next[x]]>>]
    BY <2>1
  <2> QED BY <2>2 DEF f
<1> HIDE DEF fix
(* Larger solutions agree with the smaller ones.                           *)
<1>6. \A m, n \in Nat : n <= m => \A x \in Upto(n) : fix[m][x] = fix[n][x]
  <2> DEFINE Agree == {x \in D : \A m, n \in Nat :
                         measure[x] < n /\ n <= m => fix[m][x] = fix[n][x]}
  <2>1. ASSUME NEW x \in D,
               \A y \in D : measure[y] < measure[x] => y \in Agree
        PROVE  x \in Agree
    <3> SUFFICES ASSUME NEW m \in Nat, NEW n \in Nat, measure[x] < n, n <= m
                 PROVE  fix[m][x] = fix[n][x]
      OBVIOUS
    <3>1. x \in Upto(m) /\ x \in Upto(n)
      OBVIOUS
    <3>2. CASE x \in Stop
      BY <1>5, <3>1, <3>2
    <3>3. CASE x \notin Stop
      <4>1. /\ fix[m][x] = combine[<<x, fix[m][next[x]]>>]
            /\ fix[n][x] = combine[<<x, fix[n][next[x]]>>]
        BY <1>5, <3>1, <3>3
      <4>2. /\ next[x] \in Agree /\ measure[next[x]] < n
        BY <2>1, <3>3
      <4>3. fix[m][next[x]] = fix[n][next[x]]
        BY <4>2
      <4> QED BY <4>1, <4>3
    <3> QED BY <3>2, <3>3
  <2>2. D \subseteq Agree
    <3> HIDE DEF Agree
    <3> QED BY <2>1, MeasureInduction
  <2> QED BY <2>2
<1> DEFINE whole == [x \in D |-> fix[measure[x] + 1][x]]
<1>7. ASSUME NEW x \in D
      PROVE  /\ whole[x] \in V
             /\ whole[x] = IF x \in Stop THEN out[x]
                           ELSE combine[<<x, whole[next[x]]>>]
  <2> DEFINE n == measure[x] + 1
  <2>1. n \in Nat /\ x \in Upto(n)
    OBVIOUS
  <2>2. /\ fix[n][x] \in V
        /\ fix[n][x] = IF x \in Stop THEN out[x]
                       ELSE combine[<<x, fix[n][next[x]]>>]
    BY <1>5, <2>1
  <2>3. CASE x \notin Stop
    <3> DEFINE m == measure[next[x]] + 1
    <3>1. next[x] \in D /\ m \in Nat /\ next[x] \in Upto(m) /\ m <= n
      BY <2>3
    <3>2. fix[n][next[x]] = fix[m][next[x]]
      BY <1>6, <2>1, <3>1
    <3> QED BY <2>2, <2>3, <3>1, <3>2
  <2> QED BY <2>2, <2>3
<1>8. whole \in [D -> V]
  BY <1>7
<1> HIDE DEF whole
<1> QED BY <1>7, <1>8 DEF Recurs
============================================================================
