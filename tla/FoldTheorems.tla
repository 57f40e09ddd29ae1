---------------------------- MODULE FoldTheorems ----------------------------
(***************************************************************************)
(* What FoldLeft computes, for any operator: it starts with the base and   *)
(* takes one more step for every element.  The library defines it as a     *)
(* recursive function on sets of indices, so that this needs an induction. *)
(* Induction is used in the form of sets (NatSetInduction), because the       *)
(* provers cannot instantiate a theorem with an operator parameter; the    *)
(* operator is a CONSTANT here, and a module that folds with it takes the  *)
(* theorems from an INSTANCE of this one.                                  *)
(***************************************************************************)
EXTENDS Sequences, Folds, WellFoundedInduction, TLAPS

CONSTANT op(_, _)

-----------------------------------------------------------------------------
\* A nonempty set of natural numbers has a smallest element.
LEMMA NatMinimum ==
  ASSUME NEW T \in SUBSET Nat, T # {}
  PROVE  \E m \in T : \A k \in T : m <= k
<1>1. PICK m \in T : \A k \in T : ~(<<k, m>> \in OpToRel(<, Nat))
  BY NatLessThanWellFounded, WFMin, Zenon
<1>2. ASSUME NEW k \in T PROVE m <= k
  <2>1. m \in Nat /\ k \in Nat
    OBVIOUS
  <2>2. ~(k < m)
    BY <1>1, <2>1, Zenon DEF OpToRel
  <2> QED
    BY <2>1, <2>2
<1> QED
  BY <1>2

\* Induction: a set that has 0, and n + 1 with n, has every natural number.
THEOREM NatSetInduction ==
  ASSUME NEW T, 0 \in T, \A n \in Nat : n \in T => n + 1 \in T
  PROVE  Nat \subseteq T
<1>1. ASSUME Nat \ T # {} PROVE FALSE
  <2>1. PICK m \in Nat \ T : \A k \in Nat \ T : m <= k
    BY <1>1, NatMinimum
  <2>2. m # 0 /\ m - 1 \in Nat /\ m - 1 \in T
    BY <2>1
  <2> QED
    BY <2>1, <2>2
<1> QED
  BY <1>1

-----------------------------------------------------------------------------
(***************************************************************************)
(* The recursive function of the definition of FoldLeft, for a sequence.   *)
(***************************************************************************)
Largest(S) == CHOOSE x \in S : \A y \in S : x >= y

Fold(base, f) ==
  MapThenFoldSet(LAMBDA x, y : op(y, x), base, LAMBDA i : f[i], Largest, DOMAIN f)

IsIter(iter, base, f, n) ==
  iter = [s \in SUBSET (1 .. n) |->
            IF s = {} THEN base ELSE op(iter[s \ {Largest(s)}], f[Largest(s)])]

Iter(base, f, n) == CHOOSE iter : IsIter(iter, base, f, n)

LEMMA FoldIsIter ==
  ASSUME NEW base, NEW f, NEW n \in Nat, DOMAIN f = 1 .. n
  PROVE  Fold(base, f) = Iter(base, f, n)[1 .. n]
BY DEF Fold, MapThenFoldSet, Iter, IsIter

\* The largest element of a set with a largest element.
LEMMA MaxIs ==
  ASSUME NEW n \in Nat, NEW s \in SUBSET (1 .. n + 1), n + 1 \in s
  PROVE  Largest(s) = n + 1
<1>1. \A y \in s : n + 1 >= y
  OBVIOUS
<1>2. \A x \in s : (\A y \in s : x >= y) => x = n + 1
  OBVIOUS
<1> QED
  BY <1>1, <1>2 DEF Largest

LEMMA MaxIn ==
  ASSUME NEW n \in Nat, NEW s \in SUBSET (1 .. n), s # {}
  PROVE  Largest(s) \in s
<1>1. s \in SUBSET Nat /\ \A y \in s : y <= n
  OBVIOUS
<1> DEFINE Bounds == {k \in Nat : \A y \in s : y <= k}
<1>2. n \in Bounds
  BY <1>1
<1> HIDE DEF Bounds
<1>3. PICK m \in Bounds : \A k \in Bounds : m <= k
  <2>1. Bounds \in SUBSET Nat /\ Bounds # {}
    BY <1>2 DEF Bounds
  <2> QED
    BY <2>1, NatMinimum
<1>4. m \in s
  <2> SUFFICES ASSUME m \notin s PROVE FALSE
    OBVIOUS
  <2>1. m \in Nat /\ \A y \in s : y <= m /\ y \in Nat /\ y # m /\ y >= 1
    BY <1>1, <1>3 DEF Bounds
  <2>2. PICK z \in s : TRUE
    OBVIOUS
  <2>3. m - 1 \in Nat
    BY <2>1, <2>2
  <2>4. m - 1 \in Bounds
    BY <2>1, <2>3 DEF Bounds
  <2> QED
    BY <1>3, <2>1, <2>4
<1>5. \A y \in s : m >= y
  BY <1>1, <1>3 DEF Bounds
<1> QED
  BY <1>4, <1>5 DEF Largest

\* The function exists, for every length.
LEMMA IterExists ==
  ASSUME NEW base, NEW f
  PROVE  \A n \in Nat : \E iter : IsIter(iter, base, f, n)
<1> DEFINE T == {n \in Nat : \E iter : IsIter(iter, base, f, n)}
<1>1. 0 \in T
  <2> DEFINE g == [s \in SUBSET (1 .. 0) |-> base]
  <2>1. \A s \in SUBSET (1 .. 0) : s = {}
    OBVIOUS
  <2>2. IsIter(g, base, f, 0)
    BY <2>1 DEF IsIter
  <2> HIDE DEF g
  <2> QED
    BY <2>2
<1>2. ASSUME NEW n \in Nat, n \in T PROVE n + 1 \in T
  <2>1. PICK g : IsIter(g, base, f, n)
    BY <1>2
  <2> DEFINE h == [s \in SUBSET (1 .. n + 1) |->
                     IF n + 1 \in s THEN op(g[s \ {n + 1}], f[n + 1])
                     ELSE g[s]]
             body(s) == IF s = {} THEN base
                        ELSE op(h[s \ {Largest(s)}], f[Largest(s)])
  <2>2. ASSUME NEW s \in SUBSET (1 .. n + 1)
        PROVE  h[s] = body(s)
    <3>1. CASE n + 1 \in s
      <4>1. Largest(s) = n + 1
        BY <3>1, MaxIs
      <4>2. s \ {n + 1} \in SUBSET (1 .. n + 1) /\ n + 1 \notin s \ {n + 1}
        OBVIOUS
      <4>3. h[s \ {n + 1}] = g[s \ {n + 1}]
        BY <4>2
      <4> QED
        BY <3>1, <4>1, <4>3
    <3>2. CASE n + 1 \notin s
      <4>1. s \in SUBSET (1 .. n)
        <5>1. \A y \in 1 .. n + 1 : y # n + 1 => y \in 1 .. n
          OBVIOUS
        <5> QED
          BY <3>2, <5>1
      <4>2. h[s] = g[s]
        BY <3>2
      <4>3. g[s] = IF s = {} THEN base ELSE op(g[s \ {Largest(s)}], f[Largest(s)])
        BY <2>1, <4>1 DEF IsIter
      <4>4. CASE s = {}
        BY <4>2, <4>3, <4>4
      <4>5. CASE s # {}
        <5>1. s \ {Largest(s)} \in SUBSET (1 .. n + 1) /\ n + 1 \notin s \ {Largest(s)}
          BY <3>2
        <5>2. h[s \ {Largest(s)}] = g[s \ {Largest(s)}]
          BY <5>1
        <5> QED
          BY <4>2, <4>3, <4>5, <5>2
      <4> QED
        BY <4>4, <4>5
    <3> QED
      BY <3>1, <3>2
  <2>3. h = [s \in SUBSET (1 .. n + 1) |-> body(s)]
    <3>1. h = [s \in SUBSET (1 .. n + 1) |-> h[s]]
      OBVIOUS
    <3> HIDE DEF h, body
    <3> QED
      BY <2>2, <3>1
  <2>4. IsIter(h, base, f, n + 1)
    BY <2>3 DEF IsIter
  <2> HIDE DEF h
  <2>5. \E iter : IsIter(iter, base, f, n + 1)
    BY <2>4
  <2> QED
    BY <2>5
<1> HIDE DEF T
<1>3. Nat \subseteq T
  BY <1>1, <1>2, NatSetInduction
<1> QED
  BY <1>3 DEF T

LEMMA IterIs ==
  ASSUME NEW base, NEW f, NEW n \in Nat
  PROVE  /\ Iter(base, f, n)[{}] = base
         /\ \A s \in SUBSET (1 .. n) :
              s # {} => Iter(base, f, n)[s]
                          = op(Iter(base, f, n)[s \ {Largest(s)}], f[Largest(s)])
<1> DEFINE I == Iter(base, f, n)
<1>1. IsIter(I, base, f, n)
  BY IterExists DEF Iter
<1> HIDE DEF I
<1>2. /\ I[{}] = base
      /\ \A s \in SUBSET (1 .. n) : s # {} => I[s] = op(I[s \ {Largest(s)}], f[Largest(s)])
  BY <1>1 DEF IsIter
<1> QED
  BY <1>2 DEF I

\* The value for the first k elements, one element after the other.
LEMMA IterPrefix ==
  ASSUME NEW base, NEW f, NEW n \in Nat, NEW k \in Nat, k < n
  PROVE  Iter(base, f, n)[1 .. k + 1] = op(Iter(base, f, n)[1 .. k], f[k + 1])
<1>1. 1 .. k + 1 \in SUBSET (1 .. n) /\ 1 .. k + 1 # {} /\ k + 1 \in 1 .. k + 1
  <2>1. \A i, j \in Nat : i <= j => 1 .. i \subseteq 1 .. j
    OBVIOUS
  <2>2. k + 1 \in Nat /\ k + 1 <= n /\ k + 1 \in 1 .. k + 1
    OBVIOUS
  <2> QED
    BY <2>1, <2>2
<1>2. Largest(1 .. k + 1) = k + 1
  BY <1>1, MaxIs
<1>3. (1 .. k + 1) \ {k + 1} = 1 .. k
  OBVIOUS
<1> DEFINE s == 1 .. k + 1
<1>4. Iter(base, f, n)[s] = op(Iter(base, f, n)[s \ {Largest(s)}], f[Largest(s)])
  <2>1. \A t \in SUBSET (1 .. n) :
          t # {} => Iter(base, f, n)[t]
                      = op(Iter(base, f, n)[t \ {Largest(t)}], f[Largest(t)])
    BY IterIs
  <2>2. s \in SUBSET (1 .. n) /\ s # {}
    BY <1>1
  <2> HIDE DEF s
  <2> QED
    BY <2>1, <2>2
<1> QED
  BY <1>2, <1>3, <1>4

\* What follows the first k elements does not matter for their value.
LEMMA IterAgree ==
  ASSUME NEW base, NEW f, NEW g, NEW m \in Nat, NEW n \in Nat, m <= n,
         \A i \in 1 .. m : f[i] = g[i]
  PROVE  Iter(base, f, m)[1 .. m] = Iter(base, g, n)[1 .. m]
<1> DEFINE T == {k \in Nat : k <= m => Iter(base, f, m)[1 .. k] = Iter(base, g, n)[1 .. k]}
<1>1. 0 \in T
  <2>1. 1 .. 0 = {}
    OBVIOUS
  <2> QED
    BY <2>1, IterIs
<1>2. ASSUME NEW k \in Nat, k \in T PROVE k + 1 \in T
  <2> SUFFICES ASSUME k + 1 <= m
               PROVE  Iter(base, f, m)[1 .. k + 1] = Iter(base, g, n)[1 .. k + 1]
    OBVIOUS
  <2>1. k < m /\ k < n /\ k <= m /\ f[k + 1] = g[k + 1]
    OBVIOUS
  <2>2. Iter(base, f, m)[1 .. k] = Iter(base, g, n)[1 .. k]
    BY <1>2, <2>1
  <2> QED
    BY <2>1, <2>2, IterPrefix
<1> HIDE DEF T
<1>3. m \in T
  BY <1>1, <1>2, NatSetInduction
<1> QED
  BY <1>3 DEF T

-----------------------------------------------------------------------------
\* A fold of no element is the base; an element at the end is one more step.
THEOREM FoldEmpty ==
  ASSUME NEW base
  PROVE  Fold(base, << >>) = base
<1>1. DOMAIN << >> = 1 .. 0 /\ 1 .. 0 = {}
  OBVIOUS
<1>2. Fold(base, << >>) = Iter(base, << >>, 0)[{}]
  BY <1>1, FoldIsIter
<1> QED
  BY <1>2, IterIs

THEOREM FoldPrefix ==
  ASSUME NEW base, NEW f, NEW g, NEW n \in Nat,
         DOMAIN f = 1 .. n, DOMAIN g = 1 .. n + 1,
         \A i \in 1 .. n : f[i] = g[i]
  PROVE  Fold(base, g) = op(Fold(base, f), g[n + 1])
<1>1. Fold(base, f) = Iter(base, f, n)[1 .. n]
  BY FoldIsIter
<1>2. Fold(base, g) = Iter(base, g, n + 1)[1 .. n + 1]
  BY FoldIsIter
<1>3. Iter(base, f, n)[1 .. n] = Iter(base, g, n + 1)[1 .. n]
  BY IterAgree
<1>4. Iter(base, g, n + 1)[1 .. n + 1] = op(Iter(base, g, n + 1)[1 .. n], g[n + 1])
  BY IterPrefix
<1> QED
  BY <1>1, <1>2, <1>3, <1>4

THEOREM FoldAppend ==
  ASSUME NEW base, NEW S, NEW seq \in Seq(S), NEW e
  PROVE  Fold(base, Append(seq, e)) = op(Fold(base, seq), e)
<1> DEFINE n == Len(seq)
           g == Append(seq, e)
<1>1. n \in Nat /\ DOMAIN seq = 1 .. n /\ DOMAIN g = 1 .. n + 1
  OBVIOUS
<1>2. (\A i \in 1 .. n : seq[i] = g[i]) /\ g[n + 1] = e
  OBVIOUS
<1> HIDE DEF n, g
<1>3. \A i \in 1 .. n : seq[i] = g[i]
  BY <1>2
<1>4. Fold(base, g) = op(Fold(base, seq), g[n + 1])
  BY <1>1, <1>3, FoldPrefix
<1> QED
  BY <1>2, <1>4 DEF g

\* The invariant of a loop: T[k] holds the values possible after k elements.
THEOREM FoldInvariant ==
  ASSUME NEW base, NEW f, NEW n \in Nat, DOMAIN f = 1 .. n, NEW T,
         base \in T[0],
         \A k \in 1 .. n : \A a \in T[k - 1] : op(a, f[k]) \in T[k]
  PROVE  Fold(base, f) \in T[n]
<1> DEFINE I == Iter(base, f, n)
           K == {k \in Nat : k <= n => I[1 .. k] \in T[k]}
<1>1. 0 \in K
  <2>1. 1 .. 0 = {}
    OBVIOUS
  <2> QED
    BY <2>1, IterIs
<1>2. ASSUME NEW k \in Nat, k \in K PROVE k + 1 \in K
  <2> SUFFICES ASSUME k + 1 <= n PROVE I[1 .. k + 1] \in T[k + 1]
    OBVIOUS
  <2>1. k < n /\ k + 1 \in 1 .. n /\ (k + 1) - 1 = k
    OBVIOUS
  <2>2. I[1 .. k] \in T[k]
    BY <1>2, <2>1
  <2>3. I[1 .. k + 1] = op(I[1 .. k], f[k + 1])
    BY <2>1, IterPrefix
  <2> HIDE DEF I
  <2>4. op(I[1 .. k], f[k + 1]) \in T[k + 1]
    BY <2>1, <2>2
  <2> QED
    BY <2>3, <2>4
<1> HIDE DEF K
<1>3. n \in K
  BY <1>1, <1>2, NatSetInduction
<1>4. I[1 .. n] \in T[n]
  BY <1>3 DEF K
<1> QED
  BY <1>4, FoldIsIter

\* The values of a loop, one after the other.
THEOREM FoldTrace ==
  ASSUME NEW base, NEW f, NEW n \in Nat, DOMAIN f = 1 .. n
  PROVE  \E a : /\ a[0] = base
                /\ \A k \in 1 .. n : a[k] = op(a[k - 1], f[k])
                /\ a[n] = Fold(base, f)
<1> DEFINE I == Iter(base, f, n)
           a == [k \in 0 .. n |-> I[1 .. k]]
<1>1. a[0] = base
  <2>1. 1 .. 0 = {} /\ 0 \in 0 .. n
    OBVIOUS
  <2>2. I[{}] = base
    BY IterIs
  <2> HIDE DEF I
  <2> QED
    BY <2>1, <2>2
<1>2. ASSUME NEW k \in 1 .. n PROVE a[k] = op(a[k - 1], f[k])
  <2>1. k - 1 \in Nat /\ k - 1 < n /\ (k - 1) + 1 = k
    OBVIOUS
  <2>2. k \in 0 .. n /\ k - 1 \in 0 .. n
    OBVIOUS
  <2>3. I[1 .. (k - 1) + 1] = op(I[1 .. k - 1], f[(k - 1) + 1])
    BY <2>1, IterPrefix
  <2> HIDE DEF I
  <2>4. a[k] = I[1 .. k] /\ a[k - 1] = I[1 .. k - 1]
    BY <2>2
  <2> HIDE DEF a
  <2> QED
    BY <2>1, <2>3, <2>4
<1>3. a[n] = Fold(base, f)
  <2>1. Fold(base, f) = I[1 .. n]
    BY FoldIsIter
  <2>2. n \in 0 .. n
    OBVIOUS
  <2> HIDE DEF I
  <2> QED
    BY <2>1, <2>2
<1> HIDE DEF a
<1> QED
  BY <1>1, <1>2, <1>3

=============================================================================
