--------------------- MODULE QuicConnectionClientProofs ---------------------
(***************************************************************************)
(* Lemmas about the send queue of the client (selections of its packets    *)
(* and their order, its size, the bytes its packets carry); what the       *)
(* handlers of the client do to its connection, method by method; and the  *)
(* invariant every handler keeps.                                          *)
(***************************************************************************)
EXTENDS QuicConnectionClient, FiniteSetTheorems, TLAPS

Addition == INSTANCE FoldTheorems WITH op <- LAMBDA sum, n : sum + n
Sizes    == INSTANCE FoldTheorems WITH op <- LAMBDA sum, p : sum + p.size
Lengths  == INSTANCE FoldTheorems WITH op <- LAMBDA sum, f : sum + f.length
Ranges   == INSTANCE FoldTheorems WITH op <- DecodeRange
Visits   == INSTANCE FoldTheorems WITH op <- VisitStream
Lost     == INSTANCE FoldTheorems WITH op <- CreateRetransmitPacket

-----------------------------------------------------------------------------
(***************************************************************************)
(* Sequences.                                                              *)
(***************************************************************************)

\* The elements of a sequence after an element, or another sequence, is added.
LEMMA AppendIs ==
  ASSUME NEW S, NEW s \in Seq(S), NEW e \in S
  PROVE  /\ Append(s, e) \in Seq(S)
         /\ Len(Append(s, e)) = Len(s) + 1
         /\ DOMAIN Append(s, e) = 1 .. Len(s) + 1
         /\ \A i \in 1 .. Len(s) : Append(s, e)[i] = s[i]
         /\ Append(s, e)[Len(s) + 1] = e
OBVIOUS

LEMMA SeqEqual ==
  ASSUME NEW S, NEW s \in Seq(S), NEW t \in Seq(S), Len(s) = Len(t),
         \A i \in 1 .. Len(s) : s[i] = t[i]
  PROVE  s = t
OBVIOUS

\* A sequence that is not empty is a shorter one and its last element.
LEMMA LastSplit ==
  ASSUME NEW S
  PROVE  \A n \in Nat : \A s \in Seq(S) : Len(s) = n + 1 =>
           \E t \in Seq(S), e \in S : Len(t) = n /\ s = Append(t, e)
<1> SUFFICES ASSUME NEW n \in Nat, NEW s \in Seq(S), Len(s) = n + 1
             PROVE  \E t \in Seq(S), e \in S : Len(t) = n /\ s = Append(t, e)
  OBVIOUS
<1> DEFINE t == [i \in 1 .. n |-> s[i]]
           e == s[n + 1]
<1>1. s \in [1 .. n + 1 -> S]
  OBVIOUS
<1>2. \A i \in 1 .. n : i \in 1 .. n + 1
  OBVIOUS
<1>3. t \in Seq(S) /\ Len(t) = n /\ e \in S
  BY <1>1, <1>2
<1>4. s = Append(t, e)
  <2>1. Len(Append(t, e)) = n + 1 /\ Append(t, e) \in Seq(S)
    BY <1>3
  <2>2. \A i \in 1 .. n + 1 : s[i] = Append(t, e)[i]
    <3> SUFFICES ASSUME NEW i \in 1 .. n + 1 PROVE s[i] = Append(t, e)[i]
      OBVIOUS
    <3>1. CASE i = n + 1
      BY <1>3, <3>1
    <3>2. CASE i \in 1 .. n
      <4>1. t[i] = s[i]
        BY <3>2
      <4> HIDE DEF t, e
      <4> QED
        BY <1>3, <3>2, <4>1
    <3> QED
      BY <3>1, <3>2
  <2> HIDE DEF t, e
  <2> QED
    BY <2>1, <2>2
<1> HIDE DEF t, e
<1> QED
  BY <1>3, <1>4

\* Induction on sequences, in the form of sets.
LEMMA SeqInduction ==
  ASSUME NEW S, NEW T, << >> \in T,
         \A s \in Seq(S) : \A e \in S : s \in T => Append(s, e) \in T
  PROVE  Seq(S) \subseteq T
<1> DEFINE N == {n \in Nat : \A s \in Seq(S) : Len(s) = n => s \in T}
<1>1. 0 \in N
  <2>1. \A s \in Seq(S) : Len(s) = 0 => s = << >>
    OBVIOUS
  <2> QED
    BY <2>1
<1>2. ASSUME NEW n \in Nat, n \in N PROVE n + 1 \in N
  <2> SUFFICES ASSUME NEW s \in Seq(S), Len(s) = n + 1 PROVE s \in T
    OBVIOUS
  <2>1. PICK t \in Seq(S), e \in S : Len(t) = n /\ s = Append(t, e)
    BY LastSplit
  <2>2. t \in T
    BY <1>2, <2>1
  <2> QED
    BY <2>1, <2>2
<1>3. Nat \subseteq N
  <2> HIDE DEF N
  <2> QED
    BY <1>1, <1>2, Addition!NatSetInduction
<1> QED
  BY <1>3

(***************************************************************************)
(* FlattenSeq adds the last of its sequences at the end.  The library      *)
(* defines it as a recursive function, which first has to exist.           *)
(***************************************************************************)
IsFlat(flat, f, n) ==
  flat = [i \in 1 .. n |-> IF i = 1 THEN f[i] ELSE flat[i - 1] \o f[i]]

Flat(f, n) == CHOOSE flat : IsFlat(flat, f, n)

LEMMA FlattenIsFlat ==
  ASSUME NEW f, NEW n \in Nat \ {0}, Len(f) = n
  PROVE  FlattenSeq(f) = Flat(f, n)[n]
<1>1. Len(f) # 0
  OBVIOUS
<1> QED
  BY <1>1 DEF FlattenSeq, Flat, IsFlat

LEMMA FlatExists ==
  ASSUME NEW f PROVE \A n \in Nat : \E flat : IsFlat(flat, f, n)
<1> DEFINE T == {n \in Nat : \E flat : IsFlat(flat, f, n)}
<1>1. 0 \in T
  <2> DEFINE h == [i \in 1 .. 0 |-> f[i]]
  <2>1. IsFlat(h, f, 0)
    BY DEF IsFlat
  <2> HIDE DEF h
  <2> QED
    BY <2>1
<1>2. ASSUME NEW n \in Nat, n \in T PROVE n + 1 \in T
  <2>1. PICK g : IsFlat(g, f, n)
    BY <1>2
  <2> DEFINE h == [i \in 1 .. n + 1 |->
                     IF i \in 1 .. n THEN g[i]
                     ELSE IF i = 1 THEN f[i] ELSE g[n] \o f[i]]
  <2>2. ASSUME NEW i \in 1 .. n + 1
        PROVE  h[i] = IF i = 1 THEN f[i] ELSE h[i - 1] \o f[i]
    <3>1. CASE i \in 1 .. n
      <4>1. h[i] = g[i] /\ (i # 1 => i - 1 \in 1 .. n /\ h[i - 1] = g[i - 1])
        BY <3>1
      <4>2. g[i] = IF i = 1 THEN f[i] ELSE g[i - 1] \o f[i]
        BY <2>1, <3>1 DEF IsFlat
      <4> HIDE DEF h
      <4> QED
        BY <4>1, <4>2
    <3>2. CASE i = n + 1
      <4>1. i # 1 => i - 1 = n /\ n \in 1 .. n /\ h[i - 1] = g[n]
        BY <3>2
      <4>2. h[i] = IF i = 1 THEN f[i] ELSE g[n] \o f[i]
        BY <3>2
      <4> HIDE DEF h
      <4> QED
        BY <4>1, <4>2
    <3> QED
      BY <3>1, <3>2
  <2>3. h = [i \in 1 .. n + 1 |-> h[i]]
    OBVIOUS
  <2> HIDE DEF h
  <2>4. IsFlat(h, f, n + 1)
    BY <2>2, <2>3 DEF IsFlat
  <2> QED
    BY <2>4
<1> HIDE DEF T
<1>3. Nat \subseteq T
  BY <1>1, <1>2, Addition!NatSetInduction
<1> QED
  BY <1>3 DEF T

LEMMA FlatIs ==
  ASSUME NEW f, NEW n \in Nat
  PROVE  \A i \in 1 .. n :
           Flat(f, n)[i] = IF i = 1 THEN f[i] ELSE Flat(f, n)[i - 1] \o f[i]
<1>1. IsFlat(Flat(f, n), f, n)
  BY FlatExists DEF Flat
<1> QED
  BY <1>1 DEF IsFlat

LEMMA FlatAgree ==
  ASSUME NEW f, NEW g, NEW m \in Nat \ {0}, NEW n \in Nat, m <= n,
         \A i \in 1 .. m : f[i] = g[i]
  PROVE  Flat(f, m)[m] = Flat(g, n)[m]
<1> DEFINE T == {k \in Nat : k \in 1 .. m => Flat(f, m)[k] = Flat(g, n)[k]}
<1>1. 0 \in T
  OBVIOUS
<1>2. ASSUME NEW k \in Nat, k \in T PROVE k + 1 \in T
  <2> SUFFICES ASSUME k + 1 \in 1 .. m
               PROVE  Flat(f, m)[k + 1] = Flat(g, n)[k + 1]
    OBVIOUS
  <2>1. k + 1 \in 1 .. n /\ f[k + 1] = g[k + 1] /\ (k + 1) - 1 = k
    OBVIOUS
  <2>2. k + 1 # 1 => Flat(f, m)[k] = Flat(g, n)[k]
    BY <1>2
  <2>3. /\ Flat(f, m)[k + 1] = IF k + 1 = 1 THEN f[k + 1]
                               ELSE Flat(f, m)[(k + 1) - 1] \o f[k + 1]
        /\ Flat(g, n)[k + 1] = IF k + 1 = 1 THEN g[k + 1]
                               ELSE Flat(g, n)[(k + 1) - 1] \o g[k + 1]
    BY <2>1, FlatIs
  <2> QED
    BY <2>1, <2>2, <2>3
<1> HIDE DEF T
<1>3. m \in T
  BY <1>1, <1>2, Addition!NatSetInduction
<1> QED
  BY <1>3 DEF T

LEMMA FlattenEmpty == FlattenSeq(<< >>) = << >>
BY DEF FlattenSeq

LEMMA FlattenAppend ==
  ASSUME NEW S, NEW f \in Seq(Seq(S)), NEW e \in Seq(S)
  PROVE  /\ FlattenSeq(f) \in Seq(S)
         /\ FlattenSeq(Append(f, e)) = FlattenSeq(f) \o e
<1> DEFINE n == Len(f)
           g == Append(f, e)
<1>1. /\ n \in Nat /\ f \in Seq(Seq(S)) /\ g \in Seq(Seq(S)) /\ Len(g) = n + 1
      /\ \A i \in 1 .. n : f[i] = g[i] /\ f[i] \in Seq(S)
      /\ g[n + 1] = e
  OBVIOUS
<1>2. n # 0 => Flat(f, n)[n] \in Seq(S)
  <2> DEFINE T == {k \in Nat : k \in 1 .. n => Flat(f, n)[k] \in Seq(S)}
  <2>1. 0 \in T
    OBVIOUS
  <2>2. ASSUME NEW k \in Nat, k \in T PROVE k + 1 \in T
    <3> SUFFICES ASSUME k + 1 \in 1 .. n PROVE Flat(f, n)[k + 1] \in Seq(S)
      OBVIOUS
    <3>1. (k + 1) - 1 = k /\ f[k + 1] \in Seq(S)
      BY <1>1
    <3>2. k + 1 # 1 => Flat(f, n)[k] \in Seq(S)
      BY <2>2
    <3> HIDE DEF n
    <3>3. Flat(f, n)[k + 1] = IF k + 1 = 1 THEN f[k + 1]
                              ELSE Flat(f, n)[(k + 1) - 1] \o f[k + 1]
      BY <1>1, FlatIs
    <3> QED
      BY <3>1, <3>2, <3>3
  <2>3. n \in T
    <3> HIDE DEF T
    <3> QED
      BY <1>1, <2>1, <2>2, Addition!NatSetInduction
  <2> HIDE DEF n
  <2> QED
    BY <1>1, <2>3
<1> HIDE DEF n, g
<1>3. CASE n = 0
  <2>1. f = << >> /\ FlattenSeq(f) = << >>
    BY <1>3, FlattenEmpty DEF n
  <2>2. FlattenSeq(g) = Flat(g, 1)[1]
    <3>1. 1 \in Nat \ {0} /\ Len(g) = 1
      BY <1>1, <1>3
    <3> QED
      BY <3>1, FlattenIsFlat
  <2>3. Flat(g, 1)[1] = g[1]
    BY FlatIs
  <2>4. FlattenSeq(g) = e
    BY <1>1, <1>3, <2>2, <2>3
  <2>5. << >> \in Seq(S) /\ << >> \o e = e
    OBVIOUS
  <2> QED
    BY <2>1, <2>4, <2>5 DEF g
<1>4. CASE n # 0
  <2>1. FlattenSeq(f) = Flat(f, n)[n] /\ FlattenSeq(g) = Flat(g, n + 1)[n + 1]
    <3>1. n \in Nat \ {0} /\ n + 1 \in Nat \ {0} /\ Len(f) = n /\ Len(g) = n + 1
      BY <1>1, <1>4 DEF n
    <3> QED
      BY <3>1, FlattenIsFlat
  <2>2. Flat(f, n)[n] = Flat(g, n + 1)[n]
    <3>1. n \in Nat \ {0} /\ n + 1 \in Nat /\ n <= n + 1
      BY <1>1, <1>4
    <3>2. \A i \in 1 .. n : f[i] = g[i]
      BY <1>1
    <3> QED
      BY <3>1, <3>2, FlatAgree
  <2>3. Flat(g, n + 1)[n + 1] = Flat(g, n + 1)[n] \o e
    <3>1. n + 1 \in 1 .. n + 1 /\ n + 1 # 1 /\ (n + 1) - 1 = n /\ n + 1 \in Nat
      BY <1>1, <1>4
    <3>2. Flat(g, n + 1)[n + 1] = IF n + 1 = 1 THEN g[n + 1]
                                  ELSE Flat(g, n + 1)[(n + 1) - 1] \o g[n + 1]
      BY <3>1, FlatIs
    <3> QED
      BY <1>1, <3>1, <3>2
  <2> QED
    BY <1>2, <1>4, <2>1, <2>2, <2>3 DEF g
<1> QED
  BY <1>3, <1>4

-----------------------------------------------------------------------------
(***************************************************************************)
(* Sets of elements, and order by number.                                  *)
(***************************************************************************)
LEMMA ToSetAppend ==
  ASSUME NEW S, NEW s \in Seq(S), NEW e \in S
  PROVE  ToSet(Append(s, e)) = ToSet(s) \cup {e}
<1> DEFINE a == Append(s, e)
           n == Len(s)
<1>1. /\ DOMAIN a = 1 .. n + 1 /\ DOMAIN s = 1 .. n /\ n \in Nat
      /\ \A i \in 1 .. n : a[i] = s[i]
      /\ a[n + 1] = e
  OBVIOUS
<1>2. \A i \in 1 .. n + 1 : i \in 1 .. n \/ i = n + 1
  BY <1>1
<1>3. \A i \in 1 .. n : i \in 1 .. n + 1
  BY <1>1
<1>4. n + 1 \in 1 .. n + 1
  BY <1>1
<1> HIDE DEF a, n
<1> QED
  BY <1>1, <1>2, <1>3, <1>4 DEF ToSet, a

LEMMA ToSetConcat ==
  ASSUME NEW S, NEW s \in Seq(S), NEW t \in Seq(S)
  PROVE  ToSet(s \o t) = ToSet(s) \cup ToSet(t)
<1> DEFINE a == s \o t
           m == Len(s)
           n == Len(t)
<1>1. /\ DOMAIN a = 1 .. m + n /\ DOMAIN s = 1 .. m /\ DOMAIN t = 1 .. n
      /\ m \in Nat /\ n \in Nat
      /\ \A i \in 1 .. m : a[i] = s[i]
      /\ \A i \in 1 .. n : a[m + i] = t[i]
  OBVIOUS
<1>2. \A i \in 1 .. m + n : i \in 1 .. m \/ (i - m \in 1 .. n /\ i = m + (i - m))
  BY <1>1
<1>3. (\A i \in 1 .. m : i \in 1 .. m + n) /\ (\A i \in 1 .. n : m + i \in 1 .. m + n)
  BY <1>1
<1> HIDE DEF a, m, n
<1>4. \A x \in ToSet(a) : x \in ToSet(s) \cup ToSet(t)
  <2> SUFFICES ASSUME NEW i \in 1 .. m + n PROVE a[i] \in ToSet(s) \cup ToSet(t)
    BY <1>1 DEF ToSet
  <2>1. CASE i \in 1 .. m
    BY <1>1, <2>1 DEF ToSet
  <2>2. CASE i \notin 1 .. m
    <3> DEFINE k == i - m
    <3>1. k \in 1 .. n /\ m + k = i
      BY <1>1, <1>2, <2>2
    <3> HIDE DEF k
    <3>2. a[i] = t[k] /\ k \in DOMAIN t
      BY <1>1, <3>1
    <3> QED
      BY <3>2 DEF ToSet
  <2> QED
    BY <2>1, <2>2
<1>5. \A x \in ToSet(s) : x \in ToSet(a)
  BY <1>1, <1>3 DEF ToSet
<1>6. \A x \in ToSet(t) : x \in ToSet(a)
  BY <1>1, <1>3 DEF ToSet
<1> QED
  BY <1>4, <1>5, <1>6 DEF a

LEMMA ToSetEmpty == ToSet(<< >>) = {}
BY DEF ToSet

LEMMA EmptyIs ==
  ASSUME NEW S, NEW s \in Seq(S), ToSet(s) = {}
  PROVE  s = << >>
<1>1. ASSUME Len(s) # 0 PROVE FALSE
  <2>1. 1 \in DOMAIN s
    BY <1>1
  <2> QED
    BY <2>1 DEF ToSet
<1> QED
  BY <1>1

LEMMA ToSetType ==
  ASSUME NEW S, NEW s \in Seq(S) PROVE ToSet(s) \subseteq S
BY DEF ToSet

LEMMA NumbersIs ==
  ASSUME NEW q PROVE Numbers(q) = {p.number : p \in ToSet(q)}
BY DEF Numbers, ToSet

Sorted(queue) ==
  \A i, j \in DOMAIN queue : i < j => queue[i].number < queue[j].number

LEMMA SortedAppend ==
  ASSUME NEW S, NEW s \in Seq(S), NEW e \in S
  PROVE  Sorted(Append(s, e)) <=>
           Sorted(s) /\ \A p \in ToSet(s) : p.number < e.number
<1> DEFINE a == Append(s, e)
           n == Len(s)
<1>1. /\ DOMAIN a = 1 .. n + 1 /\ DOMAIN s = 1 .. n /\ n \in Nat
      /\ \A i \in 1 .. n : a[i] = s[i]
      /\ a[n + 1] = e
  OBVIOUS
<1>2. \A i \in 1 .. n + 1 : i \in 1 .. n \/ i = n + 1
  BY <1>1
<1>3. \A i \in 1 .. n : i \in 1 .. n + 1 /\ i < n + 1
  BY <1>1
<1>4. \A i, j \in 1 .. n + 1 : i < j => i \in 1 .. n
  BY <1>1
<1>5. n + 1 \in 1 .. n + 1
  BY <1>1
<1> HIDE DEF a, n
<1>6. ASSUME Sorted(a) PROVE Sorted(s) /\ \A p \in ToSet(s) : p.number < e.number
  BY <1>1, <1>3, <1>5, <1>6 DEF Sorted, ToSet
<1>7. ASSUME Sorted(s), \A p \in ToSet(s) : p.number < e.number PROVE Sorted(a)
  <2>1. \A i \in 1 .. n : s[i].number < e.number
    BY <1>1, <1>7 DEF ToSet
  <2>2. \A i, j \in 1 .. n : i < j => s[i].number < s[j].number
    BY <1>1, <1>7 DEF Sorted
  <2> SUFFICES ASSUME NEW i \in 1 .. n + 1, NEW j \in 1 .. n + 1, i < j
               PROVE  a[i].number < a[j].number
    BY <1>1 DEF Sorted
  <2>3. i \in 1 .. n
    BY <1>4
  <2> QED
    BY <1>1, <1>2, <2>1, <2>2, <2>3
<1> QED
  BY <1>6, <1>7 DEF a

LEMMA SortedConcat ==
  ASSUME NEW S, NEW s \in Seq(S), NEW t \in Seq(S), Sorted(s), Sorted(t),
         \A p \in ToSet(s), r \in ToSet(t) : p.number < r.number
  PROVE  Sorted(s \o t)
<1> DEFINE a == s \o t
           m == Len(s)
           n == Len(t)
<1>1. /\ DOMAIN a = 1 .. m + n /\ DOMAIN s = 1 .. m /\ DOMAIN t = 1 .. n
      /\ m \in Nat /\ n \in Nat
      /\ \A i \in 1 .. m : a[i] = s[i]
      /\ \A i \in 1 .. m + n : i \notin 1 .. m => a[i] = t[i - m]
  OBVIOUS
<1>2. \A i \in 1 .. m + n : i \notin 1 .. m => i - m \in 1 .. n /\ i - m \in Int
  BY <1>1
<1>3. \A i, j \in 1 .. m + n : i < j /\ j \in 1 .. m => i \in 1 .. m
  BY <1>1
<1>4. \A i, j \in 1 .. m + n : i < j => i - m < j - m
  BY <1>1
<1> HIDE DEF a, m, n
<1> SUFFICES ASSUME NEW i \in 1 .. m + n, NEW j \in 1 .. m + n, i < j
             PROVE  a[i].number < a[j].number
  BY <1>1 DEF Sorted, a
<1>5. CASE j \in 1 .. m
  BY <1>1, <1>3, <1>5 DEF Sorted
<1>6. CASE j \notin 1 .. m /\ i \in 1 .. m
  <2>1. a[i] \in ToSet(s) /\ a[j] \in ToSet(t)
    BY <1>1, <1>2, <1>6 DEF ToSet
  <2> QED
    BY <2>1
<1>7. CASE j \notin 1 .. m /\ i \notin 1 .. m
  <2>1. a[i] = t[i - m] /\ a[j] = t[j - m] /\ i - m \in 1 .. n /\ j - m \in 1 .. n
    BY <1>1, <1>2, <1>7
  <2>2. i - m < j - m
    BY <1>4
  <2> QED
    BY <1>1, <2>1, <2>2 DEF Sorted
<1> QED
  BY <1>5, <1>6, <1>7

-----------------------------------------------------------------------------
(***************************************************************************)
(* Selections of packets.                                                  *)
(***************************************************************************)
LEMMA WithEmpty == ASSUME NEW N PROVE WithNumbers(<< >>, N) = << >>
<1> DEFINE f == [i \in DOMAIN << >> |->
                   IF << >>[i].number \in N THEN << << >>[i] >> ELSE << >>]
<1>1. f = << >>
  OBVIOUS
<1>2. FlattenSeq(f) = << >>
  BY <1>1, FlattenEmpty
<1> QED
  BY <1>2 DEF WithNumbers

LEMMA WithAppend ==
  ASSUME NEW S, NEW q \in Seq(S), NEW e \in S, NEW N
  PROVE  /\ WithNumbers(q, N) \in Seq(S)
         /\ WithNumbers(Append(q, e), N) =
              IF e.number \in N THEN Append(WithNumbers(q, N), e)
              ELSE WithNumbers(q, N)
<1> DEFINE part(p) == IF p.number \in N THEN <<p>> ELSE << >>
           a == Append(q, e)
           f == [i \in DOMAIN q |-> part(q[i])]
           g == [i \in DOMAIN a |-> part(a[i])]
<1>1. \A p \in S : part(p) \in Seq(S)
  OBVIOUS
<1>2. /\ q \in [1 .. Len(q) -> S] /\ Len(q) \in Nat /\ DOMAIN a = 1 .. Len(q) + 1
      /\ \A i \in 1 .. Len(q) : a[i] = q[i]
      /\ a[Len(q) + 1] = e
  OBVIOUS
<1>3. f \in Seq(Seq(S)) /\ Len(f) = Len(q)
  <2> HIDE DEF part
  <2> QED
    BY <1>1, <1>2
<1>4. g = Append(f, part(e))
  <2> HIDE DEF part, a
  <2>1. \A i \in 1 .. Len(q) + 1 : g[i] = IF i \in 1 .. Len(q) THEN part(q[i]) ELSE part(e)
    BY <1>2
  <2>2. DOMAIN g = 1 .. Len(q) + 1
    BY <1>2
  <2>3. g \in Seq(Seq(S)) /\ Len(g) = Len(q) + 1
    BY <1>1, <1>2, <2>1, <2>2
  <2>4. part(e) \in Seq(S)
    BY <1>1
  <2>5. \A i \in 1 .. Len(q) + 1 : Append(f, part(e))[i] = g[i]
    BY <1>2, <1>3, <2>1, <2>4
  <2> HIDE DEF f, g
  <2>6. Append(f, part(e)) \in Seq(Seq(S)) /\ Len(Append(f, part(e))) = Len(q) + 1
    BY <1>3, <2>4
  <2>7. g = Append(f, part(e))
    <3> DEFINE h == Append(f, part(e))
    <3>1. /\ h \in Seq(Seq(S)) /\ Len(h) = Len(g)
          /\ \A i \in 1 .. Len(g) : g[i] = h[i]
      BY <2>3, <2>5, <2>6
    <3> HIDE DEF h
    <3>2. g = h
      BY <2>3, <3>1, SeqEqual
    <3> QED
      BY <3>2 DEF h
  <2> QED
    BY <2>7
<1>5. part(e) \in Seq(S)
  BY <1>1
<1>6. WithNumbers(q, N) = FlattenSeq(f) /\ WithNumbers(a, N) = FlattenSeq(g)
  BY DEF WithNumbers
<1>7. FlattenSeq(f) \in Seq(S) /\ FlattenSeq(g) = FlattenSeq(f) \o part(e)
  <2> HIDE DEF f, g, part
  <2> QED
    BY <1>3, <1>4, <1>5, FlattenAppend
<1> HIDE DEF f, g
<1> QED
  BY <1>6, <1>7

\* A selection has the packets with the numbers, in the order of the queue.
LEMMA WithIs ==
  ASSUME NEW S, NEW N
  PROVE  \A q \in Seq(S) :
           /\ WithNumbers(q, N) \in Seq(S)
           /\ ToSet(WithNumbers(q, N)) = {p \in ToSet(q) : p.number \in N}
           /\ Sorted(q) => Sorted(WithNumbers(q, N))
<1> DEFINE T == {q \in Seq(S) :
                   /\ WithNumbers(q, N) \in Seq(S)
                   /\ ToSet(WithNumbers(q, N)) = {p \in ToSet(q) : p.number \in N}
                   /\ Sorted(q) => Sorted(WithNumbers(q, N))}
<1>1. << >> \in T
  <2>1. << >> \in Seq(S) /\ Sorted(<< >>)
    BY DEF Sorted
  <2>2. WithNumbers(<< >>, N) = << >> /\ ToSet(<< >>) = {}
    BY WithEmpty, ToSetEmpty
  <2> QED
    BY <2>1, <2>2
<1>2. ASSUME NEW q \in Seq(S), NEW e \in S, q \in T PROVE Append(q, e) \in T
  <2> DEFINE w == WithNumbers(q, N)
             a == Append(q, e)
  <2>1. /\ w \in Seq(S) /\ ToSet(w) = {p \in ToSet(q) : p.number \in N}
        /\ Sorted(q) => Sorted(w)
    BY <1>2
  <2>2. WithNumbers(a, N) = IF e.number \in N THEN Append(w, e) ELSE w
    BY WithAppend
  <2>3. ToSet(a) = ToSet(q) \cup {e} /\ a \in Seq(S)
    BY ToSetAppend
  <2>4. Sorted(a) <=> Sorted(q) /\ \A p \in ToSet(q) : p.number < e.number
    BY SortedAppend
  <2> HIDE DEF w, a
  <2>5. CASE e.number \in N
    <3>1. ToSet(Append(w, e)) = ToSet(w) \cup {e} /\ Append(w, e) \in Seq(S)
      BY <2>1, ToSetAppend
    <3>2. Sorted(Append(w, e)) <=> Sorted(w) /\ \A p \in ToSet(w) : p.number < e.number
      BY <2>1, SortedAppend
    <3>3. ToSet(Append(w, e)) = {p \in ToSet(a) : p.number \in N}
      BY <2>1, <2>3, <2>5, <3>1
    <3>4. Sorted(a) => Sorted(Append(w, e))
      BY <2>1, <2>4, <3>2
    <3>5. a \in T
      BY <2>2, <2>3, <2>5, <3>1, <3>3, <3>4
    <3> QED
      BY <3>5 DEF a
  <2>6. CASE e.number \notin N
    <3>1. ToSet(w) = {p \in ToSet(a) : p.number \in N}
      BY <2>1, <2>3, <2>6
    <3>2. a \in T
      BY <2>1, <2>2, <2>3, <2>4, <2>6, <3>1
    <3> QED
      BY <3>2 DEF a
  <2> QED
    BY <2>5, <2>6
<1>3. Seq(S) \subseteq T
  <2> HIDE DEF T
  <2> QED
    BY <1>1, <1>2, SeqInduction
<1> QED
  BY <1>3

\* A selection of all the numbers is the whole; numbers that do not occur do
\* not matter.
LEMMA WithAll ==
  ASSUME NEW S
  PROVE  \A q \in Seq(S) : \A N :
           (\A p \in ToSet(q) : p.number \in N) => WithNumbers(q, N) = q
<1> DEFINE T == {q \in Seq(S) : \A N :
                   (\A p \in ToSet(q) : p.number \in N) => WithNumbers(q, N) = q}
<1>1. << >> \in T
  <2>1. << >> \in Seq(S)
    OBVIOUS
  <2> QED
    BY <2>1, WithEmpty
<1>2. ASSUME NEW q \in Seq(S), NEW e \in S, q \in T PROVE Append(q, e) \in T
  <2> SUFFICES ASSUME NEW N, \A p \in ToSet(Append(q, e)) : p.number \in N
               PROVE  WithNumbers(Append(q, e), N) = Append(q, e)
    OBVIOUS
  <2>1. e.number \in N /\ \A p \in ToSet(q) : p.number \in N
    BY ToSetAppend
  <2>2. WithNumbers(q, N) = q
    BY <1>2, <2>1
  <2> QED
    BY <2>1, <2>2, WithAppend
<1>3. Seq(S) \subseteq T
  <2> HIDE DEF T
  <2> QED
    BY <1>1, <1>2, SeqInduction
<1> QED
  BY <1>3

-----------------------------------------------------------------------------
(***************************************************************************)
(* Sums over a sequence.  w gives every element its weight.                *)
(***************************************************************************)
Weigh(w, q) == Addition!Fold(0, [k \in DOMAIN q |-> w[q[k]]])

LEMMA WeighEmpty == ASSUME NEW w PROVE Weigh(w, << >>) = 0
<1>1. [k \in DOMAIN << >> |-> w[<< >>[k]]] = << >>
  OBVIOUS
<1>2. Addition!Fold(0, << >>) = 0
  BY Addition!FoldEmpty
<1> QED
  BY <1>1, <1>2 DEF Weigh

LEMMA WeighAppend ==
  ASSUME NEW S, NEW w, NEW q \in Seq(S), NEW e \in S
  PROVE  Weigh(w, Append(q, e)) = Weigh(w, q) + w[e]
<1> DEFINE n == Len(q)
           a == Append(q, e)
           f == [k \in DOMAIN q |-> w[q[k]]]
           g == [k \in DOMAIN a |-> w[a[k]]]
<1>1. /\ n \in Nat /\ DOMAIN f = 1 .. n /\ DOMAIN g = 1 .. n + 1
      /\ \A k \in 1 .. n : f[k] = g[k]
      /\ g[n + 1] = w[e]
  <2>1. /\ DOMAIN q = 1 .. n /\ DOMAIN a = 1 .. n + 1 /\ n \in Nat
        /\ \A k \in 1 .. n : a[k] = q[k] /\ k \in 1 .. n + 1
        /\ a[n + 1] = e /\ n + 1 \in 1 .. n + 1
    OBVIOUS
  <2> HIDE DEF a, n
  <2> QED
    BY <2>1
<1> HIDE DEF f, g, n
<1>2. \A k \in 1 .. n : f[k] = g[k]
  BY <1>1
<1>3. Addition!Fold(0, g) = Addition!Fold(0, f) + g[n + 1]
  BY <1>1, <1>2, Addition!FoldPrefix
<1> QED
  BY <1>1, <1>3 DEF Weigh, f, g

LEMMA WeighNat ==
  ASSUME NEW S, NEW w \in [S -> Nat] PROVE \A q \in Seq(S) : Weigh(w, q) \in Nat
<1> DEFINE T == {q \in Seq(S) : Weigh(w, q) \in Nat}
<1>1. << >> \in T
  BY WeighEmpty
<1>2. ASSUME NEW q \in Seq(S), NEW e \in S, q \in T PROVE Append(q, e) \in T
  <2>1. Weigh(w, Append(q, e)) = Weigh(w, q) + w[e]
    BY WeighAppend
  <2>2. Weigh(w, q) \in Nat /\ w[e] \in Nat /\ Append(q, e) \in Seq(S)
    BY <1>2
  <2> QED
    BY <2>1, <2>2
<1>3. Seq(S) \subseteq T
  <2> HIDE DEF T
  <2> QED
    BY <1>1, <1>2, SeqInduction
<1> QED
  BY <1>3

LEMMA WeighConcat ==
  ASSUME NEW S, NEW w \in [S -> Nat], NEW q \in Seq(S)
  PROVE  \A r \in Seq(S) : Weigh(w, q \o r) = Weigh(w, q) + Weigh(w, r)
<1> DEFINE T == {r \in Seq(S) : Weigh(w, q \o r) = Weigh(w, q) + Weigh(w, r)}
<1>0. Weigh(w, q) \in Nat
  BY WeighNat
<1>1. << >> \in T
  <2>1. << >> \in Seq(S) /\ q \o << >> = q /\ Weigh(w, << >>) = 0
    BY WeighEmpty
  <2> QED
    BY <1>0, <2>1
<1>2. ASSUME NEW r \in Seq(S), NEW e \in S, r \in T PROVE Append(r, e) \in T
  <2>1. q \o Append(r, e) = Append(q \o r, e) /\ q \o r \in Seq(S)
    OBVIOUS
  <2>2. /\ Weigh(w, Append(q \o r, e)) = Weigh(w, q \o r) + w[e]
        /\ Weigh(w, Append(r, e)) = Weigh(w, r) + w[e]
    BY <2>1, WeighAppend
  <2>3. Weigh(w, r) \in Nat /\ w[e] \in Nat
    BY WeighNat
  <2>4. Weigh(w, q \o r) = Weigh(w, q) + Weigh(w, r) /\ Append(r, e) \in Seq(S)
    BY <1>2
  <2>5. \A a, b, c, d, f, g \in Nat :
          a = b + c /\ d = a + f /\ g = c + f => d = b + g
    OBVIOUS
  <2>6. /\ Weigh(w, Append(q \o r, e)) \in Nat /\ Weigh(w, Append(r, e)) \in Nat
        /\ Weigh(w, q \o r) \in Nat
    BY <1>0, <2>2, <2>3, <2>4
  <2>7. Weigh(w, Append(q \o r, e)) = Weigh(w, q) + Weigh(w, Append(r, e))
    BY <1>0, <2>2, <2>3, <2>4, <2>5, <2>6
  <2> QED
    BY <2>1, <2>4, <2>7
<1>3. Seq(S) \subseteq T
  <2> HIDE DEF T
  <2> QED
    BY <1>1, <1>2, SeqInduction
<1> QED
  BY <1>3

\* The weights of three selections that have every packet once add up.
LEMMA WeighSplit ==
  ASSUME NEW S, NEW w \in [S -> Nat], NEW A, NEW B, NEW C
  PROVE  \A q \in Seq(S) :
           (\A p \in ToSet(q) :
              /\ p.number \in A \/ p.number \in B \/ p.number \in C
              /\ ~(p.number \in A /\ p.number \in B)
              /\ ~(p.number \in A /\ p.number \in C)
              /\ ~(p.number \in B /\ p.number \in C)) =>
           Weigh(w, q) = Weigh(w, WithNumbers(q, A)) + Weigh(w, WithNumbers(q, B))
                         + Weigh(w, WithNumbers(q, C))
<1> DEFINE Once(p) == /\ p.number \in A \/ p.number \in B \/ p.number \in C
                      /\ ~(p.number \in A /\ p.number \in B)
                      /\ ~(p.number \in A /\ p.number \in C)
                      /\ ~(p.number \in B /\ p.number \in C)
           Sum(q) == Weigh(w, WithNumbers(q, A)) + Weigh(w, WithNumbers(q, B))
                     + Weigh(w, WithNumbers(q, C))
           T == {q \in Seq(S) : (\A p \in ToSet(q) : Once(p)) => Weigh(w, q) = Sum(q)}
<1>1. << >> \in T
  <2>1. << >> \in Seq(S) /\ Weigh(w, << >>) = 0
    BY WeighEmpty
  <2>2. /\ WithNumbers(<< >>, A) = << >> /\ WithNumbers(<< >>, B) = << >>
        /\ WithNumbers(<< >>, C) = << >>
    BY WithEmpty
  <2> QED
    BY <2>1, <2>2
<1>2. ASSUME NEW q \in Seq(S), NEW e \in S, q \in T PROVE Append(q, e) \in T
  <2> SUFFICES ASSUME \A p \in ToSet(Append(q, e)) : Once(p)
               PROVE  Weigh(w, Append(q, e)) = Sum(Append(q, e))
    OBVIOUS
  <2>1. Once(e) /\ \A p \in ToSet(q) : Once(p)
    BY ToSetAppend
  <2>2. Weigh(w, q) = Sum(q)
    BY <1>2, <2>1
  <2> DEFINE qA == WithNumbers(q, A)
             qB == WithNumbers(q, B)
             qC == WithNumbers(q, C)
  <2>3. qA \in Seq(S) /\ qB \in Seq(S) /\ qC \in Seq(S)
    BY WithAppend
  <2>4. /\ WithNumbers(Append(q, e), A) = IF e.number \in A THEN Append(qA, e) ELSE qA
        /\ WithNumbers(Append(q, e), B) = IF e.number \in B THEN Append(qB, e) ELSE qB
        /\ WithNumbers(Append(q, e), C) = IF e.number \in C THEN Append(qC, e) ELSE qC
    <3> HIDE DEF Once
    <3> QED
      BY WithAppend
  <2>5. Weigh(w, Append(q, e)) = Weigh(w, q) + w[e]
    BY WeighAppend
  <2> HIDE DEF qA, qB, qC
  <2>6. /\ Weigh(w, Append(qA, e)) = Weigh(w, qA) + w[e]
        /\ Weigh(w, Append(qB, e)) = Weigh(w, qB) + w[e]
        /\ Weigh(w, Append(qC, e)) = Weigh(w, qC) + w[e]
    BY <2>3, WeighAppend
  <2>7. Weigh(w, qA) \in Nat /\ Weigh(w, qB) \in Nat /\ Weigh(w, qC) \in Nat /\ w[e] \in Nat
    BY <2>3, WeighNat
  <2>8. Weigh(w, q) = Weigh(w, qA) + Weigh(w, qB) + Weigh(w, qC)
    BY <2>2 DEF qA, qB, qC
  <2>9. CASE e.number \in A /\ e.number \notin B /\ e.number \notin C
    <3>1. Sum(Append(q, e)) = Weigh(w, Append(qA, e)) + Weigh(w, qB) + Weigh(w, qC)
      BY <2>4, <2>9
    <3> QED
      BY <2>5, <2>6, <2>7, <2>8, <3>1
  <2>10. CASE e.number \notin A /\ e.number \in B /\ e.number \notin C
    <3>1. Sum(Append(q, e)) = Weigh(w, qA) + Weigh(w, Append(qB, e)) + Weigh(w, qC)
      BY <2>4, <2>10
    <3> QED
      BY <2>5, <2>6, <2>7, <2>8, <3>1
  <2>11. CASE e.number \notin A /\ e.number \notin B /\ e.number \in C
    <3>1. Sum(Append(q, e)) = Weigh(w, qA) + Weigh(w, qB) + Weigh(w, Append(qC, e))
      BY <2>4, <2>11
    <3> QED
      BY <2>5, <2>6, <2>7, <2>8, <3>1
  <2> QED
    BY <2>1, <2>9, <2>10, <2>11
<1>3. Seq(S) \subseteq T
  <2> HIDE DEF T
  <2> QED
    BY <1>1, <1>2, SeqInduction
<1> QED
  BY <1>3

-----------------------------------------------------------------------------
(***************************************************************************)
(* Packets, their sizes and the bytes they carry.                          *)
(***************************************************************************)
StreamFrame ==
  [stream : Nat \ {0}, offset : Nat, length : Nat \ {0}, fin : BOOLEAN]

PacketSize(frames, long) ==
  Maximum(MinPacketSize, HeaderBytes(long) + FrameBytes(frames))

\* What a packet of the send queue is: it has frames, the size they make, and
\* a number above those its frames had before.
Packet ==
  {p \in [number : Nat, history : SUBSET Nat,
          frames : Seq(StreamFrame), long : BOOLEAN, size : Nat] :
     /\ p.frames # << >>
     /\ p.size = PacketSize(p.frames, p.long)
     /\ \A h \in p.history : h < p.number}

FrameWeight(i) ==
  [f \in StreamFrame |-> IF f.stream = i THEN f.length ELSE 0]

PacketWeight(i) == [p \in Packet |-> StreamBytes(p.frames, i)]

SizeWeight == [p \in Packet |-> p.size]

\* The bytes of stream i that the packets of q carry.
Carried(q, i) == StreamBytes(AllFrames(q), i)

LEMMA StreamBytesIs ==
  ASSUME NEW frames \in Seq(StreamFrame), NEW i
  PROVE  StreamBytes(frames, i) = Weigh(FrameWeight(i), frames)
<1> DEFINE f == [k \in DOMAIN frames |->
                   IF frames[k].stream = i THEN frames[k].length ELSE 0]
           g == [k \in DOMAIN frames |-> FrameWeight(i)[frames[k]]]
<1>1. f = g
  BY DEF FrameWeight
<1>2. StreamBytes(frames, i) = Addition!Fold(0, f)
  BY DEF StreamBytes, Addition!Fold, FoldLeft, MapThenFoldSet, Max,
     Addition!MapThenFoldSet, Addition!Largest
<1>3. Weigh(FrameWeight(i), frames) = Addition!Fold(0, g)
  BY DEF Weigh
<1> HIDE DEF f, g
<1> QED
  BY <1>1, <1>2, <1>3

LEMMA FrameWeightType ==
  ASSUME NEW i PROVE FrameWeight(i) \in [StreamFrame -> Nat]
BY DEF FrameWeight, StreamFrame

LEMMA StreamBytesFacts ==
  ASSUME NEW i
  PROVE  /\ StreamBytes(<< >>, i) = 0
         /\ \A s \in Seq(StreamFrame) : StreamBytes(s, i) \in Nat
         /\ \A s \in Seq(StreamFrame) : \A f \in StreamFrame :
              StreamBytes(Append(s, f), i) =
                StreamBytes(s, i) + (IF f.stream = i THEN f.length ELSE 0)
         /\ \A s, t \in Seq(StreamFrame) :
              StreamBytes(s \o t, i) = StreamBytes(s, i) + StreamBytes(t, i)
<1> DEFINE w == FrameWeight(i)
<1>1. w \in [StreamFrame -> Nat]
  BY FrameWeightType
<1>2. \A s \in Seq(StreamFrame) : StreamBytes(s, i) = Weigh(w, s)
  BY StreamBytesIs
<1>3. \A f \in StreamFrame : w[f] = IF f.stream = i THEN f.length ELSE 0
  BY DEF FrameWeight
<1> HIDE DEF w
<1>4. StreamBytes(<< >>, i) = 0
  <2>1. << >> \in Seq(StreamFrame) /\ Weigh(w, << >>) = 0
    BY WeighEmpty
  <2> QED
    BY <1>2, <2>1
<1>5. \A s \in Seq(StreamFrame) : StreamBytes(s, i) \in Nat
  BY <1>1, <1>2, WeighNat
<1>6. ASSUME NEW s \in Seq(StreamFrame), NEW f \in StreamFrame
      PROVE  StreamBytes(Append(s, f), i) =
               StreamBytes(s, i) + (IF f.stream = i THEN f.length ELSE 0)
  <2>1. Append(s, f) \in Seq(StreamFrame)
    OBVIOUS
  <2>2. Weigh(w, Append(s, f)) = Weigh(w, s) + w[f]
    BY WeighAppend
  <2>3. StreamBytes(Append(s, f), i) = StreamBytes(s, i) + w[f]
    BY <1>2, <2>1, <2>2
  <2> QED
    BY <1>3, <2>3
<1>7. ASSUME NEW s \in Seq(StreamFrame), NEW t \in Seq(StreamFrame)
      PROVE  StreamBytes(s \o t, i) = StreamBytes(s, i) + StreamBytes(t, i)
  <2>1. s \o t \in Seq(StreamFrame)
    OBVIOUS
  <2>2. Weigh(w, s \o t) = Weigh(w, s) + Weigh(w, t)
    BY <1>1, WeighConcat
  <2> QED
    BY <1>2, <2>1, <2>2
<1> QED
  BY <1>4, <1>5, <1>6, <1>7

LEMMA PacketWeights ==
  /\ SizeWeight \in [Packet -> Nat]
  /\ \A i : PacketWeight(i) \in [Packet -> Nat]
<1>1. SizeWeight \in [Packet -> Nat]
  BY DEF SizeWeight, Packet
<1>2. ASSUME NEW i PROVE PacketWeight(i) \in [Packet -> Nat]
  <2>1. \A p \in Packet : StreamBytes(p.frames, i) \in Nat
    <3>1. \A p \in Packet : p.frames \in Seq(StreamFrame)
      BY DEF Packet
    <3> QED
      BY <3>1, StreamBytesFacts
  <2> QED
    BY <2>1 DEF PacketWeight
<1> QED
  BY <1>1, <1>2

LEMMA TotalSizeFold == ASSUME NEW q PROVE TotalSize(q) = Sizes!Fold(0, q)
BY DEF TotalSize, Sizes!Fold, FoldLeft, MapThenFoldSet, Max,
   Sizes!MapThenFoldSet, Sizes!Largest

LEMMA TotalSizeIs == \A q \in Seq(Packet) : TotalSize(q) = Weigh(SizeWeight, q)
<1> DEFINE T == {q \in Seq(Packet) : TotalSize(q) = Weigh(SizeWeight, q)}
<1>1. << >> \in T
  <2>1. Sizes!Fold(0, << >>) = 0
    BY Sizes!FoldEmpty
  <2>2. << >> \in Seq(Packet) /\ Weigh(SizeWeight, << >>) = 0
    BY WeighEmpty
  <2>3. TotalSize(<< >>) = Sizes!Fold(0, << >>)
    BY TotalSizeFold
  <2> QED
    BY <2>1, <2>2, <2>3
<1>2. ASSUME NEW q \in Seq(Packet), NEW e \in Packet, q \in T
      PROVE  Append(q, e) \in T
  <2>1. Sizes!Fold(0, Append(q, e)) = Sizes!Fold(0, q) + e.size
    BY Sizes!FoldAppend
  <2>2. Weigh(SizeWeight, Append(q, e)) = Weigh(SizeWeight, q) + SizeWeight[e]
    BY WeighAppend
  <2>3. SizeWeight[e] = e.size
    BY DEF SizeWeight
  <2>4. TotalSize(q) = Weigh(SizeWeight, q) /\ Append(q, e) \in Seq(Packet)
    BY <1>2
  <2>5. TotalSize(Append(q, e)) = Weigh(SizeWeight, Append(q, e))
    BY <2>1, <2>2, <2>3, <2>4, TotalSizeFold
  <2> QED
    BY <2>4, <2>5
<1>3. Seq(Packet) \subseteq T
  <2> HIDE DEF T
  <2> QED
    BY <1>1, <1>2, SeqInduction
<1> QED
  BY <1>3

LEMMA AllFramesAppend ==
  ASSUME NEW q \in Seq(Packet), NEW p \in Packet
  PROVE  /\ AllFrames(q) \in Seq(StreamFrame)
         /\ AllFrames(Append(q, p)) = AllFrames(q) \o p.frames
<1> DEFINE a == Append(q, p)
           f == [i \in DOMAIN q |-> q[i].frames]
           g == [i \in DOMAIN a |-> a[i].frames]
<1>1. \A r \in Packet : r.frames \in Seq(StreamFrame)
  BY DEF Packet
<1>2. /\ DOMAIN a = 1 .. Len(q) + 1 /\ DOMAIN q = 1 .. Len(q) /\ Len(q) \in Nat
      /\ \A i \in 1 .. Len(q) : a[i] = q[i] /\ q[i] \in Packet /\ i \in 1 .. Len(q) + 1
      /\ a[Len(q) + 1] = p /\ Len(q) + 1 \in 1 .. Len(q) + 1
  OBVIOUS
<1>3. f \in Seq(Seq(StreamFrame)) /\ Len(f) = Len(q)
  BY <1>1, <1>2
<1>4. p.frames \in Seq(StreamFrame)
  BY <1>1
<1>5. /\ Append(f, p.frames) \in Seq(Seq(StreamFrame))
      /\ Len(Append(f, p.frames)) = Len(q) + 1
      /\ \A i \in 1 .. Len(q) : Append(f, p.frames)[i] = f[i]
      /\ Append(f, p.frames)[Len(q) + 1] = p.frames
  <2> HIDE DEF f
  <2> QED
    BY <1>3, <1>4
<1>6. DOMAIN g = 1 .. Len(q) + 1 /\ \A i \in 1 .. Len(q) + 1 : g[i] = a[i].frames
  BY <1>2
<1>7. \A i \in 1 .. Len(q) + 1 : i \in 1 .. Len(q) \/ i = Len(q) + 1
  OBVIOUS
<1>8. \A i \in 1 .. Len(q) : f[i] = q[i].frames
  OBVIOUS
<1> HIDE DEF a
<1>9. \A i \in 1 .. Len(q) + 1 : g[i] \in Seq(StreamFrame)
  BY <1>1, <1>2, <1>6, <1>7
<1>10. g \in Seq(Seq(StreamFrame)) /\ Len(g) = Len(q) + 1
  BY <1>2, <1>6, <1>9
<1> HIDE DEF f, g
<1>11. \A i \in 1 .. Len(q) + 1 : g[i] = Append(f, p.frames)[i]
  BY <1>2, <1>5, <1>6, <1>7, <1>8
<1>12. g = Append(f, p.frames)
  <2> DEFINE h == Append(f, p.frames)
  <2>1. h \in Seq(Seq(StreamFrame)) /\ Len(h) = Len(g) /\ \A i \in 1 .. Len(g) : g[i] = h[i]
    BY <1>5, <1>10, <1>11
  <2> HIDE DEF h
  <2>2. g = h
    BY <1>10, <2>1, SeqEqual
  <2> QED
    BY <2>2 DEF h
<1>13. AllFrames(q) = FlattenSeq(f) /\ AllFrames(a) = FlattenSeq(g)
  BY DEF AllFrames, f, g
<1>14. /\ FlattenSeq(f) \in Seq(StreamFrame)
       /\ FlattenSeq(Append(f, p.frames)) = FlattenSeq(f) \o p.frames
  BY <1>3, <1>4, FlattenAppend
<1> QED
  BY <1>12, <1>13, <1>14 DEF a

LEMMA AllFramesEmpty == AllFrames(<< >>) = << >>
<1>1. [i \in DOMAIN << >> |-> << >>[i].frames] = << >>
  OBVIOUS
<1> QED
  BY <1>1, FlattenEmpty DEF AllFrames

LEMMA CarriedIs ==
  ASSUME NEW i
  PROVE  \A q \in Seq(Packet) : Carried(q, i) = Weigh(PacketWeight(i), q)
<1> DEFINE T == {q \in Seq(Packet) : Carried(q, i) = Weigh(PacketWeight(i), q)}
<1>1. << >> \in T
  <2>1. << >> \in Seq(Packet) /\ Weigh(PacketWeight(i), << >>) = 0
    BY WeighEmpty
  <2>2. Carried(<< >>, i) = 0
    BY AllFramesEmpty, StreamBytesFacts DEF Carried
  <2> QED
    BY <2>1, <2>2
<1>2. ASSUME NEW q \in Seq(Packet), NEW e \in Packet, q \in T
      PROVE  Append(q, e) \in T
  <2>1. AllFrames(q) \in Seq(StreamFrame) /\ AllFrames(Append(q, e)) = AllFrames(q) \o e.frames
    BY AllFramesAppend
  <2>2. e.frames \in Seq(StreamFrame)
    BY DEF Packet
  <2>3. Carried(Append(q, e), i) = Carried(q, i) + StreamBytes(e.frames, i)
    <3> DEFINE all == AllFrames(q)
    <3> HIDE DEF all
    <3>1. StreamBytes(all \o e.frames, i) = StreamBytes(all, i) + StreamBytes(e.frames, i)
      BY <2>1, <2>2, StreamBytesFacts DEF all
    <3> QED
      BY <2>1, <3>1 DEF Carried, all
  <2>4. Weigh(PacketWeight(i), Append(q, e)) = Weigh(PacketWeight(i), q) + PacketWeight(i)[e]
    BY WeighAppend
  <2>5. PacketWeight(i)[e] = StreamBytes(e.frames, i)
    BY DEF PacketWeight
  <2>6. Carried(q, i) = Weigh(PacketWeight(i), q) /\ Append(q, e) \in Seq(Packet)
    BY <1>2
  <2>7. Carried(Append(q, e), i) = Weigh(PacketWeight(i), Append(q, e))
    BY <2>3, <2>4, <2>5, <2>6
  <2> QED
    BY <2>6, <2>7
<1>3. Seq(Packet) \subseteq T
  <2> HIDE DEF T
  <2> QED
    BY <1>1, <1>2, SeqInduction
<1> QED
  BY <1>3

\* Three selections of a queue that have every packet once.
Thirds(q, A, B, C) ==
  \A p \in ToSet(q) :
    /\ p.number \in A \/ p.number \in B \/ p.number \in C
    /\ ~(p.number \in A /\ p.number \in B)
    /\ ~(p.number \in A /\ p.number \in C)
    /\ ~(p.number \in B /\ p.number \in C)

LEMMA CarriedFacts ==
  ASSUME NEW i
  PROVE  /\ Carried(<< >>, i) = 0
         /\ \A q \in Seq(Packet) : Carried(q, i) \in Nat
         /\ \A q \in Seq(Packet) : \A p \in Packet :
              Carried(Append(q, p), i) = Carried(q, i) + StreamBytes(p.frames, i)
         /\ \A q, r \in Seq(Packet) :
              Carried(q \o r, i) = Carried(q, i) + Carried(r, i)
<1> DEFINE w == PacketWeight(i)
<1>1. w \in [Packet -> Nat]
  BY PacketWeights
<1>2. \A q \in Seq(Packet) : Carried(q, i) = Weigh(w, q)
  BY CarriedIs
<1>3. \A p \in Packet : w[p] = StreamBytes(p.frames, i)
  BY DEF PacketWeight
<1> HIDE DEF w
<1>4. Carried(<< >>, i) = 0
  <2>1. << >> \in Seq(Packet) /\ Weigh(w, << >>) = 0
    BY WeighEmpty
  <2> QED
    BY <1>2, <2>1
<1>5. \A q \in Seq(Packet) : Carried(q, i) \in Nat
  BY <1>1, <1>2, WeighNat
<1>6. ASSUME NEW q \in Seq(Packet), NEW p \in Packet
      PROVE  Carried(Append(q, p), i) = Carried(q, i) + StreamBytes(p.frames, i)
  <2>1. Append(q, p) \in Seq(Packet)
    OBVIOUS
  <2>2. Weigh(w, Append(q, p)) = Weigh(w, q) + w[p]
    BY WeighAppend
  <2>3. Carried(Append(q, p), i) = Carried(q, i) + w[p]
    BY <1>2, <2>1, <2>2
  <2> QED
    BY <1>3, <2>3
<1>7. ASSUME NEW q \in Seq(Packet), NEW r \in Seq(Packet)
      PROVE  Carried(q \o r, i) = Carried(q, i) + Carried(r, i)
  <2>1. q \o r \in Seq(Packet)
    OBVIOUS
  <2>2. Weigh(w, q \o r) = Weigh(w, q) + Weigh(w, r)
    BY <1>1, WeighConcat
  <2> QED
    BY <1>2, <2>1, <2>2
<1> QED
  BY <1>4, <1>5, <1>6, <1>7

LEMMA CarriedSplit ==
  ASSUME NEW i, NEW q \in Seq(Packet), NEW A, NEW B, NEW C, Thirds(q, A, B, C)
  PROVE  Carried(q, i) = Carried(WithNumbers(q, A), i)
                         + Carried(WithNumbers(q, B), i)
                         + Carried(WithNumbers(q, C), i)
<1> DEFINE w == PacketWeight(i)
<1>1. w \in [Packet -> Nat]
  BY PacketWeights
<1>2. \A r \in Seq(Packet) : Carried(r, i) = Weigh(w, r)
  BY CarriedIs
<1>3. /\ WithNumbers(q, A) \in Seq(Packet) /\ WithNumbers(q, B) \in Seq(Packet)
      /\ WithNumbers(q, C) \in Seq(Packet)
  BY WithIs
<1> HIDE DEF w
<1>4. Weigh(w, q) = Weigh(w, WithNumbers(q, A)) + Weigh(w, WithNumbers(q, B))
                    + Weigh(w, WithNumbers(q, C))
  BY <1>1, WeighSplit DEF Thirds
<1> QED
  BY <1>2, <1>3, <1>4

LEMMA TotalSizeFacts ==
  /\ TotalSize(<< >>) = 0
  /\ \A q \in Seq(Packet) : TotalSize(q) \in Nat
  /\ \A q \in Seq(Packet) : \A p \in Packet :
       TotalSize(Append(q, p)) = TotalSize(q) + p.size
  /\ \A q, r \in Seq(Packet) : TotalSize(q \o r) = TotalSize(q) + TotalSize(r)
<1> DEFINE w == SizeWeight
<1>1. w \in [Packet -> Nat]
  BY PacketWeights
<1>2. \A q \in Seq(Packet) : TotalSize(q) = Weigh(w, q)
  BY TotalSizeIs
<1>3. \A p \in Packet : w[p] = p.size
  BY DEF SizeWeight
<1> HIDE DEF w
<1>4. TotalSize(<< >>) = 0
  <2>1. << >> \in Seq(Packet) /\ Weigh(w, << >>) = 0
    BY WeighEmpty
  <2> QED
    BY <1>2, <2>1
<1>5. \A q \in Seq(Packet) : TotalSize(q) \in Nat
  BY <1>1, <1>2, WeighNat
<1>6. ASSUME NEW q \in Seq(Packet), NEW p \in Packet
      PROVE  TotalSize(Append(q, p)) = TotalSize(q) + p.size
  <2>1. Append(q, p) \in Seq(Packet)
    OBVIOUS
  <2>2. Weigh(w, Append(q, p)) = Weigh(w, q) + w[p]
    BY WeighAppend
  <2>3. TotalSize(Append(q, p)) = TotalSize(q) + w[p]
    BY <1>2, <2>1, <2>2
  <2> QED
    BY <1>3, <2>3
<1>7. ASSUME NEW q \in Seq(Packet), NEW r \in Seq(Packet)
      PROVE  TotalSize(q \o r) = TotalSize(q) + TotalSize(r)
  <2>1. q \o r \in Seq(Packet)
    OBVIOUS
  <2>2. Weigh(w, q \o r) = Weigh(w, q) + Weigh(w, r)
    BY <1>1, WeighConcat
  <2> QED
    BY <1>2, <2>1, <2>2
<1> QED
  BY <1>4, <1>5, <1>6, <1>7

LEMMA TotalSizeSplit ==
  ASSUME NEW q \in Seq(Packet), NEW A, NEW B, NEW C, Thirds(q, A, B, C)
  PROVE  TotalSize(q) = TotalSize(WithNumbers(q, A)) + TotalSize(WithNumbers(q, B))
                        + TotalSize(WithNumbers(q, C))
<1> DEFINE w == SizeWeight
<1>1. w \in [Packet -> Nat]
  BY PacketWeights
<1>2. \A r \in Seq(Packet) : TotalSize(r) = Weigh(w, r)
  BY TotalSizeIs
<1>3. /\ WithNumbers(q, A) \in Seq(Packet) /\ WithNumbers(q, B) \in Seq(Packet)
      /\ WithNumbers(q, C) \in Seq(Packet)
  BY WithIs
<1> HIDE DEF w
<1>4. Weigh(w, q) = Weigh(w, WithNumbers(q, A)) + Weigh(w, WithNumbers(q, B))
                    + Weigh(w, WithNumbers(q, C))
  BY <1>1, WeighSplit DEF Thirds
<1> QED
  BY <1>2, <1>3, <1>4

\* A selection of nothing.
LEMMA WithNone ==
  ASSUME NEW q \in Seq(Packet), NEW N, \A p \in ToSet(q) : p.number \notin N
  PROVE  WithNumbers(q, N) = << >>
<1> DEFINE r == WithNumbers(q, N)
<1>1. r \in Seq(Packet) /\ ToSet(r) = {}
  <2>1. r \in Seq(Packet) /\ ToSet(r) = {p \in ToSet(q) : p.number \in N}
    BY WithIs
  <2> QED
    BY <2>1
<1> HIDE DEF r
<1>2. r = << >>
  BY <1>1, EmptyIs
<1> QED
  BY <1>2 DEF r

-----------------------------------------------------------------------------
(***************************************************************************)
(* Sets of packets in the order of their numbers: ACKED_out_of_order.      *)
(***************************************************************************)
Distinct(packets) ==
  \A p, r \in packets : p # r => p.number # r.number

LEMMA SortedCardinality ==
  \A q \in Seq(Packet) : Sorted(q) =>
    IsFiniteSet(ToSet(q)) /\ Cardinality(ToSet(q)) = Len(q)
<1> DEFINE T == {q \in Seq(Packet) : Sorted(q) =>
                   IsFiniteSet(ToSet(q)) /\ Cardinality(ToSet(q)) = Len(q)}
<1>1. << >> \in T
  <2>1. << >> \in Seq(Packet) /\ Len(<< >>) = 0
    OBVIOUS
  <2>2. IsFiniteSet({}) /\ Cardinality({}) = 0
    BY FS_EmptySet
  <2> QED
    BY <2>1, <2>2, ToSetEmpty
<1>2. ASSUME NEW q \in Seq(Packet), NEW e \in Packet, q \in T
      PROVE  Append(q, e) \in T
  <2> SUFFICES ASSUME Sorted(Append(q, e))
               PROVE  /\ IsFiniteSet(ToSet(Append(q, e)))
                      /\ Cardinality(ToSet(Append(q, e))) = Len(Append(q, e))
    OBVIOUS
  <2>1. Sorted(q) /\ \A p \in ToSet(q) : p.number < e.number
    BY SortedAppend
  <2>2. ToSet(Append(q, e)) = ToSet(q) \cup {e}
    BY ToSetAppend
  <2>3. IsFiniteSet(ToSet(q)) /\ Cardinality(ToSet(q)) = Len(q)
    BY <1>2, <2>1
  <2>4. e \notin ToSet(q)
    <3>1. e.number \in Nat
      BY DEF Packet
    <3> QED
      BY <2>1, <3>1
  <2>5. /\ IsFiniteSet(ToSet(q) \cup {e})
        /\ Cardinality(ToSet(q) \cup {e}) = Cardinality(ToSet(q)) + 1
    BY <2>3, <2>4, FS_AddElement
  <2>6. Len(Append(q, e)) = Len(q) + 1
    OBVIOUS
  <2> QED
    BY <2>2, <2>3, <2>5, <2>6
<1>3. Seq(Packet) \subseteq T
  <2> HIDE DEF T
  <2> QED
    BY <1>1, <1>2, SeqInduction
<1> QED
  BY <1>3

LEMMA Rank ==
  ASSUME NEW q \in Seq(Packet), Sorted(q), NEW i \in 1 .. Len(q)
  PROVE  Cardinality({r \in ToSet(q) : r.number < q[i].number}) = i - 1
<1> DEFINE before == [j \in 1 .. i - 1 |-> q[j]]
<1>1. /\ DOMAIN q = 1 .. Len(q) /\ Len(q) \in Nat /\ i - 1 \in Nat
      /\ \A j \in 1 .. Len(q) : q[j] \in Packet
      /\ \A j \in 1 .. i - 1 : j \in 1 .. Len(q) /\ j < i
  OBVIOUS
<1>2. before \in Seq(Packet) /\ Len(before) = i - 1
  BY <1>1
<1>3. DOMAIN before = 1 .. i - 1 /\ \A j \in 1 .. i - 1 : before[j] = q[j]
  OBVIOUS
<1> HIDE DEF before
<1>4. Sorted(before)
  BY <1>1, <1>3 DEF Sorted
<1>5. ToSet(before) = {r \in ToSet(q) : r.number < q[i].number}
  <2>1. ASSUME NEW j \in 1 .. i - 1 PROVE q[j] \in ToSet(q) /\ q[j].number < q[i].number
    BY <1>1 DEF ToSet, Sorted
  <2>2. ASSUME NEW j \in 1 .. Len(q), q[j].number < q[i].number PROVE j \in 1 .. i - 1
    <3>1. q[i].number \in Nat /\ q[j].number \in Nat
      BY DEF Packet
    <3>2. ~(i < j)
      BY <1>1, <2>2, <3>1 DEF Sorted
    <3>3. j # i
      BY <2>2, <3>1
    <3> QED
      BY <3>2, <3>3
  <2> QED
    BY <1>1, <1>3, <2>1, <2>2 DEF ToSet
<1> QED
  BY <1>2, <1>4, <1>5, SortedCardinality

\* A sorted queue is its set of packets, in the order of their numbers.
LEMMA ByNumberIs ==
  ASSUME NEW q \in Seq(Packet), Sorted(q)
  PROVE  ByNumber(ToSet(q)) = q
<1> DEFINE S == ToSet(q)
           R(p) == Cardinality({r \in S : r.number < p.number})
           b == ByNumber(S)
<1>1. Cardinality(S) = Len(q) /\ Len(q) \in Nat /\ DOMAIN q = 1 .. Len(q)
  BY SortedCardinality
<1>2. \A i \in 1 .. Len(q) : R(q[i]) = i - 1 /\ q[i] \in S
  BY Rank DEF ToSet
<1>3. \A p \in S : \E i \in 1 .. Len(q) : p = q[i]
  BY <1>1 DEF ToSet
<1>4. b = [i \in 1 .. Len(q) |-> CHOOSE p \in S : R(p) = i - 1]
  BY <1>1 DEF ByNumber
<1> HIDE DEF S, R, b
<1>5. ASSUME NEW i \in 1 .. Len(q) PROVE b[i] = q[i]
  <2>1. q[i] \in S /\ R(q[i]) = i - 1
    BY <1>2
  <2>2. ASSUME NEW p \in S, R(p) = i - 1 PROVE p = q[i]
    <3>1. PICK j \in 1 .. Len(q) : p = q[j]
      BY <1>3
    <3>2. R(p) = j - 1
      BY <1>2, <3>1
    <3>3. i = j
      BY <2>2, <3>2
    <3> QED
      BY <3>1, <3>3
  <2>3. (CHOOSE p \in S : R(p) = i - 1) = q[i]
    BY <2>1, <2>2
  <2> QED
    BY <1>4, <2>3
<1>6. q = [i \in 1 .. Len(q) |-> q[i]]
  OBVIOUS
<1>7. b = [i \in 1 .. Len(q) |-> b[i]]
  BY <1>4
<1>8. b = q
  BY <1>5, <1>6, <1>7
<1> QED
  BY <1>8 DEF b, S

LEMMA SortedExists ==
  \A S \in SUBSET Packet : IsFiniteSet(S) /\ Distinct(S) =>
    \E q \in Seq(Packet) : Sorted(q) /\ ToSet(q) = S
<1> DEFINE T == {n \in Nat : \A S \in SUBSET Packet :
                   IsFiniteSet(S) /\ Distinct(S) /\ Cardinality(S) = n =>
                     \E q \in Seq(Packet) : Sorted(q) /\ ToSet(q) = S}
<1>1. 0 \in T
  <2> SUFFICES ASSUME NEW S \in SUBSET Packet, IsFiniteSet(S), Cardinality(S) = 0
               PROVE  \E q \in Seq(Packet) : Sorted(q) /\ ToSet(q) = S
    OBVIOUS
  <2>1. S = {}
    BY FS_EmptySet
  <2>2. << >> \in Seq(Packet) /\ Sorted(<< >>)
    BY DEF Sorted
  <2> QED
    BY <2>1, <2>2, ToSetEmpty
<1>2. ASSUME NEW n \in Nat, n \in T PROVE n + 1 \in T
  <2> SUFFICES ASSUME NEW S \in SUBSET Packet, IsFiniteSet(S), Distinct(S),
                      Cardinality(S) = n + 1
               PROVE  \E q \in Seq(Packet) : Sorted(q) /\ ToSet(q) = S
    OBVIOUS
  <2>1. S # {}
    BY FS_EmptySet
  <2>2. PICK x \in S : TRUE
    BY <2>1
  <2>3. IsFiniteSet(S \ {x}) /\ Cardinality(S \ {x}) = n
    BY FS_RemoveElement
  <2>4. Distinct(S \ {x})
    BY DEF Distinct
  <2>5. PICK q \in Seq(Packet) : Sorted(q) /\ ToSet(q) = S \ {x}
    BY <1>2, <2>3, <2>4
  <2> DEFINE low == WithNumbers(q, {k \in Nat : k < x.number})
             high == WithNumbers(q, {k \in Nat : k > x.number})
             mid == Append(low, x)
             new == mid \o high
  <2>6. /\ low \in Seq(Packet) /\ Sorted(low)
        /\ ToSet(low) = {p \in ToSet(q) : p.number \in {k \in Nat : k < x.number}}
    BY <2>5, WithIs
  <2>7. /\ high \in Seq(Packet) /\ Sorted(high)
        /\ ToSet(high) = {p \in ToSet(q) : p.number \in {k \in Nat : k > x.number}}
    BY <2>5, WithIs
  <2> HIDE DEF low, high
  <2>8. \A p \in S : p.number \in Nat /\ (p # x => p.number # x.number)
    BY DEF Packet, Distinct
  <2>9. mid \in Seq(Packet) /\ ToSet(mid) = ToSet(low) \cup {x} /\ Sorted(mid)
    BY <2>6, ToSetAppend, SortedAppend
  <2> HIDE DEF mid
  <2>10. \A p \in ToSet(mid), r \in ToSet(high) : p.number < r.number
    BY <2>5, <2>6, <2>7, <2>8, <2>9
  <2>11. Sorted(new)
    BY <2>7, <2>9, <2>10, SortedConcat
  <2>12. ToSet(new) = ToSet(mid) \cup ToSet(high) /\ new \in Seq(Packet)
    BY <2>7, <2>9, ToSetConcat
  <2>13. \A p \in S : p = x \/ p.number < x.number \/ p.number > x.number
    BY <2>8
  <2>14. ToSet(new) = S
    BY <2>5, <2>6, <2>7, <2>8, <2>9, <2>12, <2>13
  <2> HIDE DEF new
  <2> QED
    BY <2>11, <2>12, <2>14
<1> HIDE DEF T
<1>3. Nat \subseteq T
  BY <1>1, <1>2, Addition!NatSetInduction
<1> SUFFICES ASSUME NEW S \in SUBSET Packet, IsFiniteSet(S), Distinct(S)
             PROVE  \E q \in Seq(Packet) : Sorted(q) /\ ToSet(q) = S
  OBVIOUS
<1>4. Cardinality(S) \in T
  BY <1>3, FS_CardinalityType
<1> QED
  BY <1>4 DEF T

LEMMA ByNumberType ==
  ASSUME NEW S \in SUBSET Packet, IsFiniteSet(S), Distinct(S)
  PROVE  ByNumber(S) \in Seq(Packet) /\ Sorted(ByNumber(S)) /\ ToSet(ByNumber(S)) = S
<1>1. PICK q \in Seq(Packet) : Sorted(q) /\ ToSet(q) = S
  BY SortedExists
<1>2. ByNumber(S) = q
  BY <1>1, ByNumberIs
<1> QED
  BY <1>1, <1>2

\* The bytes two sets of packets carry add up.
LEMMA ByNumberUnion ==
  ASSUME NEW S \in SUBSET Packet, NEW T \in SUBSET Packet,
         IsFiniteSet(S), IsFiniteSet(T), Distinct(S \cup T), S \cap T = {}, NEW i
  PROVE  Carried(ByNumber(S \cup T), i) = Carried(ByNumber(S), i) + Carried(ByNumber(T), i)
<1> DEFINE A == {p.number : p \in S}
           B == {p.number : p \in T}
           U == S \cup T
<1>1. U \in SUBSET Packet /\ IsFiniteSet(U)
  BY FS_Union
<1>2. PICK q \in Seq(Packet) : Sorted(q) /\ ToSet(q) = U
  BY <1>1, SortedExists
<1> DEFINE qA == WithNumbers(q, A)
           qB == WithNumbers(q, B)
<1>3. /\ qA \in Seq(Packet) /\ Sorted(qA) /\ ToSet(qA) = {p \in U : p.number \in A}
      /\ qB \in Seq(Packet) /\ Sorted(qB) /\ ToSet(qB) = {p \in U : p.number \in B}
  BY <1>2, WithIs
<1>4. {p \in U : p.number \in A} = S /\ {p \in U : p.number \in B} = T
  BY DEF Distinct
<1>5. Thirds(q, A, B, {})
  <2>1. \A p \in U : p.number \in A \/ p.number \in B
    OBVIOUS
  <2>2. \A p \in U : ~(p.number \in A /\ p.number \in B)
    BY DEF Distinct
  <2> HIDE DEF A, B, U
  <2> QED
    BY <1>2, <2>1, <2>2 DEF Thirds
<1>6. Carried(q, i) = Carried(qA, i) + Carried(qB, i) + Carried(WithNumbers(q, {}), i)
  <2> HIDE DEF A, B
  <2> QED
    BY <1>5, CarriedSplit
<1>7. WithNumbers(q, {}) = << >>
  BY WithNone
<1>8. ByNumber(U) = q /\ ByNumber(S) = qA /\ ByNumber(T) = qB
  <2> HIDE DEF qA, qB, A, B, U
  <2> QED
    BY <1>2, <1>3, <1>4, ByNumberIs
<1>9. Carried(qA, i) \in Nat /\ Carried(qB, i) \in Nat /\ Carried(<< >>, i) = 0
  <2> HIDE DEF qA, qB
  <2> QED
    BY <1>3, CarriedFacts
<1>10. Carried(q, i) = Carried(qA, i) + Carried(qB, i)
  BY <1>6, <1>7, <1>9
<1> HIDE DEF qA, qB, A, B
<1> QED
  BY <1>8, <1>10

\* A stream no packet has a frame of.
LEMMA CarriedNone ==
  ASSUME NEW i
  PROVE  \A q \in Seq(Packet) :
           (\A p \in ToSet(q) : \A k \in DOMAIN p.frames : p.frames[k].stream # i) =>
           Carried(q, i) = 0
<1> DEFINE F == {s \in Seq(StreamFrame) :
                   (\A k \in DOMAIN s : s[k].stream # i) => StreamBytes(s, i) = 0}
           T == {q \in Seq(Packet) :
                   (\A p \in ToSet(q) : \A k \in DOMAIN p.frames : p.frames[k].stream # i) =>
                   Carried(q, i) = 0}
<1>1. << >> \in F
  BY StreamBytesFacts
<1>2. ASSUME NEW s \in Seq(StreamFrame), NEW f \in StreamFrame, s \in F
      PROVE  Append(s, f) \in F
  <2>0. Append(s, f) \in Seq(StreamFrame)
    OBVIOUS
  <2> SUFFICES ASSUME \A k \in DOMAIN Append(s, f) : Append(s, f)[k].stream # i
               PROVE  StreamBytes(Append(s, f), i) = 0
    BY <2>0
  <2>1. /\ DOMAIN Append(s, f) = 1 .. Len(s) + 1 /\ DOMAIN s = 1 .. Len(s)
        /\ Len(s) \in Nat /\ Append(s, f)[Len(s) + 1] = f
        /\ \A k \in 1 .. Len(s) : Append(s, f)[k] = s[k] /\ k \in 1 .. Len(s) + 1
        /\ Len(s) + 1 \in 1 .. Len(s) + 1
    OBVIOUS
  <2>2. f.stream # i /\ \A k \in DOMAIN s : s[k].stream # i
    BY <2>1
  <2>3. StreamBytes(s, i) = 0
    BY <1>2, <2>2
  <2>4. StreamBytes(Append(s, f), i) = StreamBytes(s, i) + (IF f.stream = i THEN f.length ELSE 0)
    BY StreamBytesFacts
  <2> QED
    BY <2>2, <2>3, <2>4
<1>3. Seq(StreamFrame) \subseteq F
  <2> HIDE DEF F
  <2> QED
    BY <1>1, <1>2, SeqInduction
<1>4. << >> \in T
  BY CarriedFacts
<1>5. ASSUME NEW q \in Seq(Packet), NEW e \in Packet, q \in T PROVE Append(q, e) \in T
  <2> SUFFICES ASSUME \A p \in ToSet(Append(q, e)) :
                        \A k \in DOMAIN p.frames : p.frames[k].stream # i
               PROVE  Carried(Append(q, e), i) = 0
    OBVIOUS
  <2>1. ToSet(Append(q, e)) = ToSet(q) \cup {e}
    BY ToSetAppend
  <2>2. Carried(q, i) = 0
    BY <1>5, <2>1
  <2>3. e.frames \in Seq(StreamFrame) /\ \A k \in DOMAIN e.frames : e.frames[k].stream # i
    BY <2>1 DEF Packet
  <2>4. StreamBytes(e.frames, i) = 0
    BY <1>3, <2>3
  <2>5. Carried(Append(q, e), i) = Carried(q, i) + StreamBytes(e.frames, i)
    BY CarriedFacts
  <2> QED
    BY <2>2, <2>4, <2>5
<1>6. Seq(Packet) \subseteq T
  <2> HIDE DEF T, F
  <2> QED
    BY <1>4, <1>5, SeqInduction
<1> QED
  BY <1>6

\* A packet of a queue has frames, so the queue carries bytes of a stream.
LEMMA CarriedSome ==
  ASSUME NEW q \in Seq(Packet), NEW p \in ToSet(q), NEW k \in DOMAIN p.frames
  PROVE  Carried(q, p.frames[k].stream) > 0
<1> DEFINE i == p.frames[k].stream
           F == {s \in Seq(StreamFrame) :
                   (\E j \in DOMAIN s : s[j].stream = i) => StreamBytes(s, i) > 0}
           T == {r \in Seq(Packet) : p \in ToSet(r) => Carried(r, i) > 0}
<1>0. p \in Packet
  BY ToSetType
<1>1. << >> \in F
  OBVIOUS
<1>2. ASSUME NEW s \in Seq(StreamFrame), NEW f \in StreamFrame, s \in F
      PROVE  Append(s, f) \in F
  <2>0. Append(s, f) \in Seq(StreamFrame)
    OBVIOUS
  <2> SUFFICES ASSUME NEW j \in DOMAIN Append(s, f), Append(s, f)[j].stream = i
               PROVE  StreamBytes(Append(s, f), i) > 0
    BY <2>0
  <2>1. /\ DOMAIN Append(s, f) = 1 .. Len(s) + 1 /\ DOMAIN s = 1 .. Len(s)
        /\ Len(s) \in Nat /\ Append(s, f)[Len(s) + 1] = f
        /\ \A m \in 1 .. Len(s) : Append(s, f)[m] = s[m]
    OBVIOUS
  <2>2. f.stream = i \/ \E m \in DOMAIN s : s[m].stream = i
    <3>1. j = Len(s) + 1 \/ j \in 1 .. Len(s)
      BY <2>1
    <3> QED
      BY <2>1, <3>1
  <2>3. StreamBytes(s, i) \in Nat /\ f.length \in Nat \ {0}
    <3>1. f.length \in Nat \ {0}
      BY DEF StreamFrame
    <3> QED
      BY <3>1, StreamBytesFacts
  <2>4. StreamBytes(Append(s, f), i) = StreamBytes(s, i) + (IF f.stream = i THEN f.length ELSE 0)
    <3> HIDE DEF i
    <3> QED
      BY StreamBytesFacts
  <2>5. f.stream # i => StreamBytes(s, i) > 0
    BY <1>2, <2>2
  <2> HIDE DEF i
  <2> QED
    BY <2>3, <2>4, <2>5
<1>3. Seq(StreamFrame) \subseteq F
  <2> HIDE DEF F
  <2> QED
    BY <1>1, <1>2, SeqInduction
<1>4. << >> \in T
  BY ToSetEmpty
<1>5. ASSUME NEW r \in Seq(Packet), NEW e \in Packet, r \in T PROVE Append(r, e) \in T
  <2> SUFFICES ASSUME p \in ToSet(Append(r, e))
               PROVE  Carried(Append(r, e), i) > 0
    OBVIOUS
  <2>1. ToSet(Append(r, e)) = ToSet(r) \cup {e}
    BY ToSetAppend
  <2>2. e.frames \in Seq(StreamFrame)
    BY DEF Packet
  <2>3. StreamBytes(e.frames, i) \in Nat /\ Carried(r, i) \in Nat
    BY <2>2, StreamBytesFacts, CarriedFacts
  <2>4. p = e => StreamBytes(e.frames, i) > 0
    BY <1>3, <2>2
  <2>5. p # e => Carried(r, i) > 0
    BY <1>5, <2>1
  <2>6. Carried(Append(r, e), i) = Carried(r, i) + StreamBytes(e.frames, i)
    BY CarriedFacts
  <2> HIDE DEF i
  <2> QED
    BY <2>3, <2>4, <2>5, <2>6
<1>6. Seq(Packet) \subseteq T
  <2> HIDE DEF T, F
  <2> QED
    BY <1>4, <1>5, SeqInduction
<1> QED
  BY <1>6

-----------------------------------------------------------------------------
\* In a sorted queue a number names one packet.
LEMMA SortedDistinct ==
  ASSUME NEW q \in Seq(Packet), Sorted(q) PROVE Distinct(ToSet(q))
<1> SUFFICES ASSUME NEW i \in DOMAIN q, NEW j \in DOMAIN q, q[i] # q[j]
             PROVE  q[i].number # q[j].number
  BY DEF Distinct, ToSet
<1>1. i < j \/ j < i
  OBVIOUS
<1>2. q[i].number \in Nat /\ q[j].number \in Nat
  BY DEF Packet
<1>3. i < j => q[i].number < q[j].number
  BY DEF Sorted
<1>4. j < i => q[j].number < q[i].number
  BY DEF Sorted
<1> QED
  BY <1>1, <1>2, <1>3, <1>4

LEMMA Single ==
  ASSUME NEW p \in Packet
  PROVE  /\ <<p>> \in Seq(Packet) /\ ToSet(<<p>>) = {p} /\ Sorted(<<p>>)
         /\ TotalSize(<<p>>) = p.size
         /\ \A i : Carried(<<p>>, i) = StreamBytes(p.frames, i)
<1>1. << >> \in Seq(Packet) /\ Append(<< >>, p) = <<p>> /\ <<p>> \in Seq(Packet)
  OBVIOUS
<1>2. ToSet(<<p>>) = {p}
  <2> DEFINE none == << >>
  <2>0. none \in Seq(Packet)
    OBVIOUS
  <2> HIDE DEF none
  <2>1. ToSet(Append(none, p)) = ToSet(none) \cup {p}
    BY <2>0, ToSetAppend
  <2> USE DEF none
  <2> QED
    BY <1>1, <2>1, ToSetEmpty
<1>3. Sorted(<<p>>)
  BY DEF Sorted
<1>4. p.size \in Nat /\ p.frames \in Seq(StreamFrame)
  BY DEF Packet
<1>5. TotalSize(Append(<< >>, p)) = TotalSize(<< >>) + p.size
  BY <1>1, TotalSizeFacts
<1>6. TotalSize(<<p>>) = p.size
  BY <1>1, <1>4, <1>5, TotalSizeFacts
<1>7. ASSUME NEW i PROVE Carried(<<p>>, i) = StreamBytes(p.frames, i)
  <2>1. StreamBytes(p.frames, i) \in Nat /\ Carried(<< >>, i) = 0
    BY <1>4, StreamBytesFacts, CarriedFacts
  <2>2. Carried(Append(<< >>, p), i) = Carried(<< >>, i) + StreamBytes(p.frames, i)
    BY <1>1, CarriedFacts
  <2> QED
    BY <1>1, <2>1, <2>2
<1> QED
  BY <1>1, <1>2, <1>3, <1>6, <1>7

LEMMA WithOne ==
  ASSUME NEW q \in Seq(Packet), Sorted(q), NEW p \in ToSet(q)
  PROVE  WithNumbers(q, {p.number}) = <<p>>
<1> DEFINE r == WithNumbers(q, {p.number})
<1>1. r \in Seq(Packet) /\ Sorted(r) /\ ToSet(r) = {x \in ToSet(q) : x.number \in {p.number}}
  BY WithIs
<1>2. ToSet(r) = {p}
  <2>1. Distinct(ToSet(q))
    BY SortedDistinct
  <2> QED
    BY <1>1, <2>1 DEF Distinct
<1>3. p \in Packet
  BY ToSetType
<1> HIDE DEF r
<1>4. r = ByNumber({p})
  BY <1>1, <1>2, ByNumberIs
<1>5. <<p>> = ByNumber({p})
  BY <1>3, Single, ByNumberIs
<1> QED
  BY <1>4, <1>5 DEF r

\* Taking packets out of a queue.
LEMMA WithoutIs ==
  ASSUME NEW q \in Seq(Packet), NEW N
  PROVE  LET r == WithoutNumbers(q, N)
         IN  /\ r \in Seq(Packet)
             /\ ToSet(r) = {p \in ToSet(q) : p.number \notin N}
             /\ Sorted(q) => Sorted(r)
             /\ Numbers(r) = Numbers(q) \ N
<1> DEFINE r == WithoutNumbers(q, N)
           M == Numbers(q) \ N
<1>1. /\ r \in Seq(Packet)
      /\ Sorted(q) => Sorted(r)
      /\ ToSet(r) = {p \in ToSet(q) : p.number \in M}
  <2> HIDE DEF M
  <2>1. r = WithNumbers(q, M)
    BY DEF WithoutNumbers, M
  <2> QED
    BY <2>1, WithIs
<1>2. \A p \in ToSet(q) : p.number \in Numbers(q)
  BY NumbersIs
<1>3. ToSet(r) = {p \in ToSet(q) : p.number \notin N}
  BY <1>1, <1>2
<1>4. Numbers(r) = Numbers(q) \ N
  <2> HIDE DEF r
  <2>1. Numbers(r) = {p.number : p \in ToSet(r)} /\ Numbers(q) = {p.number : p \in ToSet(q)}
    BY NumbersIs
  <2> QED
    BY <1>3, <2>1
<1> QED
  BY <1>1, <1>3, <1>4

LEMMA TakeOut ==
  ASSUME NEW q \in Seq(Packet), Sorted(q), NEW p \in ToSet(q)
  PROVE  LET r == WithoutNumbers(q, {p.number})
         IN  /\ r \in Seq(Packet) /\ Sorted(r)
             /\ ToSet(r) = ToSet(q) \ {p}
             /\ Numbers(r) = Numbers(q) \ {p.number}
             /\ TotalSize(q) = TotalSize(r) + p.size
             /\ \A i : Carried(q, i) = Carried(r, i) + StreamBytes(p.frames, i)
<1> DEFINE A == Numbers(q) \ {p.number}
           B == {p.number}
           r == WithoutNumbers(q, {p.number})
<1>1. /\ r \in Seq(Packet) /\ Sorted(r) /\ Numbers(r) = Numbers(q) \ {p.number}
      /\ ToSet(r) = {x \in ToSet(q) : x.number \notin {p.number}}
  BY WithoutIs
<1>2. ToSet(r) = ToSet(q) \ {p}
  <2>1. Distinct(ToSet(q))
    BY SortedDistinct
  <2> QED
    BY <1>1, <2>1 DEF Distinct
<1>3. p \in Packet
  BY ToSetType
<1>4. Thirds(q, A, B, {})
  BY NumbersIs DEF Thirds
<1>5. r = WithNumbers(q, A) /\ WithNumbers(q, B) = <<p>> /\ WithNumbers(q, {}) = << >>
  <2>1. r = WithNumbers(q, A)
    BY DEF WithoutNumbers
  <2>2. WithNumbers(q, B) = <<p>>
    BY WithOne
  <2>3. WithNumbers(q, {}) = << >>
    BY WithNone
  <2> QED
    BY <2>1, <2>2, <2>3
<1> HIDE DEF A, B, r
<1>6. TotalSize(q) = TotalSize(r) + p.size
  <2>1. TotalSize(q) = TotalSize(r) + TotalSize(<<p>>) + TotalSize(<< >>)
    BY <1>4, <1>5, TotalSizeSplit
  <2>2. TotalSize(r) \in Nat /\ TotalSize(<< >>) = 0
    BY <1>1, TotalSizeFacts
  <2>3. TotalSize(<<p>>) = p.size /\ p.size \in Nat
    BY <1>3, Single DEF Packet
  <2> QED
    BY <2>1, <2>2, <2>3
<1>7. ASSUME NEW i PROVE Carried(q, i) = Carried(r, i) + StreamBytes(p.frames, i)
  <2>1. Carried(q, i) = Carried(r, i) + Carried(<<p>>, i) + Carried(<< >>, i)
    BY <1>4, <1>5, CarriedSplit
  <2>2. Carried(r, i) \in Nat /\ Carried(<< >>, i) = 0
    BY <1>1, CarriedFacts
  <2>3. p.frames \in Seq(StreamFrame)
    BY <1>3 DEF Packet
  <2>4. Carried(<<p>>, i) = StreamBytes(p.frames, i) /\ StreamBytes(p.frames, i) \in Nat
    BY <1>3, <2>3, Single, StreamBytesFacts
  <2> QED
    BY <2>1, <2>2, <2>4
<1> QED
  BY <1>1, <1>2, <1>6, <1>7 DEF r

-----------------------------------------------------------------------------
(***************************************************************************)
(* The connection.                                                         *)
(***************************************************************************)
ClientFields ==
  {"streams", "last", "queue", "timers", "waiting", "out", "ooo", "cc",
   "packet_counter", "Bytes_in_flight", "send_unacked", "duplicate_Acks",
   "recovery_start_packet", "out_of_recovery_packet", "phase", "failed"}

\* A connection is a record with these fields.
IsClient(c) == c = [x \in ClientFields |-> c[x]]

-----------------------------------------------------------------------------
(***************************************************************************)
(* Streams.                                                                *)
(***************************************************************************)
Stream ==
  [size : Nat \ {0}, offset : Nat, window : Nat, ACKed_bytes : Nat,
   valid : BOOLEAN, stream_done : BOOLEAN]

LEMMA SetValidIs ==
  ASSUME NEW streams \in Seq(Stream), NEW frames, NEW valid \in BOOLEAN
  PROVE  LET new == SetValid(streams, frames, valid)
         IN  /\ new \in Seq(Stream)
             /\ DOMAIN new = DOMAIN streams /\ Len(new) = Len(streams)
             /\ \A i \in DOMAIN streams :
                  /\ new[i].size = streams[i].size
                  /\ new[i].offset = streams[i].offset
                  /\ new[i].window = streams[i].window
                  /\ new[i].ACKed_bytes = streams[i].ACKed_bytes
                  /\ new[i].stream_done = streams[i].stream_done
<1> DEFINE new == SetValid(streams, frames, valid)
<1>1. DOMAIN new = DOMAIN streams /\ DOMAIN streams = 1 .. Len(streams) /\ Len(streams) \in Nat
  BY DEF SetValid
<1>2. ASSUME NEW i \in DOMAIN streams
      PROVE  /\ new[i] \in Stream
             /\ new[i].size = streams[i].size
             /\ new[i].offset = streams[i].offset
             /\ new[i].window = streams[i].window
             /\ new[i].ACKed_bytes = streams[i].ACKed_bytes
             /\ new[i].stream_done = streams[i].stream_done
  <2>1. streams[i] \in Stream
    OBVIOUS
  <2>2. new[i] = IF \E k \in DOMAIN frames : frames[k].stream = i
                 THEN [streams[i] EXCEPT !.valid = valid] ELSE streams[i]
    BY DEF SetValid
  <2> HIDE DEF new
  <2> QED
    BY <2>1, <2>2 DEF Stream
<1>3. new = [i \in 1 .. Len(streams) |-> new[i]]
  BY <1>1 DEF SetValid
<1> HIDE DEF new
<1>4. new \in Seq(Stream) /\ Len(new) = Len(streams)
  BY <1>1, <1>2, <1>3
<1> QED
  BY <1>1, <1>2, <1>4 DEF new

LEMMA UpdateACKedBytesIs ==
  ASSUME NEW streams \in Seq(Stream), NEW frames \in Seq(StreamFrame)
  PROVE  LET new == UpdateACKedBytes(streams, frames)
         IN  /\ new \in Seq(Stream)
             /\ DOMAIN new = DOMAIN streams /\ Len(new) = Len(streams)
             /\ \A i \in DOMAIN streams :
                  /\ new[i].size = streams[i].size
                  /\ new[i].offset = streams[i].offset
                  /\ new[i].window = streams[i].window
                  /\ new[i].ACKed_bytes = streams[i].ACKed_bytes + StreamBytes(frames, i)
                  /\ new[i].stream_done =
                       (streams[i].stream_done \/ new[i].ACKed_bytes = streams[i].size)
<1> DEFINE new == UpdateACKedBytes(streams, frames)
<1>1. DOMAIN new = DOMAIN streams /\ DOMAIN streams = 1 .. Len(streams) /\ Len(streams) \in Nat
  BY DEF UpdateACKedBytes
<1>2. ASSUME NEW i \in DOMAIN streams
      PROVE  /\ new[i] \in Stream
             /\ new[i].size = streams[i].size
             /\ new[i].offset = streams[i].offset
             /\ new[i].window = streams[i].window
             /\ new[i].ACKed_bytes = streams[i].ACKed_bytes + StreamBytes(frames, i)
             /\ new[i].stream_done =
                       (streams[i].stream_done \/ new[i].ACKed_bytes = streams[i].size)
  <2>1. streams[i] \in Stream
    OBVIOUS
  <2> DEFINE acked == streams[i].ACKed_bytes + StreamBytes(frames, i)
  <2>2. new[i] = [streams[i] EXCEPT !.ACKed_bytes = acked,
                                    !.stream_done = @ \/ acked = streams[i].size]
    BY DEF UpdateACKedBytes
  <2>3. acked \in Nat
    <3>1. StreamBytes(frames, i) \in Nat
      BY StreamBytesFacts
    <3> QED
      BY <2>1, <3>1 DEF Stream
  <2> HIDE DEF new
  <2>4. new[i].ACKed_bytes = acked
    BY <2>1, <2>2 DEF Stream
  <2> HIDE DEF acked
  <2>5. /\ new[i] \in Stream
        /\ new[i].size = streams[i].size
        /\ new[i].offset = streams[i].offset
        /\ new[i].window = streams[i].window
        /\ new[i].stream_done = (streams[i].stream_done \/ acked = streams[i].size)
    BY <2>1, <2>2, <2>3 DEF Stream
  <2> QED
    BY <2>4, <2>5 DEF acked
<1>3. new = [i \in 1 .. Len(streams) |-> new[i]]
  BY <1>1 DEF UpdateACKedBytes
<1> HIDE DEF new
<1>4. new \in Seq(Stream) /\ Len(new) = Len(streams)
  BY <1>1, <1>2, <1>3
<1> QED
  BY <1>1, <1>2, <1>4 DEF new

LEMMA UpdateStreamFlowWindowIs ==
  ASSUME NEW streams \in Seq(Stream), NEW frames \in Seq(StreamFrame)
  PROVE  LET new == UpdateStreamFlowWindow(streams, frames)
         IN  /\ new \in Seq(Stream)
             /\ DOMAIN new = DOMAIN streams /\ Len(new) = Len(streams)
             /\ \A i \in DOMAIN streams :
                  /\ new[i].size = streams[i].size
                  /\ new[i].offset = streams[i].offset
                  /\ new[i].window = streams[i].window + StreamBytes(frames, i)
                  /\ new[i].ACKed_bytes = streams[i].ACKed_bytes
                  /\ new[i].stream_done = streams[i].stream_done
<1> DEFINE new == UpdateStreamFlowWindow(streams, frames)
<1>1. DOMAIN new = DOMAIN streams /\ DOMAIN streams = 1 .. Len(streams) /\ Len(streams) \in Nat
  BY DEF UpdateStreamFlowWindow
<1>2. ASSUME NEW i \in DOMAIN streams
      PROVE  /\ new[i] \in Stream
             /\ new[i].size = streams[i].size
             /\ new[i].offset = streams[i].offset
             /\ new[i].window = streams[i].window + StreamBytes(frames, i)
             /\ new[i].ACKed_bytes = streams[i].ACKed_bytes
             /\ new[i].stream_done = streams[i].stream_done
  <2> DEFINE window == streams[i].window + StreamBytes(frames, i)
  <2>1. streams[i] \in Stream
    OBVIOUS
  <2>2. window \in Nat
    <3>1. StreamBytes(frames, i) \in Nat
      BY StreamBytesFacts
    <3> QED
      BY <2>1, <3>1, SMTT(30) DEF Stream
  <2>3. new[i] = [streams[i] EXCEPT !.window = window]
    BY DEF UpdateStreamFlowWindow
  <2> HIDE DEF new, window
  <2>4. /\ new[i] \in Stream
        /\ new[i].size = streams[i].size
        /\ new[i].offset = streams[i].offset
        /\ new[i].window = window
        /\ new[i].ACKed_bytes = streams[i].ACKed_bytes
        /\ new[i].stream_done = streams[i].stream_done
    BY <2>1, <2>2, <2>3 DEF Stream
  <2> QED
    BY <2>4 DEF window
<1>3. new = [i \in 1 .. Len(streams) |-> new[i]]
  BY <1>1 DEF UpdateStreamFlowWindow
<1> HIDE DEF new
<1>4. new \in Seq(Stream) /\ Len(new) = Len(streams)
  BY <1>1, <1>2, <1>3
<1> QED
  BY <1>1, <1>2, <1>4 DEF new

-----------------------------------------------------------------------------
(***************************************************************************)
(* The frames of a packet, and the bytes they are of.                      *)
(***************************************************************************)
Covers(frames, i, b) ==
  \E k \in DOMAIN frames :
    /\ frames[k].stream = i
    /\ frames[k].offset <= b /\ b < frames[k].offset + frames[k].length

LEMMA CoversAppend ==
  ASSUME NEW frames \in Seq(StreamFrame), NEW f \in StreamFrame, NEW i, NEW b
  PROVE  Covers(Append(frames, f), i, b) <=>
           \/ Covers(frames, i, b)
           \/ f.stream = i /\ f.offset <= b /\ b < f.offset + f.length
<1> DEFINE a == Append(frames, f)
           n == Len(frames)
<1>1. /\ DOMAIN a = 1 .. n + 1 /\ DOMAIN frames = 1 .. n /\ n \in Nat
      /\ a[n + 1] = f /\ n + 1 \in 1 .. n + 1
      /\ \A k \in 1 .. n : a[k] = frames[k] /\ k \in 1 .. n + 1
      /\ \A k \in 1 .. n + 1 : k \in 1 .. n \/ k = n + 1
  OBVIOUS
<1> HIDE DEF a, n
<1>2. Covers(a, i, b) <=> \/ Covers(frames, i, b)
                          \/ f.stream = i /\ f.offset <= b /\ b < f.offset + f.length
  BY <1>1 DEF Covers
<1> QED
  BY <1>2 DEF a

LEMMA FrameBytesFold == ASSUME NEW frames PROVE FrameBytes(frames) = Lengths!Fold(0, frames)
BY DEF FrameBytes, Lengths!Fold, FoldLeft, MapThenFoldSet, Max,
   Lengths!MapThenFoldSet, Lengths!Largest

LEMMA FrameBytesFacts ==
  /\ FrameBytes(<< >>) = 0
  /\ \A s \in Seq(StreamFrame) : \A f \in StreamFrame :
       FrameBytes(Append(s, f)) = FrameBytes(s) + f.length
  /\ \A s \in Seq(StreamFrame) : FrameBytes(s) \in Nat
<1>1. FrameBytes(<< >>) = 0
  <2>1. Lengths!Fold(0, << >>) = 0
    BY Lengths!FoldEmpty
  <2> QED
    BY <2>1, FrameBytesFold
<1>2. ASSUME NEW s \in Seq(StreamFrame), NEW f \in StreamFrame
      PROVE  FrameBytes(Append(s, f)) = FrameBytes(s) + f.length
  <2>1. Lengths!Fold(0, Append(s, f)) = Lengths!Fold(0, s) + f.length
    BY Lengths!FoldAppend
  <2> QED
    BY <2>1, FrameBytesFold
<1> DEFINE T == {s \in Seq(StreamFrame) : FrameBytes(s) \in Nat}
<1>3. << >> \in T
  BY <1>1
<1>4. ASSUME NEW s \in Seq(StreamFrame), NEW f \in StreamFrame, s \in T
      PROVE  Append(s, f) \in T
  <2>1. FrameBytes(s) \in Nat /\ f.length \in Nat /\ Append(s, f) \in Seq(StreamFrame)
    BY <1>4 DEF StreamFrame
  <2>2. FrameBytes(Append(s, f)) \in Nat
    BY <1>2, <2>1
  <2> QED
    BY <2>1, <2>2
<1>5. Seq(StreamFrame) \subseteq T
  <2> HIDE DEF T
  <2> QED
    BY <1>3, <1>4, SeqInduction
<1> QED
  BY <1>1, <1>2, <1>5

-----------------------------------------------------------------------------
(***************************************************************************)
(* framesToSend.  The loop keeps, for every stream, that its frames so far *)
(* are the bytes its offset moved over.                                    *)
(***************************************************************************)
FillType ==
  [streams : Seq(Stream), last : Nat, space : Nat, frames : Seq(StreamFrame)]

\* What the streams look like after the frames left them.
Moved(streams, frames, new) ==
  \A i \in DOMAIN streams :
    /\ new[i].size = streams[i].size
    /\ new[i].ACKed_bytes = streams[i].ACKed_bytes
    /\ new[i].stream_done = streams[i].stream_done
    /\ new[i].valid = streams[i].valid
    /\ new[i].offset = streams[i].offset + StreamBytes(frames, i)
    /\ streams[i].window = new[i].window + StreamBytes(frames, i)
    /\ new[i].offset <= new[i].size

\* The frames are exactly the bytes between the offsets.
Exactly(streams, frames, new) ==
  \A i, b \in Nat :
    Covers(frames, i, b) <=>
      /\ i \in DOMAIN streams
      /\ streams[i].offset <= b /\ b < new[i].offset

FillInv(streams, space, a) ==
  /\ a \in FillType
  /\ Len(a.streams) = Len(streams)
  /\ a.last \in DOMAIN streams
  /\ Moved(streams, a.frames, a.streams)
  /\ Exactly(streams, a.frames, a.streams)
  /\ a.space + FrameBytes(a.frames) = space

Streams(streams) ==
  /\ streams \in Seq(Stream)
  /\ \A i \in DOMAIN streams : streams[i].offset <= streams[i].size

LEMMA FillStart ==
  ASSUME NEW streams, Streams(streams), NEW last \in DOMAIN streams, NEW space \in Nat
  PROVE  FillInv(streams, space, [streams |-> streams, last |-> last, space |-> space,
                                  frames |-> << >>])
<1> DEFINE a == [streams |-> streams, last |-> last, space |-> space, frames |-> << >>]
<1>1. a \in FillType
  BY DEF FillType, Streams
<1>2. Moved(streams, << >>, streams)
  <2> SUFFICES ASSUME NEW i \in DOMAIN streams
               PROVE  /\ streams[i].offset = streams[i].offset + StreamBytes(<< >>, i)
                      /\ streams[i].window = streams[i].window + StreamBytes(<< >>, i)
                      /\ streams[i].offset <= streams[i].size
    BY DEF Moved
  <2>1. StreamBytes(<< >>, i) = 0
    BY StreamBytesFacts
  <2>2. streams[i] \in Stream /\ streams[i].offset <= streams[i].size
    BY DEF Streams
  <2> QED
    BY <2>1, <2>2 DEF Stream
<1>3. Exactly(streams, << >>, streams)
  <2>1. \A i \in DOMAIN streams : streams[i].offset \in Nat
    <3>1. \A i \in DOMAIN streams : streams[i] \in Stream
      BY DEF Streams
    <3> QED
      BY <3>1 DEF Stream
  <2> QED
    BY <2>1 DEF Exactly, Covers
<1>4. FrameBytes(<< >>) = 0
  BY FrameBytesFacts
<1> QED
  BY <1>1, <1>2, <1>3, <1>4 DEF FillInv

LEMMA BytesToSendIs ==
  ASSUME NEW s \in Stream, s.offset <= s.size, NEW space \in Nat
  PROVE  LET n == BytesToSend(s, space)
         IN  /\ n \in Nat /\ n <= space /\ n <= s.window /\ n <= BytesLeft(s)
BY DEF BytesToSend, Minimum, BytesLeft, Stream

LEMMA FillStep ==
  ASSUME NEW streams, Streams(streams), NEW space \in Nat,
         NEW a, FillInv(streams, space, a), NEW k
  PROVE  FillInv(streams, space, VisitStream(a, k))
<1> DEFINE i == a.last
           s == a.streams[i]
           n == BytesToSend(s, a.space)
           next == (i % Len(a.streams)) + 1
           f == Frame(i, s, n)
           v == VisitStream(a, k)
<1>1. /\ a \in FillType /\ Len(a.streams) = Len(streams) /\ i \in DOMAIN streams
      /\ Moved(streams, a.frames, a.streams) /\ Exactly(streams, a.frames, a.streams)
      /\ a.space + FrameBytes(a.frames) = space
  BY DEF FillInv
<1>2. /\ a.streams \in Seq(Stream) /\ a.space \in Nat /\ a.frames \in Seq(StreamFrame)
      /\ a.last \in Nat /\ streams \in Seq(Stream)
  BY <1>1 DEF FillType, Streams
<1>3. /\ DOMAIN streams = 1 .. Len(streams) /\ DOMAIN a.streams = 1 .. Len(streams)
      /\ Len(streams) \in Nat
  BY <1>1, <1>2
<1>4. s \in Stream /\ s.offset <= s.size
  BY <1>1, <1>2, <1>3 DEF Moved
<1>5. n \in Nat /\ n <= a.space /\ n <= s.window /\ n <= BytesLeft(s)
  BY <1>2, <1>4, BytesToSendIs
<1>6. next \in Nat /\ next \in DOMAIN streams
  BY <1>1, <1>3
<1>7. CASE a.space = 0
  <2>1. v = a
    BY <1>7 DEF VisitStream
  <2> QED
    BY <2>1
<1>8. CASE a.space # 0 /\ n = 0
  <2>1. v = [a EXCEPT !.last = next]
    BY <1>8 DEF VisitStream
  <2> HIDE DEF v, next
  <2>2. /\ v \in FillType /\ v.streams = a.streams /\ v.frames = a.frames
        /\ v.space = a.space /\ v.last = next
    BY <1>1, <1>6, <2>1 DEF FillType
  <2>3. FillInv(streams, space, v)
    BY <1>1, <1>6, <2>2 DEF FillInv
  <2> QED
    BY <2>3 DEF v
<1>9. CASE a.space # 0 /\ n # 0
  <2> DEFINE t == [s EXCEPT !.offset = @ + n, !.window = @ - n]
             new == WithStream(a.streams, i, t)
             frames == Append(a.frames, f)
  <2>1. v = [a EXCEPT !.last = next, !.space = @ - n, !.frames = frames,
                      !.streams = new]
    BY <1>9 DEF VisitStream
  <2> HIDE DEF v
  <2>2. /\ t \in Stream /\ t.offset = s.offset + n /\ t.window = s.window - n
        /\ t.size = s.size /\ t.ACKed_bytes = s.ACKed_bytes
        /\ t.stream_done = s.stream_done /\ t.valid = s.valid
        /\ t.offset <= t.size
    <3>1. /\ s.offset \in Nat /\ s.window \in Nat /\ s.size \in Nat
          /\ BytesLeft(s) = s.size - s.offset
      BY <1>4 DEF Stream, BytesLeft
    <3>2. s.offset + n \in Nat /\ s.window - n \in Nat /\ s.offset + n <= s.size
      BY <1>5, <3>1
    <3>3. t.offset = s.offset + n /\ t.window = s.window - n /\ t.size = s.size
      BY <1>4 DEF Stream
    <3>4. t \in Stream
      BY <1>4, <3>2 DEF Stream
    <3>5. t.ACKed_bytes = s.ACKed_bytes /\ t.stream_done = s.stream_done /\ t.valid = s.valid
      BY <1>4 DEF Stream
    <3> QED
      BY <3>2, <3>3, <3>4, <3>5
  <2>3. /\ f \in StreamFrame /\ f.stream = i /\ f.offset = s.offset /\ f.length = n
    BY <1>1, <1>3, <1>4, <1>5, <1>9 DEF Frame, StreamFrame, Stream
  <2> HIDE DEF t, f, next, n
  <2>4. /\ DOMAIN new = 1 .. Len(streams)
        /\ \A j \in 1 .. Len(streams) : new[j] = IF j = i THEN t ELSE a.streams[j]
    BY <1>3 DEF WithStream
  <2>5. new \in Seq(Stream) /\ Len(new) = Len(streams)
    <3>1. \A j \in 1 .. Len(streams) : new[j] \in Stream
      BY <1>2, <1>3, <2>2, <2>4
    <3>2. new = [j \in 1 .. Len(streams) |-> new[j]]
      BY <2>4 DEF WithStream
    <3> HIDE DEF new
    <3> QED
      BY <1>3, <3>1, <3>2
  <2> HIDE DEF new
  <2>6. frames \in Seq(StreamFrame)
    BY <1>2, <2>3
  <2>7. \A j : StreamBytes(frames, j) = StreamBytes(a.frames, j) + (IF j = i THEN n ELSE 0)
    BY <1>2, <2>3, StreamBytesFacts
  <2>8. \A j : StreamBytes(a.frames, j) \in Nat
    BY <1>2, StreamBytesFacts
  <2>9. FrameBytes(frames) = FrameBytes(a.frames) + n /\ FrameBytes(a.frames) \in Nat
    BY <1>2, <2>3, FrameBytesFacts
  <2>10. ASSUME NEW j \in Nat, NEW b \in Nat
         PROVE  Covers(frames, j, b) <=>
                  \/ Covers(a.frames, j, b)
                  \/ j = i /\ s.offset <= b /\ b < s.offset + n
    BY <1>2, <2>3, CoversAppend
  <2> HIDE DEF frames, s, i
  <2>11. /\ v \in FillType /\ v.streams = new /\ v.frames = frames
         /\ v.space = a.space - n /\ v.last = next
    <3>1. a.space - n \in Nat
      BY <1>2, <1>5
    <3>2. v.streams = new /\ v.frames = frames /\ v.space = a.space - n /\ v.last = next
      BY <1>1, <2>1 DEF FillType
    <3>3. v \in FillType
      BY <1>1, <1>6, <2>1, <2>5, <2>6, <3>1 DEF FillType
    <3> QED
      BY <3>2, <3>3
  <2>12. Moved(streams, frames, new)
    <3> SUFFICES ASSUME NEW j \in DOMAIN streams
                 PROVE  /\ new[j].size = streams[j].size
                        /\ new[j].ACKed_bytes = streams[j].ACKed_bytes
                        /\ new[j].stream_done = streams[j].stream_done
                        /\ new[j].valid = streams[j].valid
                        /\ new[j].offset = streams[j].offset + StreamBytes(frames, j)
                        /\ streams[j].window = new[j].window + StreamBytes(frames, j)
                        /\ new[j].offset <= new[j].size
      BY DEF Moved
    <3>1. /\ a.streams[j].size = streams[j].size
          /\ a.streams[j].ACKed_bytes = streams[j].ACKed_bytes
          /\ a.streams[j].stream_done = streams[j].stream_done
          /\ a.streams[j].valid = streams[j].valid
          /\ a.streams[j].offset = streams[j].offset + StreamBytes(a.frames, j)
          /\ streams[j].window = a.streams[j].window + StreamBytes(a.frames, j)
          /\ a.streams[j].offset <= a.streams[j].size
      BY <1>1 DEF Moved
    <3>2. new[j] = IF j = i THEN t ELSE a.streams[j]
      BY <1>3, <2>4
    <3>3. streams[j] \in Stream /\ a.streams[j] \in Stream
      BY <1>2, <1>3
    <3>4. /\ streams[j].offset \in Nat /\ streams[j].window \in Nat
          /\ a.streams[j].offset \in Nat /\ a.streams[j].window \in Nat
          /\ StreamBytes(a.frames, j) \in Nat
      BY <2>8, <3>3 DEF Stream
    <3>5. CASE j # i
      BY <2>7, <3>1, <3>2, <3>4, <3>5
    <3>6. CASE j = i
      <4>1. new[j] = t /\ a.streams[j] = s
        BY <3>2, <3>6 DEF s
      <4>2. StreamBytes(frames, j) = StreamBytes(a.frames, j) + n
        BY <2>7, <3>6
      <4> QED
        BY <1>5, <2>2, <3>1, <3>4, <4>1, <4>2
    <3> QED
      BY <3>5, <3>6
  <2>13. Exactly(streams, frames, new)
    <3> SUFFICES ASSUME NEW j \in Nat, NEW b \in Nat
                 PROVE  Covers(frames, j, b) <=>
                          /\ j \in DOMAIN streams
                          /\ streams[j].offset <= b /\ b < new[j].offset
      BY DEF Exactly
    <3>1. Covers(a.frames, j, b) <=>
            /\ j \in DOMAIN streams
            /\ streams[j].offset <= b /\ b < a.streams[j].offset
      BY <1>1 DEF Exactly
    <3>2. CASE j # i
      <4>1. j \in DOMAIN streams => new[j] = a.streams[j]
        BY <1>3, <2>4, <3>2
      <4> QED
        BY <2>10, <3>1, <3>2, <4>1
    <3>3. CASE j = i
      <4>1. j \in DOMAIN streams /\ new[j] = t /\ a.streams[j] = s
        BY <1>1, <1>3, <2>4, <3>3 DEF s, i
      <4>2. streams[j].offset <= s.offset /\ s.offset \in Nat /\ streams[j].offset \in Nat
        <5>1. streams[j] \in Stream
          BY <1>2, <1>3, <4>1
        <5>2. a.streams[j].offset = streams[j].offset + StreamBytes(a.frames, j)
          BY <1>1, <4>1 DEF Moved
        <5> QED
          BY <1>4, <2>8, <4>1, <5>1, <5>2 DEF Stream
      <4>3. Covers(frames, j, b) <=>
              (streams[j].offset <= b /\ b < s.offset) \/ (s.offset <= b /\ b < s.offset + n)
        BY <2>10, <3>1, <3>3, <4>1
      <4>4. new[j].offset = s.offset + n
        BY <2>2, <4>1
      <4> QED
        BY <1>5, <4>1, <4>2, <4>3, <4>4
    <3> QED
      BY <3>2, <3>3
  <2>14. v.space + FrameBytes(v.frames) = space
    BY <1>1, <1>2, <1>5, <2>9, <2>11
  <2>15. FillInv(streams, space, v)
    BY <1>6, <2>5, <2>11, <2>12, <2>13, <2>14 DEF FillInv
  <2> QED
    BY <2>15 DEF v
<1> QED
  BY <1>7, <1>8, <1>9

LEMMA FramesToSendIs ==
  ASSUME NEW streams, Streams(streams), NEW last \in DOMAIN streams, NEW space \in Nat
  PROVE  FillInv(streams, space, FramesToSend(streams, last, space))
<1> DEFINE base == [streams |-> streams, last |-> last, space |-> space, frames |-> << >>]
           f == [k \in 1 .. Len(streams) |-> k]
           n == Len(streams)
<1>1. FramesToSend(streams, last, space) = Visits!Fold(base, f)
  BY DEF FramesToSend, Visits!Fold, FoldLeft, MapThenFoldSet, Max,
     Visits!MapThenFoldSet, Visits!Largest
<1>2. n \in Nat /\ DOMAIN f = 1 .. n
  BY DEF Streams
<1>3. FillInv(streams, space, base)
  BY FillStart
<1> HIDE DEF base, f, n
<1>4. PICK a : /\ a[0] = base
               /\ \A k \in 1 .. n : a[k] = VisitStream(a[k - 1], f[k])
               /\ a[n] = Visits!Fold(base, f)
  BY <1>2, Visits!FoldTrace
<1> DEFINE K == {k \in Nat : k <= n => FillInv(streams, space, a[k])}
<1>5. 0 \in K
  BY <1>3, <1>4
<1>6. ASSUME NEW k \in Nat, k \in K PROVE k + 1 \in K
  <2> SUFFICES ASSUME k + 1 <= n PROVE FillInv(streams, space, a[k + 1])
    OBVIOUS
  <2>1. k + 1 \in 1 .. n /\ (k + 1) - 1 = k /\ k <= n
    BY <1>2
  <2>2. a[k + 1] = VisitStream(a[k], f[k + 1])
    BY <1>4, <2>1
  <2>3. FillInv(streams, space, a[k])
    BY <1>6, <2>1
  <2> QED
    BY <2>2, <2>3, FillStep
<1>7. n \in K
  <2> HIDE DEF K
  <2> QED
    BY <1>2, <1>5, <1>6, Addition!NatSetInduction
<1> QED
  BY <1>1, <1>2, <1>4, <1>7

-----------------------------------------------------------------------------
(***************************************************************************)
(* The invariants of a connection, which hold between the methods of a     *)
(* handler too: the packets of waiting have left the queue and are not     *)
(* back in it yet.                                                         *)
(***************************************************************************)
Pending(c) == ToSet(c.queue) \cup ToSet(c.waiting)

Known(c) == Pending(c) \cup c.ooo

Names(p) == {p.number} \cup p.history

ClientType(c) ==
  /\ IsClient(c)
  /\ Streams(c.streams)
  /\ c.last \in DOMAIN c.streams
  /\ c.queue \in Seq(Packet)
  /\ c.waiting \in Seq(Packet)
  /\ c.out \in Seq(Packet)
  /\ c.ooo \in SUBSET Packet
  /\ IsFiniteSet(c.ooo)
  /\ c.packet_counter \in Nat

\* Every number names one packet.
Ordered(c) ==
  /\ Sorted(c.queue)
  /\ Sorted(c.waiting)
  /\ \A p \in ToSet(c.queue), r \in ToSet(c.waiting) : p.number < r.number
  /\ \A p \in Known(c) : p.number < c.packet_counter
  /\ \A p, r \in Known(c) : p # r => Names(p) \cap Names(r) = {}
  /\ Pending(c) \cap c.ooo = {}

\* Every byte that left a stream is acknowledged or in a packet.
Accounted(c) ==
  /\ \A i \in DOMAIN c.streams :
       /\ c.streams[i].offset = c.streams[i].ACKed_bytes
                                + Carried(c.queue, i) + Carried(c.waiting, i)
       /\ c.streams[i].stream_done => c.streams[i].ACKed_bytes = c.streams[i].size
  /\ c.Bytes_in_flight = TotalSize(c.queue) + TotalSize(c.waiting)

\* Frames are of bytes that left a stream.
Sent(c) ==
  \A p \in Known(c) : \A i, b \in Nat :
    Covers(p.frames, i, b) =>
      i \in DOMAIN c.streams /\ b < c.streams[i].offset

\* The window of a stream is the rest of its credit.
Credited(c) ==
  \A i \in DOMAIN c.streams :
    StreamWindow = c.streams[i].window + Carried(c.queue, i)
                   + Carried(c.waiting, i) + Carried(ByNumber(c.ooo), i)

ClientInv(c) == ClientType(c) /\ Ordered(c) /\ Accounted(c) /\ Sent(c)

(***************************************************************************)
(* What the methods of a handler did so far to the connection c0, when the *)
(* numbers in A arrived: what QuicRetransmission allows in a turn.         *)
(***************************************************************************)
Resent(m, p) == m.history = Names(p) /\ m.frames = p.frames

MadePackets(c0, c) == {m \in Pending(c) : m.number >= c0.packet_counter}

TurnPackets(c0, c, A) ==
  /\ c0.packet_counter <= c.packet_counter
  /\ \A p \in Pending(c) :
       p.number < c0.packet_counter => p \in ToSet(c0.queue)
  /\ \A p \in ToSet(c0.queue) \ Pending(c) :
       p.number \in A \/ \E m \in MadePackets(c0, c) : Resent(m, p)
  /\ \A m \in MadePackets(c0, c) :
       \/ \E p \in ToSet(c0.queue) \ Pending(c) : Resent(m, p)
       \/ /\ m.history = {}
          /\ \A i, b \in Nat : Covers(m.frames, i, b) => ~(b < c0.streams[i].offset)

TurnSends(c0, c) ==
  /\ Sorted(c.out)
  /\ \A p \in ToSet(c.waiting) : p.number >= c0.packet_counter
  /\ ToSet(c.out) = {p \in ToSet(c.queue) : p.number >= c0.packet_counter}

TurnStreams(c0, c) ==
  /\ DOMAIN c.streams = DOMAIN c0.streams
  /\ \A i \in DOMAIN c0.streams :
       /\ c.streams[i].size = c0.streams[i].size
       /\ c0.streams[i].offset <= c.streams[i].offset
       /\ \A b \in Nat :
            c0.streams[i].offset <= b /\ b < c.streams[i].offset =>
              \E m \in MadePackets(c0, c) : Covers(m.frames, i, b)

Turn(c0, c, A) ==
  TurnPackets(c0, c, A) /\ TurnSends(c0, c) /\ TurnStreams(c0, c)

-----------------------------------------------------------------------------
LEMMA TakeFields ==
  ASSUME NEW c, IsClient(c), NEW p
  PROVE  LET d == TakeForRetransmission(c, p)
         IN  /\ IsClient(d)
             /\ d.queue = WithoutNumbers(c.queue, {p.number})
             /\ d.timers = c.timers \ {p.number}
             /\ d.streams = SetValid(c.streams, p.frames, FALSE)
             /\ d.packet_counter = c.packet_counter + 1
             /\ d.waiting = c.waiting /\ d.out = c.out /\ d.ooo = c.ooo
             /\ d.last = c.last /\ d.cc = c.cc
             /\ d.Bytes_in_flight = c.Bytes_in_flight
             /\ d.send_unacked = c.send_unacked /\ d.phase = c.phase
             /\ d.failed = c.failed
BY DEF TakeForRetransmission, IsClient, ClientFields

LEMMA CreateFields ==
  ASSUME NEW c, IsClient(c), NEW p
  PROVE  LET d == CreateRetransmitPacket(c, p)
         IN  /\ IsClient(d)
             /\ d.queue = WithoutNumbers(c.queue, {p.number})
             /\ d.timers = c.timers \ {p.number}
             /\ d.streams = SetValid(c.streams, p.frames, FALSE)
             /\ d.packet_counter = c.packet_counter + 1
             /\ d.waiting = Append(c.waiting, RetransmitPacket(c, p))
             /\ d.out = c.out /\ d.ooo = c.ooo
             /\ d.last = c.last /\ d.cc = c.cc
             /\ d.Bytes_in_flight = c.Bytes_in_flight
             /\ d.send_unacked = c.send_unacked /\ d.phase = c.phase
BY ZenonT(30) DEF CreateRetransmitPacket, TakeForRetransmission, IsClient, ClientFields

-----------------------------------------------------------------------------
(***************************************************************************)
(* One packet of the queue is sent again under a new number.               *)
(***************************************************************************)
LEMMA PacketSizeType ==
  ASSUME NEW frames \in Seq(StreamFrame), NEW long \in BOOLEAN
  PROVE  PacketSize(frames, long) \in Nat
<1>1. FrameBytes(frames) \in Nat
  BY FrameBytesFacts
<1>2. HeaderBytes(long) \in Nat
  BY ClientAssumption DEF HeaderBytes
<1>3. MinPacketSize \in Nat
  BY ClientAssumption
<1> QED
  BY <1>1, <1>2, <1>3 DEF PacketSize, Maximum

LEMMA RetransmitPacketIs ==
  ASSUME NEW c, c.packet_counter \in Nat, NEW p \in Packet,
         p.number < c.packet_counter
  PROVE  LET m == RetransmitPacket(c, p)
         IN  /\ m \in Packet
             /\ m.number = c.packet_counter /\ m.history = Names(p)
             /\ m.frames = p.frames /\ m.long = p.long /\ m.size = p.size
<1> DEFINE m == RetransmitPacket(c, p)
<1>1. /\ p.number \in Nat /\ p.history \in SUBSET Nat /\ p.frames \in Seq(StreamFrame)
      /\ p.long \in BOOLEAN /\ p.size = PacketSize(p.frames, p.long) /\ p.frames # << >>
      /\ \A h \in p.history : h < p.number
  BY DEF Packet
<1>2. m = [number |-> c.packet_counter, history |-> Names(p), frames |-> p.frames,
           long |-> p.long, size |-> p.size]
  <2>1. p.history \cup {p.number} = Names(p)
    BY DEF Names
  <2> QED
    BY <1>1, <2>1 DEF RetransmitPacket, DataPacket, PacketSize
<1>3. p.size \in Nat
  BY <1>1, PacketSizeType
<1>4. Names(p) \in SUBSET Nat /\ \A h \in Names(p) : h < c.packet_counter
  BY <1>1 DEF Names
<1> HIDE DEF m
<1>5. m \in Packet
  BY <1>1, <1>2, <1>3, <1>4 DEF Packet
<1> QED
  BY <1>2, <1>5 DEF m

LEMMA CreateSets ==
  ASSUME NEW c, ClientType(c), Ordered(c), NEW p \in ToSet(c.queue)
  PROVE  LET d == CreateRetransmitPacket(c, p)
             m == RetransmitPacket(c, p)
         IN  /\ p \in Packet /\ p.number \in Nat /\ p.number < c.packet_counter
             /\ m \in Packet /\ m.number = c.packet_counter /\ m.history = Names(p)
             /\ m.frames = p.frames /\ m.size = p.size
             /\ ToSet(d.queue) = ToSet(c.queue) \ {p}
             /\ ToSet(d.waiting) = ToSet(c.waiting) \cup {m}
             /\ Pending(d) = (Pending(c) \ {p}) \cup {m}
             /\ Known(d) = (Known(c) \ {p}) \cup {m}
             /\ p \notin ToSet(c.waiting) /\ p \notin c.ooo
<1> DEFINE d == CreateRetransmitPacket(c, p)
           m == RetransmitPacket(c, p)
<1>1. p \in Packet /\ p.number \in Nat /\ p.number < c.packet_counter
  <2>1. p \in Packet
    BY ToSetType DEF ClientType
  <2> QED
    BY <2>1 DEF Ordered, Known, Pending, Packet
<1>2. /\ m \in Packet /\ m.number = c.packet_counter /\ m.history = Names(p)
      /\ m.frames = p.frames /\ m.size = p.size
  BY <1>1, RetransmitPacketIs DEF ClientType
<1>3. /\ d.queue = WithoutNumbers(c.queue, {p.number}) /\ d.ooo = c.ooo
      /\ d.waiting = Append(c.waiting, m)
  BY CreateFields, ZenonT(30) DEF ClientType
<1> HIDE DEF d, m
<1>4. ToSet(d.queue) = ToSet(c.queue) \ {p}
  BY <1>3, TakeOut, ZenonT(30) DEF ClientType, Ordered
<1>5. ToSet(d.waiting) = ToSet(c.waiting) \cup {m}
  BY <1>2, <1>3, ToSetAppend DEF ClientType
<1>6. p \notin ToSet(c.waiting)
  <2> SUFFICES ASSUME p \in ToSet(c.waiting) PROVE FALSE
    OBVIOUS
  <2>1. p.number < p.number
    BY DEF Ordered
  <2> QED
    BY <1>1, <2>1
<1>7. p \notin c.ooo
  BY DEF Ordered, Pending
<1> QED
  BY <1>1, <1>2, <1>3, <1>4, <1>5, <1>6, <1>7 DEF Pending, Known, d, m

LEMMA CreateType ==
  ASSUME NEW c, ClientType(c), Ordered(c), NEW p \in ToSet(c.queue)
  PROVE  ClientType(CreateRetransmitPacket(c, p))
<1> DEFINE d == CreateRetransmitPacket(c, p)
           m == RetransmitPacket(c, p)
<1>1. /\ IsClient(d)
      /\ d.queue = WithoutNumbers(c.queue, {p.number})
      /\ d.streams = SetValid(c.streams, p.frames, FALSE)
      /\ d.packet_counter = c.packet_counter + 1
      /\ d.waiting = Append(c.waiting, m)
      /\ d.out = c.out /\ d.ooo = c.ooo /\ d.last = c.last
  BY CreateFields, ZenonT(30) DEF ClientType
<1>2. m \in Packet
  BY CreateSets
<1> HIDE DEF d, m
<1>3. d.queue \in Seq(Packet)
  BY <1>1, WithoutIs DEF ClientType
<1>4. d.waiting \in Seq(Packet)
  BY <1>1, <1>2 DEF ClientType
<1>5. Streams(d.streams) /\ DOMAIN d.streams = DOMAIN c.streams
  <2>1. c.streams \in Seq(Stream)
    BY DEF ClientType, Streams
  <2>2. /\ d.streams \in Seq(Stream) /\ DOMAIN d.streams = DOMAIN c.streams
        /\ \A i \in DOMAIN c.streams : /\ d.streams[i].size = c.streams[i].size
                                       /\ d.streams[i].offset = c.streams[i].offset
    <3> DEFINE no == FALSE
    <3>1. no \in BOOLEAN /\ d.streams = SetValid(c.streams, p.frames, no)
      BY <1>1
    <3> HIDE DEF no
    <3> QED
      BY <2>1, <3>1, SetValidIs
  <2> QED
    BY <2>2 DEF ClientType, Streams
<1>6. d.packet_counter \in Nat /\ IsFiniteSet(d.ooo) /\ d.ooo \in SUBSET Packet
  BY <1>1 DEF ClientType
<1>7. d.out \in Seq(Packet) /\ d.last \in DOMAIN d.streams
  BY <1>1, <1>5 DEF ClientType
<1>8. ClientType(d)
  BY <1>1, <1>3, <1>4, <1>5, <1>6, <1>7 DEF ClientType
<1> QED
  BY <1>8 DEF d

LEMMA CreateOrdered ==
  ASSUME NEW c, ClientType(c), Ordered(c), NEW p \in ToSet(c.queue)
  PROVE  Ordered(CreateRetransmitPacket(c, p))
<1> DEFINE d == CreateRetransmitPacket(c, p)
           m == RetransmitPacket(c, p)
<1>1. /\ d.queue = WithoutNumbers(c.queue, {p.number})
      /\ d.packet_counter = c.packet_counter + 1
      /\ d.waiting = Append(c.waiting, m)
      /\ d.ooo = c.ooo
  BY CreateFields, ZenonT(30) DEF ClientType
<1>2. /\ p \in Packet /\ p.number \in Nat /\ p.number < c.packet_counter
      /\ m \in Packet /\ m.number = c.packet_counter /\ m.history = Names(p)
      /\ ToSet(d.queue) = ToSet(c.queue) \ {p}
      /\ ToSet(d.waiting) = ToSet(c.waiting) \cup {m}
      /\ Pending(d) = (Pending(c) \ {p}) \cup {m}
      /\ Known(d) = (Known(c) \ {p}) \cup {m}
      /\ p \in Known(c)
  BY CreateSets DEF Known, Pending
<1> HIDE DEF d, m
<1>3. c.packet_counter \in Nat /\ \A r \in Known(c) : r.number < c.packet_counter
  BY DEF ClientType, Ordered
<1>4. \A r \in Known(c) : r \in Packet
  BY ToSetType DEF ClientType, Known, Pending
<1>5. \A r \in Known(c) : r.number \in Nat /\ \A h \in Names(r) : h \in Nat /\ h < c.packet_counter
  <2>1. \A r \in Packet : /\ r.number \in Nat
                          /\ \A h \in Names(r) : h \in Nat /\ h <= r.number
    BY DEF Packet, Names
  <2> QED
    BY <1>3, <1>4, <2>1
<1>6. Sorted(d.queue)
  BY <1>1, WithoutIs DEF ClientType, Ordered
<1>7. Sorted(d.waiting)
  <2>1. \A r \in ToSet(c.waiting) : r.number < m.number
    BY <1>2, <1>3 DEF Known, Pending
  <2> QED
    BY <1>1, <1>2, <2>1, SortedAppend DEF ClientType, Ordered
<1>8. \A x \in ToSet(d.queue), r \in ToSet(d.waiting) : x.number < r.number
  BY <1>2, <1>3 DEF Ordered, Known, Pending
<1>9. \A x \in Known(d) : x.number < d.packet_counter
  <2>1. m.number < d.packet_counter
    BY <1>1, <1>2, <1>3
  <2>2. \A x \in Known(c) : x.number < d.packet_counter
    BY <1>1, <1>3, <1>5
  <2> QED
    BY <1>2, <2>1, <2>2
<1>10. \A x \in Known(c) : x # p => Names(x) \cap Names(p) = {}
  BY <1>2 DEF Ordered
<1>11. \A x \in Known(c) : x # p => Names(x) \cap Names(m) = {}
  <2> SUFFICES ASSUME NEW x \in Known(c), x # p, NEW h \in Names(x), h \in Names(m)
               PROVE  FALSE
    OBVIOUS
  <2>1. Names(m) = {c.packet_counter} \cup Names(p)
    BY <1>2 DEF Names
  <2>2. h # c.packet_counter
    BY <1>3, <1>5
  <2> QED
    BY <1>10, <2>1, <2>2
<1>12. \A x, r \in Known(d) : x # r => Names(x) \cap Names(r) = {}
  <2> SUFFICES ASSUME NEW x \in Known(d), NEW r \in Known(d), x # r
               PROVE  Names(x) \cap Names(r) = {}
    OBVIOUS
  <2>1. CASE x = m
    BY <1>2, <1>11, <2>1
  <2>2. CASE r = m
    BY <1>2, <1>11, <2>2
  <2>3. CASE x # m /\ r # m
    BY <1>2, <2>3 DEF Ordered
  <2> QED
    BY <2>1, <2>2, <2>3
<1>13. Pending(d) \cap d.ooo = {}
  <2>1. m \notin Known(c)
    BY <1>2, <1>3
  <2> QED
    BY <1>1, <1>2, <2>1 DEF Ordered, Known
<1> QED
  BY <1>6, <1>7, <1>8, <1>9, <1>12, <1>13 DEF Ordered, d

LEMMA CreateStreams ==
  ASSUME NEW c, ClientType(c), Ordered(c), NEW p \in ToSet(c.queue)
  PROVE  LET d == CreateRetransmitPacket(c, p)
         IN  /\ DOMAIN d.streams = DOMAIN c.streams
             /\ \A i \in DOMAIN c.streams :
                  /\ d.streams[i].size = c.streams[i].size
                  /\ d.streams[i].offset = c.streams[i].offset
                  /\ d.streams[i].window = c.streams[i].window
                  /\ d.streams[i].ACKed_bytes = c.streams[i].ACKed_bytes
                  /\ d.streams[i].stream_done = c.streams[i].stream_done
             /\ \A i : Carried(d.queue, i) + Carried(d.waiting, i) =
                         Carried(c.queue, i) + Carried(c.waiting, i)
             /\ TotalSize(d.queue) + TotalSize(d.waiting) =
                  TotalSize(c.queue) + TotalSize(c.waiting)
<1> DEFINE d == CreateRetransmitPacket(c, p)
           m == RetransmitPacket(c, p)
           no == FALSE
<1>1. /\ d.queue = WithoutNumbers(c.queue, {p.number})
      /\ d.waiting = Append(c.waiting, m)
      /\ d.streams = SetValid(c.streams, p.frames, no)
      /\ no \in BOOLEAN
  BY CreateFields, ZenonT(30) DEF ClientType
<1>2. m \in Packet /\ m.frames = p.frames /\ m.size = p.size
  BY CreateSets
<1> HIDE DEF d, m, no
<1>3. c.streams \in Seq(Stream) /\ c.queue \in Seq(Packet) /\ c.waiting \in Seq(Packet)
  BY DEF ClientType, Streams
<1>4. /\ DOMAIN d.streams = DOMAIN c.streams
      /\ \A i \in DOMAIN c.streams :
           /\ d.streams[i].size = c.streams[i].size
           /\ d.streams[i].offset = c.streams[i].offset
           /\ d.streams[i].window = c.streams[i].window
           /\ d.streams[i].ACKed_bytes = c.streams[i].ACKed_bytes
           /\ d.streams[i].stream_done = c.streams[i].stream_done
  BY <1>1, <1>3, SetValidIs
<1>5. /\ d.queue \in Seq(Packet)
      /\ TotalSize(c.queue) = TotalSize(d.queue) + p.size
      /\ \A i : Carried(c.queue, i) = Carried(d.queue, i) + StreamBytes(p.frames, i)
  <2> DEFINE q == c.queue
  <2>1. q \in Seq(Packet) /\ Sorted(q) /\ p \in ToSet(q)
    BY <1>3 DEF Ordered
  <2>2. d.queue = WithoutNumbers(q, {p.number})
    BY <1>1
  <2> HIDE DEF q
  <2>3. /\ WithoutNumbers(q, {p.number}) \in Seq(Packet)
        /\ TotalSize(q) = TotalSize(WithoutNumbers(q, {p.number})) + p.size
        /\ \A i : Carried(q, i) = Carried(WithoutNumbers(q, {p.number}), i)
                                  + StreamBytes(p.frames, i)
    BY <2>1, TakeOut
  <2> QED
    BY <2>2, <2>3 DEF q
<1>6. TotalSize(d.waiting) = TotalSize(c.waiting) + p.size
  BY <1>1, <1>2, <1>3, TotalSizeFacts
<1>7. TotalSize(d.queue) + TotalSize(d.waiting) = TotalSize(c.queue) + TotalSize(c.waiting)
  <2>1. TotalSize(d.queue) \in Nat /\ TotalSize(c.waiting) \in Nat
    BY <1>3, <1>5, TotalSizeFacts
  <2>2. p.size \in Nat
    BY <1>2 DEF Packet
  <2> QED
    BY <1>5, <1>6, <2>1, <2>2
<1>8. ASSUME NEW i PROVE Carried(d.queue, i) + Carried(d.waiting, i) =
                           Carried(c.queue, i) + Carried(c.waiting, i)
  <2>1. Carried(d.waiting, i) = Carried(c.waiting, i) + StreamBytes(m.frames, i)
    BY <1>1, <1>2, <1>3, CarriedFacts
  <2>2. Carried(d.queue, i) \in Nat /\ Carried(c.waiting, i) \in Nat
    BY <1>3, <1>5, CarriedFacts
  <2>3. StreamBytes(p.frames, i) \in Nat
    <3>1. m.frames \in Seq(StreamFrame)
      BY <1>2 DEF Packet
    <3> QED
      BY <1>2, <3>1, StreamBytesFacts
  <2> QED
    BY <1>2, <1>5, <2>1, <2>2, <2>3
<1> QED
  BY <1>4, <1>7, <1>8 DEF d

LEMMA CreateAccounted ==
  ASSUME NEW c, ClientInv(c), NEW p \in ToSet(c.queue)
  PROVE  LET d == CreateRetransmitPacket(c, p)
         IN  Accounted(d) /\ (Credited(c) => Credited(d))
<1> DEFINE d == CreateRetransmitPacket(c, p)
<1>0. ClientType(c) /\ Ordered(c) /\ Accounted(c)
  BY DEF ClientInv
<1>1. /\ DOMAIN d.streams = DOMAIN c.streams
      /\ \A i \in DOMAIN c.streams :
           /\ d.streams[i].size = c.streams[i].size
           /\ d.streams[i].offset = c.streams[i].offset
           /\ d.streams[i].window = c.streams[i].window
           /\ d.streams[i].ACKed_bytes = c.streams[i].ACKed_bytes
           /\ d.streams[i].stream_done = c.streams[i].stream_done
      /\ \A i : Carried(d.queue, i) + Carried(d.waiting, i) =
                  Carried(c.queue, i) + Carried(c.waiting, i)
      /\ TotalSize(d.queue) + TotalSize(d.waiting) =
           TotalSize(c.queue) + TotalSize(c.waiting)
  BY <1>0, CreateStreams
<1>2. d.ooo = c.ooo /\ d.Bytes_in_flight = c.Bytes_in_flight
  BY <1>0, CreateFields DEF ClientType
<1>3. ClientType(d)
  BY <1>0, CreateType
<1> HIDE DEF d
<1>4. \A i : /\ Carried(c.queue, i) \in Nat /\ Carried(c.waiting, i) \in Nat
             /\ Carried(d.queue, i) \in Nat /\ Carried(d.waiting, i) \in Nat
  BY <1>0, <1>3, CarriedFacts DEF ClientType
<1>5. \A i \in DOMAIN c.streams :
        c.streams[i].ACKed_bytes \in Nat /\ c.streams[i].window \in Nat
  <2>1. \A i \in DOMAIN c.streams : c.streams[i] \in Stream
    BY <1>0 DEF ClientType, Streams
  <2> QED
    BY <2>1 DEF Stream
<1>6. Accounted(d)
  <2>1. ASSUME NEW i \in DOMAIN c.streams
        PROVE  /\ d.streams[i].offset = d.streams[i].ACKed_bytes
                                        + Carried(d.queue, i) + Carried(d.waiting, i)
               /\ d.streams[i].stream_done => d.streams[i].ACKed_bytes = d.streams[i].size
    <3>1. /\ c.streams[i].offset = c.streams[i].ACKed_bytes
                                + Carried(c.queue, i) + Carried(c.waiting, i)
          /\ c.streams[i].stream_done => c.streams[i].ACKed_bytes = c.streams[i].size
      BY <1>0 DEF Accounted
    <3>2. \A a, q, w, r, v \in Nat : q + w = r + v => a + q + w = a + r + v
      OBVIOUS
    <3> QED
      BY <1>1, <1>4, <1>5, <3>1, <3>2
  <2> QED
    BY <1>0, <1>1, <1>2, <2>1 DEF Accounted
<1>7. ASSUME Credited(c) PROVE Credited(d)
  <2> SUFFICES ASSUME NEW i \in DOMAIN c.streams
               PROVE  StreamWindow = d.streams[i].window + Carried(d.queue, i)
                                     + Carried(d.waiting, i) + Carried(ByNumber(d.ooo), i)
    BY <1>1 DEF Credited
  <2>1. StreamWindow = c.streams[i].window + Carried(c.queue, i)
                       + Carried(c.waiting, i) + Carried(ByNumber(c.ooo), i)
    BY <1>7 DEF Credited
  <2>2. \A a, q, w, r, v \in Nat : q + w = r + v => a + q + w = a + r + v
    OBVIOUS
  <2>3. c.streams[i].window + Carried(c.queue, i) + Carried(c.waiting, i)
         = c.streams[i].window + Carried(d.queue, i) + Carried(d.waiting, i)
    BY <1>1, <1>4, <1>5, <2>2
  <2> QED
    BY <1>1, <1>2, <2>1, <2>3
<1> QED
  BY <1>6, <1>7 DEF d

LEMMA CreateSent ==
  ASSUME NEW c, ClientInv(c), NEW p \in ToSet(c.queue)
  PROVE  Sent(CreateRetransmitPacket(c, p))
<1> DEFINE d == CreateRetransmitPacket(c, p)
           m == RetransmitPacket(c, p)
<1>1. ClientType(c) /\ Ordered(c) /\ Sent(c)
  BY DEF ClientInv
<1>2. Known(d) = (Known(c) \ {p}) \cup {m} /\ m.frames = p.frames /\ p \in Known(c)
  BY <1>1, CreateSets DEF Known, Pending
<1>3. /\ DOMAIN d.streams = DOMAIN c.streams
      /\ \A i \in DOMAIN c.streams : d.streams[i].offset = c.streams[i].offset
  BY <1>1, CreateStreams
<1> HIDE DEF d, m
<1>4. Sent(d)
  BY <1>1, <1>2, <1>3 DEF Sent
<1> QED
  BY <1>4 DEF d

LEMMA CreateTurn ==
  ASSUME NEW c0, NEW c, NEW A, ClientType(c0), ClientInv(c), Turn(c0, c, A),
         NEW p \in ToSet(c.queue), p.number < c0.packet_counter
  PROVE  Turn(c0, CreateRetransmitPacket(c, p), A)
<1> DEFINE d == CreateRetransmitPacket(c, p)
           m == RetransmitPacket(c, p)
<1>1. ClientType(c) /\ Ordered(c) /\ Sent(c)
  BY DEF ClientInv
<1>2. /\ p \in Packet /\ p.number \in Nat /\ p.number < c.packet_counter
      /\ m \in Packet /\ m.number = c.packet_counter /\ m.history = Names(p)
      /\ m.frames = p.frames
      /\ ToSet(d.queue) = ToSet(c.queue) \ {p}
      /\ ToSet(d.waiting) = ToSet(c.waiting) \cup {m}
      /\ Pending(d) = (Pending(c) \ {p}) \cup {m}
      /\ p \in Pending(c)
  BY <1>1, CreateSets DEF Pending
<1>3. d.packet_counter = c.packet_counter + 1 /\ d.out = c.out
  BY <1>1, CreateFields DEF ClientType
<1>4. /\ DOMAIN d.streams = DOMAIN c.streams
      /\ \A i \in DOMAIN c.streams : /\ d.streams[i].offset = c.streams[i].offset
                                     /\ d.streams[i].size = c.streams[i].size
  BY <1>1, CreateStreams
<1>5. /\ c0.packet_counter \in Nat /\ c.packet_counter \in Nat
      /\ c0.packet_counter <= c.packet_counter
  BY <1>1 DEF ClientType, Turn, TurnPackets
<1> HIDE DEF d, m
<1>6. p \in ToSet(c0.queue) /\ p \notin MadePackets(c0, c)
  <2>1. ~(p.number >= c0.packet_counter)
    BY <1>2, <1>5
  <2> QED
    BY <1>2, <2>1 DEF Turn, TurnPackets, MadePackets
<1>7. m.number >= c0.packet_counter /\ m.number < d.packet_counter
  BY <1>2, <1>3, <1>5
<1>8. MadePackets(c0, d) = MadePackets(c0, c) \cup {m}
  BY <1>2, <1>6, <1>7 DEF MadePackets
<1>9. p \notin Pending(d) /\ m # p
  <2>1. m # p
    BY <1>2, <1>5
  <2> QED
    BY <1>2, <2>1
<1>10. \A x \in ToSet(c0.queue) : x # m /\ x \notin Pending(c) => x \notin Pending(d)
  BY <1>2
<1>11. \A x \in ToSet(c0.queue) \ Pending(d) : x = p \/ x \in ToSet(c0.queue) \ Pending(c)
  BY <1>2
<1>12. TurnPackets(c0, d, A)
  <2>1. c0.packet_counter <= d.packet_counter
    BY <1>3, <1>5
  <2>2. \A x \in Pending(d) : x.number < c0.packet_counter => x \in ToSet(c0.queue)
    <3>1. ~(m.number < c0.packet_counter)
      BY <1>2, <1>5
    <3> QED
      BY <1>2, <3>1 DEF Turn, TurnPackets
  <2>3. \A x \in ToSet(c0.queue) \ Pending(d) :
          x.number \in A \/ \E n \in MadePackets(c0, d) : Resent(n, x)
    <3>1. Resent(m, p)
      BY <1>2 DEF Resent
    <3> QED
      BY <1>8, <1>11, <3>1 DEF Turn, TurnPackets
  <2>4. ASSUME NEW n \in MadePackets(c0, d)
        PROVE  \/ \E x \in ToSet(c0.queue) \ Pending(d) : Resent(n, x)
               \/ /\ n.history = {}
                  /\ \A i, b \in Nat : Covers(n.frames, i, b) => ~(b < c0.streams[i].offset)
    <3>1. CASE n = m
      BY <1>2, <1>6, <1>9, <3>1 DEF Resent
    <3>2. CASE n \in MadePackets(c0, c)
      <4>1. CASE \E x \in ToSet(c0.queue) \ Pending(c) : Resent(n, x)
        <5> PICK x \in ToSet(c0.queue) \ Pending(c) : Resent(n, x)
          BY <4>1
        <5>1. x # m
          <6>1. x \in Packet
            BY ToSetType DEF ClientType
          <6>2. x.history # Names(x)
            <7>1. x.number \in Names(x) /\ x.number \notin x.history
              BY <6>1 DEF Packet, Names
            <7> QED
              BY <7>1
          <6>3. ASSUME x = m PROVE FALSE
            <7>1. n.history = Names(m)
              BY <6>3 DEF Resent
            <7>2. n \in Known(c) /\ m.number \in n.history
              BY <3>2, <7>1 DEF MadePackets, Known, Names
            <7>3. n \in Packet
              BY <1>1, <3>2, ToSetType DEF MadePackets, Pending, ClientType
            <7>4. m.number < n.number /\ n.number < c.packet_counter /\ n.number \in Nat
              BY <1>1, <7>2, <7>3 DEF Packet, Ordered
            <7> QED
              BY <1>2, <1>5, <7>4
          <6> QED
            BY <6>3
        <5> QED
          BY <1>10, <5>1
      <4>2. CASE ~\E x \in ToSet(c0.queue) \ Pending(c) : Resent(n, x)
        BY <3>2, <4>2 DEF Turn, TurnPackets
      <4> QED
        BY <4>1, <4>2
    <3> QED
      BY <1>8, <3>1, <3>2
  <2> QED
    BY <2>1, <2>2, <2>3, <2>4 DEF TurnPackets
<1>13. TurnSends(c0, d)
  <2>1. ~(p.number >= c0.packet_counter)
    BY <1>2, <1>5
  <2>2. \A x \in ToSet(d.waiting) : x.number >= c0.packet_counter
    BY <1>2, <1>7 DEF Turn, TurnSends
  <2>3. ToSet(d.out) = {x \in ToSet(d.queue) : x.number >= c0.packet_counter}
    BY <1>2, <1>3, <2>1 DEF Turn, TurnSends
  <2> QED
    BY <1>3, <2>2, <2>3 DEF Turn, TurnSends
<1>14. TurnStreams(c0, d)
  <2>1. DOMAIN d.streams = DOMAIN c0.streams /\ DOMAIN c.streams = DOMAIN c0.streams
    BY <1>4 DEF Turn, TurnStreams
  <2> SUFFICES ASSUME NEW i \in DOMAIN c0.streams
               PROVE  /\ d.streams[i].size = c0.streams[i].size
                      /\ c0.streams[i].offset <= d.streams[i].offset
                      /\ \A b \in Nat :
                           c0.streams[i].offset <= b /\ b < d.streams[i].offset =>
                             \E n \in MadePackets(c0, d) : Covers(n.frames, i, b)
    BY <2>1 DEF TurnStreams
  <2>2. /\ c.streams[i].size = c0.streams[i].size
        /\ c0.streams[i].offset <= c.streams[i].offset
        /\ \A b \in Nat :
             c0.streams[i].offset <= b /\ b < c.streams[i].offset =>
               \E n \in MadePackets(c0, c) : Covers(n.frames, i, b)
    BY DEF Turn, TurnStreams
  <2> QED
    BY <1>4, <1>8, <2>1, <2>2
<1>15. Turn(c0, d, A)
  BY <1>12, <1>13, <1>14 DEF Turn
<1> QED
  BY <1>15 DEF d

-----------------------------------------------------------------------------
(***************************************************************************)
(* What holds between the methods of a handler.                            *)
(***************************************************************************)
\* A timer runs for a packet of the queue.
Timed(c) == c.timers \subseteq Numbers(c.queue)

\* Everything that holds between the methods of a handler.
Going(c0, c, A) == ClientInv(c) /\ Timed(c) /\ Credited(c) /\ Turn(c0, c, A)

\* d differs from c in what no invariant is about.
Same(c, d) ==
  /\ IsClient(d)
  /\ d.streams = c.streams
  /\ d.queue = c.queue
  /\ d.waiting = c.waiting /\ d.out = c.out /\ d.ooo = c.ooo
  /\ d.packet_counter = c.packet_counter
  /\ d.Bytes_in_flight = c.Bytes_in_flight
  /\ d.phase = c.phase

LEMMA SameGoing ==
  ASSUME NEW c0, NEW c, NEW d, NEW A, Going(c0, c, A), Same(c, d),
         d.last \in DOMAIN d.streams, Timed(d)
  PROVE  Going(c0, d, A)
<1>1. Pending(d) = Pending(c) /\ Known(d) = Known(c) /\ MadePackets(c0, d) = MadePackets(c0, c)
  BY DEF Same, Pending, Known, MadePackets
<1>2. ClientType(d)
  BY DEF Going, ClientInv, ClientType, Same
<1>3. Ordered(d)
  BY <1>1 DEF Going, ClientInv, Ordered, Same
<1>4. Accounted(d) /\ Credited(d) /\ Timed(d)
  BY DEF Going, ClientInv, Accounted, Credited, Same
<1>5. Sent(d)
  BY <1>1 DEF Going, ClientInv, Sent, Same
<1>6. TurnPackets(c0, d, A)
  BY <1>1 DEF Going, Turn, TurnPackets, Same
<1>7. TurnSends(c0, d) /\ TurnStreams(c0, d)
  BY <1>1 DEF Going, Turn, TurnSends, TurnStreams, Same
<1> QED
  BY <1>2, <1>3, <1>4, <1>5, <1>6, <1>7 DEF Going, ClientInv, Turn

LEMMA CongestionSame ==
  ASSUME NEW c, IsClient(c), NEW lost, NEW largest
  PROVE  LET d == UpdateCongestionAlgo(c, lost, largest)
         IN  Same(c, d) /\ d.last = c.last /\ d.timers = c.timers
BY ZenonT(30) DEF UpdateCongestionAlgo, Same, IsClient, ClientFields

LEMMA CreateGoing ==
  ASSUME NEW c0, NEW c, NEW A, ClientType(c0), Going(c0, c, A),
         NEW p \in ToSet(c.queue), p.number < c0.packet_counter
  PROVE  Going(c0, CreateRetransmitPacket(c, p), A)
<1> DEFINE d == CreateRetransmitPacket(c, p)
<1>1. ClientInv(c) /\ ClientType(c) /\ Ordered(c) /\ Credited(c) /\ Turn(c0, c, A)
  BY DEF Going, ClientInv
<1>2. ClientInv(d)
  BY <1>1, CreateType, CreateOrdered, CreateAccounted, CreateSent DEF ClientInv
<1>3. Credited(d)
  BY <1>1, CreateAccounted
<1>4. Turn(c0, d, A)
  BY <1>1, CreateTurn
<1>5. Timed(d)
  <2>1. d.timers = c.timers \ {p.number} /\ d.queue = WithoutNumbers(c.queue, {p.number})
    BY <1>1, CreateFields, ZenonT(30) DEF ClientType
  <2>2. c.queue \in Seq(Packet) /\ c.timers \subseteq Numbers(c.queue)
    BY <1>1 DEF ClientType, Going, Timed
  <2>3. Numbers(WithoutNumbers(c.queue, {p.number})) = Numbers(c.queue) \ {p.number}
    BY <2>2, WithoutIs
  <2> QED
    BY <2>1, <2>2, <2>3 DEF Timed
<1> QED
  BY <1>2, <1>3, <1>4, <1>5 DEF Going

\* Nothing the client did ends the simulation, and none of its packets has a
\* long header, which the loop of sendReadyPackets could not read.
Short(c) == ~c.failed /\ \A p \in Pending(c) : ~p.long

LEMMA CreateShort ==
  ASSUME NEW c, ClientType(c), Ordered(c), NEW p \in ToSet(c.queue), Short(c)
  PROVE  Short(CreateRetransmitPacket(c, p))
<1> DEFINE d == CreateRetransmitPacket(c, p)
           m == RetransmitPacket(c, p)
<1>1. /\ p \in Packet /\ p.number \in Nat /\ p.number < c.packet_counter
      /\ Pending(d) = (Pending(c) \ {p}) \cup {m}
  BY CreateSets
<1>2. m.long = p.long
  BY <1>1, RetransmitPacketIs DEF ClientType
<1>3. ~p.long
  BY DEF Short, Pending
<1>4. d.failed = (c.failed \/ p.number = InitialNumber)
  BY DEF CreateRetransmitPacket, TakeForRetransmission, ClientType, IsClient, ClientFields
<1>5. p.number # InitialNumber
  BY <1>1 DEF InitialNumber
<1> HIDE DEF d, m
<1>6. Short(d)
  BY <1>1, <1>2, <1>3, <1>4, <1>5 DEF Short
<1> QED
  BY <1>6 DEF d

LEMMA CongestionShort ==
  ASSUME NEW c, IsClient(c), Short(c), ~DividesByZero(c.cc), NEW lost, NEW largest
  PROVE  Short(UpdateCongestionAlgo(c, lost, largest))
<1> DEFINE d == UpdateCongestionAlgo(c, lost, largest)
<1>1. d.failed = c.failed
  BY DEF UpdateCongestionAlgo, IsClient, ClientFields
<1>2. Same(c, d)
  BY CongestionSame
<1> HIDE DEF d
<1>3. Short(d)
  BY <1>1, <1>2 DEF Short, Same, Pending
<1> QED
  BY <1>3 DEF d

LEMMA CreateAllGoing ==
  ASSUME NEW c0, NEW c, NEW A, ClientType(c0), Going(c0, c, A),
         NEW lost \in Seq(Packet), Sorted(lost), ToSet(lost) \subseteq ToSet(c.queue),
         \A p \in ToSet(lost) : p.number < c0.packet_counter
  PROVE  LET d == FoldLeft(CreateRetransmitPacket, c, lost)
         IN  Going(c0, d, A) /\ d.phase = c.phase /\ (Short(c) => Short(d))
<1> DEFINE n == Len(lost)
           d == FoldLeft(CreateRetransmitPacket, c, lost)
<1>1. d = Lost!Fold(c, lost)
  BY DEF Lost!Fold, FoldLeft, MapThenFoldSet, Max,
     Lost!MapThenFoldSet, Lost!Largest
<1>2. n \in Nat /\ DOMAIN lost = 1 .. n
  OBVIOUS
<1> HIDE DEF n, d
<1>3. PICK a : /\ a[0] = c
               /\ \A k \in 1 .. n : a[k] = CreateRetransmitPacket(a[k - 1], lost[k])
               /\ a[n] = Lost!Fold(c, lost)
  BY <1>2, Lost!FoldTrace
<1> DEFINE Upto(k) == /\ Going(c0, a[k], A)
                      /\ a[k].phase = c.phase
                      /\ Short(c) => Short(a[k])
                      /\ \A j \in k + 1 .. n : lost[j] \in ToSet(a[k].queue)
           K == {k \in Nat : k <= n => Upto(k)}
<1>4. \A j \in 1 .. n : lost[j] \in ToSet(lost) /\ lost[j] \in Packet
  BY <1>2 DEF ToSet
<1>5. 0 \in K
  BY <1>3, <1>4
<1>6. ASSUME NEW k \in Nat, k \in K PROVE k + 1 \in K
  <2> SUFFICES ASSUME k + 1 <= n PROVE Upto(k + 1)
    OBVIOUS
  <2>1. k + 1 \in 1 .. n /\ (k + 1) - 1 = k /\ k <= n /\ k + 1 \in k + 1 .. n
    BY <1>2
  <2>2. Upto(k)
    BY <1>6, <2>1
  <2> DEFINE p == lost[k + 1]
             e == a[k]
  <2>3. a[k + 1] = CreateRetransmitPacket(e, p)
    BY <1>3, <2>1
  <2>4. p \in ToSet(e.queue) /\ p.number < c0.packet_counter /\ Going(c0, e, A)
    BY <1>4, <2>1, <2>2
  <2>5. \A j \in (k + 1) + 1 .. n : /\ j \in k + 1 .. n /\ j \in DOMAIN lost
                                    /\ k + 1 \in DOMAIN lost /\ k + 1 < j
    BY <1>2, <2>1
  <2>6. \A j \in (k + 1) + 1 .. n : lost[j] \in ToSet(e.queue) /\ lost[j] # p
    <3> SUFFICES ASSUME NEW j \in (k + 1) + 1 .. n
                 PROVE  lost[j] \in ToSet(e.queue) /\ lost[j] # p
      OBVIOUS
    <3>1. lost[j] \in ToSet(e.queue)
      BY <2>2, <2>5
    <3>2. p.number < lost[j].number
      BY <2>5 DEF Sorted
    <3>3. p.number \in Nat
      BY <1>4, <2>1 DEF Packet
    <3> QED
      BY <3>1, <3>2, <3>3
  <2> HIDE DEF p, e
  <2>7. Going(c0, CreateRetransmitPacket(e, p), A)
    BY <2>4, CreateGoing
  <2>8. /\ ToSet(CreateRetransmitPacket(e, p).queue) = ToSet(e.queue) \ {p}
        /\ CreateRetransmitPacket(e, p).phase = e.phase
        /\ Short(e) => Short(CreateRetransmitPacket(e, p))
    <3>1. ClientType(e) /\ Ordered(e) /\ IsClient(e)
      BY <2>4 DEF Going, ClientInv, ClientType
    <3>2. CreateRetransmitPacket(e, p).phase = e.phase
      BY <3>1, CreateFields
    <3>3. ToSet(CreateRetransmitPacket(e, p).queue) = ToSet(e.queue) \ {p}
      BY <2>4, <3>1, CreateSets
    <3>4. Short(e) => Short(CreateRetransmitPacket(e, p))
      BY <2>4, <3>1, CreateShort
    <3> QED
      BY <3>2, <3>3, <3>4
  <2>9. e.phase = c.phase /\ (Short(c) => Short(e))
    BY <2>2 DEF e
  <2> QED
    BY <2>3, <2>6, <2>7, <2>8, <2>9
<1>7. n \in K
  <2> HIDE DEF K
  <2> QED
    BY <1>2, <1>5, <1>6, Addition!NatSetInduction
<1>8. Going(c0, d, A) /\ d.phase = c.phase /\ (Short(c) => Short(d))
  BY <1>1, <1>2, <1>3, <1>7
<1> QED
  BY <1>8 DEF d

LEMMA UpdateLostGoing ==
  ASSUME NEW c0, NEW c, NEW A, NEW largest, ClientType(c0), Going(c0, c, A),
         c.packet_counter = c0.packet_counter
  PROVE  LET d == UpdateLostPackets(c, largest)
         IN  /\ Going(c0, d, A) /\ d.phase = c.phase
             /\ Short(c) /\ ~DividesByZero(c.cc) => Short(d)
<1> DEFINE lost == LostPackets(c.queue, largest)
           b == UpdateCongestionAlgo(c, lost, largest)
           d == FoldLeft(CreateRetransmitPacket, b, lost)
<1>1. ClientType(c) /\ Ordered(c) /\ IsClient(c) /\ c.queue \in Seq(Packet) /\ Sorted(c.queue)
  BY DEF Going, ClientInv, ClientType, Ordered
<1>2. lost \in Seq(Packet) /\ Sorted(lost) /\ ToSet(lost) \subseteq ToSet(c.queue)
  <2> DEFINE N == {n \in Numbers(c.queue) : n <= largest - kPacketThreshold}
  <2>1. lost = WithNumbers(c.queue, N)
    BY DEF LostPackets, UpTo
  <2> HIDE DEF lost, N
  <2> QED
    BY <1>1, <2>1, WithIs
<1>3. \A p \in ToSet(lost) : p.number < c0.packet_counter
  BY <1>1, <1>2 DEF Ordered, Known, Pending
<1> HIDE DEF lost
<1>4. Same(c, b) /\ b.last = c.last /\ b.timers = c.timers
  BY <1>1, CongestionSame
<1>8. Short(c) /\ ~DividesByZero(c.cc) => Short(b)
  BY <1>1, CongestionShort
<1> HIDE DEF b
<1>5. Going(c0, b, A) /\ b.queue = c.queue /\ b.phase = c.phase
  <2>1. b.last \in DOMAIN b.streams /\ Timed(b)
    BY <1>1, <1>4 DEF Same, ClientType, Going, Timed
  <2> QED
    BY <1>4, <2>1, SameGoing DEF Same
<1>6. Going(c0, d, A) /\ d.phase = b.phase /\ (Short(b) => Short(d))
  BY <1>2, <1>3, <1>5, CreateAllGoing
<1>7. UpdateLostPackets(c, largest) = d
  BY DEF UpdateLostPackets, lost, b
<1> QED
  BY <1>5, <1>6, <1>7, <1>8

LEMMA StreamFields ==
  ASSUME NEW c, ClientType(c)
  PROVE  \A i \in DOMAIN c.streams :
           /\ c.streams[i].size \in Nat \ {0} /\ c.streams[i].offset \in Nat
           /\ c.streams[i].ACKed_bytes \in Nat /\ c.streams[i].window \in Nat
           /\ c.streams[i].offset <= c.streams[i].size
<1>1. \A i \in DOMAIN c.streams : c.streams[i] \in Stream
  BY DEF ClientType, Streams
<1> QED
  BY <1>1 DEF Stream, ClientType, Streams

LEMMA WaitingFields ==
  ASSUME NEW c, IsClient(c)
  PROVE  LET d == SendWaiting(c)
         IN  /\ IsClient(d)
             /\ d.queue = c.queue \o c.waiting
             /\ d.out = c.out \o c.waiting
             /\ d.waiting = << >>
             /\ d.streams = c.streams /\ d.last = c.last
             /\ d.timers = c.timers /\ d.ooo = c.ooo
             /\ d.packet_counter = c.packet_counter
             /\ d.Bytes_in_flight = c.Bytes_in_flight
             /\ d.phase = c.phase
             /\ d.failed = (c.failed \/ \E i \in DOMAIN c.waiting : c.waiting[i].long)
BY DEF SendWaiting, IsClient, ClientFields

LEMMA WaitingShort ==
  ASSUME NEW c, ClientType(c), Short(c)
  PROVE  Short(SendWaiting(c))
<1> DEFINE d == SendWaiting(c)
           none == << >>
<1>1. /\ d.queue = c.queue \o c.waiting /\ d.waiting = none
      /\ d.failed = (c.failed \/ \E i \in DOMAIN c.waiting : c.waiting[i].long)
  BY WaitingFields DEF ClientType
<1>2. ToSet(none) = {}
  BY ToSetEmpty
<1> HIDE DEF d, none
<1>3. ToSet(d.queue) = ToSet(c.queue) \cup ToSet(c.waiting)
  BY <1>1, ToSetConcat DEF ClientType
<1>4. Pending(d) = Pending(c)
  BY <1>1, <1>2, <1>3 DEF Pending
<1>5. \A i \in DOMAIN c.waiting : ~c.waiting[i].long
  BY DEF Short, Pending, ToSet
<1>6. Short(d)
  BY <1>1, <1>4, <1>5 DEF Short
<1> QED
  BY <1>6 DEF d

\* The retransmissions join the queue.
LEMMA WaitingGoing ==
  ASSUME NEW c0, NEW c, NEW A, Going(c0, c, A)
  PROVE  LET d == SendWaiting(c)
         IN  /\ Going(c0, d, A) /\ d.phase = c.phase /\ d.waiting = << >>
             /\ d.packet_counter = c.packet_counter
<1> DEFINE d == SendWaiting(c)
           none == << >>
<1>1. /\ IsClient(d)
      /\ d.queue = c.queue \o c.waiting
      /\ d.out = c.out \o c.waiting
      /\ d.waiting = none
      /\ d.streams = c.streams /\ d.last = c.last
      /\ d.timers = c.timers /\ d.ooo = c.ooo
      /\ d.packet_counter = c.packet_counter
      /\ d.Bytes_in_flight = c.Bytes_in_flight
      /\ d.phase = c.phase
  BY WaitingFields DEF Going, ClientInv, ClientType
<1>2. none \in Seq(Packet) /\ ToSet(none) = {} /\ Sorted(none)
      /\ TotalSize(none) = 0 /\ \A i : Carried(none, i) = 0
  BY ToSetEmpty, TotalSizeFacts, CarriedFacts DEF Sorted
<1> HIDE DEF d, none
<1>3. /\ c.queue \in Seq(Packet) /\ c.waiting \in Seq(Packet) /\ c.out \in Seq(Packet)
      /\ Sorted(c.queue) /\ Sorted(c.waiting) /\ Sorted(c.out)
      /\ \A p \in ToSet(c.queue), r \in ToSet(c.waiting) : p.number < r.number
      /\ ToSet(c.out) = {p \in ToSet(c.queue) : p.number >= c0.packet_counter}
      /\ \A p \in ToSet(c.waiting) : p.number >= c0.packet_counter
  BY DEF Going, ClientInv, ClientType, Ordered, Turn, TurnSends
<1>4. /\ d.queue \in Seq(Packet) /\ ToSet(d.queue) = ToSet(c.queue) \cup ToSet(c.waiting)
      /\ Sorted(d.queue)
  BY <1>1, <1>3, ToSetConcat, SortedConcat
<1>5. /\ d.out \in Seq(Packet) /\ ToSet(d.out) = ToSet(c.out) \cup ToSet(c.waiting)
      /\ Sorted(d.out)
  <2>1. \A p \in ToSet(c.out), r \in ToSet(c.waiting) : p.number < r.number
    BY <1>3
  <2> QED
    BY <1>1, <1>3, <2>1, ToSetConcat, SortedConcat
<1>6. Pending(d) = Pending(c) /\ Known(d) = Known(c)
  BY <1>1, <1>2, <1>4 DEF Pending, Known
<1>7. MadePackets(c0, d) = MadePackets(c0, c)
  BY <1>6 DEF MadePackets
<1>8. ClientType(d)
  BY <1>1, <1>2, <1>4, <1>5 DEF Going, ClientInv, ClientType
<1>9. Ordered(d)
  BY <1>1, <1>2, <1>4, <1>6 DEF Going, ClientInv, Ordered
<1>10. \A i : /\ Carried(d.queue, i) + Carried(d.waiting, i)
                   = Carried(c.queue, i) + Carried(c.waiting, i)
              /\ Carried(d.queue, i) \in Nat /\ Carried(d.waiting, i) \in Nat
              /\ Carried(c.queue, i) \in Nat /\ Carried(c.waiting, i) \in Nat
  <2> TAKE i
  <2>1. Carried(d.queue, i) = Carried(c.queue, i) + Carried(c.waiting, i)
    BY <1>1, <1>3, CarriedFacts
  <2>2. Carried(d.queue, i) \in Nat /\ Carried(c.queue, i) \in Nat /\ Carried(c.waiting, i) \in Nat
    BY <1>3, <1>4, CarriedFacts
  <2>3. Carried(d.waiting, i) = 0
    BY <1>1, <1>2
  <2> QED
    BY <2>1, <2>2, <2>3
<1>11. TotalSize(d.queue) + TotalSize(d.waiting) = TotalSize(c.queue) + TotalSize(c.waiting)
  <2>1. TotalSize(d.queue) = TotalSize(c.queue) + TotalSize(c.waiting)
    BY <1>1, <1>3, TotalSizeFacts
  <2>2. TotalSize(d.queue) \in Nat
    BY <1>4, TotalSizeFacts
  <2> QED
    BY <1>1, <1>2, <2>1, <2>2
<1>12. \A i \in DOMAIN c.streams : c.streams[i].ACKed_bytes \in Nat /\ c.streams[i].window \in Nat
  BY StreamFields DEF Going, ClientInv
<1>13. \A a, q, w, r, v \in Nat : q + w = r + v => a + q + w = a + r + v
  OBVIOUS
<1>14. \A i \in DOMAIN c.streams :
         /\ c.streams[i].ACKed_bytes + Carried(c.queue, i) + Carried(c.waiting, i)
              = c.streams[i].ACKed_bytes + Carried(d.queue, i) + Carried(d.waiting, i)
         /\ c.streams[i].window + Carried(c.queue, i) + Carried(c.waiting, i)
              = c.streams[i].window + Carried(d.queue, i) + Carried(d.waiting, i)
  BY <1>10, <1>12, <1>13
<1>15. Accounted(d) /\ Credited(d)
  BY <1>1, <1>11, <1>14 DEF Going, ClientInv, Accounted, Credited
<1>16. Sent(d)
  BY <1>1, <1>6 DEF Going, ClientInv, Sent
<1>17. Timed(d)
  <2>1. Numbers(d.queue) = {p.number : p \in ToSet(d.queue)}
        /\ Numbers(c.queue) = {p.number : p \in ToSet(c.queue)}
    BY NumbersIs
  <2> QED
    BY <1>1, <1>4, <2>1 DEF Going, Timed
<1>18. Turn(c0, d, A)
  <2>1. TurnPackets(c0, d, A)
    BY <1>1, <1>6, <1>7 DEF Going, Turn, TurnPackets
  <2>2. ToSet(d.out) = {p \in ToSet(d.queue) : p.number >= c0.packet_counter}
    BY <1>3, <1>4, <1>5
  <2>3. TurnSends(c0, d)
    BY <1>1, <1>2, <1>5, <2>2 DEF TurnSends
  <2>4. TurnStreams(c0, d)
    BY <1>1, <1>7 DEF Going, Turn, TurnStreams
  <2> QED
    BY <2>1, <2>3, <2>4 DEF Turn
<1> QED
  BY <1>1, <1>8, <1>9, <1>15, <1>16, <1>17, <1>18 DEF Going, ClientInv, d, none

-----------------------------------------------------------------------------
(***************************************************************************)
(* A packet of new data.                                                   *)
(***************************************************************************)
LoopFields == {"c", "window", "stop"}

IsLoop(a) == a = [x \in LoopFields |-> a[x]]

\* d is c after the frames left streams, whose array is new now.
NewPacket(c, d, new, last, frames, long) ==
  LET p == DataPacket(c.packet_counter, {}, frames, long)
  IN  /\ IsClient(d)
      /\ d.streams = new /\ d.last = last
      /\ d.queue = Append(c.queue, p) /\ d.out = Append(c.out, p)
      /\ d.packet_counter = c.packet_counter + 1
      /\ d.Bytes_in_flight = c.Bytes_in_flight + p.size
      /\ d.timers = c.timers /\ d.waiting = c.waiting /\ d.ooo = c.ooo
      /\ d.phase = c.phase

NoPacket(c, d, last) == Same(c, d) /\ d.last = last /\ d.timers = c.timers

LEMMA NewPacketFields ==
  ASSUME NEW a, IsLoop(a), IsClient(a.c), NEW space, NEW long
  PROVE  LET e    == SendNewPacket(a, space, long)
             fill == FramesToSend(a.c.streams, a.c.last, space)
         IN  /\ IsLoop(e)
             /\ \/ NoPacket(a.c, e.c, fill.last)
                \/ /\ fill.frames # << >>
                   /\ NewPacket(a.c, e.c, fill.streams, fill.last, fill.frames, long)
<1> DEFINE fill == FramesToSend(a.c.streams, a.c.last, space)
           p == DataPacket(a.c.packet_counter, {}, fill.frames, long)
           made == QueuePacket(a.c, fill, p)
           e == SendNewPacket(a, space, long)
<1>1. e = IF fill.frames = << >>
          THEN [a EXCEPT !.stop = TRUE, !.c.last = fill.last]
          ELSE [a EXCEPT !.window = @ - p.size, !.c = made]
  BY DEF SendNewPacket
<1> HIDE DEF e
<1>2. CASE fill.frames = << >>
  <2> HIDE DEF fill, p
  <2>1. IsLoop(e)
    BY <1>1, <1>2 DEF IsLoop, LoopFields
  <2>2. NoPacket(a.c, e.c, fill.last)
    BY <1>1, <1>2 DEF IsLoop, LoopFields, IsClient, ClientFields, NoPacket, Same
  <2> QED
    BY <2>1, <2>2 DEF e, fill
<1>3. CASE fill.frames # << >>
  <2>1. NewPacket(a.c, e.c, fill.streams, fill.last, fill.frames, long) <=>
          /\ IsClient(e.c)
          /\ e.c.streams = fill.streams /\ e.c.last = fill.last
          /\ e.c.queue = Append(a.c.queue, p) /\ e.c.out = Append(a.c.out, p)
          /\ e.c.packet_counter = a.c.packet_counter + 1
          /\ e.c.Bytes_in_flight = a.c.Bytes_in_flight + p.size
          /\ e.c.timers = a.c.timers /\ e.c.waiting = a.c.waiting /\ e.c.ooo = a.c.ooo
          /\ e.c.phase = a.c.phase
    BY DEF NewPacket
  <2> HIDE DEF fill, p
  <2>2. IsLoop(e)
    BY <1>1, <1>3 DEF IsLoop, LoopFields
  <2>3. /\ IsClient(e.c)
        /\ e.c.streams = fill.streams /\ e.c.last = fill.last
        /\ e.c.queue = Append(a.c.queue, p) /\ e.c.out = Append(a.c.out, p)
        /\ e.c.packet_counter = a.c.packet_counter + 1
        /\ e.c.Bytes_in_flight = a.c.Bytes_in_flight + p.size
        /\ e.c.timers = a.c.timers /\ e.c.waiting = a.c.waiting /\ e.c.ooo = a.c.ooo
        /\ e.c.phase = a.c.phase
    <3>1. e.c = made
      BY <1>1, <1>3 DEF IsLoop, LoopFields
    <3> QED
      BY <3>1, ZenonT(30) DEF QueuePacket, IsClient, ClientFields
  <2> QED
    BY <1>3, <2>1, <2>2, <2>3 DEF e, fill
<1> QED
  BY <1>2, <1>3

LEMMA NewPacketGoing ==
  ASSUME NEW c0, NEW c, NEW A, ClientInv(c0), Going(c0, c, A), c.waiting = << >>,
         NEW fill, NEW space \in Nat, FillInv(c.streams, space, fill),
         fill.frames # << >>, NEW long \in BOOLEAN,
         NEW d, NewPacket(c, d, fill.streams, fill.last, fill.frames, long)
  PROVE  Going(c0, d, A)
<1> DEFINE frames == fill.frames
           new == fill.streams
           p == DataPacket(c.packet_counter, {}, frames, long)
<1>1. /\ ClientType(c) /\ Ordered(c) /\ Accounted(c) /\ Sent(c)
      /\ Timed(c) /\ Credited(c) /\ Turn(c0, c, A)
      /\ c.packet_counter \in Nat /\ c.queue \in Seq(Packet) /\ c.out \in Seq(Packet)
  BY DEF Going, ClientInv, ClientType
<1>2. /\ IsClient(d)
      /\ d.streams = new /\ d.last = fill.last
      /\ d.queue = Append(c.queue, p) /\ d.out = Append(c.out, p)
      /\ d.packet_counter = c.packet_counter + 1
      /\ d.Bytes_in_flight = c.Bytes_in_flight + p.size
      /\ d.timers = c.timers /\ d.waiting = c.waiting /\ d.ooo = c.ooo
      /\ d.phase = c.phase
  BY DEF NewPacket
<1>3. /\ frames \in Seq(StreamFrame) /\ frames # << >>
      /\ new \in Seq(Stream) /\ Len(new) = Len(c.streams)
      /\ fill.last \in DOMAIN c.streams
      /\ Moved(c.streams, frames, new)
      /\ Exactly(c.streams, frames, new)
  BY DEF FillInv, FillType
<1>4. p \in Packet /\ p.number = c.packet_counter /\ p.history = {} /\ p.frames = frames
  <2>1. PacketSize(frames, long) \in Nat
    BY <1>3, PacketSizeType
  <2>2. p = [number |-> c.packet_counter, history |-> {}, frames |-> frames,
             long |-> long, size |-> PacketSize(frames, long)]
    BY DEF DataPacket, PacketSize
  <2> HIDE DEF p, frames
  <2> QED
    BY <1>1, <1>3, <2>1, <2>2 DEF Packet
<1> HIDE DEF p, frames, new
<1>5. /\ d.queue \in Seq(Packet) /\ ToSet(d.queue) = ToSet(c.queue) \cup {p}
      /\ d.out \in Seq(Packet) /\ ToSet(d.out) = ToSet(c.out) \cup {p}
  BY <1>1, <1>2, <1>4, ToSetAppend
<1>6. DOMAIN new = DOMAIN c.streams
  BY <1>1, <1>3 DEF ClientType, Streams
<1>7. /\ Pending(d) = Pending(c) \cup {p} /\ Known(d) = Known(c) \cup {p}
      /\ ToSet(c.waiting) = {}
  BY <1>2, <1>5, ToSetEmpty DEF Pending, Known
<1>8. \A x \in Known(c) : x \in Packet /\ x.number < c.packet_counter
  BY <1>1, ToSetType DEF ClientType, Ordered, Known, Pending
<1>9. \A x \in Known(c) : /\ x.number \in Nat /\ x # p
                          /\ \A h \in Names(x) : h \in Nat /\ h < c.packet_counter
  <2>1. \A x \in Packet : /\ x.number \in Nat
                          /\ \A h \in Names(x) : h \in Nat /\ h <= x.number
    BY DEF Packet, Names
  <2> QED
    BY <1>1, <1>4, <1>8, <2>1
<1>10. ClientType(d)
  <2>1. Streams(new)
    BY <1>3, <1>6 DEF Streams, Moved
  <2>2. d.last \in DOMAIN d.streams
    BY <1>2, <1>3, <1>6
  <2> QED
    BY <1>1, <1>2, <1>5, <2>1, <2>2 DEF ClientType
<1>11. Ordered(d)
  <2>1. Sorted(d.queue)
    <3>1. \A x \in ToSet(c.queue) : x.number < p.number
      BY <1>4, <1>8 DEF Known, Pending
    <3> QED
      BY <1>1, <1>2, <1>4, <3>1, SortedAppend DEF Ordered
  <2>2. \A x \in Known(d) : x.number < d.packet_counter
    BY <1>1, <1>2, <1>4, <1>7, <1>8, <1>9
  <2>3. Names(p) = {c.packet_counter}
    BY <1>4 DEF Names
  <2>4. \A x \in Known(c) : Names(x) \cap Names(p) = {}
    BY <1>1, <1>9, <2>3
  <2>5. \A x, r \in Known(d) : x # r => Names(x) \cap Names(r) = {}
    BY <1>1, <1>7, <2>4 DEF Ordered
  <2>6. Pending(d) \cap d.ooo = {}
    BY <1>1, <1>2, <1>7, <1>9 DEF Ordered, Known
  <2>7. Sorted(d.waiting)
        /\ \A x \in ToSet(d.queue), r \in ToSet(d.waiting) : x.number < r.number
    BY <1>1, <1>2, <1>7 DEF Ordered
  <2> QED
    BY <2>1, <2>2, <2>5, <2>6, <2>7 DEF Ordered
<1>12. \A i : /\ Carried(d.queue, i) = Carried(c.queue, i) + StreamBytes(frames, i)
              /\ Carried(c.queue, i) \in Nat /\ StreamBytes(frames, i) \in Nat
              /\ Carried(c.waiting, i) = 0 /\ Carried(d.waiting, i) = 0
  <2> TAKE i
  <2>1. Carried(d.queue, i) = Carried(c.queue, i) + StreamBytes(p.frames, i)
    BY <1>1, <1>2, <1>4, CarriedFacts
  <2>2. Carried(c.queue, i) \in Nat /\ StreamBytes(frames, i) \in Nat
    BY <1>1, <1>3, CarriedFacts, StreamBytesFacts
  <2>3. Carried(<< >>, i) = 0
    BY CarriedFacts
  <2> QED
    BY <1>2, <1>4, <2>1, <2>2, <2>3
<1>13. d.Bytes_in_flight = TotalSize(d.queue) + TotalSize(d.waiting)
  <2>1. TotalSize(d.queue) = TotalSize(c.queue) + p.size
    BY <1>1, <1>2, <1>4, TotalSizeFacts
  <2>2. TotalSize(c.queue) \in Nat /\ TotalSize(<< >>) = 0 /\ p.size \in Nat
    BY <1>1, <1>4, TotalSizeFacts DEF Packet
  <2>3. c.Bytes_in_flight = TotalSize(c.queue) + TotalSize(c.waiting)
    BY <1>1 DEF Accounted
  <2> QED
    BY <1>2, <2>1, <2>2, <2>3
<1>14. ASSUME NEW i \in DOMAIN c.streams
       PROVE  /\ new[i].offset = new[i].ACKed_bytes
                                 + Carried(d.queue, i) + Carried(d.waiting, i)
              /\ new[i].stream_done => new[i].ACKed_bytes = new[i].size
              /\ ByNumber(c.ooo) \in Seq(Packet) =>
                 StreamWindow = new[i].window + Carried(d.queue, i)
                                + Carried(d.waiting, i) + Carried(ByNumber(c.ooo), i)
  <2>1. /\ c.streams[i].offset = c.streams[i].ACKed_bytes
                                + Carried(c.queue, i) + Carried(c.waiting, i)
        /\ c.streams[i].stream_done => c.streams[i].ACKed_bytes = c.streams[i].size
        /\ StreamWindow = c.streams[i].window + Carried(c.queue, i)
                   + Carried(c.waiting, i) + Carried(ByNumber(c.ooo), i)
    BY <1>1 DEF Accounted, Credited
  <2>2. /\ c.streams[i].ACKed_bytes \in Nat /\ c.streams[i].window \in Nat
        /\ c.streams[i].offset \in Nat
    BY <1>1, StreamFields
  <2>3. /\ new[i].size = c.streams[i].size
        /\ new[i].ACKed_bytes = c.streams[i].ACKed_bytes
        /\ new[i].stream_done = c.streams[i].stream_done
        /\ new[i].offset = c.streams[i].offset + StreamBytes(frames, i)
        /\ c.streams[i].window = new[i].window + StreamBytes(frames, i)
    BY <1>3 DEF Moved
  <2>4. new[i].window \in Nat
    <3>1. new[i] \in Stream
      BY <1>3, <1>6
    <3> QED
      BY <3>1 DEF Stream
  <2>5. new[i].offset = new[i].ACKed_bytes + Carried(d.queue, i) + Carried(d.waiting, i)
    BY <1>12, <2>1, <2>2, <2>3
  <2>6. ASSUME ByNumber(c.ooo) \in Seq(Packet)
        PROVE  StreamWindow = new[i].window + Carried(d.queue, i)
                                + Carried(d.waiting, i) + Carried(ByNumber(c.ooo), i)
    <3>1. Carried(ByNumber(c.ooo), i) \in Nat
      BY <2>6, CarriedFacts
    <3> QED
      BY <1>12, <2>1, <2>3, <2>4, <3>1
  <2> QED
    BY <2>1, <2>3, <2>5, <2>6
<1>15. ByNumber(c.ooo) \in Seq(Packet)
  <2>1. Distinct(c.ooo)
    <3>1. \A x \in c.ooo : x \in Known(c) /\ x.number \in Names(x)
      BY DEF Known, Names
    <3> QED
      BY <1>1, <3>1 DEF Distinct, Ordered
  <2>2. c.ooo \in SUBSET Packet /\ IsFiniteSet(c.ooo)
    BY <1>1 DEF ClientType
  <2> QED
    BY <2>1, <2>2, ByNumberType
<1>16. Accounted(d) /\ Credited(d)
  BY <1>2, <1>6, <1>13, <1>14, <1>15 DEF Accounted, Credited
<1>17. \A i, b \in Nat : Covers(frames, i, b) <=>
         i \in DOMAIN c.streams /\ c.streams[i].offset <= b /\ b < new[i].offset
  BY <1>3 DEF Exactly
<1>18. \A i \in DOMAIN c.streams : /\ c.streams[i].offset \in Nat /\ new[i].offset \in Nat
                                   /\ c.streams[i].offset <= new[i].offset
  BY <1>1, <1>3, <1>12, StreamFields, SMTT(30) DEF Moved
<1>19. Sent(d)
  <2> SUFFICES ASSUME NEW x \in Known(d), NEW i \in Nat, NEW b \in Nat, Covers(x.frames, i, b)
               PROVE  i \in DOMAIN new /\ b < new[i].offset
    BY <1>2 DEF Sent
  <2>1. CASE x = p
    BY <1>4, <1>6, <1>17, <2>1
  <2>2. CASE x \in Known(c)
    <3>1. i \in DOMAIN c.streams /\ b < c.streams[i].offset
      BY <1>1, <2>2 DEF Sent
    <3> QED
      BY <1>6, <1>18, <3>1
  <2> QED
    BY <1>7, <2>1, <2>2
<1>20. Timed(d)
  <2>1. Numbers(d.queue) = {x.number : x \in ToSet(d.queue)}
        /\ Numbers(c.queue) = {x.number : x \in ToSet(c.queue)}
    BY NumbersIs
  <2> QED
    BY <1>1, <1>2, <1>5, <2>1 DEF Timed
<1>21. /\ c0.packet_counter \in Nat /\ c0.packet_counter <= c.packet_counter
       /\ \A x \in ToSet(c0.queue) : x.number < c0.packet_counter
       /\ \A x \in ToSet(c0.queue) : x.number \in Nat /\ x # p
  <2>1. c0.packet_counter \in Nat /\ c0.packet_counter <= c.packet_counter
    BY <1>1 DEF ClientInv, ClientType, Turn, TurnPackets
  <2>2. \A x \in ToSet(c0.queue) : x.number < c0.packet_counter
    BY DEF ClientInv, Ordered, Known, Pending
  <2>3. \A x \in ToSet(c0.queue) : x.number \in Nat
    <3>1. \A x \in ToSet(c0.queue) : x \in Packet
      BY ToSetType DEF ClientInv, ClientType
    <3> QED
      BY <3>1 DEF Packet
  <2> QED
    BY <1>1, <1>4, <2>1, <2>2, <2>3
<1>22. MadePackets(c0, d) = MadePackets(c0, c) \cup {p}
  BY <1>1, <1>4, <1>7, <1>21 DEF MadePackets
<1>23. ToSet(c0.queue) \ Pending(d) = ToSet(c0.queue) \ Pending(c)
  BY <1>7, <1>21
<1>24. \A i \in DOMAIN c.streams : /\ c0.streams[i].offset <= c.streams[i].offset
                                   /\ c0.streams[i].offset \in Nat
  <2>1. DOMAIN c.streams = DOMAIN c0.streams
    BY <1>1 DEF Turn, TurnStreams
  <2>2. \A i \in DOMAIN c0.streams : c0.streams[i].offset \in Nat
    BY StreamFields DEF ClientInv
  <2> QED
    BY <1>1, <2>1, <2>2 DEF Turn, TurnStreams
<1>25. TurnPackets(c0, d, A)
  <2>1. c0.packet_counter <= d.packet_counter
    BY <1>1, <1>2, <1>21
  <2>2. \A x \in Pending(d) : x.number < c0.packet_counter => x \in ToSet(c0.queue)
    <3>1. ~(p.number < c0.packet_counter)
      BY <1>1, <1>4, <1>21
    <3> QED
      BY <1>1, <1>7, <3>1 DEF Turn, TurnPackets
  <2>3. \A x \in ToSet(c0.queue) \ Pending(d) :
          x.number \in A \/ \E m \in MadePackets(c0, d) : Resent(m, x)
    BY <1>1, <1>22, <1>23 DEF Turn, TurnPackets
  <2>4. \A i, b \in Nat : Covers(frames, i, b) => ~(b < c0.streams[i].offset)
    BY <1>17, <1>18, <1>24
  <2>5. \A m \in MadePackets(c0, d) :
          \/ \E x \in ToSet(c0.queue) \ Pending(d) : Resent(m, x)
          \/ /\ m.history = {}
             /\ \A i, b \in Nat : Covers(m.frames, i, b) => ~(b < c0.streams[i].offset)
    BY <1>1, <1>4, <1>22, <1>23, <2>4 DEF Turn, TurnPackets
  <2> QED
    BY <2>1, <2>2, <2>3, <2>5 DEF TurnPackets
<1>26. TurnSends(c0, d)
  <2>1. Sorted(d.out)
    <3>1. \A x \in ToSet(c.out) : x.number < p.number
      BY <1>1, <1>4, <1>8 DEF Known, Pending, Turn, TurnSends
    <3> QED
      BY <1>1, <1>2, <1>4, <3>1, SortedAppend DEF Turn, TurnSends
  <2>2. p.number >= c0.packet_counter
    BY <1>1, <1>4, <1>21
  <2>3. ToSet(c.out) = {x \in ToSet(c.queue) : x.number >= c0.packet_counter}
    BY <1>1 DEF Turn, TurnSends
  <2>4. ToSet(d.out) = {x \in ToSet(d.queue) : x.number >= c0.packet_counter}
    BY <1>5, <2>2, <2>3
  <2> QED
    BY <1>2, <1>7, <2>1, <2>4 DEF TurnSends
<1>27. TurnStreams(c0, d)
  <2>1. DOMAIN c.streams = DOMAIN c0.streams /\ DOMAIN new = DOMAIN c0.streams
    BY <1>1, <1>6 DEF Turn, TurnStreams
  <2> SUFFICES ASSUME NEW i \in DOMAIN c0.streams
               PROVE  /\ new[i].size = c0.streams[i].size
                      /\ c0.streams[i].offset <= new[i].offset
                      /\ \A b \in Nat :
                           c0.streams[i].offset <= b /\ b < new[i].offset =>
                             \E m \in MadePackets(c0, d) : Covers(m.frames, i, b)
    BY <1>2, <2>1 DEF TurnStreams
  <2>2. /\ c.streams[i].size = c0.streams[i].size
        /\ \A b \in Nat :
             c0.streams[i].offset <= b /\ b < c.streams[i].offset =>
               \E m \in MadePackets(c0, c) : Covers(m.frames, i, b)
    BY <1>1 DEF Turn, TurnStreams
  <2>3. new[i].size = c0.streams[i].size
    BY <1>3, <2>1, <2>2 DEF Moved
  <2>4. c0.streams[i].offset <= new[i].offset
    BY <1>18, <1>24, <2>1
  <2>5. i \in Nat
    BY <1>1, <2>1 DEF ClientType, Streams
  <2>6. ASSUME NEW b \in Nat, c0.streams[i].offset <= b, b < new[i].offset
        PROVE  \E m \in MadePackets(c0, d) : Covers(m.frames, i, b)
    <3>1. CASE b < c.streams[i].offset
      BY <1>22, <2>2, <2>6, <3>1
    <3>2. CASE ~(b < c.streams[i].offset)
      <4>1. c.streams[i].offset <= b
        BY <1>18, <2>1, <3>2
      <4>2. Covers(p.frames, i, b)
        BY <1>4, <1>17, <2>1, <2>5, <2>6, <4>1
      <4> QED
        BY <1>22, <4>2
    <3> QED
      BY <3>1, <3>2
  <2> QED
    BY <2>3, <2>4, <2>6
<1> QED
  BY <1>10, <1>11, <1>16, <1>19, <1>20, <1>25, <1>26, <1>27 DEF Going, ClientInv, Turn

-----------------------------------------------------------------------------
(***************************************************************************)
(* The loop that makes packets of new data, and the end of a handler.      *)
(***************************************************************************)
Turns == INSTANCE FoldTheorems WITH op <- SendTurn
Lefts == INSTANCE FoldTheorems WITH op <- LAMBDA sum, s : sum + BytesLeft(s)

LEMMA SendTurnGoing ==
  ASSUME NEW c0, NEW a, NEW A, ClientInv(c0), IsLoop(a), Going(c0, a.c, A),
         a.c.waiting = << >>, NEW k
  PROVE  LET e == SendTurn(a, k)
         IN  /\ IsLoop(e) /\ Going(c0, e.c, A)
             /\ e.c.waiting = << >> /\ e.c.phase = a.c.phase
<1> DEFINE space == MaxPayload - HeaderSize
           fill == FramesToSend(a.c.streams, a.c.last, space)
           long == FALSE
           e == SendTurn(a, k)
<1>1. space \in Nat /\ long \in BOOLEAN
  BY ClientAssumption
<1>2. e = IF a.stop \/ a.window < MaxPayload THEN [a EXCEPT !.stop = TRUE]
          ELSE SendNewPacket(a, space, long)
  BY DEF SendTurn
<1> HIDE DEF space, long
<1>3. IsClient(a.c) /\ Streams(a.c.streams) /\ a.c.last \in DOMAIN a.c.streams
  BY DEF Going, ClientInv, ClientType
<1>4. FillInv(a.c.streams, space, fill)
  BY <1>1, <1>3, FramesToSendIs
<1> HIDE DEF fill, e
<1>5. CASE e = [a EXCEPT !.stop = TRUE]
  <2>1. IsLoop(e) /\ e.c = a.c
    BY <1>5 DEF IsLoop, LoopFields
  <2> QED
    BY <2>1 DEF e
<1>6. CASE e = SendNewPacket(a, space, long)
  <2>1. /\ IsLoop(e)
        /\ \/ NoPacket(a.c, e.c, fill.last)
           \/ /\ fill.frames # << >>
              /\ NewPacket(a.c, e.c, fill.streams, fill.last, fill.frames, long)
    BY <1>3, <1>6, NewPacketFields DEF fill
  <2>2. CASE NoPacket(a.c, e.c, fill.last)
    <3>1. Same(a.c, e.c) /\ e.c.last = fill.last /\ e.c.timers = a.c.timers
      BY <2>2 DEF NoPacket
    <3>2. e.c.last \in DOMAIN e.c.streams /\ Timed(e.c)
      BY <1>4, <3>1 DEF FillInv, Same, Going, Timed
    <3>3. Going(c0, e.c, A)
      BY <3>1, <3>2, SameGoing
    <3> QED
      BY <2>1, <3>1, <3>3 DEF Same, e
  <2>3. CASE /\ fill.frames # << >>
             /\ NewPacket(a.c, e.c, fill.streams, fill.last, fill.frames, long)
    <3>1. Going(c0, e.c, A)
      BY <1>1, <1>4, <2>3, NewPacketGoing
    <3>2. e.c.waiting = a.c.waiting /\ e.c.phase = a.c.phase
      BY <2>3 DEF NewPacket
    <3> QED
      BY <2>1, <3>1, <3>2 DEF e
  <2> QED
    BY <2>1, <2>2, <2>3
<1> QED
  BY <1>2, <1>5, <1>6

LEMMA LeftType ==
  ASSUME NEW streams, Streams(streams)
  PROVE  FoldLeft(LAMBDA sum, s : sum + BytesLeft(s), 0, streams) \in Nat
<1> DEFINE n == Len(streams)
           T == [k \in 0 .. n |-> Nat]
<1>1. FoldLeft(LAMBDA sum, s : sum + BytesLeft(s), 0, streams) = Lefts!Fold(0, streams)
  BY DEF Lefts!Fold, FoldLeft, MapThenFoldSet, Max,
     Lefts!MapThenFoldSet, Lefts!Largest
<1>2. n \in Nat /\ DOMAIN streams = 1 .. n
  BY DEF Streams
<1>3. \A k \in 1 .. n : BytesLeft(streams[k]) \in Nat
  <2>1. \A k \in 1 .. n : streams[k] \in Stream /\ streams[k].offset <= streams[k].size
    BY <1>2 DEF Streams
  <2> QED
    BY <2>1 DEF Stream, BytesLeft
<1>4. \A k \in 1 .. n : \A a \in T[k - 1] : a + BytesLeft(streams[k]) \in T[k]
  BY <1>2, <1>3
<1>5. 0 \in T[0] /\ T[n] = Nat
  BY <1>2
<1> HIDE DEF T, n
<1>6. Lefts!Fold(0, streams) \in T[n]
  BY <1>2, <1>4, <1>5, Lefts!FoldInvariant
<1> QED
  BY <1>1, <1>5, <1>6

LEMMA NewDataGoing ==
  ASSUME NEW c0, NEW c, NEW A, ClientInv(c0), Going(c0, c, A), c.waiting = << >>
  PROVE  LET d == SendNewData(c)
         IN  Going(c0, d, A) /\ d.waiting = << >> /\ d.phase = c.phase
<1> DEFINE left == FoldLeft(LAMBDA sum, s : sum + BytesLeft(s), 0, c.streams)
           base == [c |-> c, window |-> ActualWindow(c), stop |-> FALSE]
           n == left + 1
           f == [k \in 1 .. n |-> k]
<1>1. SendNewData(c) = FoldLeft(SendTurn, base, f).c
  BY DEF SendNewData, SendLoop
<1>2. FoldLeft(SendTurn, base, f) = Turns!Fold(base, f)
  BY DEF Turns!Fold, FoldLeft, MapThenFoldSet, Max,
     Turns!MapThenFoldSet, Turns!Largest
<1>3. n \in Nat /\ DOMAIN f = 1 .. n
  <2>1. left \in Nat
    BY LeftType DEF Going, ClientInv, ClientType
  <2> HIDE DEF left
  <2> QED
    BY <2>1
<1>4. IsLoop(base) /\ base.c = c
  BY DEF IsLoop, LoopFields
<1> HIDE DEF n, f, base, left
<1>5. PICK a : /\ a[0] = base
               /\ \A k \in 1 .. n : a[k] = SendTurn(a[k - 1], f[k])
               /\ a[n] = Turns!Fold(base, f)
  BY <1>3, Turns!FoldTrace
<1> DEFINE Upto(e) == /\ IsLoop(e) /\ Going(c0, e.c, A)
                      /\ e.c.waiting = << >> /\ e.c.phase = c.phase
           K == {k \in Nat : k <= n => Upto(a[k])}
<1>6. 0 \in K
  BY <1>4, <1>5
<1>7. ASSUME NEW k \in Nat, k \in K PROVE k + 1 \in K
  <2> SUFFICES ASSUME k + 1 <= n PROVE Upto(a[k + 1])
    OBVIOUS
  <2>1. k + 1 \in 1 .. n /\ (k + 1) - 1 = k /\ k <= n
    BY <1>3
  <2>2. a[k + 1] = SendTurn(a[k], f[k + 1])
    BY <1>5, <2>1
  <2> DEFINE b == a[k]
             j == f[k + 1]
  <2>3. IsLoop(b) /\ Going(c0, b.c, A) /\ b.c.waiting = << >> /\ b.c.phase = c.phase
    BY <1>7, <2>1
  <2> HIDE DEF b, j
  <2>4. /\ IsLoop(SendTurn(b, j)) /\ Going(c0, SendTurn(b, j).c, A)
        /\ SendTurn(b, j).c.waiting = << >> /\ SendTurn(b, j).c.phase = b.c.phase
    BY <2>3, SendTurnGoing
  <2> QED
    BY <2>2, <2>3, <2>4 DEF b, j
<1>8. n \in K
  <2> HIDE DEF K
  <2> QED
    BY <1>3, <1>6, <1>7, Addition!NatSetInduction
<1> QED
  BY <1>1, <1>2, <1>3, <1>5, <1>8

\* Nothing is left to acknowledge.
Done(c) ==
  /\ c.queue = << >>
  /\ \A i \in DOMAIN c.streams : c.streams[i].ACKed_bytes = c.streams[i].size

\* When all streams are done no packet is left: its first frame would be of a
\* stream with bytes to acknowledge.
LEMMA AllDone ==
  ASSUME NEW c, ClientInv(c), c.waiting = << >>, GetAllStreamsDone(c.streams)
  PROVE  Done(c)
<1>1. c.queue \in Seq(Packet) /\ c.streams \in Seq(Stream)
  BY DEF ClientInv, ClientType, Streams
<1>2. ASSUME NEW i \in DOMAIN c.streams
      PROVE  Carried(c.queue, i) = 0 /\ c.streams[i].ACKed_bytes = c.streams[i].size
  <2>1. /\ c.streams[i].offset = c.streams[i].ACKed_bytes
                                + Carried(c.queue, i) + Carried(c.waiting, i)
        /\ c.streams[i].ACKed_bytes = c.streams[i].size
    BY DEF ClientInv, Accounted, GetAllStreamsDone
  <2>2. /\ c.streams[i].offset <= c.streams[i].size
        /\ c.streams[i].size \in Nat /\ c.streams[i].offset \in Nat
    BY StreamFields DEF ClientInv
  <2>3. Carried(c.queue, i) \in Nat /\ Carried(c.waiting, i) = 0
    BY <1>1, CarriedFacts
  <2> QED
    BY <2>1, <2>2, <2>3
<1>3. ToSet(c.queue) = {}
  <2> SUFFICES ASSUME NEW p \in ToSet(c.queue) PROVE FALSE
    OBVIOUS
  <2>1. p \in Packet /\ p \in Known(c)
    BY <1>1, ToSetType DEF Known, Pending
  <2>2. p.frames \in Seq(StreamFrame) /\ p.frames # << >>
    BY <2>1 DEF Packet
  <2>3. 1 \in DOMAIN p.frames /\ p.frames[1] \in StreamFrame
    BY <2>2
  <2> DEFINE i == p.frames[1].stream
             b == p.frames[1].offset
  <2>4. i \in Nat /\ b \in Nat /\ p.frames[1].length \in Nat \ {0}
    BY <2>3 DEF StreamFrame
  <2>5. b < b + p.frames[1].length /\ b <= b
    BY <2>4
  <2>6. Covers(p.frames, i, b)
    BY <2>3, <2>5 DEF Covers
  <2>7. Carried(c.queue, i) > 0
    BY <1>1, <2>3, CarriedSome
  <2> HIDE DEF i, b
  <2>8. i \in DOMAIN c.streams
    BY <2>1, <2>4, <2>6 DEF ClientInv, Sent
  <2> QED
    BY <1>2, <2>7, <2>8
<1>4. c.queue = << >>
  BY <1>1, <1>3, EmptyIs
<1> QED
  BY <1>2, <1>4 DEF Done

LEMMA SendOutGoing ==
  ASSUME NEW c0, NEW c, NEW A, Going(c0, c, A), c.waiting = << >>, c.phase # "closed"
  PROVE  LET d == SendOut(c)
         IN  /\ Going(c0, d, A) /\ d.waiting = << >>
             /\ d.phase \in {c.phase, "closed"}
             /\ d.phase = "closed" => Done(d)
<1> DEFINE d == SendOut(c)
<1>1. IsClient(c)
  BY DEF Going, ClientInv, ClientType
<1>2. /\ IsClient(d)
      /\ d.streams = c.streams /\ d.last = c.last
      /\ d.queue = c.queue /\ d.timers = c.timers \cup Numbers(c.out)
      /\ d.waiting = c.waiting /\ d.out = c.out /\ d.ooo = c.ooo
      /\ d.packet_counter = c.packet_counter
      /\ d.Bytes_in_flight = c.Bytes_in_flight
      /\ d.phase = IF c.out = << >> /\ GetAllStreamsDone(c.streams)
                   THEN "closed" ELSE c.phase
  BY <1>1 DEF SendOut, IsClient, ClientFields
<1> HIDE DEF d
<1>3. Pending(d) = Pending(c) /\ Known(d) = Known(c) /\ MadePackets(c0, d) = MadePackets(c0, c)
  BY <1>2 DEF Pending, Known, MadePackets
<1>4. ClientType(d)
  BY <1>2 DEF Going, ClientInv, ClientType
<1>5. Ordered(d)
  BY <1>2, <1>3 DEF Going, ClientInv, Ordered
<1>6. Accounted(d) /\ Credited(d)
  BY <1>2 DEF Going, ClientInv, Accounted, Credited
<1>7. Sent(d)
  BY <1>2, <1>3 DEF Going, ClientInv, Sent
<1>8. TurnPackets(c0, d, A)
  BY <1>2, <1>3 DEF Going, Turn, TurnPackets
<1>9. TurnSends(c0, d) /\ TurnStreams(c0, d)
  BY <1>2, <1>3 DEF Going, Turn, TurnSends, TurnStreams
<1>10. Timed(d)
  <2>1. /\ Numbers(c.queue) = {p.number : p \in ToSet(c.queue)}
        /\ Numbers(c.out) = {p.number : p \in ToSet(c.out)}
    BY NumbersIs
  <2>2. ToSet(c.out) \subseteq ToSet(c.queue)
    BY DEF Going, Turn, TurnSends
  <2> QED
    BY <1>2, <2>1, <2>2 DEF Going, Timed
<1>11. d.phase = "closed" => Done(d)
  <2> SUFFICES ASSUME d.phase = "closed" PROVE Done(d)
    OBVIOUS
  <2>1. GetAllStreamsDone(c.streams)
    BY <1>2
  <2>2. Done(c)
    BY <2>1, AllDone DEF Going
  <2> QED
    BY <1>2, <2>2 DEF Done
<1> QED
  BY <1>2, <1>4, <1>5, <1>6, <1>7, <1>8, <1>9, <1>10, <1>11 DEF Going, ClientInv, Turn, d

LEMMA SendReadyGoing ==
  ASSUME NEW c0, NEW c, NEW A, ClientInv(c0), Going(c0, c, A), c.phase # "closed"
  PROVE  LET d == SendReadyPackets(c)
         IN  /\ Going(c0, d, A) /\ d.waiting = << >>
             /\ d.phase \in {c.phase, "closed"}
             /\ d.phase = "closed" => Done(d)
<1> DEFINE e == SendWaiting(c)
           f == SendNewData(e)
           d == SendOut(f)
<1>1. Going(c0, e, A) /\ e.phase = c.phase /\ e.waiting = << >>
  BY WaitingGoing
<1> HIDE DEF e
<1>2. Going(c0, f, A) /\ f.phase = c.phase /\ f.waiting = << >>
  BY <1>1, NewDataGoing
<1> HIDE DEF f
<1>3. /\ Going(c0, d, A) /\ d.waiting = << >>
      /\ d.phase \in {f.phase, "closed"}
      /\ d.phase = "closed" => Done(d)
  BY <1>2, SendOutGoing
<1>4. SendReadyPackets(c) = d
  BY DEF SendReadyPackets, ProcessClientSend, e, f
<1> HIDE DEF d
<1> QED
  BY <1>2, <1>3, <1>4

-----------------------------------------------------------------------------
(***************************************************************************)
(* An ACK frame.  The packets an in order frame names, and those before it *)
(* when it takes them out too, are different ones.                         *)
(***************************************************************************)
AckFrame(frame) ==
  IsInOrder(frame) => frame.largest \in Int /\ frame.first \in Int

LEMMA DecodeInOrder ==
  ASSUME NEW frame, IsInOrder(frame), frame.largest \in Int, frame.first \in Int
  PROVE  /\ DecodeAck(frame) = Downwards(frame.largest + 1, frame.first + 1)
         /\ \A n \in ToSet(DecodeAck(frame)) :
              /\ n \in Int /\ n <= frame.largest
              /\ Smallest(frame) = frame.largest - frame.first
              /\ Smallest(frame) <= n
         /\ \A n \in Int :
              frame.largest - frame.first <= n /\ n <= frame.largest =>
                n \in ToSet(DecodeAck(frame))
<1> DEFINE base == [current |-> frame.largest - frame.first,
                    acked   |-> Downwards(frame.largest + 1, frame.first + 1)]
           count == frame.first + 1
           s == Downwards(frame.largest + 1, frame.first + 1)
<1>1. frame.ranges = << >>
  BY DEF IsInOrder
<1>2. DecodeAck(frame) = Ranges!Fold(base, frame.ranges).acked
  BY DEF DecodeAck, Ranges!Fold, FoldLeft, MapThenFoldSet, Max,
     Ranges!MapThenFoldSet, Ranges!Largest
<1>3. Ranges!Fold(base, << >>) = base
  <2> HIDE DEF base
  <2> QED
    BY Ranges!FoldEmpty
<1>4. DecodeAck(frame) = s
  BY <1>1, <1>2, <1>3
<1>5. s = [i \in 1 .. count |-> frame.largest + 1 - i] /\ count \in Int
  BY DEF Downwards
<1>6. ToSet(s) = {frame.largest + 1 - i : i \in 1 .. count}
  <2> HIDE DEF s, count
  <2> QED
    BY <1>5 DEF ToSet
<1>7. ASSUME NEW n \in ToSet(s)
      PROVE  /\ n \in Int /\ n <= frame.largest
             /\ Last(s) = frame.largest - frame.first /\ Last(s) <= n
  <2> PICK i \in 1 .. count : n = frame.largest + 1 - i
    BY <1>6
  <2>1. count \in Nat /\ count >= 1 /\ count \in 1 .. count
    BY <1>5
  <2>2. Len(s) = count /\ s[count] = frame.largest + 1 - count
    <3> HIDE DEF s, count
    <3> QED
      BY <1>5, <2>1
  <2>3. Last(s) = frame.largest + 1 - count
    BY <2>2 DEF Last
  <2> QED
    BY <1>5, <2>1, <2>3
<1>8. ASSUME NEW n \in Int, frame.largest - frame.first <= n, n <= frame.largest
      PROVE  n \in ToSet(s)
  <2>1. (frame.largest + 1) - n \in 1 .. count /\ n = frame.largest + 1 - ((frame.largest + 1) - n)
    BY <1>8
  <2> HIDE DEF count, s
  <2> QED
    BY <1>6, <2>1
<1> HIDE DEF s
<1>9. Smallest(frame) = Last(s)
  BY <1>4 DEF Smallest
<1> QED
  BY <1>4, <1>7, <1>8, <1>9 DEF s

\* Two disjoint parts of a queue leave it.
LEMMA RemovedIs ==
  ASSUME NEW q \in Seq(Packet), Sorted(q), NEW B, NEW F,
         \A p \in ToSet(q) : ~(p.number \in B /\ p.number \in F)
  PROVE  LET removed == WithNumbers(q, B) \o WithNumbers(q, F)
             r == WithoutNumbers(q, Numbers(removed))
         IN  /\ removed \in Seq(Packet) /\ r \in Seq(Packet) /\ Sorted(r)
             /\ ToSet(removed) = {p \in ToSet(q) : p.number \in B \cup F}
             /\ Numbers(removed) = Numbers(q) \cap (B \cup F)
             /\ ToSet(r) = {p \in ToSet(q) : p.number \notin B \cup F}
             /\ Numbers(r) = Numbers(q) \ (B \cup F)
             /\ TotalSize(q) = TotalSize(r) + TotalSize(removed)
             /\ \A i : Carried(q, i) = Carried(r, i) + Carried(removed, i)
<1> DEFINE before == WithNumbers(q, B)
           found == WithNumbers(q, F)
           removed == before \o found
           r == WithoutNumbers(q, Numbers(removed))
           R == Numbers(q) \ Numbers(removed)
<1>1. /\ before \in Seq(Packet) /\ ToSet(before) = {p \in ToSet(q) : p.number \in B}
      /\ found \in Seq(Packet) /\ ToSet(found) = {p \in ToSet(q) : p.number \in F}
  BY WithIs
<1>2. removed \in Seq(Packet) /\ ToSet(removed) = ToSet(before) \cup ToSet(found)
  <2> HIDE DEF before, found
  <2> QED
    BY <1>1, ToSetConcat
<1>3. ToSet(removed) = {p \in ToSet(q) : p.number \in B \cup F}
  BY <1>1, <1>2
<1>4. Numbers(q) = {p.number : p \in ToSet(q)}
  BY NumbersIs
<1>5. Numbers(removed) = {p.number : p \in ToSet(removed)}
  <2> HIDE DEF removed
  <2> QED
    BY NumbersIs
<1>6. Numbers(removed) = Numbers(q) \cap (B \cup F)
  BY <1>3, <1>4, <1>5
<1> HIDE DEF removed
<1>7. /\ r \in Seq(Packet) /\ Sorted(r)
      /\ ToSet(r) = {p \in ToSet(q) : p.number \notin Numbers(removed)}
      /\ Numbers(r) = Numbers(q) \ Numbers(removed)
  BY WithoutIs
<1>8. /\ ToSet(r) = {p \in ToSet(q) : p.number \notin B \cup F}
      /\ Numbers(r) = Numbers(q) \ (B \cup F)
  BY <1>4, <1>6, <1>7
<1>9. Thirds(q, R, B, F)
  BY <1>4, <1>6 DEF Thirds
<1>10. r = WithNumbers(q, R)
  BY DEF WithoutNumbers
<1> HIDE DEF r, R
<1>11. TotalSize(q) = TotalSize(r) + TotalSize(removed)
  <2>1. TotalSize(q) = TotalSize(r) + TotalSize(before) + TotalSize(found)
    BY <1>9, <1>10, TotalSizeSplit
  <2> HIDE DEF before, found
  <2>2. TotalSize(removed) = TotalSize(before) + TotalSize(found)
    BY <1>1, TotalSizeFacts DEF removed
  <2>3. TotalSize(r) \in Nat /\ TotalSize(before) \in Nat /\ TotalSize(found) \in Nat
    BY <1>1, <1>7, TotalSizeFacts
  <2> QED
    BY <2>1, <2>2, <2>3
<1>12. ASSUME NEW i PROVE Carried(q, i) = Carried(r, i) + Carried(removed, i)
  <2>1. Carried(q, i) = Carried(r, i) + Carried(before, i) + Carried(found, i)
    BY <1>9, <1>10, CarriedSplit
  <2> HIDE DEF before, found
  <2>2. Carried(removed, i) = Carried(before, i) + Carried(found, i)
    BY <1>1, CarriedFacts DEF removed
  <2>3. Carried(r, i) \in Nat /\ Carried(before, i) \in Nat /\ Carried(found, i) \in Nat
    BY <1>1, <1>7, CarriedFacts
  <2> QED
    BY <2>1, <2>2, <2>3
<1> QED
  BY <1>2, <1>3, <1>6, <1>7, <1>8, <1>11, <1>12 DEF r, removed

RemovedPackets(c, frame) == LostAcksPackets(c, frame) \o AckedPackets(c, frame)

\* The packets an ACK frame takes out of the queue, and the timers it cancels.
LEMMA AckParts ==
  ASSUME NEW c, c.queue \in Seq(Packet), NEW frame, AckFrame(frame)
  PROVE  \E B :
           LET F == ToSet(DecodeAck(frame))
           IN  /\ LostAcksPackets(c, frame) = WithNumbers(c.queue, B)
               /\ AckedPackets(c, frame) = WithNumbers(c.queue, F)
               /\ \A p \in ToSet(c.queue) : ~(p.number \in B /\ p.number \in F)
               /\ ~IsInOrder(frame) => B = {}
               /\ IsInOrder(frame) =>
                    B = {} \/ B = {n \in Numbers(c.queue) : n <= Smallest(frame) - 1}
               /\ B # {} => Smallest(frame) \in Numbers(c.queue)
<1> DEFINE F == ToSet(DecodeAck(frame))
           L == {n \in Numbers(c.queue) : n <= Smallest(frame) - 1}
<1>1. AckedPackets(c, frame) = WithNumbers(c.queue, F)
  BY DEF AckedPackets
<1>2. CASE IsInOrder(frame) /\ Smallest(frame) \in Numbers(c.queue)
  <2>1. LostAcksPackets(c, frame) = WithNumbers(c.queue, L)
    BY <1>2 DEF LostAcksPackets, UpTo
  <2>2. ASSUME NEW p \in ToSet(c.queue), p.number \in L, p.number \in F PROVE FALSE
    <3>1. p.number \in Int /\ Smallest(frame) <= p.number /\ Smallest(frame) \in Int
      BY <1>2, <2>2, DecodeInOrder DEF AckFrame
    <3>2. p.number <= Smallest(frame) - 1
      BY <2>2
    <3> QED
      BY <3>1, <3>2
  <2> HIDE DEF L, F
  <2> QED
    BY <1>1, <1>2, <2>1, <2>2 DEF F, L
<1>3. CASE ~(IsInOrder(frame) /\ Smallest(frame) \in Numbers(c.queue))
  <2>1. LostAcksPackets(c, frame) = << >>
    BY <1>3 DEF LostAcksPackets
  <2>2. WithNumbers(c.queue, {}) = << >>
    BY WithNone
  <2> HIDE DEF F
  <2> QED
    BY <1>1, <2>1, <2>2 DEF F
<1> QED
  BY <1>2, <1>3

LEMMA AckFields ==
  ASSUME NEW c, IsClient(c), NEW frame
  PROVE  LET d == RemoveAcked(CancelRTO(c, frame), frame)
             removed == RemovedPackets(c, frame)
             streams == UpdateStreamInfo(c.streams, removed)
         IN  /\ IsClient(d)
             /\ d.queue = WithoutNumbers(c.queue, Numbers(removed))
             /\ d.timers = c.timers \
                  (ToSet(DecodeAck(frame)) \cup
                   IF IsInOrder(frame)
                   THEN Numbers(UpTo(c.queue, Smallest(frame) - 1)) ELSE {})
             /\ d.streams = IF IsInOrder(frame)
                            THEN UpdateStreamFlowWindow(streams, AllFrames(removed))
                            ELSE streams
             /\ d.ooo = IF IsInOrder(frame) THEN c.ooo
                        ELSE c.ooo \cup ToSet(AckedPackets(c, frame))
             /\ d.Bytes_in_flight = c.Bytes_in_flight - TotalSize(removed)
             /\ d.packet_counter = c.packet_counter
             /\ d.waiting = c.waiting /\ d.out = c.out /\ d.last = c.last
             /\ d.phase = c.phase
<1> DEFINE b == CancelRTO(c, frame)
           removed == RemovedPackets(c, frame)
           streams == UpdateStreamInfo(c.streams, removed)
           d == RemoveAcked(b, frame)
<1>1. /\ IsClient(b)
      /\ b.queue = c.queue /\ b.streams = c.streams /\ b.ooo = c.ooo
      /\ b.Bytes_in_flight = c.Bytes_in_flight
      /\ b.packet_counter = c.packet_counter
      /\ b.waiting = c.waiting /\ b.out = c.out /\ b.last = c.last
      /\ b.phase = c.phase
      /\ b.timers = c.timers \
                  (ToSet(DecodeAck(frame)) \cup
                   IF IsInOrder(frame)
                   THEN Numbers(UpTo(c.queue, Smallest(frame) - 1)) ELSE {})
  BY DEF CancelRTO, IsClient, ClientFields
<1> HIDE DEF b
<1>2. /\ AckedPackets(b, frame) = AckedPackets(c, frame)
      /\ LostAcksPackets(b, frame) = LostAcksPackets(c, frame)
  BY <1>1 DEF AckedPackets, LostAcksPackets
<1>3. LostAcksPackets(b, frame) \o AckedPackets(b, frame) = removed
  BY <1>2 DEF RemovedPackets
<1> DEFINE found == AckedPackets(b, frame)
           una == IF b.ooo = {}
                 THEN b.send_unacked
                        + FoldLeft(LAMBDA sum, p : sum + p.size - PoppedBytes(p),
                                   0, found)
                 ELSE b.send_unacked
           base == [b EXCEPT
                    !.queue = WithoutNumbers(@, Numbers(removed)),
                    !.Bytes_in_flight = @ - TotalSize(removed)]
           new == UpdateStreamFlowWindow(streams, AllFrames(removed))
           cc == SetSndUna(b.cc, IF found # << >> /\ b.ooo = {}
                                  THEN una ELSE b.cc.snd_una)
<1>4. base.cc = b.cc /\ base.ooo = b.ooo
  BY <1>1 DEF IsClient, ClientFields
<1>5. d = IF IsInOrder(frame)
          THEN [base EXCEPT !.streams = new, !.send_unacked = una, !.cc = cc]
          ELSE [base EXCEPT !.streams = streams, !.ooo = b.ooo \cup ToSet(found)]
  BY <1>1, <1>3, <1>4 DEF RemoveAcked
<1> HIDE DEF d, removed, streams, una, new, cc, found
<1>6. /\ IsClient(d)
      /\ d.queue = WithoutNumbers(b.queue, Numbers(removed))
      /\ d.timers = b.timers
      /\ d.streams = IF IsInOrder(frame) THEN new ELSE streams
      /\ d.ooo = IF IsInOrder(frame) THEN b.ooo ELSE b.ooo \cup ToSet(found)
      /\ d.Bytes_in_flight = b.Bytes_in_flight - TotalSize(removed)
      /\ d.packet_counter = b.packet_counter
      /\ d.waiting = b.waiting /\ d.out = b.out /\ d.last = b.last
      /\ d.phase = b.phase
  BY <1>1, <1>5 DEF IsClient, ClientFields
<1> USE DEF found
<1>7. /\ IsClient(d)
      /\ d.queue = WithoutNumbers(c.queue, Numbers(removed))
      /\ d.timers = c.timers \
                  (ToSet(DecodeAck(frame)) \cup
                   IF IsInOrder(frame)
                   THEN Numbers(UpTo(c.queue, Smallest(frame) - 1)) ELSE {})
      /\ d.streams = IF IsInOrder(frame) THEN new ELSE streams
      /\ d.ooo = IF IsInOrder(frame) THEN c.ooo
                 ELSE c.ooo \cup ToSet(AckedPackets(c, frame))
      /\ d.Bytes_in_flight = c.Bytes_in_flight - TotalSize(removed)
      /\ d.packet_counter = c.packet_counter
      /\ d.waiting = c.waiting /\ d.out = c.out /\ d.last = c.last
      /\ d.phase = c.phase
  BY <1>1, <1>2, <1>6
<1> QED
  BY <1>7 DEF d, b, removed, streams, new

LEMMA AllFramesType == \A q \in Seq(Packet) : AllFrames(q) \in Seq(StreamFrame)
<1>1. ASSUME NEW q \in Seq(Packet), q # << >> PROVE AllFrames(q) \in Seq(StreamFrame)
  <2>1. PICK p \in Packet : TRUE
    <3>1. q[1] \in Packet
      BY <1>1
    <3> QED
      BY <3>1
  <2> QED
    BY <2>1, AllFramesAppend
<1>2. AllFrames(<< >>) \in Seq(StreamFrame)
  <2> DEFINE none == << >>
  <2>1. none \in Seq(StreamFrame) /\ AllFrames(none) = none
    BY AllFramesEmpty
  <2> HIDE DEF none
  <2> QED
    BY <2>1 DEF none
<1> QED
  BY <1>1, <1>2

LEMMA AckStreams ==
  ASSUME NEW streams \in Seq(Stream), NEW removed \in Seq(Packet)
  PROVE  LET st  == UpdateStreamInfo(streams, removed)
             new == UpdateStreamFlowWindow(st, AllFrames(removed))
         IN  /\ st \in Seq(Stream) /\ DOMAIN st = DOMAIN streams
             /\ new \in Seq(Stream) /\ DOMAIN new = DOMAIN streams
             /\ \A i \in DOMAIN streams :
                  /\ st[i].size = streams[i].size /\ new[i].size = streams[i].size
                  /\ st[i].offset = streams[i].offset /\ new[i].offset = streams[i].offset
                  /\ st[i].ACKed_bytes = streams[i].ACKed_bytes + Carried(removed, i)
                  /\ new[i].ACKed_bytes = st[i].ACKed_bytes
                  /\ st[i].stream_done => streams[i].stream_done
                                          \/ st[i].ACKed_bytes = st[i].size
                  /\ new[i].stream_done = st[i].stream_done
                  /\ st[i].window = streams[i].window
                  /\ new[i].window = streams[i].window + Carried(removed, i)
<1> DEFINE again == SelectSeq(removed, LAMBDA p : p.history # {})
           blocked == AllFrames(again)
           yes == TRUE
           free == SetValid(streams, blocked, yes)
           frames == AllFrames(removed)
           st == UpdateACKedBytes(free, frames)
           new == UpdateStreamFlowWindow(st, frames)
<1>1. UpdateStreamInfo(streams, removed) = st
  BY DEF UpdateStreamInfo
<1>2. frames \in Seq(StreamFrame) /\ yes \in BOOLEAN /\ \A i : StreamBytes(frames, i) = Carried(removed, i)
  BY AllFramesType DEF Carried
<1> HIDE DEF yes, blocked, frames
<1>3. /\ free \in Seq(Stream) /\ DOMAIN free = DOMAIN streams
      /\ \A i \in DOMAIN streams :
                  /\ free[i].size = streams[i].size
                  /\ free[i].offset = streams[i].offset
                  /\ free[i].window = streams[i].window
                  /\ free[i].ACKed_bytes = streams[i].ACKed_bytes
                  /\ free[i].stream_done = streams[i].stream_done
  BY <1>2, SetValidIs
<1> HIDE DEF free
<1>4. /\ st \in Seq(Stream) /\ DOMAIN st = DOMAIN free
      /\ \A i \in DOMAIN free :
                  /\ st[i].size = free[i].size
                  /\ st[i].offset = free[i].offset
                  /\ st[i].window = free[i].window
                  /\ st[i].ACKed_bytes = free[i].ACKed_bytes + StreamBytes(frames, i)
                  /\ st[i].stream_done =
                       (free[i].stream_done \/ st[i].ACKed_bytes = free[i].size)
  BY <1>2, <1>3, UpdateACKedBytesIs
<1> HIDE DEF st
<1>5. /\ new \in Seq(Stream) /\ DOMAIN new = DOMAIN st
      /\ \A i \in DOMAIN st :
                  /\ new[i].size = st[i].size
                  /\ new[i].offset = st[i].offset
                  /\ new[i].window = st[i].window + StreamBytes(frames, i)
                  /\ new[i].ACKed_bytes = st[i].ACKed_bytes
                  /\ new[i].stream_done = st[i].stream_done
  BY <1>2, <1>4, UpdateStreamFlowWindowIs
<1> HIDE DEF new
<1>6. /\ st \in Seq(Stream) /\ DOMAIN st = DOMAIN streams
      /\ new \in Seq(Stream) /\ DOMAIN new = DOMAIN streams
  BY <1>3, <1>4, <1>5
<1>7. ASSUME NEW i \in DOMAIN streams
      PROVE  /\ st[i].size = streams[i].size /\ new[i].size = streams[i].size
             /\ st[i].offset = streams[i].offset /\ new[i].offset = streams[i].offset
             /\ st[i].ACKed_bytes = streams[i].ACKed_bytes + Carried(removed, i)
             /\ new[i].ACKed_bytes = st[i].ACKed_bytes
             /\ st[i].stream_done => streams[i].stream_done
                                          \/ st[i].ACKed_bytes = st[i].size
             /\ new[i].stream_done = st[i].stream_done
             /\ st[i].window = streams[i].window
             /\ new[i].window = streams[i].window + Carried(removed, i)
  <2>1. i \in DOMAIN free /\ i \in DOMAIN st
    BY <1>3, <1>4
  <2>2. StreamBytes(frames, i) = Carried(removed, i)
    BY <1>2
  <2>3. /\ free[i].size = streams[i].size
        /\ free[i].offset = streams[i].offset
        /\ free[i].window = streams[i].window
        /\ free[i].ACKed_bytes = streams[i].ACKed_bytes
        /\ free[i].stream_done = streams[i].stream_done
    BY <1>3
  <2>4. /\ st[i].size = free[i].size
        /\ st[i].offset = free[i].offset
        /\ st[i].window = free[i].window
        /\ st[i].ACKed_bytes = free[i].ACKed_bytes + StreamBytes(frames, i)
        /\ st[i].stream_done =
             (free[i].stream_done \/ st[i].ACKed_bytes = free[i].size)
    BY <1>4, <2>1
  <2>5. /\ new[i].size = st[i].size
        /\ new[i].offset = st[i].offset
        /\ new[i].window = st[i].window + StreamBytes(frames, i)
        /\ new[i].ACKed_bytes = st[i].ACKed_bytes
        /\ new[i].stream_done = st[i].stream_done
    BY <1>5, <2>1
  <2>6. st[i].stream_done => streams[i].stream_done \/ st[i].ACKed_bytes = st[i].size
    BY <2>3, <2>4
  <2> QED
    BY <2>2, <2>3, <2>4, <2>5, <2>6
<1> QED
  BY <1>1, <1>6, <1>7 DEF new, frames

\* A connection between two handlers.
Fresh(c) ==
  /\ ClientInv(c) /\ Timed(c) /\ Credited(c)
  /\ c.waiting = << >> /\ c.out = << >>

\* Methods that make no packets.
LEMMA Shrinks ==
  ASSUME NEW c, ClientType(c), Ordered(c), NEW d, Fresh(d), NEW A,
         d.packet_counter = c.packet_counter,
         ToSet(d.queue) \subseteq ToSet(c.queue),
         \A p \in ToSet(c.queue) \ ToSet(d.queue) : p.number \in A,
         DOMAIN d.streams = DOMAIN c.streams,
         \A i \in DOMAIN c.streams : /\ d.streams[i].size = c.streams[i].size
                                     /\ d.streams[i].offset = c.streams[i].offset
  PROVE  Going(c, d, A)
<1>1. Pending(d) = ToSet(d.queue) /\ ToSet(d.out) = {} /\ ToSet(d.waiting) = {}
  BY ToSetEmpty DEF Pending, Fresh
<1>2. \A p \in ToSet(c.queue) : p.number \in Nat /\ p.number < c.packet_counter
  <2>1. \A p \in ToSet(c.queue) : p \in Packet
    BY ToSetType DEF ClientType
  <2> QED
    BY <2>1 DEF Packet, Ordered, Known, Pending
<1>3. c.packet_counter \in Nat /\ \A i \in DOMAIN c.streams : c.streams[i].offset \in Nat
  BY StreamFields DEF ClientType
<1>4. \A p \in ToSet(c.queue) : ~(p.number >= c.packet_counter)
  BY <1>2, <1>3
<1>5. MadePackets(c, d) = {}
  BY <1>1, <1>4 DEF MadePackets
<1>6. TurnPackets(c, d, A)
  BY <1>1, <1>3, <1>5 DEF TurnPackets
<1>7. TurnSends(c, d)
  <2>1. Sorted(d.out)
    BY DEF Sorted, Fresh
  <2> QED
    BY <1>1, <1>4, <2>1 DEF TurnSends
<1>8. TurnStreams(c, d)
  <2>1. \A i \in DOMAIN c.streams : \A b \in Nat :
          ~(c.streams[i].offset <= b /\ b < d.streams[i].offset)
    BY <1>3
  <2>2. \A i \in DOMAIN c.streams : c.streams[i].offset <= d.streams[i].offset
    BY <1>3
  <2> QED
    BY <2>1, <2>2 DEF TurnStreams
<1> QED
  BY <1>6, <1>7, <1>8 DEF Going, Fresh, Turn

LEMMA OutOfOrderType ==
  ASSUME NEW c, ClientType(c), Ordered(c), NEW S, S \subseteq c.ooo
  PROVE  /\ S \in SUBSET Packet /\ IsFiniteSet(S) /\ Distinct(S)
         /\ ByNumber(S) \in Seq(Packet)
         /\ \A i : Carried(ByNumber(S), i) \in Nat
<1>1. S \in SUBSET Packet /\ IsFiniteSet(S)
  BY FS_Subset DEF ClientType
<1>2. Distinct(S)
  <2>1. \A x \in S : x \in Known(c) /\ x.number \in Names(x)
    BY DEF Known, Names
  <2> QED
    BY <2>1 DEF Distinct, Ordered
<1>3. ByNumber(S) \in Seq(Packet)
  BY <1>1, <1>2, ByNumberType
<1>4. \A i : Carried(ByNumber(S), i) \in Nat
  BY <1>3, CarriedFacts
<1> QED
  BY <1>1, <1>2, <1>3, <1>4

\* The credit of the packets that leave ACKED_out_of_order.
LEMMA OutOfOrderFresh ==
  ASSUME NEW c, Fresh(c), NEW frame
  PROVE  LET d == RemoveOutOfOrder(c, frame)
         IN  /\ Fresh(d)
             /\ d.queue = c.queue /\ d.packet_counter = c.packet_counter
             /\ d.phase = c.phase /\ d.ooo \subseteq c.ooo
             /\ DOMAIN d.streams = DOMAIN c.streams
             /\ \A i \in DOMAIN c.streams : /\ d.streams[i].size = c.streams[i].size
                                            /\ d.streams[i].offset = c.streams[i].offset
<1> DEFINE gone == {p \in c.ooo : p.number < RemoveLimit(frame)}
           rest == c.ooo \ gone
           order == ByNumber(gone)
           frames == AllFrames(order)
           new == UpdateStreamFlowWindow(c.streams, frames)
           d == RemoveOutOfOrder(c, frame)
<1>1. ClientType(c) /\ Ordered(c) /\ IsClient(c) /\ c.streams \in Seq(Stream)
  BY DEF Fresh, ClientInv, ClientType, Streams
<1>2. /\ IsClient(d)
      /\ d.queue = c.queue /\ d.timers = c.timers
      /\ d.waiting = c.waiting /\ d.out = c.out /\ d.ooo = rest
      /\ d.packet_counter = c.packet_counter /\ d.last = c.last
      /\ d.Bytes_in_flight = c.Bytes_in_flight
      /\ d.streams = new
      /\ d.phase = c.phase
  <2>1. d = [c EXCEPT
         !.ooo = @ \ gone,
         !.send_unacked = c.send_unacked + TotalSize(order),
         !.streams = new,
         !.cc = IF gone = {} THEN @ ELSE SetSndUna(@, c.send_unacked + TotalSize(order))]
    BY <1>1 DEF RemoveOutOfOrder, IsClient, ClientFields
  <2> HIDE DEF d, gone, order, new
  <2> QED
    BY <1>1, <2>1 DEF IsClient, ClientFields
<1>3. gone \subseteq c.ooo /\ rest \subseteq c.ooo /\ gone \cup rest = c.ooo /\ gone \cap rest = {}
  OBVIOUS
<1> HIDE DEF gone, rest
<1>4. /\ order \in Seq(Packet) /\ \A i : Carried(order, i) \in Nat
      /\ gone \in SUBSET Packet /\ IsFiniteSet(gone)
  BY <1>1, <1>3, OutOfOrderType
<1>5. /\ rest \in SUBSET Packet /\ IsFiniteSet(rest)
      /\ \A i : Carried(ByNumber(rest), i) \in Nat
  BY <1>1, <1>3, OutOfOrderType
<1>6. Distinct(gone \cup rest)
  BY <1>1, <1>3, OutOfOrderType
<1>7. \A i : Carried(ByNumber(c.ooo), i) = Carried(order, i) + Carried(ByNumber(rest), i)
  <2> TAKE i
  <2>1. Carried(ByNumber(gone \cup rest), i) = Carried(ByNumber(gone), i) + Carried(ByNumber(rest), i)
    BY <1>3, <1>4, <1>5, <1>6, ByNumberUnion
  <2> QED
    BY <1>3, <2>1
<1> HIDE DEF order
<1>8. frames \in Seq(StreamFrame) /\ \A i : StreamBytes(frames, i) = Carried(order, i)
  BY <1>4, AllFramesType DEF Carried
<1> HIDE DEF frames
<1>9. /\ new \in Seq(Stream) /\ DOMAIN new = DOMAIN c.streams
      /\ \A i \in DOMAIN c.streams :
                  /\ new[i].size = c.streams[i].size
                  /\ new[i].offset = c.streams[i].offset
                  /\ new[i].window = c.streams[i].window + StreamBytes(frames, i)
                  /\ new[i].ACKed_bytes = c.streams[i].ACKed_bytes
                  /\ new[i].stream_done = c.streams[i].stream_done
  BY <1>1, <1>8, UpdateStreamFlowWindowIs
<1> HIDE DEF new, d
<1>10. Pending(d) = Pending(c) /\ Known(d) \subseteq Known(c)
  BY <1>2, <1>3 DEF Pending, Known
<1>11. ClientType(d)
  <2>1. Streams(d.streams)
    BY <1>1, <1>2, <1>9 DEF ClientType, Streams
  <2> QED
    BY <1>1, <1>2, <1>5, <1>9, <2>1 DEF ClientType
<1>12. Ordered(d)
  BY <1>1, <1>2, <1>3, <1>10 DEF Ordered
<1>13. Accounted(d)
  BY <1>2, <1>9 DEF Fresh, ClientInv, Accounted
<1>14. Credited(d)
  <2> SUFFICES ASSUME NEW i \in DOMAIN c.streams
               PROVE  StreamWindow = new[i].window + Carried(c.queue, i)
                                     + Carried(c.waiting, i) + Carried(ByNumber(rest), i)
    BY <1>2, <1>9 DEF Credited
  <2>1. StreamWindow = c.streams[i].window + Carried(c.queue, i)
                       + Carried(c.waiting, i) + Carried(ByNumber(c.ooo), i)
    BY DEF Fresh, Credited
  <2>2. Carried(ByNumber(c.ooo), i) = Carried(order, i) + Carried(ByNumber(rest), i)
    BY <1>7
  <2>3. new[i].window = c.streams[i].window + Carried(order, i)
    BY <1>8, <1>9
  <2>4. /\ c.streams[i].window \in Nat /\ Carried(order, i) \in Nat
        /\ Carried(ByNumber(rest), i) \in Nat
        /\ Carried(c.queue, i) \in Nat /\ Carried(c.waiting, i) \in Nat
    BY <1>1, <1>4, <1>5, StreamFields, CarriedFacts DEF ClientType
  <2> QED
    BY <2>1, <2>2, <2>3, <2>4
<1>15. Sent(d)
  BY <1>2, <1>9, <1>10 DEF Fresh, ClientInv, Sent
<1>16. Timed(d)
  BY <1>2 DEF Fresh, Timed
<1> QED
  BY <1>2, <1>3, <1>9, <1>11, <1>12, <1>13, <1>14, <1>15, <1>16 DEF Fresh, ClientInv, d

\* The packets an ACK names leave the queue, with their bytes and timers.
LEMMA RemoveAckedFresh ==
  ASSUME NEW c, Fresh(c), NEW frame, AckFrame(frame)
  PROVE  LET d == RemoveAcked(CancelRTO(c, frame), frame)
             removed == RemovedPackets(c, frame)
         IN  /\ Fresh(d)
             /\ d.packet_counter = c.packet_counter /\ d.phase = c.phase
             /\ ToSet(d.queue) \subseteq ToSet(c.queue)
             /\ \A p \in ToSet(c.queue) \ ToSet(d.queue) : p.number \in Numbers(removed)
             /\ DOMAIN d.streams = DOMAIN c.streams
             /\ \A i \in DOMAIN c.streams : /\ d.streams[i].size = c.streams[i].size
                                            /\ d.streams[i].offset = c.streams[i].offset
<1> DEFINE q == c.queue
           F == ToSet(DecodeAck(frame))
           found == AckedPackets(c, frame)
           removed == RemovedPackets(c, frame)
           st == UpdateStreamInfo(c.streams, removed)
           new == UpdateStreamFlowWindow(st, AllFrames(removed))
           d == RemoveAcked(CancelRTO(c, frame), frame)
           X == ToSet(DecodeAck(frame)) \cup
                  IF IsInOrder(frame) THEN Numbers(UpTo(c.queue, Smallest(frame) - 1)) ELSE {}
<1>1. /\ ClientType(c) /\ Ordered(c) /\ IsClient(c) /\ c.streams \in Seq(Stream)
      /\ q \in Seq(Packet) /\ Sorted(q)
  BY DEF Fresh, ClientInv, ClientType, Streams, Ordered
<1>2. /\ IsClient(d)
      /\ d.queue = WithoutNumbers(q, Numbers(removed))
      /\ d.timers = c.timers \ X
      /\ d.streams = IF IsInOrder(frame) THEN new ELSE st
      /\ d.ooo = IF IsInOrder(frame) THEN c.ooo ELSE c.ooo \cup ToSet(found)
      /\ d.Bytes_in_flight = c.Bytes_in_flight - TotalSize(removed)
      /\ d.packet_counter = c.packet_counter
      /\ d.waiting = c.waiting /\ d.out = c.out /\ d.last = c.last
      /\ d.phase = c.phase
  BY <1>1, AckFields
<1>3. PICK B : /\ LostAcksPackets(c, frame) = WithNumbers(q, B)
               /\ found = WithNumbers(q, F)
               /\ \A p \in ToSet(q) : ~(p.number \in B /\ p.number \in F)
               /\ ~IsInOrder(frame) => B = {}
               /\ IsInOrder(frame) =>
                    B = {} \/ B = {n \in Numbers(q) : n <= Smallest(frame) - 1}
  BY <1>1, AckParts
<1>4. removed = WithNumbers(q, B) \o WithNumbers(q, F)
  BY <1>3 DEF RemovedPackets
<1>5. X = F \cup IF IsInOrder(frame) THEN Numbers(UpTo(q, Smallest(frame) - 1)) ELSE {}
  OBVIOUS
<1> HIDE DEF q, F, found, removed, d, X
<1>6. /\ removed \in Seq(Packet) /\ d.queue \in Seq(Packet) /\ Sorted(d.queue)
      /\ ToSet(removed) = {p \in ToSet(q) : p.number \in B \cup F}
      /\ Numbers(removed) = Numbers(q) \cap (B \cup F)
      /\ ToSet(d.queue) = {p \in ToSet(q) : p.number \notin B \cup F}
      /\ Numbers(d.queue) = Numbers(q) \ (B \cup F)
      /\ TotalSize(q) = TotalSize(d.queue) + TotalSize(removed)
      /\ \A i : Carried(q, i) = Carried(d.queue, i) + Carried(removed, i)
  BY <1>1, <1>2, <1>3, <1>4, RemovedIs
<1>7. /\ st \in Seq(Stream) /\ DOMAIN st = DOMAIN c.streams
      /\ new \in Seq(Stream) /\ DOMAIN new = DOMAIN c.streams
      /\ \A i \in DOMAIN c.streams :
           /\ st[i].size = c.streams[i].size /\ new[i].size = c.streams[i].size
           /\ st[i].offset = c.streams[i].offset /\ new[i].offset = c.streams[i].offset
           /\ st[i].ACKed_bytes = c.streams[i].ACKed_bytes + Carried(removed, i)
           /\ new[i].ACKed_bytes = st[i].ACKed_bytes
           /\ st[i].stream_done => c.streams[i].stream_done
                                   \/ st[i].ACKed_bytes = st[i].size
           /\ new[i].stream_done = st[i].stream_done
           /\ st[i].window = c.streams[i].window
           /\ new[i].window = c.streams[i].window + Carried(removed, i)
  BY <1>1, <1>6, AckStreams
<1> HIDE DEF st, new
<1>8. /\ found \in Seq(Packet) /\ Sorted(found)
      /\ ToSet(found) = {p \in ToSet(q) : p.number \in F}
  BY <1>1, <1>3, WithIs
<1>9. /\ DOMAIN d.streams = DOMAIN c.streams /\ d.streams \in Seq(Stream)
      /\ \A i \in DOMAIN c.streams :
           /\ d.streams[i].size = c.streams[i].size
           /\ d.streams[i].offset = c.streams[i].offset
           /\ d.streams[i].ACKed_bytes = c.streams[i].ACKed_bytes + Carried(removed, i)
           /\ d.streams[i].stream_done => c.streams[i].stream_done
                                   \/ d.streams[i].ACKed_bytes = d.streams[i].size
  BY <1>2, <1>7
<1>10. /\ \A p \in ToSet(q) : p \in Packet /\ p.number \in Numbers(q)
       /\ Pending(c) = ToSet(q)
  BY <1>1, ToSetType, NumbersIs, ToSetEmpty DEF q, Pending, Fresh
<1>11. /\ Pending(d) = ToSet(d.queue) /\ Pending(d) \subseteq Pending(c)
       /\ Known(d) \subseteq Known(c)
       /\ ToSet(d.queue) \subseteq ToSet(q)
       /\ ToSet(d.waiting) = {}
       /\ Pending(d) \cap d.ooo = {}
  <2>1. Pending(d) = ToSet(d.queue) /\ ToSet(d.waiting) = {}
    BY <1>2, ToSetEmpty DEF Pending, Fresh
  <2>2. ToSet(d.queue) \subseteq ToSet(q) /\ ToSet(d.queue) \cap ToSet(found) = {}
    BY <1>6, <1>8
  <2>3. d.ooo \subseteq c.ooo \cup ToSet(found) /\ ToSet(found) \subseteq ToSet(q)
    BY <1>2, <1>8
  <2>4. ToSet(q) \cap c.ooo = {}
    BY <1>1, <1>10 DEF Ordered
  <2> QED
    BY <1>10, <2>1, <2>2, <2>3, <2>4 DEF Known
<1>12. c.ooo \in SUBSET Packet /\ IsFiniteSet(c.ooo)
       /\ ToSet(found) \in SUBSET Packet /\ IsFiniteSet(ToSet(found))
  BY <1>1, <1>8, SortedCardinality, ToSetType DEF ClientType
<1>13. ClientType(d)
  <2>1. Streams(d.streams)
    BY <1>1, <1>9 DEF ClientType, Streams
  <2>2. IsFiniteSet(c.ooo \cup ToSet(found))
    BY <1>12, FS_Union
  <2>3. d.ooo \in SUBSET Packet /\ IsFiniteSet(d.ooo)
    BY <1>2, <1>12, <2>2
  <2> QED
    BY <1>1, <1>2, <1>6, <1>9, <2>1, <2>3 DEF ClientType
<1>14. Ordered(d)
  <2>1. Sorted(d.waiting)
    BY <1>1, <1>2 DEF Ordered
  <2> QED
    BY <1>1, <1>2, <1>6, <1>11, <2>1 DEF Ordered
<1>15. \A i : /\ Carried(c.waiting, i) = 0 /\ Carried(d.waiting, i) = 0
              /\ Carried(d.queue, i) \in Nat /\ Carried(removed, i) \in Nat
  BY <1>2, <1>6, CarriedFacts DEF Fresh
<1>16. Accounted(d)
  <2>1. d.Bytes_in_flight = TotalSize(d.queue) + TotalSize(d.waiting)
    <3>1. c.Bytes_in_flight = TotalSize(q) + TotalSize(c.waiting)
      BY DEF Fresh, ClientInv, Accounted, q
    <3>2. /\ TotalSize(d.queue) \in Nat /\ TotalSize(removed) \in Nat
          /\ TotalSize(c.waiting) = 0 /\ TotalSize(d.waiting) = 0
      BY <1>2, <1>6, TotalSizeFacts DEF Fresh
    <3>3. TotalSize(q) = TotalSize(d.queue) + TotalSize(removed)
      BY <1>6
    <3>4. c.Bytes_in_flight = TotalSize(d.queue) + TotalSize(removed)
      BY <3>1, <3>2, <3>3
    <3>5. d.Bytes_in_flight = c.Bytes_in_flight - TotalSize(removed)
      BY <1>2
    <3>6. \A a, b \in Nat : (a + b) - b = a + 0
      OBVIOUS
    <3> QED
      BY <3>2, <3>4, <3>5, <3>6
  <2>2. ASSUME NEW i \in DOMAIN c.streams
        PROVE  /\ d.streams[i].offset = d.streams[i].ACKed_bytes
                                        + Carried(d.queue, i) + Carried(d.waiting, i)
               /\ d.streams[i].stream_done => d.streams[i].ACKed_bytes = d.streams[i].size
    <3>1. /\ c.streams[i].offset = c.streams[i].ACKed_bytes
                                   + Carried(q, i) + Carried(c.waiting, i)
          /\ c.streams[i].stream_done => c.streams[i].ACKed_bytes = c.streams[i].size
      BY DEF Fresh, ClientInv, Accounted, q
    <3>2. /\ c.streams[i].ACKed_bytes \in Nat /\ c.streams[i].size \in Nat
          /\ c.streams[i].offset \in Nat /\ c.streams[i].offset <= c.streams[i].size
      BY <1>1, StreamFields
    <3>3. Carried(q, i) = Carried(d.queue, i) + Carried(removed, i)
      BY <1>6
    <3>4. /\ d.streams[i].size = c.streams[i].size
          /\ d.streams[i].offset = c.streams[i].offset
          /\ d.streams[i].ACKed_bytes = c.streams[i].ACKed_bytes + Carried(removed, i)
          /\ d.streams[i].stream_done => c.streams[i].stream_done
                                   \/ d.streams[i].ACKed_bytes = d.streams[i].size
      BY <1>9
    <3>5. /\ Carried(c.waiting, i) = 0 /\ Carried(d.waiting, i) = 0
          /\ Carried(d.queue, i) \in Nat /\ Carried(removed, i) \in Nat
      BY <1>15
    <3>6. d.streams[i].offset = d.streams[i].ACKed_bytes
                                + Carried(d.queue, i) + Carried(d.waiting, i)
      BY <3>1, <3>2, <3>3, <3>4, <3>5
    <3>7. c.streams[i].stream_done => d.streams[i].ACKed_bytes = d.streams[i].size
      BY <3>1, <3>2, <3>3, <3>4, <3>5
    <3> QED
      BY <3>4, <3>6, <3>7
  <2> QED
    BY <1>9, <2>1, <2>2 DEF Accounted
<1>17. Credited(d)
  <2> SUFFICES ASSUME NEW i \in DOMAIN c.streams
               PROVE  StreamWindow = d.streams[i].window + Carried(d.queue, i)
                                     + Carried(d.waiting, i) + Carried(ByNumber(d.ooo), i)
    BY <1>9 DEF Credited
  <2>1. StreamWindow = c.streams[i].window + Carried(q, i)
                       + Carried(c.waiting, i) + Carried(ByNumber(c.ooo), i)
    BY DEF Fresh, Credited, q
  <2>2. /\ Carried(q, i) = Carried(d.queue, i) + Carried(removed, i)
        /\ Carried(c.waiting, i) = 0 /\ Carried(d.waiting, i) = 0
        /\ Carried(d.queue, i) \in Nat /\ Carried(removed, i) \in Nat
    BY <1>6, <1>15
  <2>3. c.streams[i].window \in Nat /\ Carried(ByNumber(c.ooo), i) \in Nat
    BY <1>1, StreamFields, OutOfOrderType
  <2>4. CASE IsInOrder(frame)
    <3>1. d.streams[i].window = c.streams[i].window + Carried(removed, i) /\ d.ooo = c.ooo
      BY <1>2, <1>7, <2>4
    <3> QED
      BY <2>1, <2>2, <2>3, <3>1
  <2>5. CASE ~IsInOrder(frame)
    <3>1. d.streams[i].window = c.streams[i].window /\ d.ooo = c.ooo \cup ToSet(found)
      BY <1>2, <1>7, <2>5
    <3>2. removed = found
      <4>1. WithNumbers(q, B) = << >>
        BY <1>1, <1>3, <2>5, WithNone
      <4> QED
        BY <1>3, <1>4, <1>8, <4>1
    <3>3. ByNumber(ToSet(found)) = found
      BY <1>8, ByNumberIs
    <3>4. Distinct(c.ooo \cup ToSet(found)) /\ c.ooo \cap ToSet(found) = {}
      <4>1. c.ooo \cup ToSet(found) \subseteq Known(c)
        BY <1>8, <1>10 DEF Known
      <4>2. \A x \in Known(c) : x.number \in Names(x)
        BY DEF Names
      <4> QED
        BY <1>1, <1>8, <1>10, <4>1, <4>2 DEF Distinct, Ordered
    <3>5. Carried(ByNumber(c.ooo \cup ToSet(found)), i)
            = Carried(ByNumber(c.ooo), i) + Carried(ByNumber(ToSet(found)), i)
      BY <1>12, <3>4, ByNumberUnion
    <3>6. Carried(ByNumber(d.ooo), i) = Carried(ByNumber(c.ooo), i) + Carried(removed, i)
      BY <3>1, <3>2, <3>3, <3>5
    <3> QED
      BY <2>1, <2>2, <2>3, <3>1, <3>6
  <2> QED
    BY <2>4, <2>5
<1>18. Sent(d)
  BY <1>9, <1>11 DEF Fresh, ClientInv, Sent
<1>19. Timed(d)
  <2>1. c.timers \subseteq Numbers(q)
    BY DEF Fresh, Timed, q
  <2>2. ASSUME NEW n \in d.timers PROVE n \notin B
    <3>1. CASE B = {}
      BY <3>1
    <3>2. CASE B # {}
      <4>1. IsInOrder(frame) /\ B = {m \in Numbers(q) : m <= Smallest(frame) - 1}
        BY <1>3, <3>2
      <4>2. UpTo(q, Smallest(frame) - 1) = WithNumbers(q, B)
        BY <4>1 DEF UpTo
      <4>3. B \subseteq Numbers(WithNumbers(q, B))
        <5>1. /\ Numbers(q) = {p.number : p \in ToSet(q)}
              /\ Numbers(WithNumbers(q, B)) = {p.number : p \in ToSet(WithNumbers(q, B))}
          BY NumbersIs
        <5>2. ToSet(WithNumbers(q, B)) = {p \in ToSet(q) : p.number \in B}
          BY <1>1, WithIs
        <5> QED
          BY <4>1, <5>1, <5>2
      <4> QED
        BY <1>2, <1>5, <4>1, <4>2, <4>3
    <3> QED
      BY <3>1, <3>2
  <2>3. ASSUME NEW n \in d.timers PROVE n \in Numbers(q) /\ n \notin F
    BY <1>2, <1>5, <2>1
  <2> QED
    BY <1>6, <2>2, <2>3 DEF Timed
<1>20. \A p \in ToSet(c.queue) \ ToSet(d.queue) : p.number \in Numbers(removed)
  BY <1>6, <1>10 DEF q
<1>21. ToSet(d.queue) \subseteq ToSet(c.queue)
  BY <1>11 DEF q
<1> QED
  BY <1>2, <1>9, <1>13, <1>14, <1>16, <1>17, <1>18, <1>19, <1>20, <1>21
     DEF Fresh, ClientInv, d, removed

\* All of the handler of an ACK frame.
LEMMA ReceiveAckGoing ==
  ASSUME NEW c, Fresh(c), NEW frame, AckFrame(frame), c.phase # "closed"
  PROVE  LET d == SendReadyPackets(
                    UpdateLostPackets(
                      ProcessClientACK(CancelRTO(c, frame), frame),
                      frame.largest))
         IN  /\ Going(c, d, Numbers(RemovedPackets(c, frame)))
             /\ d.waiting = << >>
             /\ d.phase \in {c.phase, "closed"}
             /\ d.phase = "closed" => Done(d)
<1> DEFINE A == Numbers(RemovedPackets(c, frame))
           b == RemoveAcked(CancelRTO(c, frame), frame)
           e == RemoveOutOfOrder(b, frame)
           largest == frame.largest
           f == UpdateLostPackets(e, largest)
           d == SendReadyPackets(f)
<1>1. /\ Fresh(b)
      /\ b.packet_counter = c.packet_counter /\ b.phase = c.phase
      /\ ToSet(b.queue) \subseteq ToSet(c.queue)
      /\ \A p \in ToSet(c.queue) \ ToSet(b.queue) : p.number \in A
      /\ DOMAIN b.streams = DOMAIN c.streams
      /\ \A i \in DOMAIN c.streams : /\ b.streams[i].size = c.streams[i].size
                                     /\ b.streams[i].offset = c.streams[i].offset
  BY RemoveAckedFresh
<1> HIDE DEF b, A
<1>2. /\ Fresh(e)
      /\ e.queue = b.queue /\ e.packet_counter = b.packet_counter
      /\ e.phase = b.phase
      /\ DOMAIN e.streams = DOMAIN b.streams
      /\ \A i \in DOMAIN b.streams : /\ e.streams[i].size = b.streams[i].size
                                     /\ e.streams[i].offset = b.streams[i].offset
  BY <1>1, OutOfOrderFresh
<1> HIDE DEF e
<1>3. ClientType(c) /\ Ordered(c) /\ ClientInv(c)
  BY DEF Fresh, ClientInv
<1>4. Going(c, e, A)
  <2>1. /\ ToSet(e.queue) \subseteq ToSet(c.queue)
        /\ \A p \in ToSet(c.queue) \ ToSet(e.queue) : p.number \in A
        /\ e.packet_counter = c.packet_counter
        /\ DOMAIN e.streams = DOMAIN c.streams
        /\ \A i \in DOMAIN c.streams : /\ e.streams[i].size = c.streams[i].size
                                       /\ e.streams[i].offset = c.streams[i].offset
    BY <1>1, <1>2
  <2> QED
    BY <1>2, <1>3, <2>1, Shrinks
<1> HIDE DEF largest
<1>5. Going(c, f, A) /\ f.phase = e.phase
  <2>1. e.packet_counter = c.packet_counter
    BY <1>1, <1>2
  <2> QED
    BY <1>3, <1>4, <2>1, UpdateLostGoing
<1> HIDE DEF f
<1>6. f.phase = c.phase
  BY <1>1, <1>2, <1>5
<1>7. /\ Going(c, d, A) /\ d.waiting = << >>
      /\ d.phase \in {f.phase, "closed"}
      /\ d.phase = "closed" => Done(d)
  BY <1>3, <1>5, <1>6, SendReadyGoing
<1>8. SendReadyPackets(UpdateLostPackets(
        ProcessClientACK(CancelRTO(c, frame), frame), frame.largest)) = d
  BY DEF ProcessClientACK, b, e, f, largest
<1> HIDE DEF d
<1> QED
  BY <1>6, <1>7, <1>8 DEF A

-----------------------------------------------------------------------------
(***************************************************************************)
(* The other handlers.                                                     *)
(***************************************************************************)
LEMMA FindPacketIs ==
  ASSUME NEW q \in Seq(Packet), NEW number \in Numbers(q)
  PROVE  LET p == FindPacket(q, number)
         IN  p \in ToSet(q) /\ p.number = number
<1>1. \E i \in DOMAIN q : q[i].number = number
  BY DEF Numbers
<1> DEFINE i == CHOOSE i \in DOMAIN q : q[i].number = number
<1>2. i \in DOMAIN q /\ q[i].number = number
  BY <1>1
<1> HIDE DEF i
<1>3. q[i] \in ToSet(q) /\ q[i].number = number
  BY <1>2 DEF ToSet
<1> QED
  BY <1>3 DEF FindPacket, i

LEMMA FreshGoing ==
  ASSUME NEW c, Fresh(c), NEW A
  PROVE  Going(c, c, A)
<1>1. ClientType(c) /\ Ordered(c)
  BY DEF Fresh, ClientInv
<1> QED
  BY <1>1, Shrinks

\* The expiry of a timer does what the loss of the packet does, and sends the
\* retransmission at once.
Expires(c, d, number) ==
  /\ d.waiting = << >> /\ d.phase = c.phase /\ d.ooo = c.ooo
  /\ d.timers = (c.timers \ {number}) \cup {c.packet_counter}
  /\ d.streams = SetValid(c.streams, FindPacket(c.queue, number).frames, FALSE)

LEMMA ExpireNext ==
  ASSUME NEW c0, NEW c, NEW A, NEW number, ClientType(c0), Going(c0, c, A),
         c.waiting = << >>, number \in c.timers, number < c0.packet_counter
  PROVE  /\ Going(c0, ExpireRTO(c, number), A)
         /\ Expires(c, ExpireRTO(c, number), number)
<1> DEFINE p == FindPacket(c.queue, number)
           again == RetransmitPacket(c, p)
           b == TakeForRetransmission(c, p)
           e == CreateRetransmitPacket(c, p)
           f == SendWaiting(e)
           d == ExpireRTO(c, number)
           none == << >>
<1>1. ClientType(c) /\ Ordered(c) /\ IsClient(c) /\ c.queue \in Seq(Packet) /\ ClientInv(c)
      /\ c.out \in Seq(Packet)
  BY DEF Going, ClientInv, ClientType
<1>2. /\ p \in ToSet(c.queue) /\ p.number = number
      /\ p.number < c0.packet_counter /\ p.number < c.packet_counter
  <2>1. number \in Numbers(c.queue)
    BY DEF Going, Timed
  <2>2. p \in ToSet(c.queue) /\ p.number = number
    BY <1>1, <2>1, FindPacketIs
  <2> HIDE DEF p
  <2> QED
    BY <1>1, <2>2 DEF Ordered, Known, Pending
<1>3. d = [b EXCEPT !.cc = ProcessRexmitTimer(@),
                    !.queue = Append(@, again),
                    !.out = Append(@, again),
                    !.timers = @ \cup {again.number}]
  BY DEF ExpireRTO
<1> HIDE DEF d, p
<1>4. /\ again \in Packet /\ again.number = c.packet_counter
  BY <1>1, <1>2, CreateSets
<1>5. /\ IsClient(b)
      /\ b.queue = WithoutNumbers(c.queue, {p.number})
      /\ b.timers = c.timers \ {p.number}
      /\ b.streams = SetValid(c.streams, p.frames, FALSE)
      /\ b.packet_counter = c.packet_counter + 1
      /\ b.waiting = c.waiting /\ b.out = c.out /\ b.ooo = c.ooo
      /\ b.last = c.last /\ b.Bytes_in_flight = c.Bytes_in_flight
      /\ b.phase = c.phase
  BY <1>1, TakeFields, ZenonT(30)
<1>6. /\ IsClient(e)
      /\ e.queue = WithoutNumbers(c.queue, {p.number})
      /\ e.timers = c.timers \ {p.number}
      /\ e.streams = SetValid(c.streams, p.frames, FALSE)
      /\ e.packet_counter = c.packet_counter + 1
      /\ e.waiting = Append(c.waiting, again)
      /\ e.out = c.out /\ e.ooo = c.ooo /\ e.last = c.last
      /\ e.Bytes_in_flight = c.Bytes_in_flight
      /\ e.phase = c.phase
  BY <1>1, CreateFields, ZenonT(30)
<1> HIDE DEF again, b
<1>7. Going(c0, e, A)
  BY <1>2, CreateGoing
<1> HIDE DEF e
<1>8. /\ IsClient(f)
      /\ f.queue = e.queue \o e.waiting
      /\ f.out = e.out \o e.waiting
      /\ f.waiting = none
      /\ f.streams = e.streams /\ f.last = e.last
      /\ f.timers = e.timers /\ f.ooo = e.ooo
      /\ f.packet_counter = e.packet_counter
      /\ f.Bytes_in_flight = e.Bytes_in_flight
      /\ f.phase = e.phase
  BY <1>6, WaitingFields
<1>9. Going(c0, f, A)
  BY <1>7, WaitingGoing
<1> HIDE DEF f
<1>10. c.waiting = none
  BY DEF none
<1>11. /\ b.queue \in Seq(Packet)
       /\ f.queue = Append(b.queue, again) /\ f.out = Append(b.out, again)
  <2>1. b.queue \in Seq(Packet)
    BY <1>1, <1>5, WithoutIs
  <2>2. e.waiting = <<again>>
    BY <1>6, <1>10
  <2> QED
    BY <1>1, <1>4, <1>5, <1>6, <1>8, <1>10, <2>1, <2>2
<1>12. /\ IsClient(d)
       /\ d.queue = Append(b.queue, again) /\ d.out = Append(b.out, again)
       /\ d.timers = b.timers \cup {again.number}
       /\ d.streams = b.streams /\ d.packet_counter = b.packet_counter
       /\ d.waiting = b.waiting /\ d.ooo = b.ooo /\ d.last = b.last
       /\ d.Bytes_in_flight = b.Bytes_in_flight /\ d.phase = b.phase
  BY <1>3, <1>5 DEF IsClient, ClientFields
<1>13. Same(f, d) /\ d.last = f.last
  BY <1>5, <1>6, <1>8, <1>10, <1>11, <1>12 DEF Same
<1>14. Timed(d)
  <2>1. ToSet(d.queue) = ToSet(b.queue) \cup {again} /\ d.queue = f.queue
    BY <1>4, <1>11, <1>12, ToSetAppend
  <2>2. Numbers(d.queue) = {x.number : x \in ToSet(d.queue)}
    BY NumbersIs
  <2>3. f.timers \subseteq Numbers(f.queue)
    BY <1>9 DEF Going, Timed
  <2> QED
    BY <1>5, <1>6, <1>8, <1>12, <2>1, <2>2, <2>3, ZenonT(30) DEF Timed
<1>15. Going(c0, d, A)
  <2>1. d.last \in DOMAIN d.streams
    BY <1>9, <1>13 DEF Going, ClientInv, ClientType, Same
  <2> QED
    BY <1>9, <1>13, <1>14, <2>1, SameGoing
<1>16. /\ d.timers = (c.timers \ {number}) \cup {c.packet_counter}
       /\ d.ooo = c.ooo /\ d.streams = SetValid(c.streams, p.frames, FALSE)
  BY <1>2, <1>4, <1>5, <1>12
<1> QED
  BY <1>5, <1>10, <1>12, <1>15, <1>16 DEF d, p, none, Expires

LEMMA ExpireGoing ==
  ASSUME NEW c, Fresh(c), NEW number \in c.timers
  PROVE  LET d == ExpireRTO(c, number)
         IN  Going(c, d, {}) /\ d.waiting = << >> /\ d.phase = c.phase
<1> DEFINE A == {}
<1>1. Going(c, c, A) /\ ClientType(c)
  BY FreshGoing DEF Fresh, ClientInv
<1>2. number < c.packet_counter
  <2>1. PICK p \in ToSet(c.queue) : p.number = number
    BY NumbersIs DEF Fresh, Timed
  <2> QED
    BY <2>1 DEF Fresh, ClientInv, Ordered, Known, Pending
<1> HIDE DEF A
<1>3. c.waiting = << >>
  BY DEF Fresh
<1>4. Going(c, ExpireRTO(c, number), A) /\ Expires(c, ExpireRTO(c, number), number)
  BY <1>1, <1>2, <1>3, ExpireNext
<1> QED
  BY <1>4 DEF A, Expires

\* A connection that waits for the response of the server.
Idle(c) ==
  /\ c.queue = << >> /\ c.ooo = {}
  /\ \A i \in DOMAIN c.streams : c.streams[i].offset = 0

Resting(c) ==
  /\ ClientInv(c) /\ Timed(c)
  /\ c.waiting = << >> /\ c.out = << >>

\* The server acknowledged nothing yet.
Unanswered(c) ==
  c.ooo = {} /\ \A i \in DOMAIN c.streams : c.streams[i].ACKed_bytes = 0

LEMMA SetWindowsIs ==
  ASSUME NEW streams \in Seq(Stream),
         \A i \in DOMAIN streams : streams[i].offset <= StreamWindow
  PROVE  LET new == SetAllStreamsWindows(streams, StreamWindow)
         IN  /\ new \in Seq(Stream) /\ DOMAIN new = DOMAIN streams
             /\ \A i \in DOMAIN streams :
                  /\ new[i].size = streams[i].size
                  /\ new[i].offset = streams[i].offset
                  /\ new[i].ACKed_bytes = streams[i].ACKed_bytes
                  /\ new[i].stream_done = streams[i].stream_done
                  /\ new[i].window = StreamWindow - streams[i].offset
<1> DEFINE new == SetAllStreamsWindows(streams, StreamWindow)
<1>1. DOMAIN new = DOMAIN streams /\ DOMAIN streams = 1 .. Len(streams)
      /\ Len(streams) \in Nat
  BY DEF SetAllStreamsWindows
<1>2. ASSUME NEW i \in DOMAIN streams
      PROVE  /\ new[i] \in Stream
             /\ new[i].size = streams[i].size
             /\ new[i].offset = streams[i].offset
             /\ new[i].ACKed_bytes = streams[i].ACKed_bytes
             /\ new[i].stream_done = streams[i].stream_done
             /\ new[i].window = StreamWindow - streams[i].offset
  <2> DEFINE s == streams[i]
             w == StreamWindow - (s.size - BytesLeft(s))
  <2>1. s \in Stream /\ s.offset <= StreamWindow
    OBVIOUS
  <2>2. new[i] = [s EXCEPT !.window = w]
    BY DEF SetAllStreamsWindows
  <2>3. w = StreamWindow - s.offset /\ w \in Nat
    <3>1. StreamWindow \in Nat
      BY ClientAssumption
    <3>2. s.size \in Nat /\ s.offset \in Nat
      BY <2>1 DEF Stream
    <3> HIDE DEF s
    <3> QED
      BY <2>1, <3>1, <3>2 DEF BytesLeft
  <2> HIDE DEF w, new
  <2>4. /\ new[i] \in Stream
        /\ new[i].size = s.size
        /\ new[i].offset = s.offset
        /\ new[i].ACKed_bytes = s.ACKed_bytes
        /\ new[i].stream_done = s.stream_done
        /\ new[i].window = w
    BY <2>1, <2>2, <2>3 DEF Stream
  <2> QED
    BY <2>3, <2>4
<1>3. new = [i \in 1 .. Len(streams) |-> new[i]]
  BY <1>1 DEF SetAllStreamsWindows
<1> HIDE DEF new
<1>4. new \in Seq(Stream)
  BY <1>1, <1>2, <1>3
<1> QED
  BY <1>1, <1>2, <1>4 DEF new

\* Windows are set while no answer came: data that left the streams before is
\* taken off them (setAllStreamsWindows).
LEMMA WindowsGoing ==
  ASSUME NEW c, Resting(c), Unanswered(c),
         \A i \in DOMAIN c.streams : c.streams[i].offset <= StreamWindow,
         NEW d, IsClient(d),
         d.streams = SetAllStreamsWindows(c.streams, StreamWindow),
         d.queue = c.queue, d.timers \subseteq c.timers, d.waiting = c.waiting,
         d.out = c.out, d.ooo = c.ooo, d.packet_counter = c.packet_counter,
         d.last = c.last, d.Bytes_in_flight = c.Bytes_in_flight
  PROVE  Fresh(d) /\ Going(c, d, {})
<1> DEFINE new == SetAllStreamsWindows(c.streams, StreamWindow)
           none == << >>
           A == {}
<1>1. ClientType(c) /\ Ordered(c) /\ c.streams \in Seq(Stream)
      /\ Accounted(c) /\ c.queue \in Seq(Packet)
  BY DEF Resting, ClientInv, ClientType, Streams
<1>2. d.streams = new
  OBVIOUS
<1>3. none \in Seq(Packet) /\ ToSet(none) = {}
      /\ TotalSize(none) = 0 /\ \A i : Carried(none, i) = 0
  BY ToSetEmpty, TotalSizeFacts, CarriedFacts
<1>4. c.waiting = none /\ c.out = none /\ c.ooo = {} /\ Timed(c)
  BY DEF Unanswered, Resting
<1> HIDE DEF new, none
<1>5. /\ new \in Seq(Stream) /\ DOMAIN new = DOMAIN c.streams
      /\ \A i \in DOMAIN c.streams :
           /\ new[i].size = c.streams[i].size
           /\ new[i].offset = c.streams[i].offset
           /\ new[i].ACKed_bytes = c.streams[i].ACKed_bytes
           /\ new[i].stream_done = c.streams[i].stream_done
           /\ new[i].window = StreamWindow - c.streams[i].offset
  BY <1>1, SetWindowsIs DEF new
<1>6. Pending(d) = Pending(c) /\ Known(d) = Known(c)
  BY DEF Pending, Known
<1>7. ClientType(d)
  <2>1. Streams(new)
    BY <1>1, <1>5 DEF ClientType, Streams
  <2> QED
    BY <1>1, <1>2, <1>5, <2>1 DEF ClientType
<1>8. Ordered(d)
  BY <1>1, <1>6 DEF Ordered
<1>9. Accounted(d)
  BY <1>1, <1>2, <1>5 DEF Accounted
<1>10. Sent(d)
  BY <1>2, <1>5, <1>6 DEF Resting, ClientInv, Sent
<1>11. Credited(d)
  <2>1. ByNumber({}) = none
    <3>1. none \in Seq(Packet) /\ ToSet(none) = {} /\ Sorted(none)
      BY <1>3 DEF none, Sorted
    <3> QED
      BY <3>1, ByNumberIs
  <2>2. StreamWindow \in Nat
    BY ClientAssumption
  <2> SUFFICES ASSUME NEW i \in DOMAIN c.streams
               PROVE  StreamWindow = d.streams[i].window + Carried(d.queue, i)
                        + Carried(d.waiting, i) + Carried(ByNumber(d.ooo), i)
    BY <1>2, <1>5 DEF Credited
  <2>3. /\ c.streams[i].offset = c.streams[i].ACKed_bytes
                                + Carried(c.queue, i) + Carried(c.waiting, i)
        /\ c.streams[i].ACKed_bytes = 0
    BY <1>1 DEF Accounted, Unanswered
  <2>4. Carried(c.queue, i) \in Nat
    BY <1>1, CarriedFacts
  <2> QED
    BY <1>2, <1>3, <1>4, <1>5, <2>1, <2>2, <2>3, <2>4
<1>12. Fresh(d)
  BY <1>4, <1>7, <1>8, <1>9, <1>10, <1>11 DEF Fresh, ClientInv, Timed, none
<1>13. Going(c, d, A)
  <2>1. /\ ToSet(d.queue) \subseteq ToSet(c.queue)
        /\ \A p \in ToSet(c.queue) \ ToSet(d.queue) : p.number \in A
        /\ d.packet_counter = c.packet_counter
        /\ DOMAIN d.streams = DOMAIN c.streams
        /\ \A i \in DOMAIN c.streams : /\ d.streams[i].size = c.streams[i].size
                                       /\ d.streams[i].offset = c.streams[i].offset
    BY <1>2, <1>5
  <2> HIDE DEF A
  <2> QED
    BY <1>1, <1>12, <2>1, Shrinks
<1> QED
  BY <1>12, <1>13

LEMMA ResponseGoing ==
  ASSUME NEW c, Resting(c), Unanswered(c),
         \A i \in DOMAIN c.streams : c.streams[i].offset <= StreamWindow
  PROVE  LET d == ProcessClientHandshakeResponse(c)
         IN  Fresh(d) /\ Going(c, d, {}) /\ d.phase = "open"
<1> DEFINE new == SetAllStreamsWindows(c.streams, StreamWindow)
           wnd == Minimum(ConnectionWindow, SumStreamWindows(new))
           d == ProcessClientHandshakeResponse(c)
<1>1. IsClient(c) /\ c.queue \in Seq(Packet)
  BY DEF Resting, ClientInv, ClientType
<1>2. d = [c EXCEPT !.phase = "open", !.streams = new,
                !.queue = WithoutNumbers(@, {InitialNumber}),
                !.timers = @ \ {InitialNumber},
                !.cc = SetTransport(@, MaxPayload, wnd)]
  BY DEF ProcessClientHandshakeResponse
<1> HIDE DEF new, wnd, d
<1>3. /\ IsClient(d)
      /\ d.streams = new
      /\ d.queue = WithoutNumbers(c.queue, {InitialNumber})
      /\ d.timers \subseteq c.timers
      /\ d.waiting = c.waiting /\ d.out = c.out /\ d.ooo = c.ooo
      /\ d.packet_counter = c.packet_counter /\ d.last = c.last
      /\ d.Bytes_in_flight = c.Bytes_in_flight
      /\ d.phase = "open"
  BY <1>1, <1>2 DEF IsClient, ClientFields
<1>4. d.queue = c.queue
  <2>1. \A p \in ToSet(c.queue) : p \in Packet
    BY <1>1, ToSetType
  <2>2. \A p \in Packet : p.number \in Nat
    BY DEF Packet
  <2>3. \A p \in ToSet(c.queue) : p.number \notin {InitialNumber}
    BY <2>1, <2>2 DEF InitialNumber
  <2>4. Numbers(c.queue) = Numbers(c.queue) \ {InitialNumber}
    BY <2>3, NumbersIs
  <2>5. \A p \in ToSet(c.queue) : p.number \in Numbers(c.queue)
    BY NumbersIs
  <2>6. WithNumbers(c.queue, Numbers(c.queue)) = c.queue
    BY <1>1, <2>5, WithAll
  <2> QED
    BY <1>3, <2>4, <2>6 DEF WithoutNumbers
<1>5. Fresh(d) /\ Going(c, d, {})
  BY <1>3, <1>4, WindowsGoing DEF new
<1> QED
  BY <1>3, <1>5 DEF d

LEMMA IdleUnanswered ==
  ASSUME NEW c, Resting(c), Idle(c)
  PROVE  /\ Unanswered(c)
         /\ \A i \in DOMAIN c.streams : c.streams[i].offset <= StreamWindow
<1>1. \A i : Carried(c.queue, i) = 0 /\ Carried(c.waiting, i) = 0
  BY CarriedFacts DEF Idle, Resting
<1>2. \A i \in DOMAIN c.streams :
        /\ c.streams[i].offset = c.streams[i].ACKed_bytes
                                + Carried(c.queue, i) + Carried(c.waiting, i)
        /\ c.streams[i].offset = 0 /\ c.streams[i].ACKed_bytes \in Nat
  BY StreamFields DEF Resting, ClientInv, Accounted, Idle
<1> QED
  BY <1>1, <1>2, ClientAssumption DEF Unanswered, Idle

LEMMA HandshakeGoing ==
  ASSUME NEW c, Resting(c), Idle(c)
  PROVE  LET d == SendReadyPackets(ProcessClientHandshakeResponse(c))
         IN  /\ Going(c, d, {}) /\ d.waiting = << >>
             /\ d.phase \in {"open", "closed"}
             /\ d.phase = "closed" => Done(d)
<1> DEFINE e == ProcessClientHandshakeResponse(c)
           d == SendReadyPackets(e)
           A == {}
<1>1. Going(c, e, A) /\ e.phase = "open"
  BY IdleUnanswered, ResponseGoing
<1> HIDE DEF e, A
<1>2. ClientInv(c) /\ e.phase # "closed"
  BY <1>1 DEF Resting
<1>3. /\ Going(c, d, A) /\ d.waiting = << >>
      /\ d.phase \in {e.phase, "closed"}
      /\ d.phase = "closed" => Done(d)
  BY <1>1, <1>2, SendReadyGoing
<1> HIDE DEF d
<1>4. /\ Going(c, d, A) /\ d.waiting = << >>
      /\ d.phase \in {"open", "closed"}
      /\ d.phase = "closed" => Done(d)
  BY <1>1, <1>3
<1> QED
  BY <1>4 DEF d, e, A

LEMMA ConcatIs ==
  ASSUME NEW S, NEW s \in Seq(S), NEW t \in Seq(S)
  PROVE  /\ s \o t \in Seq(S) /\ Len(s \o t) = Len(s) + Len(t)
         /\ Len(s) \in Nat /\ Len(t) \in Nat
         /\ DOMAIN s = 1 .. Len(s) /\ DOMAIN t = 1 .. Len(t)
         /\ DOMAIN (s \o t) = 1 .. Len(s) + Len(t)
         /\ \A i \in 1 .. Len(s) : (s \o t)[i] = s[i] /\ i \in 1 .. Len(s) + Len(t)
         /\ \A i \in 1 .. Len(t) : /\ (s \o t)[Len(s) + i] = t[i]
                                  /\ Len(s) + i \in 1 .. Len(s) + Len(t)
OBVIOUS

WithStreams(c, sizes) ==
  LET added == [i \in DOMAIN sizes |->
                  [NewStream(sizes[i]) EXCEPT !.window = StreamWindow]]
  IN  [c EXCEPT !.streams = @ \o added]

LEMMA AddResting ==
  ASSUME NEW c, Resting(c), NEW sizes \in Seq(Nat \ {0})
  PROVE  LET d == WithStreams(c, sizes)
         IN  /\ Resting(d) /\ (Credited(c) => Credited(d)) /\ (Idle(c) => Idle(d))
             /\ IsClient(d) /\ d.phase = c.phase
             /\ d.queue = c.queue /\ d.packet_counter = c.packet_counter
             /\ Len(d.streams) = Len(c.streams) + Len(sizes)
             /\ \A i \in DOMAIN c.streams : i \in DOMAIN d.streams /\ d.streams[i] = c.streams[i]
             /\ \A i \in DOMAIN sizes :
                  /\ d.streams[Len(c.streams) + i].size = sizes[i]
                  /\ d.streams[Len(c.streams) + i].offset = 0
<1> DEFINE added == [i \in DOMAIN sizes |->
                         [NewStream(sizes[i]) EXCEPT !.window = StreamWindow]]
           new == c.streams \o added
           d == [c EXCEPT !.streams = @ \o added]
           n == Len(c.streams)
<1>1. ClientType(c) /\ Ordered(c) /\ IsClient(c) /\ c.streams \in Seq(Stream)
      /\ Accounted(c) /\ Sent(c) /\ c.queue \in Seq(Packet) /\ c.waiting = << >>
  BY DEF Resting, ClientInv, ClientType, Streams
<1>2. \A i \in DOMAIN sizes : /\ added[i] \in Stream /\ added[i].offset = 0
                              /\ added[i].ACKed_bytes = 0 /\ added[i].window = StreamWindow
                              /\ added[i].stream_done = FALSE
                              /\ added[i].size = sizes[i]
  <2> TAKE i \in DOMAIN sizes
  <2> DEFINE s == NewStream(sizes[i])
  <2>1. StreamWindow \in Nat /\ sizes[i] \in Nat \ {0}
    BY ClientAssumption
  <2>2. added[i] = [s EXCEPT !.window = StreamWindow]
    OBVIOUS
  <2>3. /\ s \in Stream /\ s.offset = 0 /\ s.ACKed_bytes = 0
        /\ s.stream_done = FALSE /\ s.size = sizes[i]
    BY <2>1 DEF NewStream, Stream
  <2> HIDE DEF s, added
  <2> QED
    BY <2>1, <2>2, <2>3 DEF Stream
<1>3. added \in Seq(Stream) /\ Len(added) = Len(sizes) /\ DOMAIN sizes = 1 .. Len(sizes)
      /\ Len(sizes) \in Nat
  BY <1>2
<1> HIDE DEF added
<1>4. /\ new \in Seq(Stream) /\ Len(new) = n + Len(sizes) /\ n \in Nat
      /\ DOMAIN c.streams = 1 .. n /\ DOMAIN new = 1 .. n + Len(sizes)
      /\ \A i \in 1 .. n : new[i] = c.streams[i] /\ i \in 1 .. n + Len(sizes)
      /\ \A i \in 1 .. Len(sizes) : new[n + i] = added[i] /\ n + i \in 1 .. n + Len(sizes)
  <2> DEFINE s == c.streams
  <2>1. s \in Seq(Stream)
    BY <1>1
  <2> HIDE DEF s
  <2>2. /\ s \o added \in Seq(Stream) /\ Len(s \o added) = Len(s) + Len(added)
        /\ Len(s) \in Nat /\ DOMAIN s = 1 .. Len(s)
        /\ DOMAIN (s \o added) = 1 .. Len(s) + Len(added)
        /\ \A i \in 1 .. Len(s) : (s \o added)[i] = s[i] /\ i \in 1 .. Len(s) + Len(added)
        /\ \A i \in 1 .. Len(added) : /\ (s \o added)[Len(s) + i] = added[i]
                                     /\ Len(s) + i \in 1 .. Len(s) + Len(added)
    BY <1>3, <2>1, ConcatIs, ZenonT(30)
  <2> QED
    BY <1>3, <2>2 DEF s
<1>5. \A i \in DOMAIN new : i \notin DOMAIN c.streams =>
        /\ new[i].offset = 0 /\ new[i].ACKed_bytes = 0 /\ new[i].window = StreamWindow
        /\ new[i].stream_done = FALSE /\ i \in Nat
  <2> SUFFICES ASSUME NEW i \in DOMAIN new, i \notin DOMAIN c.streams
               PROVE  /\ new[i].offset = 0 /\ new[i].ACKed_bytes = 0
                      /\ new[i].window = StreamWindow
                      /\ new[i].stream_done = FALSE /\ i \in Nat
    OBVIOUS
  <2> DEFINE k == i - n
  <2> HIDE DEF new, n
  <2>1. k \in 1 .. Len(sizes) /\ i = n + k /\ i \in Nat
    BY <1>3, <1>4
  <2> HIDE DEF k
  <2>2. new[i] = added[k] /\ k \in DOMAIN sizes
    BY <1>3, <1>4, <2>1
  <2> QED
    BY <1>2, <2>1, <2>2
<1> HIDE DEF new
<1>6. /\ IsClient(d)
      /\ d.streams = new
      /\ d.queue = c.queue /\ d.timers = c.timers
      /\ d.waiting = c.waiting /\ d.out = c.out /\ d.ooo = c.ooo
      /\ d.packet_counter = c.packet_counter /\ d.last = c.last
      /\ d.Bytes_in_flight = c.Bytes_in_flight
      /\ d.phase = c.phase
  <2>1. d = [c EXCEPT !.streams = new]
    BY DEF new
  <2> HIDE DEF d
  <2> QED
    BY <1>1, <2>1 DEF IsClient, ClientFields
<1> HIDE DEF d
<1>7. Pending(d) = Pending(c) /\ Known(d) = Known(c)
  BY <1>6 DEF Pending, Known
<1>8. ClientType(d)
  <2>1. Streams(new)
    <3> SUFFICES ASSUME NEW i \in DOMAIN new PROVE new[i].offset <= new[i].size
      BY <1>4 DEF Streams
    <3>1. new[i] \in Stream
      BY <1>4
    <3>2. CASE i \in DOMAIN c.streams
      BY <1>1, <1>4, <3>2, StreamFields
    <3>3. CASE i \notin DOMAIN c.streams
      BY <1>5, <3>1, <3>3 DEF Stream
    <3> QED
      BY <3>2, <3>3
  <2>2. d.last \in DOMAIN d.streams
    BY <1>1, <1>4, <1>6 DEF ClientType
  <2> QED
    BY <1>1, <1>6, <2>1, <2>2 DEF ClientType
<1>9. Ordered(d)
  BY <1>1, <1>6, <1>7 DEF Ordered
<1>10. ASSUME NEW i \in Nat, i \notin DOMAIN c.streams, NEW q \in Seq(Packet),
              ToSet(q) \subseteq Known(c)
       PROVE  Carried(q, i) = 0
  <2> SUFFICES ASSUME NEW p \in ToSet(q), NEW k \in DOMAIN p.frames, p.frames[k].stream = i
               PROVE  FALSE
    BY CarriedNone
  <2>1. p \in Packet /\ p \in Known(c)
    BY <1>10, ToSetType
  <2>2. p.frames[k] \in StreamFrame
    BY <2>1 DEF Packet
  <2> DEFINE b == p.frames[k].offset
  <2>3. b \in Nat /\ b <= b /\ b < b + p.frames[k].length
    BY <2>2 DEF StreamFrame
  <2>4. Covers(p.frames, i, b)
    BY <2>3 DEF Covers
  <2> HIDE DEF b
  <2> QED
    BY <1>1, <1>10, <2>1, <2>3, <2>4 DEF Sent
<1>11. ASSUME NEW i \in DOMAIN new, i \notin DOMAIN c.streams
       PROVE  /\ Carried(c.queue, i) = 0 /\ Carried(c.waiting, i) = 0
              /\ Carried(ByNumber(c.ooo), i) = 0
  <2>1. i \in Nat
    BY <1>5, <1>11
  <2>2. Carried(c.queue, i) = 0
    <3>1. ToSet(c.queue) \subseteq Known(c)
      BY DEF Known, Pending
    <3> QED
      BY <1>1, <1>10, <1>11, <2>1, <3>1
  <2>3. Carried(ByNumber(c.ooo), i) = 0
    <3> DEFINE q == ByNumber(c.ooo)
    <3>1. c.ooo \in SUBSET Packet /\ IsFiniteSet(c.ooo) /\ Distinct(c.ooo)
      BY <1>1, OutOfOrderType
    <3>2. q \in Seq(Packet) /\ ToSet(q) = c.ooo
      BY <3>1, ByNumberType
    <3> HIDE DEF q
    <3>3. Carried(q, i) = 0
      BY <1>10, <1>11, <2>1, <3>2 DEF Known
    <3> QED
      BY <3>3 DEF q
  <2> QED
    BY <1>1, <2>2, <2>3, CarriedFacts
<1>12. Accounted(d)
  <2> SUFFICES ASSUME NEW i \in DOMAIN new
               PROVE  /\ new[i].offset = new[i].ACKed_bytes
                                + Carried(c.queue, i) + Carried(c.waiting, i)
                      /\ new[i].stream_done => new[i].ACKed_bytes = new[i].size
    BY <1>1, <1>6 DEF Accounted
  <2>1. CASE i \in DOMAIN c.streams
    BY <1>1, <1>4, <2>1 DEF Accounted
  <2>2. CASE i \notin DOMAIN c.streams
    BY <1>5, <1>11, <2>2
  <2> QED
    BY <2>1, <2>2
<1>13. ASSUME Credited(c) PROVE Credited(d)
  <2> SUFFICES ASSUME NEW i \in DOMAIN new
               PROVE  StreamWindow = new[i].window + Carried(c.queue, i)
                                + Carried(c.waiting, i) + Carried(ByNumber(c.ooo), i)
    BY <1>6 DEF Credited
  <2>1. CASE i \in DOMAIN c.streams
    BY <1>4, <1>13, <2>1 DEF Credited
  <2>2. CASE i \notin DOMAIN c.streams
    <3>1. StreamWindow \in Nat
      BY ClientAssumption
    <3> QED
      BY <1>5, <1>11, <2>2, <3>1
  <2> QED
    BY <2>1, <2>2
<1>14. Sent(d)
  BY <1>1, <1>4, <1>6, <1>7 DEF Sent
<1>15. Resting(d)
  BY <1>6, <1>8, <1>9, <1>12, <1>14 DEF Resting, ClientInv, Timed
<1>16. Idle(c) => Idle(d)
  BY <1>4, <1>5, <1>6, SMTT(30) DEF Idle
<1>17. /\ \A i \in DOMAIN c.streams : i \in DOMAIN d.streams /\ d.streams[i] = c.streams[i]
       /\ \A i \in DOMAIN sizes :
            /\ d.streams[Len(c.streams) + i].size = sizes[i]
            /\ d.streams[Len(c.streams) + i].offset = 0
       /\ Len(d.streams) = Len(c.streams) + Len(sizes)
  <2>1. \A i \in DOMAIN c.streams : i \in DOMAIN d.streams /\ d.streams[i] = c.streams[i]
    BY <1>4, <1>6
  <2>2. ASSUME NEW i \in DOMAIN sizes
        PROVE  /\ d.streams[Len(c.streams) + i].size = sizes[i]
               /\ d.streams[Len(c.streams) + i].offset = 0
    <3>1. new[n + i] = added[i]
      BY <1>3, <1>4
    <3> QED
      BY <1>2, <1>6, <3>1
  <2>3. Len(d.streams) = Len(c.streams) + Len(sizes)
    BY <1>4, <1>6
  <2> QED
    BY <2>1, <2>2, <2>3
<1> QED
  BY <1>6, <1>13, <1>15, <1>16, <1>17 DEF d, added, WithStreams

\* sendPacket and the end of a handler.
LEMMA EmitResting ==
  ASSUME NEW c0, NEW c, NEW A, Going(c0, c, A), c.waiting = << >>
  PROVE  LET d == [c EXCEPT !.out = << >>]
         IN  /\ Resting(d) /\ Credited(d) /\ IsClient(d)
             /\ d.streams = c.streams /\ d.queue = c.queue
             /\ d.timers = c.timers /\ d.phase = c.phase
             /\ d.packet_counter = c.packet_counter
             /\ d.Bytes_in_flight = c.Bytes_in_flight /\ d.cc = c.cc
             /\ Done(c) => Done(d)
<1> DEFINE none == << >>
           d == [c EXCEPT !.out = none]
<1>1. IsClient(c)
  BY DEF Going, ClientInv, ClientType
<1>2. none \in Seq(Packet)
  OBVIOUS
<1> HIDE DEF none
<1>3. /\ IsClient(d)
      /\ d.streams = c.streams /\ d.last = c.last
      /\ d.queue = c.queue /\ d.timers = c.timers
      /\ d.waiting = c.waiting /\ d.out = none /\ d.ooo = c.ooo
      /\ d.packet_counter = c.packet_counter
      /\ d.Bytes_in_flight = c.Bytes_in_flight
      /\ d.phase = c.phase /\ d.cc = c.cc
  BY <1>1 DEF IsClient, ClientFields
<1> HIDE DEF d
<1>4. Pending(d) = Pending(c) /\ Known(d) = Known(c)
  BY <1>3 DEF Pending, Known
<1>5. ClientType(d)
  BY <1>2, <1>3 DEF Going, ClientInv, ClientType
<1>6. Ordered(d)
  BY <1>3, <1>4 DEF Going, ClientInv, Ordered
<1>7. Accounted(d) /\ Credited(d) /\ Timed(d)
  BY <1>3 DEF Going, ClientInv, Accounted, Credited, Timed
<1>8. Sent(d)
  BY <1>3, <1>4 DEF Going, ClientInv, Sent
<1>9. Done(c) => Done(d)
  BY <1>3 DEF Done
<1>10. Resting(d)
  BY <1>3, <1>5, <1>6, <1>7, <1>8 DEF Resting, ClientInv, none
<1> QED
  BY <1>3, <1>7, <1>9, <1>10 DEF d, none

LEMMA InitResting ==
  /\ Resting(NewClient) /\ Idle(NewClient) /\ NewClient.phase = "handshake"
  /\ NewClient.packet_counter = 0
  /\ NewClient.streams = [i \in DOMAIN StreamSizes |-> NewStream(StreamSizes[i])]
<1> DEFINE c == NewClient
           new == [i \in DOMAIN StreamSizes |-> NewStream(StreamSizes[i])]
           none == << >>
<1>1. StreamSizes \in Seq(Nat \ {0}) /\ Len(StreamSizes) \in Nat
      /\ DOMAIN StreamSizes = 1 .. Len(StreamSizes) /\ StreamSizes # << >>
  BY ClientAssumption
<1>2. \A i \in DOMAIN StreamSizes :
        /\ new[i] \in Stream /\ new[i].offset = 0 /\ new[i].ACKed_bytes = 0
        /\ new[i].stream_done = FALSE /\ new[i].size = StreamSizes[i]
        /\ new[i].offset <= new[i].size
  <2> TAKE i \in DOMAIN StreamSizes
  <2>1. StreamSizes[i] \in Nat \ {0}
    BY <1>1
  <2> QED
    BY <2>1 DEF NewStream, Stream
<1>3. /\ new \in Seq(Stream) /\ DOMAIN new = DOMAIN StreamSizes /\ 1 \in DOMAIN new
  BY <1>1, <1>2
<1>4. none \in Seq(Packet) /\ ToSet(none) = {} /\ Sorted(none) /\ Numbers(none) = {}
      /\ TotalSize(none) = 0 /\ \A i : Carried(none, i) = 0
  BY ToSetEmpty, TotalSizeFacts, CarriedFacts DEF Sorted, Numbers
<1>5. none = << >>
  OBVIOUS
<1> HIDE DEF none, new
<1>6. /\ IsClient(c) /\ c.streams = new /\ c.last = 1
      /\ c.queue = none /\ c.timers = {} /\ c.waiting = none /\ c.out = none
      /\ c.ooo = {} /\ c.packet_counter = 0 /\ c.Bytes_in_flight = 0
      /\ c.phase = "handshake"
  BY <1>5 DEF NewClient, IsClient, ClientFields, new
<1> HIDE DEF c
<1>7. Pending(c) = {} /\ Known(c) = {}
  BY <1>4, <1>6 DEF Pending, Known
<1>8. ClientType(c)
  <2>1. IsFiniteSet({}) /\ Streams(new)
    BY <1>2, <1>3, FS_EmptySet DEF Streams
  <2> QED
    BY <1>3, <1>4, <1>6, <2>1 DEF ClientType
<1>9. Ordered(c)
  BY <1>4, <1>6, <1>7 DEF Ordered
<1>10. Accounted(c)
  <2>1. \A i \in DOMAIN new : new[i].offset = 0 /\ new[i].ACKed_bytes = 0
                              /\ new[i].stream_done = FALSE
    BY <1>2, <1>3
  <2> QED
    BY <1>4, <1>6, <2>1 DEF Accounted
<1>11. Sent(c)
  BY <1>7 DEF Sent
<1>12. Resting(c) /\ Idle(c)
  <2>1. \A i \in DOMAIN new : new[i].offset = 0
    BY <1>2, <1>3
  <2> QED
    BY <1>4, <1>5, <1>6, <1>8, <1>9, <1>10, <1>11, <2>1
    DEF Resting, Idle, ClientInv, Timed
<1> QED
  BY <1>6, <1>12 DEF c, new

-----------------------------------------------------------------------------
(***************************************************************************)
(* The sequence numbers of the congestion control: send_unacked and        *)
(* snd_max count bytes, and snd_max is a uint32.  It cannot have wrapped   *)
(* while the packets sent, of MaxPayload bytes at most, are fewer than     *)
(* Word bytes.                                                             *)
(***************************************************************************)
RenoType ==
  [snd_cwnd : Nat, snd_wnd : Nat, snd_mss : Nat, ssthresh : Nat,
   recover : Nat, snd_max : Nat, snd_una : Nat, lossRecovery : BOOLEAN]

SentAtMost(c) == c.packet_counter * MaxPayload

InSequence(c) ==
  /\ c.cc \in RenoType
  /\ c.send_unacked \in Nat
  /\ SentAtMost(c) < Word =>
       /\ c.cc.snd_una <= c.send_unacked
       /\ c.send_unacked + c.Bytes_in_flight + TotalSize(ByNumber(c.ooo)) <= c.cc.snd_max
       /\ c.cc.snd_max <= SentAtMost(c)

\* What the window is computed from is the same.
SameWindow(cc, dd) ==
  /\ dd.snd_cwnd = cc.snd_cwnd /\ dd.snd_mss = cc.snd_mss
  /\ dd.ssthresh = cc.ssthresh /\ dd.lossRecovery = cc.lossRecovery

\* d sent nothing new, and nothing more of it is acknowledged.
Calm(c, d) ==
  /\ d.cc \in RenoType
  /\ d.cc.snd_max = c.cc.snd_max /\ d.cc.snd_una = c.cc.snd_una
  /\ d.send_unacked = c.send_unacked
  /\ d.Bytes_in_flight = c.Bytes_in_flight
  /\ d.ooo = c.ooo
  /\ c.packet_counter <= d.packet_counter

LEMMA SentGrows ==
  /\ \A n \in Nat : n * MaxPayload \in Nat /\ (n + 1) * MaxPayload = n * MaxPayload + MaxPayload
  /\ \A m, n \in Nat : m <= n => m * MaxPayload <= n * MaxPayload
<1>1. MaxPayload \in Nat
  BY ClientAssumption
<1>2. \A n \in Nat : n * MaxPayload \in Nat /\ (n + 1) * MaxPayload = n * MaxPayload + MaxPayload
  BY <1>1
<1>3. \A m, n \in Nat : m <= n => m * MaxPayload <= n * MaxPayload
  <2> SUFFICES ASSUME NEW m \in Nat, NEW n \in Nat, m <= n
               PROVE  m * MaxPayload <= n * MaxPayload
    OBVIOUS
  <2>1. n - m \in Nat /\ (n - m) * MaxPayload \in Nat
    BY <1>1
  <2>2. n * MaxPayload = m * MaxPayload + (n - m) * MaxPayload
    BY <1>1
  <2>3. m * MaxPayload \in Nat /\ n * MaxPayload \in Nat
    BY <1>2
  <2> QED
    BY <2>1, <2>2, <2>3
<1> QED
  BY <1>2, <1>3

LEMMA UIntNat == \A n \in Int : UInt(n) \in Nat /\ UInt(n) < Word /\ (n \in Nat => UInt(n) <= n)
BY WordAssumption DEF UInt

LEMMA UIntSmall == \A n \in Nat : n < Word => UInt(n) = n
BY WordAssumption DEF UInt

\* The calls that follow an ACK or a timeout leave snd_max alone.
LEMMA RenoCalls ==
  ASSUME NEW cc \in RenoType
  PROVE  /\ ProcessRexmitTimer(cc) \in RenoType
         /\ ProcessRexmitTimer(cc).snd_max = cc.snd_max
         /\ ProcessRexmitTimer(cc).snd_una = cc.snd_una
         /\ ReceivedDuplicateAck(cc) \in RenoType
         /\ ReceivedDuplicateAck(cc).snd_max = cc.snd_max
         /\ ReceivedDuplicateAck(cc).snd_una = cc.snd_una
         /\ InflateCwnd(cc) \in RenoType
         /\ InflateCwnd(cc).snd_max = cc.snd_max
         /\ InflateCwnd(cc).snd_una = cc.snd_una
         /\ ~DividesByZero(cc) =>
              /\ ReceivedDataAck(cc) \in RenoType
              /\ ReceivedDataAck(cc).snd_max = cc.snd_max
              /\ ReceivedDataAck(cc).snd_una = cc.snd_una
<1>1. /\ cc.snd_cwnd \in Nat /\ cc.snd_wnd \in Nat /\ cc.snd_mss \in Nat
      /\ cc.ssthresh \in Nat /\ cc.snd_max \in Nat /\ cc.snd_una \in Nat
  BY DEF RenoType
<1> DEFINE threshold == RecalculateSlowStartThreshold(cc)
<1>2. threshold \in Nat
  BY <1>1 DEF RecalculateSlowStartThreshold, Lesser, Greater
<1>3. UInt(cc.snd_max - 1) \in Nat /\ UInt(cc.snd_una - 2) \in Nat
  BY <1>1, UIntNat
<1>4. UInt(cc.snd_cwnd + cc.snd_mss) \in Nat
  BY <1>1, UIntNat
<1> HIDE DEF threshold
<1>5. /\ ProcessRexmitTimer(cc) \in RenoType
      /\ ProcessRexmitTimer(cc).snd_max = cc.snd_max
      /\ ProcessRexmitTimer(cc).snd_una = cc.snd_una
  BY <1>1, <1>2, <1>3 DEF ProcessRexmitTimer, RenoType, threshold
<1>6. /\ ReceivedDuplicateAck(cc) \in RenoType
      /\ ReceivedDuplicateAck(cc).snd_max = cc.snd_max
      /\ ReceivedDuplicateAck(cc).snd_una = cc.snd_una
  BY <1>1, <1>2, <1>3 DEF ReceivedDuplicateAck, RenoType, threshold
<1>7. /\ InflateCwnd(cc) \in RenoType
      /\ InflateCwnd(cc).snd_max = cc.snd_max
      /\ InflateCwnd(cc).snd_una = cc.snd_una
  BY <1>4 DEF InflateCwnd, RenoType
<1>8. ASSUME ~DividesByZero(cc)
      PROVE  /\ ReceivedDataAck(cc) \in RenoType
             /\ ReceivedDataAck(cc).snd_max = cc.snd_max
             /\ ReceivedDataAck(cc).snd_una = cc.snd_una
  <2>1. CASE cc.lossRecovery
    <3> DEFINE flight == UInt(UInt(cc.snd_max - cc.snd_una) + cc.snd_mss)
               wnd == Lesser(cc.ssthresh, flight)
    <3>1. flight \in Nat
      BY <1>1, UIntNat
    <3> HIDE DEF flight
    <3>2. wnd \in Nat
      BY <1>1, <3>1 DEF Lesser
    <3>3. ReceivedDataAck(cc) = [cc EXCEPT !.lossRecovery = FALSE, !.snd_cwnd = wnd]
      BY <2>1 DEF ReceivedDataAck, flight
    <3> HIDE DEF wnd
    <3> QED
      BY <3>2, <3>3 DEF RenoType
  <2>2. CASE ~cc.lossRecovery
    <3> DEFINE add == IF cc.snd_cwnd < cc.ssthresh THEN cc.snd_mss ELSE Increment(cc)
    <3>1. add \in Nat
      <4>1. CASE cc.snd_cwnd < cc.ssthresh
        BY <1>1, <4>1
      <4>2. CASE ~(cc.snd_cwnd < cc.ssthresh)
        <5>1. cc.snd_cwnd \in Nat \ {0}
          BY <1>1, <1>8, <2>2, <4>2 DEF DividesByZero
        <5> DEFINE n == UInt(cc.snd_mss * cc.snd_mss)
        <5>2. n \in Nat
          BY <1>1, UIntNat
        <5> HIDE DEF n
        <5>3. n \div cc.snd_cwnd \in Nat
          BY <5>1, <5>2
        <5>4. Increment(cc) \in Nat
          BY <5>3 DEF Increment, Greater, n
        <5> QED
          BY <4>2, <5>4
      <4> QED
        BY <4>1, <4>2
    <3> HIDE DEF add
    <3>2. UInt(cc.snd_cwnd + add) \in Nat
      BY <1>1, <3>1, UIntNat
    <3>3. ReceivedDataAck(cc) = [cc EXCEPT !.snd_cwnd = UInt(cc.snd_cwnd + add),
                                          !.recover = UInt(cc.snd_una - 2)]
      BY <2>2 DEF ReceivedDataAck, RenoType, add
    <3> QED
      BY <1>3, <3>2, <3>3 DEF RenoType
  <2> QED
    BY <2>1, <2>2
<1> QED
  BY <1>5, <1>6, <1>7, <1>8

LEMMA SndSet ==
  ASSUME NEW cc \in RenoType, NEW n \in Int
  PROVE  /\ SetSndMax(cc, n) \in RenoType /\ SetSndMax(cc, n).snd_max = UInt(cc.snd_max + n)
         /\ SetSndMax(cc, n).snd_una = cc.snd_una
         /\ SameWindow(cc, SetSndMax(cc, n))
         /\ SetSndUna(cc, n) \in RenoType /\ SetSndUna(cc, n).snd_max = cc.snd_max
         /\ SetSndUna(cc, n).snd_una = UInt(n)
         /\ SameWindow(cc, SetSndUna(cc, n))
<1>1. cc.snd_max \in Nat
  BY DEF RenoType
<1>2. UInt(cc.snd_max + n) \in Nat /\ UInt(n) \in Nat
  BY <1>1, UIntNat
<1> QED
  BY <1>2 DEF SetSndMax, SetSndUna, RenoType, SameWindow

LEMMA CalmKeepsSequence ==
  ASSUME NEW c, NEW d, InSequence(c), Calm(c, d),
         c.packet_counter \in Nat, d.packet_counter \in Nat
  PROVE  InSequence(d)
<1>1. SentAtMost(c) \in Nat /\ SentAtMost(d) \in Nat /\ SentAtMost(c) <= SentAtMost(d)
  BY SentGrows DEF Calm, SentAtMost
<1>2. c.cc.snd_max \in Nat /\ Word \in Nat
  BY WordAssumption DEF InSequence, RenoType
<1>3. SentAtMost(d) < Word => SentAtMost(c) < Word
  BY <1>1, <1>2
<1> QED
  BY <1>1, <1>2, <1>3 DEF InSequence, Calm

\* The sizes without the headers popAtFront took off are not above the sizes.
Popped == INSTANCE FoldTheorems WITH op <- LAMBDA sum, p : sum + p.size - PoppedBytes(p)

PoppedSum(q) == FoldLeft(LAMBDA sum, p : sum + p.size - PoppedBytes(p), 0, q)

LEMMA PoppedFold == ASSUME NEW q PROVE PoppedSum(q) = Popped!Fold(0, q)
BY DEF PoppedSum, Popped!Fold, FoldLeft, MapThenFoldSet, Max,
   Popped!MapThenFoldSet, Popped!Largest

LEMMA PoppedFits ==
  ASSUME NEW p \in Packet
  PROVE  /\ p.size \in Nat /\ PoppedBytes(p) \in Nat /\ PoppedBytes(p) <= p.size
<1>1. /\ p.frames \in Seq(StreamFrame) /\ p.long \in BOOLEAN
      /\ p.size \in Nat /\ p.size = PacketSize(p.frames, p.long)
  BY DEF Packet
<1>2. FrameBytes(p.frames) \in Nat /\ HeaderBytes(p.long) \in Nat /\ MinPacketSize \in Nat
  BY <1>1, FrameBytesFacts, ClientAssumption DEF HeaderBytes
<1>3. HeaderBytes(p.long) <= p.size
  BY <1>1, <1>2 DEF PacketSize, Maximum
<1> QED
  BY <1>1, <1>2, <1>3 DEF PoppedBytes

LEMMA PoppedAtMost ==
  \A q \in Seq(Packet) : PoppedSum(q) \in Nat /\ PoppedSum(q) <= TotalSize(q)
<1> DEFINE T == {q \in Seq(Packet) : PoppedSum(q) \in Nat /\ PoppedSum(q) <= TotalSize(q)}
<1>1. << >> \in T
  <2>1. Popped!Fold(0, << >>) = 0
    BY Popped!FoldEmpty
  <2>2. << >> \in Seq(Packet) /\ TotalSize(<< >>) = 0
    BY TotalSizeFacts
  <2>3. PoppedSum(<< >>) = Popped!Fold(0, << >>)
    BY PoppedFold
  <2> QED
    BY <2>1, <2>2, <2>3
<1>2. ASSUME NEW q \in Seq(Packet), NEW e \in Packet, q \in T
      PROVE  Append(q, e) \in T
  <2>1. Popped!Fold(0, Append(q, e)) = Popped!Fold(0, q) + e.size - PoppedBytes(e)
    BY Popped!FoldAppend
  <2>2. TotalSize(Append(q, e)) = TotalSize(q) + e.size /\ TotalSize(q) \in Nat
    BY TotalSizeFacts
  <2>3. e.size \in Nat /\ PoppedBytes(e) \in Nat /\ PoppedBytes(e) <= e.size
    BY PoppedFits
  <2>4. /\ PoppedSum(q) \in Nat /\ PoppedSum(q) <= TotalSize(q)
        /\ Append(q, e) \in Seq(Packet)
    BY <1>2
  <2>5. PoppedSum(Append(q, e)) = PoppedSum(q) + e.size - PoppedBytes(e)
    BY <2>1, PoppedFold
  <2> QED
    BY <2>2, <2>3, <2>4, <2>5
<1>3. Seq(Packet) \subseteq T
  <2> HIDE DEF T
  <2> QED
    BY <1>1, <1>2, SeqInduction
<1> QED
  BY <1>3

LEMMA ByNumberSizes ==
  ASSUME NEW S \in SUBSET Packet, NEW T \in SUBSET Packet,
         IsFiniteSet(S), IsFiniteSet(T), Distinct(S \cup T), S \cap T = {}
  PROVE  TotalSize(ByNumber(S \cup T)) = TotalSize(ByNumber(S)) + TotalSize(ByNumber(T))
<1> DEFINE A == {p.number : p \in S}
           B == {p.number : p \in T}
           U == S \cup T
           none == {}
<1>1. U \in SUBSET Packet /\ IsFiniteSet(U)
  BY FS_Union
<1>2. PICK q \in Seq(Packet) : Sorted(q) /\ ToSet(q) = U
  BY <1>1, SortedExists
<1> DEFINE qA == WithNumbers(q, A)
           qB == WithNumbers(q, B)
<1>3. /\ qA \in Seq(Packet) /\ Sorted(qA) /\ ToSet(qA) = {p \in U : p.number \in A}
      /\ qB \in Seq(Packet) /\ Sorted(qB) /\ ToSet(qB) = {p \in U : p.number \in B}
  BY <1>2, WithIs
<1>4. {p \in U : p.number \in A} = S /\ {p \in U : p.number \in B} = T
  BY DEF Distinct
<1>5. Thirds(q, A, B, none)
  <2>1. \A p \in U : p.number \in A \/ p.number \in B
    OBVIOUS
  <2>2. \A p \in U : ~(p.number \in A /\ p.number \in B)
    BY DEF Distinct
  <2> HIDE DEF A, B, U
  <2> QED
    BY <1>2, <2>1, <2>2 DEF Thirds
<1>6. WithNumbers(q, none) = << >>
  BY WithNone
<1> HIDE DEF none
<1>7. TotalSize(q) = TotalSize(qA) + TotalSize(qB) + TotalSize(WithNumbers(q, none))
  <2> HIDE DEF A, B
  <2> QED
    BY <1>5, TotalSizeSplit
<1>8. ByNumber(U) = q /\ ByNumber(S) = qA /\ ByNumber(T) = qB
  <2> HIDE DEF qA, qB, A, B, U
  <2> QED
    BY <1>2, <1>3, <1>4, ByNumberIs
<1>9. TotalSize(qA) \in Nat /\ TotalSize(qB) \in Nat /\ TotalSize(<< >>) = 0
  <2> HIDE DEF qA, qB
  <2> QED
    BY <1>3, TotalSizeFacts
<1>10. TotalSize(q) = TotalSize(qA) + TotalSize(qB)
  BY <1>6, <1>7, <1>9
<1> HIDE DEF qA, qB, A, B
<1> QED
  BY <1>8, <1>10

-----------------------------------------------------------------------------
(***************************************************************************)
(* The methods of the handlers, again.                                     *)
(***************************************************************************)
LEMMA AckSequenceFields ==
  ASSUME NEW c, IsClient(c), NEW frame
  PROVE  LET d == RemoveAcked(CancelRTO(c, frame), frame)
             found == AckedPackets(c, frame)
             una == IF c.ooo = {} THEN c.send_unacked + PoppedSum(found)
                    ELSE c.send_unacked
         IN  IF IsInOrder(frame)
             THEN /\ d.send_unacked = una
                  /\ d.cc = SetSndUna(c.cc, IF found # << >> /\ c.ooo = {}
                                            THEN una ELSE c.cc.snd_una)
             ELSE d.send_unacked = c.send_unacked /\ d.cc = c.cc
<1> DEFINE b == CancelRTO(c, frame)
           removed == RemovedPackets(c, frame)
           streams == UpdateStreamInfo(c.streams, removed)
           d == RemoveAcked(b, frame)
<1>1. /\ IsClient(b)
      /\ b.queue = c.queue /\ b.streams = c.streams /\ b.ooo = c.ooo
      /\ b.send_unacked = c.send_unacked /\ b.cc = c.cc
  BY DEF CancelRTO, IsClient, ClientFields
<1> HIDE DEF b
<1>2. /\ AckedPackets(b, frame) = AckedPackets(c, frame)
      /\ LostAcksPackets(b, frame) = LostAcksPackets(c, frame)
  BY <1>1 DEF AckedPackets, LostAcksPackets
<1>3. LostAcksPackets(b, frame) \o AckedPackets(b, frame) = removed
  BY <1>2 DEF RemovedPackets
<1> DEFINE found == AckedPackets(b, frame)
           una == IF b.ooo = {} THEN b.send_unacked + PoppedSum(found)
                  ELSE b.send_unacked
           base == [b EXCEPT
                    !.queue = WithoutNumbers(@, Numbers(removed)),
                    !.Bytes_in_flight = @ - TotalSize(removed)]
           new == UpdateStreamFlowWindow(streams, AllFrames(removed))
           cc == SetSndUna(b.cc, IF found # << >> /\ b.ooo = {}
                                  THEN una ELSE b.cc.snd_una)
<1>4. base.cc = b.cc /\ base.ooo = b.ooo
  BY <1>1 DEF IsClient, ClientFields
<1>5. d = IF IsInOrder(frame)
          THEN [base EXCEPT !.streams = new, !.send_unacked = una, !.cc = cc]
          ELSE [base EXCEPT !.streams = streams, !.ooo = b.ooo \cup ToSet(found)]
  BY <1>1, <1>3, <1>4 DEF RemoveAcked, PoppedSum
<1> HIDE DEF d, removed, streams, una, new, cc, found
<1>6. IF IsInOrder(frame) THEN d.send_unacked = una /\ d.cc = cc
      ELSE d.send_unacked = b.send_unacked /\ d.cc = b.cc
  BY <1>1, <1>5 DEF IsClient, ClientFields
<1> DEFINE una0 == IF c.ooo = {} THEN c.send_unacked + PoppedSum(AckedPackets(c, frame))
                   ELSE c.send_unacked
           cc0 == SetSndUna(c.cc, IF AckedPackets(c, frame) # << >> /\ c.ooo = {}
                                  THEN una0 ELSE c.cc.snd_una)
<1>7. found = AckedPackets(c, frame)
  BY <1>2 DEF found
<1>8. una = una0
  BY <1>1, <1>7 DEF una
<1>9. cc = cc0
  BY <1>1, <1>7, <1>8 DEF cc
<1>10. d = RemoveAcked(CancelRTO(c, frame), frame)
  BY DEF d, b
<1> HIDE DEF una0, cc0
<1>11. LET e == RemoveAcked(CancelRTO(c, frame), frame)
       IN  IF IsInOrder(frame) THEN e.send_unacked = una0 /\ e.cc = cc0
           ELSE e.send_unacked = c.send_unacked /\ e.cc = c.cc
  BY <1>1, <1>6, <1>8, <1>9, <1>10
<1> QED
  BY <1>11 DEF una0, cc0

\* What an ACK acknowledges leaves the bytes in flight; packets whose ACKs
\* were lost leave them, too, but are not counted in send_unacked.
LEMMA AckKeepsSequence ==
  ASSUME NEW c, Fresh(c), InSequence(c), NEW frame, AckFrame(frame)
  PROVE  LET d == RemoveAcked(CancelRTO(c, frame), frame)
         IN  /\ InSequence(d)
             /\ d.Bytes_in_flight <= c.Bytes_in_flight
             /\ SameWindow(c.cc, d.cc)
<1> DEFINE q == c.queue
           F == ToSet(DecodeAck(frame))
           found == AckedPackets(c, frame)
           lost == LostAcksPackets(c, frame)
           removed == RemovedPackets(c, frame)
           d == RemoveAcked(CancelRTO(c, frame), frame)
           una == IF c.ooo = {} THEN c.send_unacked + PoppedSum(found) ELSE c.send_unacked
<1>1. /\ ClientType(c) /\ Ordered(c) /\ IsClient(c)
      /\ q \in Seq(Packet) /\ Sorted(q) /\ c.ooo \in SUBSET Packet /\ IsFiniteSet(c.ooo)
      /\ c.cc \in RenoType /\ c.send_unacked \in Nat
      /\ c.cc.snd_max \in Nat /\ c.cc.snd_una \in Nat
  BY DEF Fresh, ClientInv, ClientType, Ordered, InSequence, RenoType
<1>2. /\ d.ooo = IF IsInOrder(frame) THEN c.ooo ELSE c.ooo \cup ToSet(found)
      /\ d.Bytes_in_flight = c.Bytes_in_flight - TotalSize(removed)
      /\ d.packet_counter = c.packet_counter
  BY <1>1, AckFields
<1>3. IF IsInOrder(frame)
      THEN /\ d.send_unacked = una
           /\ d.cc = SetSndUna(c.cc, IF found # << >> /\ c.ooo = {}
                                     THEN una ELSE c.cc.snd_una)
      ELSE d.send_unacked = c.send_unacked /\ d.cc = c.cc
  BY <1>1, AckSequenceFields
<1>4. Fresh(d)
  BY RemoveAckedFresh
<1>5. PICK B : /\ lost = WithNumbers(q, B)
               /\ found = WithNumbers(q, F)
               /\ ~IsInOrder(frame) => B = {}
  BY <1>1, AckParts
<1> HIDE DEF d, F, q
<1>6. /\ found \in Seq(Packet) /\ Sorted(found) /\ lost \in Seq(Packet)
      /\ ToSet(found) \subseteq ToSet(q) /\ ToSet(found) \in SUBSET Packet
      /\ ToSet(lost) = {p \in ToSet(q) : p.number \in B}
  BY <1>1, <1>5, WithIs, ToSetType
<1>7. removed = lost \o found
  BY DEF RemovedPackets
<1> HIDE DEF found, lost, removed
<1>8. /\ TotalSize(removed) = TotalSize(lost) + TotalSize(found)
      /\ TotalSize(lost) \in Nat /\ TotalSize(found) \in Nat
      /\ PoppedSum(found) \in Nat /\ PoppedSum(found) <= TotalSize(found)
  BY <1>6, <1>7, TotalSizeFacts, PoppedAtMost
<1>9. c.Bytes_in_flight \in Nat
  <2>1. c.Bytes_in_flight = TotalSize(c.queue) + TotalSize(c.waiting)
    BY DEF Fresh, ClientInv, Accounted
  <2>2. c.queue \in Seq(Packet) /\ c.waiting \in Seq(Packet)
    BY <1>1 DEF ClientType
  <2>3. TotalSize(c.queue) \in Nat /\ TotalSize(c.waiting) \in Nat
    BY <2>2, TotalSizeFacts
  <2> QED
    BY <2>1, <2>3
<1>10. TotalSize(ByNumber(c.ooo)) \in Nat
  BY <1>1, OutOfOrderType, TotalSizeFacts
<1>11. SentAtMost(d) = SentAtMost(c)
  BY <1>2 DEF SentAtMost
<1>12. CASE IsInOrder(frame)
  <2>1. una \in Nat /\ c.send_unacked <= una /\ una <= c.send_unacked + TotalSize(found)
    BY <1>1, <1>8
  <2>2. /\ d.cc \in RenoType /\ d.cc.snd_max = c.cc.snd_max
        /\ SameWindow(c.cc, d.cc)
        /\ c.cc.snd_una <= c.send_unacked => d.cc.snd_una <= una
    <3> DEFINE n == IF found # << >> /\ c.ooo = {} THEN una ELSE c.cc.snd_una
    <3>1. n \in Nat /\ (c.cc.snd_una <= c.send_unacked => n <= una)
      BY <1>1, <2>1
    <3>2. d.cc = SetSndUna(c.cc, n)
      BY <1>3, <1>12
    <3> DEFINE cc0 == c.cc
    <3>3. cc0 \in RenoType
      BY <1>1
    <3> HIDE DEF n, cc0
    <3>4. /\ SetSndUna(cc0, n) \in RenoType /\ SetSndUna(cc0, n).snd_max = cc0.snd_max
          /\ SetSndUna(cc0, n).snd_una = UInt(n)
          /\ SameWindow(cc0, SetSndUna(cc0, n))
      BY <3>1, <3>3, SndSet
    <3>5. UInt(n) \in Nat /\ UInt(n) <= n
      BY <3>1, UIntNat
    <3> HIDE DEF una
    <3> QED
      BY <2>1, <3>1, <3>2, <3>4, <3>5 DEF cc0
  <2>3. d.ooo = c.ooo /\ d.send_unacked = una
    BY <1>2, <1>3, <1>12
  <2> HIDE DEF una
  <2>4. d.send_unacked + d.Bytes_in_flight <= c.send_unacked + c.Bytes_in_flight
    BY <1>1, <1>2, <1>8, <1>9, <2>1, <2>3
  <2>5. d.Bytes_in_flight \in Int /\ d.Bytes_in_flight <= c.Bytes_in_flight
    BY <1>2, <1>8, <1>9
  <2> QED
    BY <1>1, <1>9, <1>10, <1>11, <2>1, <2>2, <2>3, <2>4, <2>5 DEF InSequence, d
<1>13. CASE ~IsInOrder(frame)
  <2>1. lost = << >>
    <3>1. ToSet(lost) = {}
      BY <1>5, <1>6, <1>13
    <3> QED
      BY <1>6, <3>1, EmptyIs
  <2>2. d.Bytes_in_flight = c.Bytes_in_flight - TotalSize(found)
    BY <1>2, <1>8, <2>1, TotalSizeFacts
  <2>3. TotalSize(ByNumber(d.ooo)) = TotalSize(ByNumber(c.ooo)) + TotalSize(found)
    <3> DEFINE S == ToSet(found)
    <3>1. d.ooo = c.ooo \cup S
      BY <1>2, <1>13
    <3>2. Distinct(d.ooo) /\ IsFiniteSet(d.ooo)
      <4>1. ClientType(d) /\ Ordered(d)
        BY <1>4 DEF Fresh, ClientInv
      <4> QED
        BY <4>1, OutOfOrderType
    <3>3. c.ooo \cap S = {}
      BY <1>1, <1>6 DEF Ordered, Pending, q
    <3>4. IsFiniteSet(S)
      BY <3>1, <3>2, FS_Subset
    <3>5. ByNumber(S) = found
      BY <1>6, ByNumberIs
    <3> HIDE DEF S
    <3>6. S \in SUBSET Packet
      BY <1>6 DEF S
    <3>7. TotalSize(ByNumber(c.ooo \cup S)) = TotalSize(ByNumber(c.ooo)) + TotalSize(ByNumber(S))
      BY <1>1, <3>1, <3>2, <3>3, <3>4, <3>6, ByNumberSizes
    <3> QED
      BY <3>1, <3>5, <3>7
  <2>4. d.send_unacked = c.send_unacked /\ d.cc = c.cc
    BY <1>3, <1>13
  <2> QED
    BY <1>1, <1>8, <1>9, <1>10, <1>11, <2>2, <2>3, <2>4 DEF InSequence, d, SameWindow
<1> QED
  BY <1>12, <1>13

\* A packet that leaves ACKED_out_of_order is counted in send_unacked instead.
LEMMA OutOfOrderKeepsSequence ==
  ASSUME NEW c, Fresh(c), InSequence(c), NEW frame
  PROVE  LET d == RemoveOutOfOrder(c, frame)
         IN  /\ InSequence(d)
             /\ d.Bytes_in_flight = c.Bytes_in_flight
             /\ SameWindow(c.cc, d.cc)
<1> DEFINE gone == {p \in c.ooo : p.number < RemoveLimit(frame)}
           rest == c.ooo \ gone
           order == ByNumber(gone)
           una == c.send_unacked + TotalSize(order)
           d == RemoveOutOfOrder(c, frame)
           cc0 == c.cc
           cc1 == IF gone = {} THEN cc0 ELSE SetSndUna(cc0, una)
<1>1. /\ ClientType(c) /\ Ordered(c) /\ IsClient(c)
      /\ c.ooo \in SUBSET Packet /\ IsFiniteSet(c.ooo)
      /\ c.queue \in Seq(Packet) /\ c.waiting \in Seq(Packet) /\ c.packet_counter \in Nat
      /\ c.Bytes_in_flight = TotalSize(c.queue) + TotalSize(c.waiting)
      /\ cc0 \in RenoType /\ c.send_unacked \in Nat
  BY DEF Fresh, ClientInv, ClientType, Accounted, InSequence
<1>2. /\ gone \in SUBSET Packet /\ IsFiniteSet(gone) /\ order \in Seq(Packet)
      /\ rest \in SUBSET Packet /\ IsFiniteSet(rest)
      /\ ByNumber(rest) \in Seq(Packet) /\ Distinct(c.ooo)
  <2>1. gone \subseteq c.ooo /\ rest \subseteq c.ooo /\ c.ooo \subseteq c.ooo
    OBVIOUS
  <2> HIDE DEF gone, rest
  <2> QED
    BY <1>1, <2>1, OutOfOrderType
<1>3. TotalSize(ByNumber(c.ooo)) = TotalSize(order) + TotalSize(ByNumber(rest))
  <2>1. c.ooo = gone \cup rest /\ gone \cap rest = {}
    OBVIOUS
  <2> HIDE DEF gone, rest
  <2>2. Distinct(gone \cup rest)
    BY <1>2, <2>1
  <2>3. TotalSize(ByNumber(gone \cup rest)) = TotalSize(ByNumber(gone)) + TotalSize(ByNumber(rest))
    BY <1>2, <2>1, <2>2, ByNumberSizes
  <2> QED
    BY <2>1, <2>3
<1>4. /\ d.ooo = rest /\ d.send_unacked = una /\ d.cc = cc1
      /\ d.Bytes_in_flight = c.Bytes_in_flight /\ d.packet_counter = c.packet_counter
  <2>1. d = [c EXCEPT !.ooo = rest, !.send_unacked = una,
                      !.streams = UpdateStreamFlowWindow(c.streams, AllFrames(order)),
                      !.cc = cc1]
    BY <1>1 DEF RemoveOutOfOrder, IsClient, ClientFields
  <2> HIDE DEF d, rest, una, cc1, order, gone, cc0
  <2> QED
    BY <1>1, <2>1 DEF IsClient, ClientFields
<1>5. TotalSize(order) \in Nat /\ TotalSize(ByNumber(rest)) \in Nat /\ c.Bytes_in_flight \in Nat
  <2> HIDE DEF order, rest
  <2>1. TotalSize(order) \in Nat /\ TotalSize(ByNumber(rest)) \in Nat
    BY <1>2, TotalSizeFacts
  <2>2. TotalSize(c.queue) \in Nat /\ TotalSize(c.waiting) \in Nat
    BY <1>1, TotalSizeFacts
  <2> QED
    BY <1>1, <2>1, <2>2
<1> HIDE DEF d, rest, order, gone
<1>6. una \in Nat /\ c.send_unacked <= una
  BY <1>1, <1>5
<1>7. /\ cc1 \in RenoType /\ cc1.snd_max = cc0.snd_max /\ SameWindow(cc0, cc1)
      /\ cc0.snd_una <= c.send_unacked => cc1.snd_una <= una
  <2>1. cc0.snd_una \in Nat
    BY <1>1 DEF RenoType
  <2>2. UInt(una) \in Nat /\ UInt(una) <= una
    BY <1>6, UIntNat
  <2>6. una \in Int /\ cc0 \in RenoType
    BY <1>1, <1>6
  <2> HIDE DEF una, cc0
  <2>3. /\ SetSndUna(cc0, una) \in RenoType /\ SetSndUna(cc0, una).snd_max = cc0.snd_max
        /\ SetSndUna(cc0, una).snd_una = UInt(una)
        /\ SameWindow(cc0, SetSndUna(cc0, una))
    BY <2>6, SndSet
  <2>4. CASE gone = {}
    BY <1>1, <1>6, <2>1, <2>4 DEF SameWindow
  <2>5. CASE gone # {}
    BY <2>2, <2>3, <2>5
  <2> QED
    BY <2>4, <2>5
<1>8. SentAtMost(d) = SentAtMost(c)
  BY <1>4 DEF SentAtMost
<1>9. d.cc.snd_max = c.cc.snd_max /\ c.cc.snd_max \in Nat
  BY <1>1, <1>4, <1>7 DEF RenoType
<1>10. SentAtMost(c) < Word =>
        d.send_unacked + d.Bytes_in_flight + TotalSize(ByNumber(d.ooo)) <= d.cc.snd_max
  BY <1>1, <1>3, <1>4, <1>5, <1>9 DEF InSequence
<1> HIDE DEF una, cc1
<1>11. InSequence(d)
  BY <1>1, <1>4, <1>6, <1>7, <1>8, <1>9, <1>10 DEF InSequence
<1> QED
  BY <1>4, <1>7, <1>11 DEF d

\* The call of the congestion control an ACK leads to, if any.
Reaction(cc, dd) ==
  \/ dd = cc
  \/ dd = InflateCwnd(cc)
  \/ dd = ReceivedDuplicateAck(cc)
  \/ ~DividesByZero(cc) /\ dd = ReceivedDataAck(cc)

LEMMA CongestionCalm ==
  ASSUME NEW c, IsClient(c), c.cc \in RenoType, c.packet_counter \in Nat,
         NEW lost, NEW largest
  PROVE  LET d == UpdateCongestionAlgo(c, lost, largest)
         IN  Calm(c, d) /\ Reaction(c.cc, d.cc)
<1> DEFINE d == UpdateCongestionAlgo(c, lost, largest)
           cc0 == c.cc
           dd == d.cc
<1>1. Reaction(cc0, dd)
  BY DEF UpdateCongestionAlgo, Reaction, DividesByZero, IsClient, ClientFields
<1>2. /\ d.send_unacked = c.send_unacked /\ d.Bytes_in_flight = c.Bytes_in_flight
      /\ d.ooo = c.ooo /\ d.packet_counter = c.packet_counter
  BY DEF UpdateCongestionAlgo, IsClient, ClientFields
<1>3. cc0 \in RenoType
  OBVIOUS
<1>4. dd \in RenoType /\ dd.snd_max = cc0.snd_max /\ dd.snd_una = cc0.snd_una
  <2> HIDE DEF dd, cc0
  <2> QED
    BY <1>1, <1>3, RenoCalls DEF Reaction
<1> HIDE DEF d
<1>5. Calm(c, d)
  BY <1>2, <1>4 DEF Calm
<1> QED
  BY <1>1, <1>5 DEF d

LEMMA CreateCalm ==
  ASSUME NEW c, IsClient(c), c.cc \in RenoType, c.packet_counter \in Nat,
         NEW lost \in Seq(Packet)
  PROVE  LET d == FoldLeft(CreateRetransmitPacket, c, lost)
         IN  Calm(c, d) /\ d.cc = c.cc /\ d.packet_counter \in Nat
<1> DEFINE n == Len(lost)
           d == FoldLeft(CreateRetransmitPacket, c, lost)
<1>1. d = Lost!Fold(c, lost)
  BY DEF Lost!Fold, FoldLeft, MapThenFoldSet, Max,
     Lost!MapThenFoldSet, Lost!Largest
<1>2. n \in Nat /\ DOMAIN lost = 1 .. n
  OBVIOUS
<1> HIDE DEF n, d
<1>3. PICK a : /\ a[0] = c
               /\ \A k \in 1 .. n : a[k] = CreateRetransmitPacket(a[k - 1], lost[k])
               /\ a[n] = Lost!Fold(c, lost)
  BY <1>2, Lost!FoldTrace
<1> DEFINE Good(e) == IsClient(e) /\ Calm(c, e) /\ e.cc = c.cc /\ e.packet_counter \in Nat
           K == {k \in Nat : k <= n => Good(a[k])}
<1>4. 0 \in K
  BY <1>3 DEF Calm
<1>5. ASSUME NEW k \in Nat, k \in K PROVE k + 1 \in K
  <2> SUFFICES ASSUME k + 1 <= n PROVE Good(a[k + 1])
    OBVIOUS
  <2>1. k + 1 \in 1 .. n /\ (k + 1) - 1 = k /\ k <= n
    BY <1>2
  <2> DEFINE p == lost[k + 1]
             e == a[k]
             f == CreateRetransmitPacket(e, p)
  <2>2. a[k + 1] = f
    BY <1>3, <2>1
  <2>3. Good(e)
    BY <1>5, <2>1
  <2> HIDE DEF e, p
  <2>4. /\ IsClient(f) /\ f.cc = e.cc /\ f.send_unacked = e.send_unacked
        /\ f.Bytes_in_flight = e.Bytes_in_flight /\ f.ooo = e.ooo
        /\ f.packet_counter = e.packet_counter + 1
    BY <2>3 DEF CreateRetransmitPacket, TakeForRetransmission, IsClient, ClientFields
  <2> HIDE DEF f
  <2>5. Good(f)
    BY <2>3, <2>4 DEF Calm
  <2> QED
    BY <2>2, <2>5
<1>6. n \in K
  <2> HIDE DEF K
  <2> QED
    BY <1>2, <1>4, <1>5, Addition!NatSetInduction
<1>7. Good(d)
  BY <1>1, <1>2, <1>3, <1>6
<1> QED
  BY <1>7 DEF d

LEMMA LostCalm ==
  ASSUME NEW c, ClientType(c), Ordered(c), c.cc \in RenoType, NEW largest
  PROVE  LET d == UpdateLostPackets(c, largest)
         IN  Calm(c, d) /\ Reaction(c.cc, d.cc) /\ d.packet_counter \in Nat
<1> DEFINE lost == LostPackets(c.queue, largest)
           b == UpdateCongestionAlgo(c, lost, largest)
           d == FoldLeft(CreateRetransmitPacket, b, lost)
<1>1. IsClient(c) /\ c.queue \in Seq(Packet) /\ c.packet_counter \in Nat
  BY DEF ClientType
<1>2. lost \in Seq(Packet)
  <2> DEFINE N == {n \in Numbers(c.queue) : n <= largest - kPacketThreshold}
             q == c.queue
  <2>1. lost = WithNumbers(q, N) /\ q \in Seq(Packet) /\ Sorted(q)
    BY <1>1 DEF LostPackets, UpTo, Ordered
  <2> HIDE DEF lost, N, q
  <2> QED
    BY <2>1, WithIs
<1> HIDE DEF lost
<1>3. Calm(c, b) /\ Reaction(c.cc, b.cc)
  BY <1>1, CongestionCalm
<1>4. IsClient(b) /\ b.packet_counter = c.packet_counter
  BY <1>1, CongestionSame DEF Same
<1> HIDE DEF b
<1>5. Calm(b, d) /\ d.cc = b.cc /\ d.packet_counter \in Nat
  <2>1. b.cc \in RenoType
    BY <1>3 DEF Calm
  <2> QED
    BY <1>1, <1>2, <1>4, <2>1, CreateCalm
<1>6. UpdateLostPackets(c, largest) = d
  BY DEF UpdateLostPackets, lost, b
<1> HIDE DEF d
<1>7. Calm(c, d)
  BY <1>1, <1>3, <1>4, <1>5 DEF Calm
<1> QED
  BY <1>3, <1>5, <1>6, <1>7

-----------------------------------------------------------------------------
(***************************************************************************)
(* Sending.  c is the client before the loop that makes packets of new     *)
(* data; the loop ends before the window does.                             *)
(***************************************************************************)
Paced(c, a) ==
  /\ InSequence(a.c)
  /\ Short(c) => Short(a.c)
  /\ SameWindow(c.cc, a.c.cc)
  /\ a.window \in Int
  /\ a.window + a.c.Bytes_in_flight = Minimum(ConnectionWindow, c.cc.snd_cwnd)
  /\ c.Bytes_in_flight <= a.c.Bytes_in_flight
  /\ a.c.Bytes_in_flight > c.Bytes_in_flight => a.window >= 0

LEMMA FlightType ==
  ASSUME NEW c, ClientInv(c)
  PROVE  /\ c.Bytes_in_flight \in Nat /\ c.packet_counter \in Nat
         /\ TotalSize(ByNumber(c.ooo)) \in Nat
<1>1. /\ c.queue \in Seq(Packet) /\ c.waiting \in Seq(Packet) /\ c.packet_counter \in Nat
      /\ c.Bytes_in_flight = TotalSize(c.queue) + TotalSize(c.waiting)
      /\ ClientType(c) /\ Ordered(c)
  BY DEF ClientInv, ClientType, Accounted
<1>2. TotalSize(c.queue) \in Nat /\ TotalSize(c.waiting) \in Nat
  BY <1>1, TotalSizeFacts
<1>3. ByNumber(c.ooo) \in Seq(Packet)
  BY <1>1, OutOfOrderType
<1>4. TotalSize(ByNumber(c.ooo)) \in Nat
  BY <1>3, TotalSizeFacts
<1> QED
  BY <1>1, <1>2, <1>4

\* A packet of new data is counted in snd_max and in the bytes in flight.
LEMMA QueueKeepsSequence ==
  ASSUME NEW c, ClientInv(c), InSequence(c), NEW fill,
         NEW p, p.size \in Nat, p.size <= MaxPayload
  PROVE  LET d == QueuePacket(c, fill, p)
         IN  /\ InSequence(d) /\ SameWindow(c.cc, d.cc)
             /\ d.Bytes_in_flight = c.Bytes_in_flight + p.size
<1> DEFINE d == QueuePacket(c, fill, p)
           cc0 == c.cc
           n == p.size
           cc1 == SetSndMax(cc0, n)
<1>1. IsClient(c) /\ cc0 \in RenoType /\ n \in Int /\ n \in Nat /\ c.send_unacked \in Nat
  BY DEF ClientInv, ClientType, InSequence
<1>2. /\ d.Bytes_in_flight = c.Bytes_in_flight + n /\ d.cc = cc1
      /\ d.send_unacked = c.send_unacked /\ d.ooo = c.ooo
      /\ d.packet_counter = c.packet_counter + 1
  BY <1>1 DEF QueuePacket, IsClient, ClientFields
<1> HIDE DEF d
<1>3. /\ c.Bytes_in_flight \in Nat /\ c.packet_counter \in Nat
      /\ TotalSize(ByNumber(c.ooo)) \in Nat
  BY FlightType
<1>4. /\ SentAtMost(c) \in Nat /\ SentAtMost(d) = SentAtMost(c) + MaxPayload
      /\ MaxPayload \in Nat /\ Word \in Nat
  BY <1>2, <1>3, SentGrows, ClientAssumption, WordAssumption DEF SentAtMost
<1>5. cc0.snd_max \in Nat
  BY <1>1 DEF RenoType
<1>6. /\ cc1 \in RenoType /\ SameWindow(cc0, cc1)
      /\ cc1.snd_una = cc0.snd_una /\ cc1.snd_max = UInt(cc0.snd_max + n)
  <2> HIDE DEF cc0, n
  <2> QED
    BY <1>1, SndSet
<1>7. SentAtMost(d) < Word =>
        /\ SentAtMost(c) < Word
        /\ cc0.snd_max <= SentAtMost(c)
        /\ cc1.snd_max = cc0.snd_max + n
  <2> SUFFICES ASSUME SentAtMost(d) < Word
               PROVE  /\ SentAtMost(c) < Word
                      /\ cc0.snd_max <= SentAtMost(c)
                      /\ cc1.snd_max = cc0.snd_max + n
    OBVIOUS
  <2>1. SentAtMost(c) < Word
    BY <1>4
  <2>2. cc0.snd_max <= SentAtMost(c)
    BY <2>1 DEF InSequence
  <2>3. cc0.snd_max + n \in Nat /\ cc0.snd_max + n < Word
    BY <1>1, <1>4, <1>5, <2>2
  <2> HIDE DEF n, cc0
  <2> QED
    BY <1>6, <2>1, <2>2, <2>3, UIntSmall
<1> HIDE DEF cc1
<1>8. InSequence(d)
  BY <1>1, <1>2, <1>3, <1>4, <1>5, <1>6, <1>7 DEF InSequence
<1> QED
  BY <1>2, <1>6, <1>8 DEF d

LEMMA QueueShort ==
  ASSUME NEW c, ClientType(c), Short(c), NEW fill, NEW p, ~p.long
  PROVE  Short(QueuePacket(c, fill, p))
<1> DEFINE d == QueuePacket(c, fill, p)
           q == c.queue
<1>1. /\ d.queue = Append(q, p) /\ d.waiting = c.waiting /\ d.failed = c.failed
      /\ q \in Seq(Packet)
  BY DEF QueuePacket, ClientType, IsClient, ClientFields
<1> HIDE DEF d
<1>2. \A x \in ToSet(q) \cup ToSet(c.waiting) : ~x.long
  BY DEF Short, Pending
<1> HIDE DEF q
<1>3. \A x \in ToSet(Append(q, p)) : x \in ToSet(q) \/ x = p
  BY <1>1 DEF ToSet
<1>4. Short(d)
  BY <1>1, <1>2, <1>3 DEF Short, Pending
<1> QED
  BY <1>4 DEF d

\* A packet of new data is no larger than the payload.
LEMMA NewPacketFits ==
  ASSUME NEW streams, NEW fill, FillInv(streams, MaxPayload - HeaderSize, fill),
         NEW number
  PROVE  LET p == DataPacket(number, {}, fill.frames, FALSE)
         IN  p.size \in Nat /\ p.size <= MaxPayload
<1>1. /\ fill.frames \in Seq(StreamFrame) /\ fill.space \in Nat
      /\ fill.space + FrameBytes(fill.frames) = MaxPayload - HeaderSize
  BY DEF FillInv, FillType
<1>2. FrameBytes(fill.frames) \in Nat
  BY <1>1, FrameBytesFacts
<1>3. /\ MaxPayload \in Nat /\ HeaderSize \in Nat /\ MinPacketSize \in Nat
      /\ MinPacketSize <= MaxPayload
  BY ClientAssumption
<1> QED
  BY <1>1, <1>2, <1>3 DEF DataPacket, HeaderBytes, Maximum

LEMMA SendTurnPaced ==
  ASSUME NEW c, NEW a, IsLoop(a), ClientInv(a.c), Paced(c, a), NEW k,
         c.Bytes_in_flight \in Nat
  PROVE  Paced(c, SendTurn(a, k))
<1> DEFINE space == MaxPayload - HeaderSize
           fill == FramesToSend(a.c.streams, a.c.last, space)
           long == FALSE
           b == a.c
           p == DataPacket(b.packet_counter, {}, fill.frames, long)
           made == QueuePacket(b, fill, p)
           e == SendTurn(a, k)
<1>1. space \in Nat
  BY ClientAssumption
<1>2. e = IF a.stop \/ a.window < MaxPayload THEN [a EXCEPT !.stop = TRUE]
          ELSE IF fill.frames = << >>
          THEN [a EXCEPT !.stop = TRUE, !.c.last = fill.last]
          ELSE [a EXCEPT !.window = @ - p.size, !.c = made]
  BY DEF SendTurn, SendNewPacket
<1>3. IsClient(b) /\ Streams(b.streams) /\ b.last \in DOMAIN b.streams
  BY DEF ClientInv, ClientType
<1>4. p.size \in Nat /\ p.size <= MaxPayload
  <2>1. FillInv(b.streams, space, fill)
    <3> HIDE DEF space
    <3> QED
      BY <1>1, <1>3, FramesToSendIs
  <2> HIDE DEF fill
  <2> QED
    BY <2>1, NewPacketFits
<1>8. Short(b) => Short(made)
  <2>1. ~p.long
    BY DEF DataPacket
  <2> HIDE DEF p, fill
  <2> QED
    BY <2>1, QueueShort DEF ClientInv
<1> HIDE DEF e, fill, p, made
<1>5. CASE e = [a EXCEPT !.stop = TRUE]
  <2>1. e.c = a.c /\ e.window = a.window
    BY <1>5 DEF IsLoop, LoopFields
  <2> QED
    BY <2>1 DEF Paced, e
<1>6. CASE e = [a EXCEPT !.stop = TRUE, !.c.last = fill.last]
  <2>1. /\ e.c.cc = b.cc /\ e.c.send_unacked = b.send_unacked /\ e.c.ooo = b.ooo
        /\ e.c.Bytes_in_flight = b.Bytes_in_flight /\ e.window = a.window
        /\ e.c.packet_counter = b.packet_counter
        /\ e.c.queue = b.queue /\ e.c.waiting = b.waiting /\ e.c.failed = b.failed
    BY <1>3, <1>6 DEF IsLoop, LoopFields, IsClient, ClientFields
  <2> QED
    BY <2>1 DEF Paced, InSequence, SentAtMost, Short, Pending, e
<1>7. CASE ~(a.window < MaxPayload) /\ e = [a EXCEPT !.window = @ - p.size, !.c = made]
  <2>1. e.c = made /\ e.window = a.window - p.size
    BY <1>7 DEF IsLoop, LoopFields
  <2>2. InSequence(b) /\ ClientInv(b)
    BY DEF Paced
  <2>3. /\ InSequence(made) /\ SameWindow(b.cc, made.cc)
        /\ made.Bytes_in_flight = b.Bytes_in_flight + p.size
    <3> HIDE DEF b
    <3> QED
      BY <1>4, <2>2, QueueKeepsSequence DEF made
  <2>4. SameWindow(c.cc, made.cc)
    BY <2>3 DEF Paced, SameWindow
  <2>5. a.window \in Int /\ MaxPayload \in Nat /\ b.Bytes_in_flight \in Nat
    BY <2>2, FlightType, ClientAssumption DEF Paced
  <2>6. e.window \in Int /\ e.window >= 0
    BY <1>4, <1>7, <2>1, <2>5
  <2>7. /\ e.window + e.c.Bytes_in_flight = a.window + b.Bytes_in_flight
        /\ b.Bytes_in_flight <= e.c.Bytes_in_flight
        /\ e.c.Bytes_in_flight \in Nat
    BY <1>4, <2>1, <2>3, <2>5
  <2>8. /\ e.window + e.c.Bytes_in_flight = Minimum(ConnectionWindow, c.cc.snd_cwnd)
        /\ c.Bytes_in_flight <= e.c.Bytes_in_flight
    BY <2>5, <2>7 DEF Paced
  <2> QED
    BY <1>8, <2>1, <2>3, <2>4, <2>6, <2>8 DEF Paced, e
<1> QED
  BY <1>2, <1>5, <1>6, <1>7

LEMMA NewDataPaced ==
  ASSUME NEW c0, NEW c, NEW A, ClientInv(c0), Going(c0, c, A), c.waiting = << >>,
         InSequence(c)
  PROVE  \E a : Paced(c, a) /\ a.c = SendNewData(c) /\ ClientInv(a.c)
<1> DEFINE left == FoldLeft(LAMBDA sum, s : sum + BytesLeft(s), 0, c.streams)
           base == [c |-> c, window |-> ActualWindow(c), stop |-> FALSE]
           n == left + 1
           f == [k \in 1 .. n |-> k]
<1>1. SendNewData(c) = FoldLeft(SendTurn, base, f).c
  BY DEF SendNewData, SendLoop
<1>2. FoldLeft(SendTurn, base, f) = Turns!Fold(base, f)
  BY DEF Turns!Fold, FoldLeft, MapThenFoldSet, Max,
     Turns!MapThenFoldSet, Turns!Largest
<1>3. n \in Nat /\ DOMAIN f = 1 .. n
  <2>1. left \in Nat
    BY LeftType DEF Going, ClientInv, ClientType
  <2> HIDE DEF left
  <2> QED
    BY <2>1
<1>4. IsLoop(base) /\ base.c = c /\ base.window = ActualWindow(c)
  BY DEF IsLoop, LoopFields
<1> HIDE DEF n, f, base, left
<1>5. PICK a : /\ a[0] = base
               /\ \A k \in 1 .. n : a[k] = SendTurn(a[k - 1], f[k])
               /\ a[n] = Turns!Fold(base, f)
  BY <1>3, Turns!FoldTrace
<1>6. c.Bytes_in_flight \in Nat
  BY FlightType DEF Going
<1>7. Paced(c, base)
  <2>1. c.cc.snd_cwnd \in Nat /\ ConnectionWindow \in Nat
    BY ClientAssumption DEF InSequence, RenoType
  <2>2. Minimum(ConnectionWindow, c.cc.snd_cwnd) \in Nat
    BY <2>1 DEF Minimum
  <2> QED
    BY <1>4, <1>6, <2>2 DEF Paced, SameWindow, ActualWindow
<1> DEFINE Upto(e) == /\ IsLoop(e) /\ Going(c0, e.c, A)
                      /\ e.c.waiting = << >> /\ Paced(c, e)
           K == {k \in Nat : k <= n => Upto(a[k])}
<1>8. 0 \in K
  BY <1>4, <1>5, <1>7
<1>9. ASSUME NEW k \in Nat, k \in K PROVE k + 1 \in K
  <2> SUFFICES ASSUME k + 1 <= n PROVE Upto(a[k + 1])
    OBVIOUS
  <2>1. k + 1 \in 1 .. n /\ (k + 1) - 1 = k /\ k <= n
    BY <1>3
  <2>2. a[k + 1] = SendTurn(a[k], f[k + 1])
    BY <1>5, <2>1
  <2> DEFINE b == a[k]
             j == f[k + 1]
  <2>3. IsLoop(b) /\ Going(c0, b.c, A) /\ b.c.waiting = << >> /\ Paced(c, b)
    BY <1>9, <2>1
  <2> HIDE DEF b, j
  <2>4. /\ IsLoop(SendTurn(b, j)) /\ Going(c0, SendTurn(b, j).c, A)
        /\ SendTurn(b, j).c.waiting = << >>
    BY <2>3, SendTurnGoing
  <2>5. ClientInv(b.c)
    BY <2>3 DEF Going
  <2>6. Paced(c, SendTurn(b, j))
    BY <1>6, <2>3, <2>5, SendTurnPaced
  <2> QED
    BY <2>2, <2>4, <2>6 DEF b, j
<1>10. n \in K
  <2> HIDE DEF K
  <2> QED
    BY <1>3, <1>8, <1>9, Addition!NatSetInduction
<1>11. Upto(a[n])
  BY <1>3, <1>10
<1>12. a[n].c = SendNewData(c)
  BY <1>1, <1>2, <1>5
<1>13. ClientInv(a[n].c)
  BY <1>11 DEF Going
<1> QED
  BY <1>11, <1>12, <1>13

\* d, after c, has no more bytes in flight than before or is within the windows.
InWindow(c, d) ==
  d.Bytes_in_flight > c.Bytes_in_flight =>
    d.Bytes_in_flight <= Minimum(ConnectionWindow, d.cc.snd_cwnd)

LEMMA SendReadySteady ==
  ASSUME NEW c0, NEW c, NEW A, ClientInv(c0), Going(c0, c, A), InSequence(c)
  PROVE  LET d == SendReadyPackets(c)
         IN  /\ InSequence(d) /\ SameWindow(c.cc, d.cc)
             /\ InWindow(c, d)
             /\ Short(c) => Short(d)
<1> DEFINE e == SendWaiting(c)
           f == SendNewData(e)
           d == SendOut(f)
<1>1. Going(c0, e, A) /\ e.waiting = << >>
  BY WaitingGoing
<1>2. /\ e.cc = c.cc /\ e.send_unacked = c.send_unacked /\ e.ooo = c.ooo
      /\ e.Bytes_in_flight = c.Bytes_in_flight /\ e.packet_counter = c.packet_counter
  <2>1. IsClient(c)
    BY DEF Going, ClientInv, ClientType
  <2> QED
    BY <2>1 DEF SendWaiting, IsClient, ClientFields
<1>10. Short(c) => Short(e)
  BY WaitingShort DEF Going, ClientInv
<1> HIDE DEF e
<1>3. InSequence(e)
  BY <1>2 DEF InSequence, SentAtMost
<1>4. PICK a : Paced(e, a) /\ a.c = f /\ ClientInv(a.c)
  BY <1>1, <1>3, NewDataPaced
<1> HIDE DEF f
<1>5. /\ d.cc = f.cc /\ d.send_unacked = f.send_unacked /\ d.ooo = f.ooo
      /\ d.Bytes_in_flight = f.Bytes_in_flight /\ d.packet_counter = f.packet_counter
      /\ d.queue = f.queue /\ d.waiting = f.waiting /\ d.failed = f.failed
  <2>1. IsClient(f)
    BY <1>4 DEF ClientInv, ClientType
  <2> QED
    BY <2>1 DEF SendOut, IsClient, ClientFields
<1>6. SendReadyPackets(c) = d
  BY DEF SendReadyPackets, ProcessClientSend, e, f
<1> HIDE DEF d
<1>7. InSequence(d)
  BY <1>4, <1>5 DEF Paced, InSequence, SentAtMost
<1>8. SameWindow(c.cc, d.cc)
  BY <1>2, <1>4, <1>5 DEF Paced
<1>9. InWindow(c, d)
  <2>1. /\ a.window \in Int /\ f.Bytes_in_flight \in Nat
        /\ a.window + f.Bytes_in_flight = Minimum(ConnectionWindow, e.cc.snd_cwnd)
        /\ f.Bytes_in_flight > e.Bytes_in_flight => a.window >= 0
    BY <1>4, FlightType DEF Paced
  <2>2. f.Bytes_in_flight > e.Bytes_in_flight =>
          f.Bytes_in_flight <= Minimum(ConnectionWindow, e.cc.snd_cwnd)
    BY <2>1
  <2>3. d.cc.snd_cwnd = e.cc.snd_cwnd
    BY <1>2, <1>8 DEF SameWindow
  <2> QED
    BY <1>2, <1>5, <2>2, <2>3 DEF InWindow
<1>11. Short(c) => Short(d)
  BY <1>4, <1>5, <1>10 DEF Paced, Short, Pending
<1> QED
  BY <1>6, <1>7, <1>8, <1>9, <1>11

-----------------------------------------------------------------------------
(***************************************************************************)
(* The handlers.  An ACK changes the window by one call at most, after the *)
(* calls that set snd_una and before those that set snd_max.               *)
(***************************************************************************)
\* What a handler does to the congestion control of c: cc is its state when
\* the reaction comes.
Reacts(c, d) ==
  \E cc \in RenoType, dd \in RenoType :
    /\ SameWindow(c.cc, cc) /\ Reaction(cc, dd) /\ SameWindow(dd, d.cc)
    /\ SentAtMost(c) < Word =>
         cc.snd_una <= cc.snd_max /\ cc.snd_max <= SentAtMost(c)

LEMMA ReceiveAckSteady ==
  ASSUME NEW c, Fresh(c), NEW frame, AckFrame(frame), c.phase # "closed", InSequence(c)
  PROVE  LET d == SendReadyPackets(
                    UpdateLostPackets(
                      ProcessClientACK(CancelRTO(c, frame), frame),
                      frame.largest))
         IN  InSequence(d) /\ Reacts(c, d) /\ InWindow(c, d)
<1> DEFINE b == RemoveAcked(CancelRTO(c, frame), frame)
           e == RemoveOutOfOrder(b, frame)
           largest == frame.largest
           f == UpdateLostPackets(e, largest)
           d == SendReadyPackets(f)
<1>1. Fresh(b) /\ b.packet_counter = c.packet_counter /\ b.phase = c.phase
  BY RemoveAckedFresh
<1>2. InSequence(b) /\ b.Bytes_in_flight <= c.Bytes_in_flight /\ SameWindow(c.cc, b.cc)
  BY AckKeepsSequence
<1> HIDE DEF b
<1>3. Fresh(e) /\ e.packet_counter = b.packet_counter /\ e.phase = b.phase
  BY <1>1, OutOfOrderFresh
<1>4. InSequence(e) /\ e.Bytes_in_flight = b.Bytes_in_flight /\ SameWindow(b.cc, e.cc)
  BY <1>1, <1>2, OutOfOrderKeepsSequence
<1> HIDE DEF e, largest
<1>5. ClientInv(e) /\ ClientType(e) /\ Ordered(e) /\ e.cc \in RenoType
  BY <1>3, <1>4 DEF Fresh, ClientInv, InSequence
<1>6. Calm(e, f) /\ Reaction(e.cc, f.cc) /\ f.packet_counter \in Nat
  BY <1>5, LostCalm
<1> DEFINE A == {}
<1>7. Going(e, f, A)
  <2> HIDE DEF A
  <2>1. Going(e, e, A)
    BY <1>3, FreshGoing
  <2> QED
    BY <1>5, <2>1, UpdateLostGoing
<1> HIDE DEF f, A
<1>8. InSequence(f)
  <2>1. e.packet_counter \in Nat
    BY <1>5 DEF ClientType
  <2> QED
    BY <1>4, <1>6, <2>1, CalmKeepsSequence
<1>9. InSequence(d) /\ SameWindow(f.cc, d.cc) /\ InWindow(f, d)
  BY <1>5, <1>7, <1>8, SendReadySteady
<1>10. SendReadyPackets(UpdateLostPackets(
         ProcessClientACK(CancelRTO(c, frame), frame), frame.largest)) = d
  BY DEF ProcessClientACK, b, e, f, largest
<1> HIDE DEF d
<1>11. InWindow(c, d)
  <2>1. ClientInv(c) /\ ClientInv(b) /\ ClientInv(f)
    BY <1>1, <1>7 DEF Fresh, Going
  <2>2. c.Bytes_in_flight \in Nat /\ b.Bytes_in_flight \in Nat /\ f.Bytes_in_flight \in Nat
    BY <2>1, FlightType
  <2>3. f.Bytes_in_flight <= c.Bytes_in_flight
    BY <1>2, <1>4, <1>6 DEF Calm
  <2>4. d.Bytes_in_flight \in Nat
    <3>1. Going(e, d, A)
      <4>1. f.phase # "closed"
        <5>1. e.phase # "closed"
          BY <1>1, <1>3
        <5>2. f.phase = e.phase
          <6>1. Going(e, e, A)
            BY <1>3, FreshGoing
          <6> QED
            BY <1>5, <6>1, UpdateLostGoing DEF f
        <5> QED
          BY <5>1, <5>2
      <4> QED
        BY <1>5, <1>7, <4>1, SendReadyGoing DEF d
    <3> QED
      BY <3>1, FlightType DEF Going
  <2> QED
    BY <1>9, <2>2, <2>3, <2>4 DEF InWindow
<1>12. Reacts(c, d)
  <2>1. SameWindow(c.cc, e.cc)
    BY <1>2, <1>4 DEF SameWindow
  <2>2. f.cc \in RenoType
    BY <1>6 DEF Calm
  <2>3. SentAtMost(e) = SentAtMost(c)
    BY <1>1, <1>3 DEF SentAtMost
  <2>4. SentAtMost(c) < Word =>
          e.cc.snd_una <= e.cc.snd_max /\ e.cc.snd_max <= SentAtMost(c)
    <3>1. /\ e.Bytes_in_flight \in Nat /\ TotalSize(ByNumber(e.ooo)) \in Nat
          /\ e.cc.snd_una \in Nat /\ e.cc.snd_max \in Nat /\ e.send_unacked \in Nat
      BY <1>4, <1>5, FlightType DEF InSequence, RenoType
    <3> QED
      BY <1>4, <2>3, <3>1 DEF InSequence
  <2> QED
    BY <1>5, <1>6, <1>9, <2>1, <2>2, <2>4 DEF Reacts
<1> QED
  BY <1>9, <1>10, <1>11, <1>12

LEMMA ExpireSteady ==
  ASSUME NEW c, Fresh(c), InSequence(c), NEW number
  PROVE  LET d == ExpireRTO(c, number)
         IN  /\ InSequence(d) /\ d.cc = ProcessRexmitTimer(c.cc)
             /\ d.Bytes_in_flight = c.Bytes_in_flight
<1> DEFINE p == FindPacket(c.queue, number)
           again == RetransmitPacket(c, p)
           d == ExpireRTO(c, number)
           cc0 == c.cc
<1>1. IsClient(c) /\ c.packet_counter \in Nat /\ cc0 \in RenoType
  BY DEF Fresh, ClientInv, ClientType, InSequence
<1>2. d = [TakeForRetransmission(c, p) EXCEPT
             !.cc = ProcessRexmitTimer(@),
             !.queue = Append(@, again),
             !.out = Append(@, again),
             !.timers = @ \cup {again.number}]
  BY DEF ExpireRTO
<1> HIDE DEF p, again, d
<1>3. /\ d.cc = ProcessRexmitTimer(cc0) /\ d.send_unacked = c.send_unacked
      /\ d.ooo = c.ooo /\ d.Bytes_in_flight = c.Bytes_in_flight
      /\ d.packet_counter = c.packet_counter + 1
  BY <1>1, <1>2 DEF TakeForRetransmission, IsClient, ClientFields
<1>4. /\ d.cc \in RenoType /\ d.cc.snd_max = cc0.snd_max /\ d.cc.snd_una = cc0.snd_una
  <2> HIDE DEF cc0
  <2> QED
    BY <1>1, <1>3, RenoCalls
<1>5. d.packet_counter \in Nat /\ c.packet_counter <= d.packet_counter
  BY <1>1, <1>3
<1>6. Calm(c, d)
  BY <1>3, <1>4, <1>5 DEF Calm
<1>7. InSequence(d)
  BY <1>1, <1>5, <1>6, CalmKeepsSequence
<1> QED
  BY <1>3, <1>7 DEF d

Windows == INSTANCE FoldTheorems WITH op <- LAMBDA sum, s : sum + s.window

LEMMA SumStreamWindowsType ==
  ASSUME NEW streams, NEW n \in Nat, DOMAIN streams = 1 .. n,
         \A k \in 1 .. n : streams[k].window \in Int
  PROVE  SumStreamWindows(streams) \in Int
<1> DEFINE T == [k \in 0 .. n |-> Int]
<1>1. SumStreamWindows(streams) = Windows!Fold(0, streams)
  BY DEF SumStreamWindows, Windows!Fold, FoldLeft, MapThenFoldSet, Max,
     Windows!MapThenFoldSet, Windows!Largest
<1>2. \A k \in 1 .. n : \A a \in T[k - 1] : a + streams[k].window \in T[k]
  OBVIOUS
<1>3. 0 \in T[0] /\ T[n] = Int
  OBVIOUS
<1> HIDE DEF T
<1>4. Windows!Fold(0, streams) \in T[n]
  BY <1>2, <1>3, Windows!FoldInvariant
<1> QED
  BY <1>1, <1>3, <1>4

\* The response starts with a window of two packets.
LEMMA HandshakeSteady ==
  ASSUME NEW c, Resting(c), Idle(c), InSequence(c), ~c.cc.lossRecovery
  PROVE  LET d == SendReadyPackets(ProcessClientHandshakeResponse(c))
         IN  /\ InSequence(d) /\ InWindow(c, d)
             /\ d.cc.snd_mss = MaxPayload /\ d.cc.snd_cwnd = MaxPayload * 2
             /\ d.cc.ssthresh = Word - 1 /\ ~d.cc.lossRecovery
             /\ Short(c) => Short(d)
<1> DEFINE streams == SetAllStreamsWindows(c.streams, StreamWindow)
           wnd == Minimum(ConnectionWindow, SumStreamWindows(streams))
           b == ProcessClientHandshakeResponse(c)
           d == SendReadyPackets(b)
           A == {}
<1>1. /\ IsClient(c) /\ c.cc \in RenoType /\ c.streams \in Seq(Stream)
      /\ ClientInv(c)
  BY DEF Resting, ClientInv, ClientType, Streams, InSequence
<1>2. wnd \in Int
  <2> DEFINE n == Len(c.streams)
  <2>1. n \in Nat /\ DOMAIN c.streams = 1 .. n
    BY <1>1
  <2>2. DOMAIN streams = 1 .. n
    BY <2>1 DEF SetAllStreamsWindows
  <2>3. ASSUME NEW k \in 1 .. n PROVE streams[k].window \in Int
    <3> DEFINE s == c.streams[k]
    <3>1. s \in Stream
      BY <1>1, <2>1
    <3>2. streams[k] = [s EXCEPT !.window = StreamWindow - (s.size - BytesLeft(s))]
      BY <2>1 DEF SetAllStreamsWindows
    <3> HIDE DEF s, streams
    <3>3. StreamWindow - (s.size - BytesLeft(s)) \in Int
      BY <3>1, ClientAssumption DEF Stream, BytesLeft
    <3> QED
      BY <3>1, <3>2, <3>3 DEF Stream
  <2> HIDE DEF streams, n
  <2>4. SumStreamWindows(streams) \in Int
    BY <2>1, <2>2, <2>3, SumStreamWindowsType
  <2> QED
    BY <2>4, ClientAssumption DEF Minimum
<1>3. b = [c EXCEPT !.phase = "open", !.streams = streams,
                !.queue = WithoutNumbers(@, {InitialNumber}),
                !.timers = @ \ {InitialNumber},
                !.cc = SetTransport(@, MaxPayload, wnd)]
  BY DEF ProcessClientHandshakeResponse
<1>4. Fresh(b) /\ Going(c, b, A)
  BY IdleUnanswered, ResponseGoing
<1> HIDE DEF streams, wnd, b, A
<1>5. /\ b.cc = SetTransport(c.cc, MaxPayload, wnd)
      /\ b.send_unacked = c.send_unacked /\ b.ooo = c.ooo
      /\ b.Bytes_in_flight = c.Bytes_in_flight /\ b.packet_counter = c.packet_counter
      /\ b.failed = c.failed
  BY <1>1, <1>3 DEF IsClient, ClientFields
<1>6. /\ b.cc \in RenoType /\ b.cc.snd_max = c.cc.snd_max /\ b.cc.snd_una = c.cc.snd_una
      /\ b.cc.snd_mss = MaxPayload /\ b.cc.snd_cwnd = MaxPayload * 2
      /\ b.cc.ssthresh = Word - 1 /\ ~b.cc.lossRecovery
  <2>1. MaxPayload \in Nat /\ MaxPayload * 2 \in Nat /\ Word - 1 \in Nat
    BY ClientAssumption, WordAssumption
  <2>2. UInt(wnd) \in Nat
    BY <1>2, UIntNat
  <2> QED
    BY <1>1, <1>5, <2>1, <2>2 DEF SetTransport, RenoType
<1>7. InSequence(b)
  BY <1>5, <1>6 DEF InSequence, SentAtMost
<1>8. /\ InSequence(d) /\ SameWindow(b.cc, d.cc) /\ InWindow(b, d)
      /\ Short(b) => Short(d)
  BY <1>1, <1>4, <1>7, SendReadySteady
<1>9. Pending(b) \subseteq Pending(c)
  <2>1. \A p \in Pending(b) : p.number < c.packet_counter
    BY <1>4, <1>5 DEF Going, ClientInv, Ordered, Known
  <2> QED
    BY <1>4, <2>1 DEF Going, Turn, TurnPackets, Pending
<1>10. Short(c) => Short(b)
  BY <1>5, <1>9 DEF Short
<1> QED
  BY <1>5, <1>6, <1>8, <1>10 DEF SameWindow, InWindow, b

-----------------------------------------------------------------------------
(***************************************************************************)
(* The congestion window has room for a packet, and grows by a packet at   *)
(* most with every call; k counts the calls.                               *)
(***************************************************************************)
WindowAt(cc, k) ==
  /\ cc.snd_mss = MaxPayload
  /\ MaxPayload <= cc.snd_cwnd /\ cc.snd_cwnd <= k * MaxPayload
  /\ MaxPayload <= cc.ssthresh
  /\ cc.lossRecovery => cc.ssthresh <= k * MaxPayload

LEMMA SameWindowAt ==
  ASSUME NEW cc, NEW dd, NEW k, WindowAt(cc, k), SameWindow(cc, dd)
  PROVE  WindowAt(dd, k)
BY DEF WindowAt, SameWindow

LEMMA WindowGrows ==
  ASSUME NEW cc \in RenoType, NEW j \in Nat, NEW k \in Nat, j <= k, WindowAt(cc, j)
  PROVE  WindowAt(cc, k)
<1>1. j * MaxPayload \in Nat /\ k * MaxPayload \in Nat /\ j * MaxPayload <= k * MaxPayload
  BY SentGrows
<1>2. cc.snd_cwnd \in Nat /\ cc.ssthresh \in Nat
  BY DEF RenoType
<1> QED
  BY <1>1, <1>2 DEF WindowAt

\* A threshold computed after a loss is between two packets and the window.
LEMMA ThresholdWithin ==
  ASSUME NEW cc \in RenoType, NEW k \in Nat, k >= 2, WindowAt(cc, k)
  PROVE  LET threshold == RecalculateSlowStartThreshold(cc)
         IN  /\ threshold \in Nat
             /\ MaxPayload <= threshold /\ threshold <= k * MaxPayload
<1> DEFINE half == Lesser(cc.snd_cwnd, cc.snd_wnd) \div 2
<1>1. /\ cc.snd_cwnd \in Nat /\ cc.snd_wnd \in Nat /\ cc.snd_mss = MaxPayload
      /\ MaxPayload \in Nat /\ cc.snd_cwnd <= k * MaxPayload
  BY ClientAssumption DEF RenoType, WindowAt
<1>2. half \in Nat /\ half <= cc.snd_cwnd
  <2>1. Lesser(cc.snd_cwnd, cc.snd_wnd) \in Nat /\ Lesser(cc.snd_cwnd, cc.snd_wnd) <= cc.snd_cwnd
    BY <1>1 DEF Lesser
  <2> HIDE DEF Lesser
  <2> QED
    BY <1>1, <2>1
<1>3. k * MaxPayload \in Nat /\ 2 * MaxPayload <= k * MaxPayload
  BY SentGrows
<1> HIDE DEF half
<1>4. RecalculateSlowStartThreshold(cc) = Greater(half, 2 * MaxPayload)
  BY <1>1 DEF RecalculateSlowStartThreshold, half
<1> QED
  BY <1>1, <1>2, <1>3, <1>4 DEF Greater

\* Congestion avoidance adds at most a packet.
LEMMA IncrementWithin ==
  ASSUME NEW cc \in RenoType, cc.snd_mss = MaxPayload, MaxPayload <= cc.snd_cwnd
  PROVE  Increment(cc) \in Nat /\ Increment(cc) <= MaxPayload
<1> DEFINE m == MaxPayload
           w == cc.snd_cwnd
           n == UInt(m * m)
<1>1. m \in Nat /\ m >= 1 /\ w \in Nat /\ w >= m
  BY ClientAssumption DEF RenoType
<1>2. m * m \in Nat
  BY <1>1
<1>3. n \in Nat /\ n <= m * m
  <2> DEFINE x == m * m
  <2>1. x \in Nat
    BY <1>2
  <2> HIDE DEF x
  <2>2. UInt(x) \in Nat /\ UInt(x) <= x
    BY <2>1, UIntNat
  <2> QED
    BY <2>2 DEF x
<1>4. Increment(cc) = Greater(n \div w, 1)
  BY DEF Increment
<1> HIDE DEF n, w, m
<1>5. n \div w \in Nat
  BY <1>1, <1>3
<1>6. n <= m * w
  BY <1>1, <1>3
<1>7. n \div w <= m
  BY <1>1, <1>3, <1>5, <1>6
<1> QED
  BY <1>1, <1>4, <1>5, <1>7 DEF Greater, m

LEMMA TimerWindow ==
  ASSUME NEW cc \in RenoType, NEW k \in Nat, k >= 2, WindowAt(cc, k)
  PROVE  WindowAt(ProcessRexmitTimer(cc), k)
<1> DEFINE threshold == RecalculateSlowStartThreshold(cc)
           dd == ProcessRexmitTimer(cc)
<1>1. threshold \in Nat /\ MaxPayload <= threshold /\ threshold <= k * MaxPayload
  BY ThresholdWithin
<1>2. /\ dd.snd_mss = cc.snd_mss /\ dd.snd_cwnd = cc.snd_mss
      /\ dd.ssthresh = threshold /\ ~dd.lossRecovery
  BY DEF ProcessRexmitTimer, RenoType
<1> HIDE DEF threshold, dd
<1>3. MaxPayload \in Nat /\ MaxPayload <= k * MaxPayload
  <2>1. k * MaxPayload \in Nat /\ 1 * MaxPayload <= k * MaxPayload
    BY SentGrows
  <2> QED
    BY <2>1, ClientAssumption
<1> QED
  BY <1>1, <1>2, <1>3 DEF WindowAt, dd

LEMMA ReactionWindow ==
  ASSUME NEW cc \in RenoType, NEW dd \in RenoType, NEW k \in Nat, k >= 2,
         WindowAt(cc, k), Reaction(cc, dd), cc.snd_una <= cc.snd_max,
         cc.snd_max + MaxPayload < Word, (k + 1) * MaxPayload < Word
  PROVE  WindowAt(dd, k + 1)
<1> DEFINE m == MaxPayload
<1>1. /\ cc.snd_cwnd \in Nat /\ cc.ssthresh \in Nat /\ cc.snd_mss = m
      /\ cc.snd_una \in Nat /\ cc.snd_max \in Nat
      /\ m \in Nat /\ Word \in Nat
      /\ m <= cc.snd_cwnd /\ cc.snd_cwnd <= k * m /\ m <= cc.ssthresh
      /\ cc.lossRecovery => cc.ssthresh <= k * m
  BY ClientAssumption, WordAssumption DEF RenoType, WindowAt
<1>2. k * m \in Nat /\ (k + 1) * m = k * m + m /\ (k + 1) * m \in Nat
  BY SentGrows
<1> DEFINE km == k * m
           top == (k + 1) * m
<1>3. km \in Nat /\ top \in Nat /\ top = km + m /\ top < Word
  BY <1>2
<1>4. WindowAt(dd, k + 1) <=>
        /\ dd.snd_mss = m
        /\ m <= dd.snd_cwnd /\ dd.snd_cwnd <= top
        /\ m <= dd.ssthresh
        /\ dd.lossRecovery => dd.ssthresh <= top
  BY DEF WindowAt
<1>5. CASE dd = cc
  <2>1. cc.snd_cwnd <= km /\ (cc.lossRecovery => cc.ssthresh <= km)
    BY <1>1
  <2> HIDE DEF km, top, m
  <2> QED
    BY <1>1, <1>3, <1>4, <1>5, <2>1
<1>6. CASE dd = InflateCwnd(cc)
  <2>1. /\ dd.snd_mss = cc.snd_mss /\ dd.ssthresh = cc.ssthresh
        /\ dd.lossRecovery = cc.lossRecovery
        /\ dd.snd_cwnd = UInt(cc.snd_cwnd + cc.snd_mss)
    BY <1>6 DEF InflateCwnd, RenoType
  <2>2. cc.snd_cwnd <= km /\ (cc.lossRecovery => cc.ssthresh <= km)
    BY <1>1
  <2> HIDE DEF km, top, m
  <2>3. cc.snd_cwnd + cc.snd_mss \in Nat /\ cc.snd_cwnd + cc.snd_mss < Word
    BY <1>1, <1>3, <2>2
  <2>4. dd.snd_cwnd = cc.snd_cwnd + cc.snd_mss
    BY <2>1, <2>3, UIntSmall
  <2> QED
    BY <1>1, <1>3, <1>4, <2>1, <2>2, <2>4
<1>7. CASE dd = ReceivedDuplicateAck(cc) /\ dd # cc
  <2> DEFINE threshold == RecalculateSlowStartThreshold(cc)
  <2>1. threshold \in Nat /\ m <= threshold /\ threshold <= km
    BY ThresholdWithin
  <2> HIDE DEF threshold
  <2>2. /\ dd.snd_mss = cc.snd_mss /\ dd.ssthresh = threshold
        /\ dd.snd_cwnd = threshold
    BY <1>7 DEF ReceivedDuplicateAck, RenoType, threshold
  <2> HIDE DEF km, top, m
  <2> QED
    BY <1>1, <1>3, <1>4, <2>1, <2>2
<1>8. CASE cc.lossRecovery /\ dd = ReceivedDataAck(cc)
  <2> DEFINE diff == cc.snd_max - cc.snd_una
             flight == UInt(UInt(diff) + cc.snd_mss)
  <2>1. /\ dd.snd_mss = cc.snd_mss /\ dd.ssthresh = cc.ssthresh
        /\ ~dd.lossRecovery /\ dd.snd_cwnd = Lesser(cc.ssthresh, flight)
    BY <1>8 DEF ReceivedDataAck, RenoType
  <2>2. cc.ssthresh <= km
    BY <1>1, <1>8
  <2>3. diff \in Nat /\ diff < Word /\ diff + m \in Nat /\ diff + m < Word
    BY <1>1
  <2> HIDE DEF diff
  <2>4. flight = diff + m
    BY <1>1, <2>3, UIntSmall
  <2> HIDE DEF km, top, m, flight
  <2>5. /\ m \in Nat /\ cc.ssthresh \in Nat /\ m <= cc.ssthresh
        /\ dd.snd_cwnd \in Nat /\ km \in Nat
    BY <1>1, <1>3 DEF RenoType
  <2>6. m <= flight /\ flight \in Nat
    BY <2>3, <2>4, <2>5
  <2>7. m <= dd.snd_cwnd /\ dd.snd_cwnd <= km
    BY <2>1, <2>2, <2>5, <2>6 DEF Lesser
  <2> QED
    BY <1>1, <1>3, <1>4, <2>1, <2>5, <2>7
<1>9. CASE ~cc.lossRecovery /\ dd = ReceivedDataAck(cc)
  <2> DEFINE add == IF cc.snd_cwnd < cc.ssthresh THEN cc.snd_mss ELSE Increment(cc)
  <2>1. add \in Nat /\ add <= m
    <3>1. Increment(cc) \in Nat /\ Increment(cc) <= m
      BY <1>1, IncrementWithin
    <3> QED
      BY <1>1, <3>1
  <2>2. dd = [cc EXCEPT !.snd_cwnd = UInt(cc.snd_cwnd + add),
                        !.recover = UInt(cc.snd_una - 2)]
    BY <1>9 DEF ReceivedDataAck, RenoType
  <2> HIDE DEF add
  <2>3. /\ dd.snd_mss = cc.snd_mss /\ dd.ssthresh = cc.ssthresh
        /\ dd.lossRecovery = cc.lossRecovery
        /\ dd.snd_cwnd = UInt(cc.snd_cwnd + add)
    BY <2>2 DEF RenoType
  <2>4. cc.snd_cwnd <= km
    BY <1>1
  <2> HIDE DEF km, top, m
  <2>5. cc.snd_cwnd + add \in Nat /\ cc.snd_cwnd + add < Word
    BY <1>1, <1>3, <2>1, <2>4
  <2>6. dd.snd_cwnd = cc.snd_cwnd + add
    BY <2>3, <2>5, UIntSmall
  <2> QED
    BY <1>1, <1>3, <1>4, <1>9, <2>1, <2>3, <2>4, <2>6
<1> QED
  BY <1>5, <1>6, <1>7, <1>8, <1>9 DEF Reaction
-----------------------------------------------------------------------------
(***************************************************************************)
(* What ends the simulation.  The window may wrap to zero, but then it is  *)
(* below the threshold, and the quotient by it is not taken.               *)
(***************************************************************************)
Floored(cc) == cc.snd_mss = MaxPayload /\ cc.ssthresh > 0

LEMMA FlooredDivides ==
  ASSUME NEW cc \in RenoType, Floored(cc)
  PROVE  ~DividesByZero(cc)
BY DEF RenoType, Floored, DividesByZero

LEMMA SameFloored ==
  ASSUME NEW cc, NEW dd, Floored(cc), SameWindow(cc, dd)
  PROVE  Floored(dd)
BY DEF Floored, SameWindow

LEMMA ThresholdFloored ==
  ASSUME NEW cc \in RenoType, Floored(cc)
  PROVE  RecalculateSlowStartThreshold(cc) > 0
<1> DEFINE half == Lesser(cc.snd_cwnd, cc.snd_wnd) \div 2
<1>1. cc.snd_cwnd \in Nat /\ cc.snd_wnd \in Nat /\ cc.snd_mss \in Nat /\ cc.snd_mss > 0
  BY ClientAssumption DEF RenoType, Floored
<1>2. Lesser(cc.snd_cwnd, cc.snd_wnd) \in Nat
  BY <1>1 DEF Lesser
<1>3. half \in Nat
  <2> HIDE DEF Lesser
  <2> QED
    BY <1>2
<1>4. RecalculateSlowStartThreshold(cc) = Greater(half, 2 * cc.snd_mss)
  BY DEF RecalculateSlowStartThreshold
<1> HIDE DEF half
<1> QED
  BY <1>1, <1>3, <1>4 DEF Greater

LEMMA CallsFloored ==
  ASSUME NEW cc \in RenoType, Floored(cc)
  PROVE  /\ Floored(ProcessRexmitTimer(cc))
         /\ \A dd : Reaction(cc, dd) => Floored(dd)
<1> DEFINE threshold == RecalculateSlowStartThreshold(cc)
<1>1. threshold > 0
  BY ThresholdFloored
<1> HIDE DEF threshold
<1>2. Floored(ProcessRexmitTimer(cc))
  BY <1>1 DEF ProcessRexmitTimer, RenoType, Floored, threshold
<1>3. Floored(InflateCwnd(cc))
  BY DEF InflateCwnd, RenoType, Floored
<1>4. Floored(ReceivedDuplicateAck(cc))
  BY <1>1 DEF ReceivedDuplicateAck, RenoType, Floored, threshold
<1>5. Floored(ReceivedDataAck(cc))
  BY DEF ReceivedDataAck, RenoType, Floored
<1> QED
  BY <1>2, <1>3, <1>4, <1>5 DEF Reaction

LEMMA ReceiveAckShort ==
  ASSUME NEW c, Fresh(c), NEW frame, AckFrame(frame), c.phase # "closed", InSequence(c),
         Short(c), Floored(c.cc)
  PROVE  LET d == SendReadyPackets(
                    UpdateLostPackets(
                      ProcessClientACK(CancelRTO(c, frame), frame),
                      frame.largest))
         IN  Short(d) /\ Floored(d.cc)
<1> DEFINE b == RemoveAcked(CancelRTO(c, frame), frame)
           e == RemoveOutOfOrder(b, frame)
           largest == frame.largest
           f == UpdateLostPackets(e, largest)
           d == SendReadyPackets(f)
           A == {}
<1>1. Fresh(b) /\ ToSet(b.queue) \subseteq ToSet(c.queue)
  BY RemoveAckedFresh
<1>2. InSequence(b) /\ SameWindow(c.cc, b.cc)
  BY AckKeepsSequence
<1>3. IsClient(c)
  BY DEF Fresh, ClientInv, ClientType
<1>4. b.waiting = c.waiting
  BY <1>3, AckFields
<1>5. b.failed = c.failed
  BY <1>3 DEF RemoveAcked, CancelRTO, IsClient, ClientFields
<1> HIDE DEF b
<1>6. Short(b)
  BY <1>1, <1>4, <1>5 DEF Short, Pending
<1>7. Fresh(e) /\ e.queue = b.queue
  BY <1>1, OutOfOrderFresh
<1>8. InSequence(e) /\ SameWindow(b.cc, e.cc)
  BY <1>1, <1>2, OutOfOrderKeepsSequence
<1>9. e.waiting = b.waiting /\ e.failed = b.failed
  BY <1>1 DEF RemoveOutOfOrder, Fresh, ClientInv, ClientType, IsClient, ClientFields
<1> HIDE DEF e, largest
<1>10. Short(e)
  BY <1>6, <1>7, <1>9 DEF Short, Pending
<1>11. /\ ClientInv(e) /\ ClientType(e) /\ Ordered(e) /\ e.cc \in RenoType
       /\ e.packet_counter \in Nat
  BY <1>7, <1>8 DEF Fresh, ClientInv, ClientType, InSequence
<1>12. Floored(e.cc)
  <2> DEFINE v == c.cc
             x == b.cc
             y == e.cc
  <2>1. Floored(v) /\ SameWindow(v, x) /\ SameWindow(x, y)
    BY <1>2, <1>8
  <2> HIDE DEF v, x, y
  <2>2. Floored(y)
    BY <2>1, SameFloored
  <2> QED
    BY <2>2 DEF y
<1>13. ~DividesByZero(e.cc)
  BY <1>11, <1>12, FlooredDivides
<1>14. Calm(e, f) /\ Reaction(e.cc, f.cc)
  BY <1>11, LostCalm
<1>15. Going(e, f, A) /\ Short(f)
  <2> HIDE DEF A
  <2>1. Going(e, e, A)
    BY <1>7, FreshGoing
  <2> QED
    BY <1>10, <1>11, <1>13, <2>1, UpdateLostGoing
<1> HIDE DEF f, A
<1>16. Floored(f.cc)
  BY <1>11, <1>12, <1>14, CallsFloored
<1>17. InSequence(f)
  BY <1>8, <1>11, <1>14, <1>15, CalmKeepsSequence DEF Going, ClientInv, ClientType
<1>18. Short(d) /\ SameWindow(f.cc, d.cc)
  BY <1>11, <1>15, <1>17, SendReadySteady
<1>19. SendReadyPackets(UpdateLostPackets(
         ProcessClientACK(CancelRTO(c, frame), frame), frame.largest)) = d
  BY DEF ProcessClientACK, b, e, f, largest
<1> HIDE DEF d
<1>20. Floored(d.cc)
  BY <1>16, <1>18, SameFloored
<1> QED
  BY <1>18, <1>19, <1>20

LEMMA ExpireShort ==
  ASSUME NEW c, Fresh(c), InSequence(c), NEW number \in c.timers, Short(c), Floored(c.cc)
  PROVE  LET d == ExpireRTO(c, number)
         IN  Short(d) /\ Floored(d.cc)
<1> DEFINE p == FindPacket(c.queue, number)
           again == RetransmitPacket(c, p)
           rest == WithoutNumbers(c.queue, {p.number})
           d == ExpireRTO(c, number)
<1>1. ClientType(c) /\ Ordered(c) /\ IsClient(c) /\ c.queue \in Seq(Packet) /\ c.cc \in RenoType
  BY DEF Fresh, ClientInv, ClientType, InSequence
<1>2. /\ d.queue = Append(rest, again) /\ d.waiting = c.waiting /\ d.failed = c.failed
  BY <1>1 DEF ExpireRTO, TakeForRetransmission, IsClient, ClientFields
<1>3. d.cc = ProcessRexmitTimer(c.cc)
  BY ExpireSteady
<1>4. p \in ToSet(c.queue)
  BY <1>1, FindPacketIs DEF Fresh, Timed
<1> HIDE DEF p, d
<1>5. again.long = p.long
  <2>1. p \in Packet /\ p.number < c.packet_counter /\ c.packet_counter \in Nat
    BY <1>1, <1>4, CreateSets DEF ClientType
  <2> QED
    BY <2>1, RetransmitPacketIs
<1>6. rest \in Seq(Packet) /\ ToSet(rest) \subseteq ToSet(c.queue)
  <2>1. rest \in Seq(Packet)
    BY <1>1, WithoutIs
  <2>2. ToSet(rest) = ToSet(c.queue) \ {p}
    BY <1>1, <1>4, TakeOut DEF Ordered
  <2> QED
    BY <2>1, <2>2
<1>7. ~p.long /\ ~c.failed /\ \A x \in ToSet(c.queue) \cup ToSet(c.waiting) : ~x.long
  BY <1>4 DEF Short, Pending
<1> HIDE DEF again, rest
<1>8. \A x \in ToSet(Append(rest, again)) : x \in ToSet(rest) \/ x = again
  BY <1>6 DEF ToSet
<1>9. Short(d)
  BY <1>2, <1>5, <1>6, <1>7, <1>8 DEF Short, Pending
<1>10. Floored(d.cc)
  BY <1>1, <1>3, CallsFloored
<1> QED
  BY <1>9, <1>10 DEF d

-----------------------------------------------------------------------------
(***************************************************************************)
(* The congestion control on its own, from the response of the server on:  *)
(* a connection makes its calls in an order that depends on its queue and  *)
(* on the network; here any call may come at any time, and packets may     *)
(* have any size.  As long as the window and the flight size stay below a  *)
(* word, the window never falls below a packet.                            *)
(***************************************************************************)
Word32 == 0 .. Word - 1

CongestionType ==
  [snd_cwnd : Word32, snd_wnd : Word32, snd_mss : Word32, ssthresh : Word32,
   recover : Word32, snd_max : Word32, snd_una : Word32, lossRecovery : BOOLEAN]

\* The response of the server sets the transport parameters, whatever a 0-RTT
\* connection did before.
CongestionInit ==
  \E before \in CongestionType, max_payload \in Word32, wnd \in Nat :
    /\ max_payload >= 1 /\ 2 * max_payload < Word
    /\ client.cc = SetTransport(before, max_payload, wnd)

\* The sums of the code do not wrap.
SumsFit(cc) ==
  /\ cc.snd_cwnd + cc.snd_mss < Word
  /\ UInt(cc.snd_max - cc.snd_una) + cc.snd_mss < Word

CongestionCall(cc, dd) ==
  \/ dd = ProcessRexmitTimer(cc)
  \/ dd = ReceivedDataAck(cc)
  \/ dd = ReceivedDuplicateAck(cc)
  \/ dd = InflateCwnd(cc)
  \/ \E bytes \in Nat : dd = SetSndMax(cc, bytes) \/ dd = SetSndUna(cc, bytes)

CongestionNext == SumsFit(client.cc) /\ CongestionCall(client.cc, client.cc')

CongestionSpec == CongestionInit /\ [][CongestionNext]_(client.cc)

\* A full packet fits the window.
WindowHasPacket == client.cc.snd_cwnd >= client.cc.snd_mss

\* The threshold bounds the window when a recovery ends, so it must not be
\* below a packet either.
WindowInv(cc) ==
  /\ cc \in CongestionType
  /\ cc.snd_mss >= 1 /\ 2 * cc.snd_mss < Word
  /\ cc.snd_cwnd >= cc.snd_mss
  /\ cc.ssthresh >= cc.snd_mss

LEMMA UIntType == \A n \in Int : UInt(n) \in Word32
BY WordAssumption DEF UInt, Word32

LEMMA UIntOfWord == \A n \in Word32 : UInt(n) = n
BY WordAssumption DEF UInt, Word32

LEMMA CongestionFields ==
  ASSUME NEW cc, cc \in CongestionType
  PROVE  /\ {cc.snd_cwnd, cc.snd_wnd, cc.snd_mss, cc.ssthresh, cc.recover,
              cc.snd_max, cc.snd_una} \subseteq Word32
         /\ {cc.snd_cwnd, cc.snd_wnd, cc.snd_mss, cc.ssthresh, cc.recover,
              cc.snd_max, cc.snd_una} \subseteq Nat
         /\ cc.lossRecovery \in BOOLEAN
BY WordAssumption DEF CongestionType, Word32

\* A threshold computed after a loss is not below a packet.
LEMMA ThresholdBound ==
  ASSUME NEW cc, WindowInv(cc)
  PROVE  /\ RecalculateSlowStartThreshold(cc) \in Word32
         /\ RecalculateSlowStartThreshold(cc) >= cc.snd_mss
<1>1. /\ cc.snd_cwnd \in Word32 /\ cc.snd_wnd \in Word32
      /\ cc.snd_mss \in Nat /\ 2 * cc.snd_mss < Word
  BY CongestionFields DEF WindowInv
<1>2. Lesser(cc.snd_cwnd, cc.snd_wnd) \in Word32
  BY <1>1 DEF Lesser
<1>3. \A n \in Word32 : n \div 2 \in Word32
  BY WordAssumption DEF Word32
<1>4. Lesser(cc.snd_cwnd, cc.snd_wnd) \div 2 \in Word32
  BY <1>2, <1>3
<1> HIDE DEF Lesser
<1> QED
  BY <1>1, <1>4, WordAssumption DEF RecalculateSlowStartThreshold, Greater, Word32

\* Congestion avoidance adds at least a byte and at most a packet.
LEMMA IncrementBound ==
  ASSUME NEW cc, WindowInv(cc)
  PROVE  Increment(cc) \in Nat /\ Increment(cc) >= 1 /\ Increment(cc) <= cc.snd_mss
<1>1. /\ cc.snd_cwnd \in Nat /\ cc.snd_mss \in Nat
      /\ cc.snd_mss >= 1 /\ cc.snd_cwnd >= cc.snd_mss
  BY CongestionFields DEF WindowInv
<1>2. \A m, w \in Nat : m >= 1 /\ w >= m => \A n \in 0 .. m * m :
        n \div w \in Nat /\ n \div w <= m
  <2> SUFFICES ASSUME NEW m \in Nat, NEW w \in Nat, m >= 1, w >= m,
                      NEW n \in 0 .. m * m
               PROVE  n \div w \in Nat /\ n \div w <= m
    OBVIOUS
  <2>1. n \in Nat /\ n <= m * m
    OBVIOUS
  <2>2. n \div w \in Nat
    BY <2>1
  <2>3. n <= m * w
    BY <2>1
  <2> QED
    BY <2>1, <2>2, <2>3
<1>3. \A n \in Nat : UInt(n) \in 0 .. n
  BY WordAssumption DEF UInt
<1>4. UInt(cc.snd_mss * cc.snd_mss) \in 0 .. cc.snd_mss * cc.snd_mss
  BY <1>1, <1>3
<1>5. /\ UInt(cc.snd_mss * cc.snd_mss) \div cc.snd_cwnd \in Nat
      /\ UInt(cc.snd_mss * cc.snd_mss) \div cc.snd_cwnd <= cc.snd_mss
  BY <1>1, <1>2, <1>4
<1> HIDE DEF UInt
<1> QED
  BY <1>1, <1>5 DEF Increment, Greater

-----------------------------------------------------------------------------
LEMMA WindowInit == CongestionInit => WindowInv(client.cc)
<1> SUFFICES ASSUME NEW before \in CongestionType, NEW max_payload \in Word32,
                    NEW wnd \in Nat, max_payload >= 1, 2 * max_payload < Word,
                    client.cc = SetTransport(before, max_payload, wnd)
             PROVE  WindowInv(client.cc)
  BY DEF CongestionInit
<1>1. /\ UInt(wnd) \in Word32 /\ max_payload * 2 \in Word32
      /\ Word - 1 \in Word32 /\ Word - 1 >= max_payload
  BY UIntType, WordAssumption DEF Word32
<1>2. client.cc \in CongestionType
  BY <1>1 DEF SetTransport, CongestionType
<1> QED
  BY <1>1, <1>2, WordAssumption DEF SetTransport, WindowInv, Word32, CongestionType

LEMMA WindowStep ==
  ASSUME NEW cc, NEW dd, WindowInv(cc), SumsFit(cc), CongestionCall(cc, dd)
  PROVE  WindowInv(dd)
<1> DEFINE threshold == RecalculateSlowStartThreshold(cc)
<1>1. /\ cc.snd_cwnd \in Word32 /\ cc.snd_mss \in Word32
      /\ cc.snd_una \in Word32 /\ cc.snd_max \in Word32
      /\ cc.ssthresh \in Word32 /\ cc.snd_mss \in Nat /\ cc.snd_cwnd \in Nat
      /\ cc \in CongestionType
      /\ cc.snd_mss >= 1 /\ 2 * cc.snd_mss < Word
      /\ cc.snd_cwnd >= cc.snd_mss /\ cc.ssthresh >= cc.snd_mss
  BY CongestionFields DEF WindowInv
<1>2. threshold \in Word32 /\ threshold >= cc.snd_mss
  BY ThresholdBound
<1>3. /\ UInt(cc.snd_max - 1) \in Word32 /\ UInt(cc.snd_una - 2) \in Word32
      /\ UInt(cc.snd_max - cc.snd_una) \in Word32
  BY <1>1, UIntType DEF Word32
<1> HIDE DEF threshold
<1>4. CASE dd = ProcessRexmitTimer(cc)
  <2>1. dd = [cc EXCEPT !.recover = UInt(cc.snd_max - 1),
                         !.lossRecovery = FALSE,
                         !.ssthresh = threshold,
                         !.snd_cwnd = cc.snd_mss]
    BY <1>4 DEF ProcessRexmitTimer, threshold
  <2>2. dd \in CongestionType
    BY <1>1, <1>2, <1>3, <2>1 DEF CongestionType
  <2>3. /\ dd.snd_mss = cc.snd_mss /\ dd.snd_cwnd = cc.snd_mss
        /\ dd.ssthresh = threshold
    BY <1>1, <2>1 DEF CongestionType
  <2>4. cc.snd_mss >= cc.snd_mss
    BY <1>1
  <2> QED
    BY <1>1, <1>2, <2>2, <2>3, <2>4 DEF WindowInv
<1>5. CASE dd = ReceivedDataAck(cc)
  <2>1. CASE cc.lossRecovery
    <3> DEFINE flight == UInt(cc.snd_max - cc.snd_una)
               window == Lesser(cc.ssthresh, UInt(flight + cc.snd_mss))
    <3>1. flight + cc.snd_mss \in Word32
      BY <1>1, <1>3, <1>5, WordAssumption DEF SumsFit, Word32
    <3>2. UInt(flight + cc.snd_mss) = flight + cc.snd_mss
      BY <3>1, UIntOfWord
    <3>3. flight \in Nat
      BY <1>3, WordAssumption DEF Word32
    <3> HIDE DEF flight
    <3>4. window \in Word32 /\ window >= cc.snd_mss
      BY <1>1, <3>1, <3>2, <3>3 DEF Lesser
    <3>5. dd = [cc EXCEPT !.lossRecovery = FALSE, !.snd_cwnd = window]
      BY <1>5, <2>1 DEF ReceivedDataAck, flight
    <3> HIDE DEF window
    <3> QED
      BY <1>1, <3>4, <3>5 DEF WindowInv, CongestionType
  <2>2. CASE ~cc.lossRecovery
    <3> DEFINE more == IF cc.snd_cwnd < cc.ssthresh THEN cc.snd_mss
                       ELSE Increment(cc)
    <3>1. more \in Nat /\ more <= cc.snd_mss
      BY <1>1, IncrementBound
    <3> HIDE DEF more
    <3>2. cc.snd_cwnd + more \in Word32
      BY <1>1, <1>5, <3>1, WordAssumption DEF SumsFit, Word32
    <3>3. UInt(cc.snd_cwnd + more) = cc.snd_cwnd + more
      BY <3>2, UIntOfWord
    <3>4. dd = [cc EXCEPT !.snd_cwnd = UInt(cc.snd_cwnd + more),
                           !.recover = UInt(cc.snd_una - 2)]
      BY <1>5, <2>2 DEF ReceivedDataAck, more
    <3>5. cc.snd_cwnd + more >= cc.snd_mss
      BY <1>1, <3>1
    <3> QED
      BY <1>1, <1>3, <3>2, <3>3, <3>4, <3>5 DEF WindowInv, CongestionType
  <2> QED
    BY <2>1, <2>2
<1>6. CASE dd = ReceivedDuplicateAck(cc)
  <2>1. CASE dd = cc
    BY <1>1, <2>1 DEF WindowInv
  <2>2. CASE dd # cc
    <3>1. dd = [cc EXCEPT !.ssthresh = threshold,
                           !.recover = UInt(cc.snd_max - 1),
                           !.lossRecovery = TRUE,
                           !.snd_cwnd = threshold]
      BY <1>6, <2>2 DEF ReceivedDuplicateAck, threshold
    <3> QED
      BY <1>1, <1>2, <1>3, <3>1 DEF WindowInv, CongestionType
  <2> QED
    BY <2>1, <2>2
<1>7. CASE dd = InflateCwnd(cc)
  <2>1. cc.snd_cwnd + cc.snd_mss \in Word32
    BY <1>1, <1>7, WordAssumption DEF SumsFit, Word32
  <2>2. UInt(cc.snd_cwnd + cc.snd_mss) = cc.snd_cwnd + cc.snd_mss
    BY <2>1, UIntOfWord
  <2>3. cc.snd_cwnd + cc.snd_mss >= cc.snd_mss
    BY <1>1
  <2> QED
    BY <1>1, <1>7, <2>1, <2>2, <2>3 DEF InflateCwnd, WindowInv, CongestionType
<1>8. ASSUME NEW bytes \in Nat,
             dd = SetSndMax(cc, bytes) \/ dd = SetSndUna(cc, bytes)
      PROVE  WindowInv(dd)
  <2>1. UInt(cc.snd_max + bytes) \in Word32 /\ UInt(bytes) \in Word32
    BY <1>1, UIntType, WordAssumption DEF Word32
  <2> QED
    BY <1>1, <1>8, <2>1 DEF SetSndMax, SetSndUna, WindowInv, CongestionType
<1> QED
  BY <1>4, <1>5, <1>6, <1>7, <1>8 DEF CongestionCall

LEMMA WindowAlways == CongestionSpec => []WindowInv(client.cc)
<1>1. ASSUME WindowInv(client.cc), [CongestionNext]_(client.cc)
      PROVE  WindowInv(client.cc)'
  <2>1. CASE CongestionNext
    BY <1>1, <2>1, WindowStep DEF CongestionNext
  <2>2. CASE UNCHANGED client.cc
    BY <1>1, <2>2
  <2> QED
    BY <1>1, <2>1, <2>2
<1> QED
  BY <1>1, WindowInit, PTL DEF CongestionSpec

-----------------------------------------------------------------------------
\* No sequence of acknowledgments, losses and timeouts shrinks the congestion
\* window below a packet, so that ProcessClientSend, which sends only full
\* packets' worth of window (QuicConnectionClient.cc:175), can go on when
\* nothing is in flight.
THEOREM WindowKeepsPacket == CongestionSpec => []WindowHasPacket
<1>1. WindowInv(client.cc) => WindowHasPacket
  BY DEF WindowInv, WindowHasPacket
<1> QED
  BY <1>1, WindowAlways, PTL

\* The quotient of congestion avoidance (QuicNewReno.cc:121) has a divisor
\* that is not zero once the server has answered.
THEOREM NeverDividesByZero == CongestionSpec => []~DividesByZero(client.cc)
<1>1. WindowInv(client.cc) => ~DividesByZero(client.cc)
  BY CongestionFields DEF WindowInv, DividesByZero
<1> QED
  BY <1>1, WindowAlways, PTL

=============================================================================
