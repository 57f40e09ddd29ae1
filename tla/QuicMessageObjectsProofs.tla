---------------------- MODULE QuicMessageObjectsProofs ----------------------
(***************************************************************************)
(* Proofs about the objects of the message classes: for every class, any   *)
(* number of objects, arrays of any length and any ACK frame, no two       *)
(* objects share memory and none is lost, an object behaves like a value,  *)
(* and the client reads from an ACK frame what the server reported.        *)
(***************************************************************************)
EXTENDS QuicMessageObjects, FiniteSetTheorems, TLAPS

Concat == INSTANCE FoldTheorems WITH op <- LAMBDA buffer, packed : buffer \o packed
Takes  == INSTANCE FoldTheorems WITH op <- TakeMember

-----------------------------------------------------------------------------
(***************************************************************************)
(* Sequences.                                                              *)
(***************************************************************************)
LEMMA ConcatIs ==
  ASSUME NEW S, NEW s \in Seq(S), NEW t \in Seq(S)
  PROVE  /\ s \o t \in Seq(S) /\ Len(s \o t) = Len(s) + Len(t)
         /\ \A i \in 1 .. Len(s) : (s \o t)[i] = s[i]
         /\ \A i \in 1 .. Len(t) : (s \o t)[Len(s) + i] = t[i]
OBVIOUS

LEMMA SameSeq ==
  ASSUME NEW S, NEW s \in Seq(S), NEW t \in Seq(S), Len(s) = Len(t),
         \A i \in 1 .. Len(s) : s[i] = t[i]
  PROVE  s = t
OBVIOUS

\* What follows the same beginning is the same.
LEMMA Cancel ==
  ASSUME NEW S, NEW a \in Seq(S), NEW s \in Seq(S), NEW t \in Seq(S), a \o s = a \o t
  PROVE  s = t
<1>1. /\ Len(a) \in Nat /\ Len(s) \in Nat /\ Len(t) \in Nat
      /\ Len(a \o s) = Len(a) + Len(s) /\ Len(a \o t) = Len(a) + Len(t)
      /\ \A i \in 1 .. Len(s) : (a \o s)[Len(a) + i] = s[i]
      /\ \A i \in 1 .. Len(t) : (a \o t)[Len(a) + i] = t[i]
  BY ConcatIs
<1>2. Len(s) = Len(t)
  BY <1>1
<1>3. \A i \in 1 .. Len(s) : s[i] = t[i]
  BY <1>1, <1>2
<1> QED
  BY <1>2, <1>3, SameSeq

LEMMA Associative ==
  ASSUME NEW S, NEW a \in Seq(S), NEW s \in Seq(S), NEW t \in Seq(S)
  PROVE  (a \o s) \o t = a \o (s \o t)
OBVIOUS

\* A counted part of a buffer is taken off again.
LEMMA TakeCounted ==
  ASSUME NEW S, NEW x \in S, NEW e \in Seq(S), NEW rest \in Seq(S)
  PROVE  LET buffer == (<<x>> \o e) \o rest
         IN  /\ Head(buffer) = x
             /\ SubSeq(buffer, 2, Len(e) + 1) = e
             /\ SubSeq(buffer, Len(e) + 2, Len(buffer)) = rest
<1> DEFINE n == Len(e)
           m == Len(rest)
           one == <<x>>
           part == one \o e
           buffer == part \o rest
<1>1. n \in Nat /\ m \in Nat /\ one \in Seq(S) /\ Len(one) = 1 /\ one[1] = x
  OBVIOUS
<1> HIDE DEF one
<1>2. /\ part \in Seq(S) /\ Len(part) = n + 1 /\ part[1] = x
      /\ \A i \in 1 .. n : part[1 + i] = e[i]
  <2>0. one \in Seq(S)
    BY <1>1
  <2>1. /\ part \in Seq(S) /\ Len(part) = Len(one) + Len(e)
        /\ \A i \in 1 .. Len(one) : part[i] = one[i]
        /\ \A i \in 1 .. Len(e) : part[Len(one) + i] = e[i]
    BY <2>0, ConcatIs
  <2> HIDE DEF part
  <2> QED
    BY <1>1, <2>1
<1> HIDE DEF part
<1>3. /\ buffer \in Seq(S) /\ Len(buffer) = (n + 1) + m
      /\ \A i \in 1 .. n + 1 : buffer[i] = part[i]
      /\ \A i \in 1 .. m : buffer[(n + 1) + i] = rest[i]
  <2>0. part \in Seq(S)
    BY <1>2
  <2>1. /\ buffer \in Seq(S) /\ Len(buffer) = Len(part) + Len(rest)
        /\ \A i \in 1 .. Len(part) : buffer[i] = part[i]
        /\ \A i \in 1 .. Len(rest) : buffer[Len(part) + i] = rest[i]
    BY <2>0, ConcatIs
  <2> HIDE DEF buffer
  <2> QED
    BY <1>1, <1>2, <2>1
<1> HIDE DEF buffer
<1>4. Head(buffer) = x
  <2>1. Len(buffer) # 0 /\ 1 \in 1 .. n + 1
    BY <1>1, <1>3
  <2>2. Head(buffer) = buffer[1]
    BY <1>3, <2>1
  <2> QED
    BY <1>2, <1>3, <2>1, <2>2
<1>5. SubSeq(buffer, 2, n + 1) = e
  <2> DEFINE b == SubSeq(buffer, 2, n + 1)
  <2>1. /\ b \in Seq(S) /\ Len(b) = n /\ \A i \in 1 .. n : b[i] = buffer[1 + i]
    BY <1>1, <1>3
  <2> HIDE DEF b
  <2>2. \A i \in 1 .. n : 1 + i \in 1 .. n + 1
    BY <1>1
  <2>3. \A i \in 1 .. n : b[i] = e[i]
    BY <1>2, <1>3, <2>1, <2>2
  <2>4. b = e
    BY <2>1, <2>3, SameSeq
  <2> QED
    BY <2>4 DEF b
<1>6. SubSeq(buffer, n + 2, Len(buffer)) = rest
  <2> DEFINE b == SubSeq(buffer, n + 2, (n + 1) + m)
  <2>1. /\ b \in Seq(S) /\ Len(b) = m /\ \A i \in 1 .. m : b[i] = buffer[(n + 1) + i]
    BY <1>1, <1>3
  <2> HIDE DEF b
  <2>2. \A i \in 1 .. m : b[i] = rest[i]
    BY <1>3, <2>1
  <2>3. b = rest
    BY <2>1, <2>2, SameSeq
  <2> QED
    BY <1>3, <2>3 DEF b
<1> QED
  BY <1>4, <1>5, <1>6 DEF buffer, part, one

LEMMA TakeOne ==
  ASSUME NEW S, NEW x \in S, NEW rest \in Seq(S)
  PROVE  LET buffer == <<x>> \o rest
         IN  Head(buffer) = x /\ SubSeq(buffer, 2, Len(buffer)) = rest
<1> DEFINE one == <<x>>
           b == one \o rest
<1>1. one \in Seq(S) /\ Len(one) = 1 /\ one[1] = x
  OBVIOUS
<1> HIDE DEF one
<1>2. /\ b \in Seq(S) /\ Len(b) = Len(one) + Len(rest)
      /\ \A i \in 1 .. Len(one) : b[i] = one[i]
      /\ \A i \in 1 .. Len(rest) : b[Len(one) + i] = rest[i]
  <2>1. one \in Seq(S)
    BY <1>1
  <2> QED
    BY <2>1, ConcatIs
<1> HIDE DEF b
<1>3. Len(rest) \in Nat
  OBVIOUS
<1>4. /\ Len(b) = 1 + Len(rest) /\ b[1] = x
      /\ \A i \in 1 .. Len(rest) : b[1 + i] = rest[i]
  BY <1>1, <1>2
<1>5. Head(b) = b[1]
  BY <1>2, <1>3, <1>4
<1>6. SubSeq(b, 2, Len(b)) = rest
  <2> DEFINE c == SubSeq(b, 2, 1 + Len(rest))
  <2>1. /\ c \in Seq(S) /\ Len(c) = Len(rest)
        /\ \A i \in 1 .. Len(rest) : c[i] = b[1 + i]
    BY <1>2, <1>3, <1>4
  <2> HIDE DEF c
  <2>2. \A i \in 1 .. Len(rest) : c[i] = rest[i]
    BY <1>4, <2>1
  <2>3. c = rest
    BY <2>1, <2>2, SameSeq
  <2> QED
    BY <1>4, <2>3 DEF c
<1> QED
  BY <1>4, <1>5, <1>6 DEF b, one

-----------------------------------------------------------------------------
(***************************************************************************)
(* Memory.  The objects of Q own all blocks: each block is the array of    *)
(* one of them.                                                            *)
(***************************************************************************)
Element == [gap : Int, length : Int] \cup Int

Object(c) == [values : [DOMAIN Defaults[c] -> Int], pointer : Nat, size : Nat]

HoldsArray(c) == \E i \in DOMAIN MembersOf[c] : IsArray(c, i)

MemoryType(m, c) ==
  /\ m = [object |-> m.object, block |-> m.block]
  /\ m.object \in [Objects -> {Dead} \cup Object(c)]
  /\ DOMAIN m.block \in SUBSET (Nat \ {Null}) /\ IsFiniteSet(DOMAIN m.block)
  /\ m.block \in [DOMAIN m.block -> Seq(Element)]

\* What an object with an array knows of it.
KnowsBlock(m, c, o) ==
  /\ m.object[o] \in Object(c)
  /\ IF m.object[o].pointer = Null THEN m.object[o].size = 0
     ELSE /\ m.object[o].pointer \in DOMAIN m.block
          /\ m.object[o].size = Len(m.block[m.object[o].pointer])
          /\ HoldsArray(c)

Owned(m, c, Q) ==
  /\ MemoryType(m, c)
  /\ Q \subseteq Objects
  /\ \A o \in Q : KnowsBlock(m, c, o)
  /\ \A o, p \in Q :
       o # p /\ m.object[o].pointer = m.object[p].pointer => m.object[o].pointer = Null
  /\ \A a \in DOMAIN m.block : \E o \in Q : m.object[o].pointer = a

\* n is m with a new value in object o.
Sets(c, m, n, o, values, elements) ==
  /\ Owned(n, c, Live(n))
  /\ o \in Live(n) /\ n.object[o].values = values /\ Elements(n, o) = elements
  /\ \A p \in Objects \ {o} : n.object[p] = m.object[p]
  /\ \A p \in Live(m) \ {o} : Elements(n, p) = Elements(m, p)

LEMMA ObjectIsLive == ASSUME NEW c, NEW r \in Object(c) PROVE r # Dead
BY DEF Object, Dead

LEMMA LiveObject ==
  ASSUME NEW m, NEW c, MemoryType(m, c), NEW o \in Live(m)
  PROVE  o \in Objects /\ m.object[o] \in Object(c)
BY DEF MemoryType, Live

LEMMA ElementsAre ==
  ASSUME NEW m, NEW c, MemoryType(m, c), NEW o, KnowsBlock(m, c, o)
  PROVE  /\ Elements(m, o) = IF m.object[o].pointer = Null THEN << >>
                             ELSE m.block[m.object[o].pointer]
         /\ Elements(m, o) \in Seq(Element)
         /\ m.object[o].size = Len(Elements(m, o))
         /\ Elements(m, o) # << >> => HoldsArray(c)
<1> DEFINE a == m.object[o].pointer
           k == m.object[o].size
           e == m.block[a]
<1>1. Elements(m, o) = [i \in 1 .. k |-> IF a \in DOMAIN m.block /\ i <= Len(e)
                                          THEN e[i] ELSE Garbage]
  BY DEF Elements
<1>2. CASE a = Null
  <2>1. k = 0
    BY <1>2 DEF KnowsBlock
  <2> HIDE DEF k
  <2>2. Elements(m, o) = << >>
    BY <1>1, <2>1
  <2> QED
    BY <1>2, <2>1, <2>2 DEF k
<1>3. CASE a # Null
  <2>1. a \in DOMAIN m.block /\ k = Len(e) /\ HoldsArray(c)
    BY <1>3 DEF KnowsBlock
  <2>2. e \in Seq(Element)
    BY <2>1 DEF MemoryType
  <2> HIDE DEF a, k, e
  <2>3. Elements(m, o) = [i \in 1 .. Len(e) |-> e[i]]
    BY <1>1, <2>1, <2>2
  <2>4. Elements(m, o) = e
    BY <2>2, <2>3
  <2> QED
    BY <1>3, <2>1, <2>2, <2>4 DEF a, k, e
<1> QED
  BY <1>2, <1>3

\* There is always an address that no block has.
LEMMA Fresh ==
  ASSUME NEW D, IsFiniteSet(D)
  PROVE  \E x \in 1 .. Cardinality(D) + 1 : x \notin D
<1> DEFINE n == Cardinality(D)
<1>1. n \in Nat
  BY FS_CardinalityType
<1>2. ASSUME 1 .. n + 1 \in SUBSET D PROVE FALSE
  <2>1. Cardinality(1 .. n + 1) <= n
    BY <1>2, FS_Subset
  <2>2. Cardinality(1 .. n + 1) = n + 1
    BY <1>1, FS_Interval
  <2> QED
    BY <1>1, <2>1, <2>2
<1> QED
  BY <1>2

\* Object o of n has a block of its own with the elements, besides those of m.
Placed(m, n, o, e) ==
  \E a \in Nat :
    /\ n = [object |-> n.object, block |-> n.block]
    /\ n.object = [m.object EXCEPT ![o] = [values |-> m.object[o].values,
                                            pointer |-> a, size |-> Len(e)]]
    /\ n.block = [x \in DOMAIN n.block |-> n.block[x]]
    /\ \A x \in DOMAIN m.block : x \in DOMAIN n.block /\ n.block[x] = m.block[x]
    /\ IF e = << >> THEN a = Null /\ DOMAIN n.block = DOMAIN m.block
       ELSE /\ a # Null /\ a \notin DOMAIN m.block
            /\ DOMAIN n.block = DOMAIN m.block \cup {a}
            /\ n.block[a] = e

LEMMA Place ==
  ASSUME NEW c, NEW m, NEW n, NEW o \in Objects,
         Owned(m, c, Live(m) \ {o}), m.object[o] \in Object(c),
         NEW e \in Seq(Element), e # << >> => HoldsArray(c), Placed(m, n, o, e)
  PROVE  Sets(c, m, n, o, m.object[o].values, e)
<1> DEFINE Q == Live(m) \ {o}
           v == m.object[o].values
<1>1. PICK a \in Nat :
        /\ n = [object |-> n.object, block |-> n.block]
        /\ n.object = [m.object EXCEPT ![o] = [values |-> v, pointer |-> a, size |-> Len(e)]]
        /\ n.block = [x \in DOMAIN n.block |-> n.block[x]]
        /\ \A x \in DOMAIN m.block : x \in DOMAIN n.block /\ n.block[x] = m.block[x]
        /\ IF e = << >> THEN a = Null /\ DOMAIN n.block = DOMAIN m.block
           ELSE /\ a # Null /\ a \notin DOMAIN m.block
                /\ DOMAIN n.block = DOMAIN m.block \cup {a}
                /\ n.block[a] = e
  BY DEF Placed
<1> DEFINE new == [values |-> v, pointer |-> a, size |-> Len(e)]
<1>2. MemoryType(m, c)
  BY DEF Owned
<1>3. Len(e) \in Nat
  OBVIOUS
<1>4. new \in Object(c) /\ new.pointer = a /\ new.size = Len(e) /\ new.values = v
  BY <1>3 DEF Object
<1> HIDE DEF new
<1>5. /\ n.object \in [Objects -> {Dead} \cup Object(c)]
      /\ n.object[o] = new
      /\ \A p \in Objects \ {o} : n.object[p] = m.object[p]
  BY <1>1, <1>2, <1>4 DEF MemoryType, new
<1>6. Live(n) = Q \cup {o} /\ o \notin Q
  BY <1>4, <1>5, ObjectIsLive DEF Live
<1>7. DOMAIN n.block \in SUBSET (Nat \ {Null}) /\ IsFiniteSet(DOMAIN n.block)
  <2>1. DOMAIN m.block \in SUBSET (Nat \ {Null}) /\ IsFiniteSet(DOMAIN m.block)
    BY <1>2 DEF MemoryType
  <2>2. IsFiniteSet(DOMAIN m.block \cup {a})
    BY <2>1, FS_AddElement
  <2> QED
    BY <1>1, <2>1, <2>2
<1>8. n.block \in [DOMAIN n.block -> Seq(Element)]
  <2>1. \A x \in DOMAIN m.block : m.block[x] \in Seq(Element)
    BY <1>2 DEF MemoryType
  <2>2. \A x \in DOMAIN n.block : n.block[x] \in Seq(Element)
    BY <1>1, <2>1
  <2> QED
    BY <1>1, <2>2
<1>9. MemoryType(n, c)
  BY <1>1, <1>5, <1>7, <1>8 DEF MemoryType
<1>10. ASSUME NEW p \in Q
       PROVE  KnowsBlock(n, c, p) /\ Elements(n, p) = Elements(m, p)
  <2>1. p \in Objects /\ p # o /\ n.object[p] = m.object[p]
    BY <1>5 DEF Live
  <2>2. KnowsBlock(m, c, p)
    BY DEF Owned
  <2>3. KnowsBlock(n, c, p)
    BY <1>1, <2>1, <2>2 DEF KnowsBlock
  <2>4. /\ Elements(n, p) = IF m.object[p].pointer = Null THEN << >>
                            ELSE n.block[m.object[p].pointer]
        /\ Elements(m, p) = IF m.object[p].pointer = Null THEN << >>
                            ELSE m.block[m.object[p].pointer]
    BY <1>2, <1>9, <2>1, <2>2, <2>3, ElementsAre
  <2>5. m.object[p].pointer # Null => m.object[p].pointer \in DOMAIN m.block
    BY <2>2 DEF KnowsBlock
  <2> QED
    BY <1>1, <2>3, <2>4, <2>5
<1>11. KnowsBlock(n, c, o) /\ Elements(n, o) = e
  <2>1. /\ n.object[o] \in Object(c) /\ n.object[o].pointer = a
        /\ n.object[o].size = Len(e)
    BY <1>4, <1>5
  <2>2. CASE e = << >>
    <3>1. a = Null /\ Len(e) = 0
      BY <1>1, <2>2
    <3>2. KnowsBlock(n, c, o)
      BY <2>1, <3>1 DEF KnowsBlock
    <3> QED
      BY <1>9, <2>1, <2>2, <3>1, <3>2, ElementsAre
  <2>3. CASE e # << >>
    <3>1. a # Null /\ a \in DOMAIN n.block /\ n.block[a] = e
      BY <1>1, <2>3
    <3>2. KnowsBlock(n, c, o)
      BY <2>1, <2>3, <3>1 DEF KnowsBlock
    <3> QED
      BY <1>9, <2>1, <3>1, <3>2, ElementsAre
  <2> QED
    BY <2>2, <2>3
<1>12. \A p \in Q : m.object[p].pointer # Null => m.object[p].pointer \in DOMAIN m.block
  BY DEF Owned, KnowsBlock
<1>13. /\ \A p, q \in Q :
            p # q /\ m.object[p].pointer = m.object[q].pointer => m.object[p].pointer = Null
       /\ \A x \in DOMAIN m.block : \E p \in Q : m.object[p].pointer = x
       /\ Q \subseteq Objects
  BY DEF Owned
<1>14. a # Null => a \notin DOMAIN m.block
  BY <1>1
<1>15. /\ n.object[o].pointer = a
       /\ \A p \in Q : n.object[p].pointer = m.object[p].pointer
  BY <1>4, <1>5, <1>6, <1>13
<1> HIDE DEF Q
<1>16. \A p, q \in Live(n) :
         p # q /\ n.object[p].pointer = n.object[q].pointer => n.object[p].pointer = Null
  BY <1>6, <1>12, <1>13, <1>14, <1>15
<1>17. \A x \in DOMAIN n.block : \E p \in Live(n) : n.object[p].pointer = x
  <2>1. \A x \in DOMAIN n.block : x \in DOMAIN m.block \/ x = a
    BY <1>1
  <2> QED
    BY <1>6, <1>13, <1>15, <2>1
<1>18. Owned(n, c, Live(n))
  BY <1>6, <1>9, <1>10, <1>11, <1>13, <1>16, <1>17 DEF Owned
<1> QED
  BY <1>4, <1>5, <1>6, <1>10, <1>11, <1>18 DEF Sets, Q

\* Parts of a record, and changes of them.
LEMMA RecordParts ==
  ASSUME NEW n, NEW f, NEW b, n = [object |-> f, block |-> b]
  PROVE  n.object = f /\ n.block = b /\ n = [object |-> n.object, block |-> n.block]
OBVIOUS

LEMMA ChangeObject ==
  ASSUME NEW f, NEW b, NEW o, NEW r
  PROVE  LET m == [object |-> f, block |-> b]
         IN  [m EXCEPT !.object[o] = r] = [object |-> [f EXCEPT ![o] = r], block |-> b]
OBVIOUS

LEMMA ChangePlace ==
  ASSUME NEW c, NEW m, MemoryType(m, c), NEW o \in Objects, m.object[o] \in Object(c),
         NEW p, NEW k
  PROVE  Point(m, o, p, k)
           = [object |-> [m.object EXCEPT ![o] =
                            [values |-> m.object[o].values, pointer |-> p, size |-> k]],
              block |-> m.block]
<1> DEFINE f == m.object
           b == m.block
           T == {Dead} \cup Object(c)
           r == f[o]
           v == r.values
           g == [f EXCEPT ![o] = [r EXCEPT !.pointer = p]]
           n == [m EXCEPT !.object[o].pointer = p]
           h == [g EXCEPT ![o] = [g[o] EXCEPT !.size = k]]
<1>1. m = [object |-> f, block |-> b] /\ f \in [Objects -> T]
  BY DEF MemoryType
<1>2. r = [values |-> v, pointer |-> r.pointer, size |-> r.size]
  BY DEF Object
<1> HIDE DEF f, b, T
<1>3. n = [object |-> g, block |-> b]
  BY <1>1
<1>4. [n EXCEPT !.object[o].size = k] = [object |-> h, block |-> b]
  <2> HIDE DEF n, g
  <2> QED
    BY <1>3
<1>5. g[o] = [values |-> v, pointer |-> p, size |-> r.size]
  <2> DEFINE s == r.size
             q == r.pointer
  <2>1. r = [values |-> v, pointer |-> q, size |-> s]
    BY <1>2
  <2> HIDE DEF r, v, s, q
  <2>2. [r EXCEPT !.pointer = p] = [values |-> v, pointer |-> p, size |-> s]
    BY <2>1
  <2> QED
    BY <1>1, <2>2 DEF s
<1>6. h = [f EXCEPT ![o] = [values |-> v, pointer |-> p, size |-> k]]
  <2> DEFINE s == r.size
  <2>1. g[o] = [values |-> v, pointer |-> p, size |-> s]
    BY <1>5
  <2>2. g \in [Objects -> T \cup {g[o]}] /\ \A x \in Objects \ {o} : g[x] = f[x]
    BY <1>1
  <2> HIDE DEF g, v, s
  <2>3. [g[o] EXCEPT !.size = k] = [values |-> v, pointer |-> p, size |-> k]
    BY <2>1
  <2> QED
    BY <1>1, <2>2, <2>3
<1> QED
  BY <1>4, <1>6 DEF f, b, Point

\* What does not concern the others may happen before.
LEMMA SetsAfter ==
  ASSUME NEW c, NEW m, NEW r, NEW n, NEW o, NEW v, NEW e,
         \A p \in Objects \ {o} : r.object[p] = m.object[p],
         \A p \in Live(m) \ {o} : Elements(r, p) = Elements(m, p),
         Sets(c, r, n, o, v, e)
  PROVE  Sets(c, m, n, o, v, e)
<1>1. Live(m) \ {o} = Live(r) \ {o}
  BY DEF Live
<1> QED
  BY <1>1 DEF Sets

\* An object that owns nothing may hold anything.
LEMMA Hold ==
  ASSUME NEW c, NEW m, NEW Q, Owned(m, c, Q), NEW o \in Objects \ Q,
         NEW r \in {Dead} \cup Object(c)
  PROVE  LET n == [m EXCEPT !.object[o] = r]
         IN  /\ Owned(n, c, Q) /\ n.object = [m.object EXCEPT ![o] = r]
             /\ \A p \in Objects \ {o} : Elements(n, p) = Elements(m, p)
<1> DEFINE n == [m EXCEPT !.object[o] = r]
           object == [m.object EXCEPT ![o] = r]
<1>1. MemoryType(m, c)
  BY DEF Owned
<1>2. n = [object |-> object, block |-> m.block]
  <2> DEFINE f == m.object
             b == m.block
  <2>1. m = [object |-> f, block |-> b]
    BY <1>1 DEF MemoryType
  <2> HIDE DEF f, b
  <2> QED
    BY <2>1, ChangeObject DEF f, b
<1>3. n.object = object /\ n.block = m.block
  BY <1>2
<1> HIDE DEF n
<1>4. /\ object \in [Objects -> {Dead} \cup Object(c)] /\ object[o] = r
      /\ \A p \in Objects \ {o} : object[p] = m.object[p]
  BY <1>1 DEF MemoryType
<1> HIDE DEF object
<1>5. MemoryType(n, c)
  BY <1>1, <1>2, <1>3, <1>4 DEF MemoryType
<1>6. Q \subseteq Objects \ {o}
  BY DEF Owned
<1>7. \A p \in Objects \ {o} : Elements(n, p) = Elements(m, p)
  BY <1>3, <1>4 DEF Elements
<1>8. \A p \in Q : KnowsBlock(n, c, p)
  <2>1. \A p \in Q : KnowsBlock(m, c, p)
    BY DEF Owned
  <2> QED
    BY <1>3, <1>4, <1>6, <2>1 DEF KnowsBlock
<1>9. /\ \A p, q \in Q :
           p # q /\ n.object[p].pointer = n.object[q].pointer => n.object[p].pointer = Null
      /\ \A a \in DOMAIN n.block : \E p \in Q : n.object[p].pointer = a
  BY <1>3, <1>4, <1>6 DEF Owned
<1>10. Owned(n, c, Q)
  BY <1>5, <1>6, <1>8, <1>9 DEF Owned
<1> QED
  BY <1>3, <1>7, <1>10 DEF n, object

LEMMA ReleaseIs ==
  ASSUME NEW c, NEW m, Owned(m, c, Live(m)), NEW o \in Live(m)
  PROVE  LET n == Release(m, o)
             a == m.object[o].pointer
         IN  /\ Owned(n, c, Live(m) \ {o}) /\ n.object = m.object /\ Live(n) = Live(m)
             /\ n.block = [x \in DOMAIN m.block \ {a} |-> m.block[x]]
             /\ \A p \in Live(m) \ {o} : Elements(n, p) = Elements(m, p)
<1> DEFINE n == Release(m, o)
           a == m.object[o].pointer
           block == [x \in DOMAIN m.block \ {a} |-> m.block[x]]
           Q == Live(m) \ {o}
<1>1. MemoryType(m, c) /\ o \in Objects
  BY DEF Owned, Live
<1>2. n = [object |-> m.object, block |-> block]
  BY <1>1 DEF Release, Restrict, MemoryType
<1>3. n.object = m.object /\ n.block = block /\ n = [object |-> n.object, block |-> n.block]
  BY <1>2
<1> HIDE DEF n
<1>4. Live(n) = Live(m)
  BY <1>3 DEF Live
<1>5. /\ DOMAIN block = DOMAIN m.block \ {a}
      /\ \A x \in DOMAIN block : block[x] = m.block[x]
  OBVIOUS
<1>6. block \in [DOMAIN block -> Seq(Element)]
  BY <1>1 DEF MemoryType
<1> HIDE DEF block
<1>7. MemoryType(n, c)
  <2>1. DOMAIN m.block \in SUBSET (Nat \ {Null}) /\ IsFiniteSet(DOMAIN m.block)
    BY <1>1 DEF MemoryType
  <2>2. IsFiniteSet(DOMAIN block)
    BY <1>5, <2>1, FS_Subset
  <2>3. DOMAIN block \in SUBSET (Nat \ {Null})
    BY <1>5, <2>1
  <2>4. m.object \in [Objects -> {Dead} \cup Object(c)]
    BY <1>1 DEF MemoryType
  <2> QED
    BY <1>3, <1>6, <2>2, <2>3, <2>4 DEF MemoryType
<1>8. /\ \A p \in Live(m) : KnowsBlock(m, c, p)
      /\ \A p, q \in Live(m) :
           p # q /\ m.object[p].pointer = m.object[q].pointer => m.object[p].pointer = Null
      /\ \A x \in DOMAIN m.block : \E p \in Live(m) : m.object[p].pointer = x
  BY DEF Owned
<1>9. Q \subseteq Live(m) /\ Q \subseteq Objects /\ Q = Live(m) \ {o}
  BY DEF Live
<1> HIDE DEF Q
<1>10. ASSUME NEW p \in Q PROVE m.object[p].pointer = a => a = Null
  BY <1>8, <1>9
<1>11. ASSUME NEW p \in Q
       PROVE  KnowsBlock(n, c, p) /\ Elements(n, p) = Elements(m, p)
  <2>1. KnowsBlock(m, c, p)
    BY <1>8, <1>9
  <2>2. m.object[p].pointer # Null =>
          m.object[p].pointer \in DOMAIN block
    BY <1>5, <1>10, <2>1 DEF KnowsBlock
  <2>3. KnowsBlock(n, c, p)
    BY <1>3, <1>5, <2>1, <2>2 DEF KnowsBlock
  <2>4. /\ Elements(n, p) = IF m.object[p].pointer = Null THEN << >>
                            ELSE block[m.object[p].pointer]
        /\ Elements(m, p) = IF m.object[p].pointer = Null THEN << >>
                            ELSE m.block[m.object[p].pointer]
    BY <1>1, <1>3, <1>7, <2>1, <2>3, ElementsAre
  <2> QED
    BY <1>5, <2>2, <2>3, <2>4
<1>12. \A x \in DOMAIN block : \E p \in Q : m.object[p].pointer = x
  BY <1>5, <1>8, <1>9
<1>13. Owned(n, c, Q)
  BY <1>3, <1>7, <1>8, <1>9, <1>11, <1>12 DEF Owned
<1> QED
  BY <1>3, <1>4, <1>9, <1>11, <1>13 DEF n, block, Q

LEMMA AttachPlaces ==
  ASSUME NEW c, NEW m, MemoryType(m, c), NEW o \in Objects,
         m.object[o] \in Object(c), NEW e \in Seq(Element)
  PROVE  Placed(m, Attach(m, o, e), o, e)
<1> DEFINE n == Attach(m, o, e)
           a == CHOOSE x \in 1 .. Cardinality(DOMAIN m.block) + 1 : x \notin DOMAIN m.block
           new(p) == [values |-> m.object[o].values, pointer |-> p, size |-> Len(e)]
<1>2. m = [object |-> m.object, block |-> m.block] /\ IsFiniteSet(DOMAIN m.block)
  BY DEF MemoryType
<1>3. Cardinality(DOMAIN m.block) \in Nat
  BY <1>2, FS_CardinalityType
<1>4. a \in 1 .. Cardinality(DOMAIN m.block) + 1 /\ a \notin DOMAIN m.block
  BY <1>2, Fresh
<1>5. a \in Nat /\ a # Null
  BY <1>3, <1>4 DEF Null
<1>6. /\ m.object \in [Objects -> {Dead} \cup Object(c)]
      /\ m.block = [x \in DOMAIN m.block |-> m.block[x]]
  BY DEF MemoryType
<1>8. ASSUME NEW p, NEW k
      PROVE  Point(m, o, p, k)
               = [object |-> [m.object EXCEPT ![o] =
                                [values |-> m.object[o].values, pointer |-> p, size |-> k]],
                  block |-> m.block]
  BY ChangePlace
<1>9. CASE e = << >>
  <2>1. n = Point(m, o, Null, 0)
    BY <1>9 DEF Attach
  <2> HIDE DEF n
  <2>2. n = [object |-> [m.object EXCEPT ![o] = new(Null)], block |-> m.block]
    <3>1. Len(e) = 0
      BY <1>9
    <3> QED
      BY <1>8, <2>1, <3>1
  <2>3. /\ n.object = [m.object EXCEPT ![o] = new(Null)] /\ n.block = m.block
        /\ n = [object |-> n.object, block |-> n.block] /\ Null \in Nat
    BY <2>2 DEF Null
  <2>4. Placed(m, n, o, e)
    BY <1>6, <1>9, <2>3 DEF Placed
  <2> QED
    BY <2>4 DEF n
<1>10. CASE e # << >>
  <2> DEFINE block == [x \in DOMAIN m.block \cup {a} |->
                        IF x = a THEN e ELSE m.block[x]]
             l == Point(m, o, a, Len(e))
  <2>1. l = [object |-> [m.object EXCEPT ![o] = new(a)], block |-> m.block]
    BY <1>8
  <2>2. n = [l EXCEPT !.block = [x \in DOMAIN @ \cup {a} |->
                                   IF x = a THEN e ELSE @[x]]]
    BY <1>10 DEF Attach
  <2> HIDE DEF l, a
  <2>3. n = [object |-> [m.object EXCEPT ![o] = new(a)], block |-> block]
    <3> DEFINE f == [m.object EXCEPT ![o] = new(a)]
               b == m.block
    <3>1. l = [object |-> f, block |-> b]
      BY <2>1
    <3> HIDE DEF f, b
    <3>2. n = [object |-> f, block |-> [x \in DOMAIN b \cup {a} |->
                                          IF x = a THEN e ELSE b[x]]]
      BY <2>2, <3>1
    <3> QED
      BY <3>2 DEF f, b
  <2> HIDE DEF n
  <2>4. /\ n.object = [m.object EXCEPT ![o] = new(a)]
        /\ n.block = block /\ n = [object |-> n.object, block |-> n.block]
    BY <2>3
  <2>5. /\ DOMAIN n.block = DOMAIN m.block \cup {a}
        /\ n.block = [x \in DOMAIN n.block |-> n.block[x]]
        /\ \A x \in DOMAIN m.block : n.block[x] = m.block[x]
        /\ n.block[a] = e
    BY <1>4, <2>4 DEF a
  <2> HIDE DEF block
  <2>6. Placed(m, n, o, e)
    BY <1>4, <1>5, <1>10, <2>4, <2>5 DEF Placed, a
  <2> QED
    BY <2>6 DEF n
<1> QED
  BY <1>9, <1>10

LEMMA AttachIs ==
  ASSUME NEW c, NEW m, NEW o \in Objects, Owned(m, c, Live(m) \ {o}),
         m.object[o] \in Object(c),
         NEW e \in Seq(Element), e # << >> => HoldsArray(c)
  PROVE  Sets(c, m, Attach(m, o, e), o, m.object[o].values, e)
<1>1. MemoryType(m, c)
  BY DEF Owned
<1>2. Placed(m, Attach(m, o, e), o, e)
  BY <1>1, AttachPlaces
<1> QED
  BY <1>2, Place

LEMMA ReattachIs ==
  ASSUME NEW c, NEW m, Owned(m, c, Live(m)), NEW o \in Live(m),
         NEW e \in Seq(Element), e # << >> => HoldsArray(c)
  PROVE  Sets(c, m, Reattach(m, o, e), o, m.object[o].values, e)
<1> DEFINE r == Release(m, o)
           attached == Attach(m, o, e)
           n == Reattach(m, o, e)
           old == m.object[o].pointer
           v == m.object[o].values
<1>1. /\ Owned(r, c, Live(r) \ {o}) /\ r.object = m.object /\ Live(r) = Live(m)
      /\ r.block = [x \in DOMAIN m.block \ {old} |-> m.block[x]]
      /\ \A p \in Live(m) \ {o} : Elements(r, p) = Elements(m, p)
  <2>1. /\ Owned(r, c, Live(m) \ {o}) /\ r.object = m.object /\ Live(r) = Live(m)
        /\ r.block = [x \in DOMAIN m.block \ {old} |-> m.block[x]]
        /\ \A p \in Live(m) \ {o} : Elements(r, p) = Elements(m, p)
    BY ReleaseIs
  <2> HIDE DEF r
  <2> QED
    BY <2>1
<1>2. MemoryType(m, c) /\ KnowsBlock(m, c, o)
  BY DEF Owned
<1>3. o \in Objects /\ m.object[o] \in Object(c)
  BY <1>2, LiveObject
<1>4. old \in DOMAIN m.block \/ old = Null
  BY <1>2 DEF KnowsBlock
<1>5. Placed(m, attached, o, e)
  BY <1>2, <1>3, AttachPlaces
<1>6. PICK a \in Nat :
        /\ attached = [object |-> attached.object, block |-> attached.block]
        /\ attached.object = [m.object EXCEPT ![o] = [values |-> v, pointer |-> a,
                                                       size |-> Len(e)]]
        /\ attached.block = [x \in DOMAIN attached.block |-> attached.block[x]]
        /\ \A x \in DOMAIN m.block :
             x \in DOMAIN attached.block /\ attached.block[x] = m.block[x]
        /\ IF e = << >> THEN a = Null /\ DOMAIN attached.block = DOMAIN m.block
           ELSE /\ a # Null /\ a \notin DOMAIN m.block
                /\ DOMAIN attached.block = DOMAIN m.block \cup {a}
                /\ attached.block[a] = e
  BY <1>5 DEF Placed
<1> HIDE DEF r
<1>7. n = [attached EXCEPT !.block = Restrict(@, DOMAIN @ \ {old})]
  BY DEF Reattach
<1> HIDE DEF attached, old, n
<1>8. /\ n.object = attached.object /\ n = [object |-> n.object, block |-> n.block]
      /\ n.block = [x \in DOMAIN attached.block \ {old} |-> attached.block[x]]
  <2> DEFINE f == attached.object
             b == attached.block
  <2>1. attached = [object |-> f, block |-> b]
    BY <1>6
  <2> HIDE DEF f, b
  <2>2. n = [object |-> f, block |-> [x \in DOMAIN b \ {old} |-> b[x]]]
    BY <1>7, <2>1 DEF Restrict
  <2>3. n.object = f /\ n.block = [x \in DOMAIN b \ {old} |-> b[x]]
        /\ n = [object |-> n.object, block |-> n.block]
    BY <2>2
  <2> QED
    BY <2>3 DEF f, b
<1>9. /\ DOMAIN n.block = DOMAIN attached.block \ {old}
      /\ \A x \in DOMAIN n.block : n.block[x] = attached.block[x]
      /\ n.block = [x \in DOMAIN n.block |-> n.block[x]]
  BY <1>8
<1>10. DOMAIN r.block = DOMAIN m.block \ {old}
       /\ \A x \in DOMAIN r.block : r.block[x] = m.block[x]
  BY <1>1
<1>11. \A x \in DOMAIN r.block : x \in DOMAIN n.block /\ n.block[x] = r.block[x]
  BY <1>6, <1>9, <1>10
<1>12. IF e = << >> THEN a = Null /\ DOMAIN n.block = DOMAIN r.block
       ELSE /\ a # Null /\ a \notin DOMAIN r.block
            /\ DOMAIN n.block = DOMAIN r.block \cup {a}
            /\ n.block[a] = e
  <2>1. CASE e = << >>
    BY <1>6, <1>9, <1>10, <2>1
  <2>2. CASE e # << >>
    <3>1. a # old
      BY <1>4, <1>6, <2>2
    <3>2. /\ a # Null /\ a \notin DOMAIN m.block
          /\ DOMAIN attached.block = DOMAIN m.block \cup {a}
          /\ attached.block[a] = e
      BY <1>6, <2>2
    <3> QED
      BY <1>9, <1>10, <2>2, <3>1, <3>2
  <2> QED
    BY <2>1, <2>2
<1>13. n.object = [r.object EXCEPT ![o] = [values |-> r.object[o].values, pointer |-> a,
                                            size |-> Len(e)]]
  BY <1>1, <1>6, <1>8
<1>14. Placed(r, n, o, e)
  BY <1>8, <1>9, <1>11, <1>12, <1>13 DEF Placed
<1>15. Sets(c, r, n, o, v, e)
  BY <1>1, <1>3, <1>14, Place
<1>16. \A p \in Objects \ {o} : r.object[p] = m.object[p]
  BY <1>1
<1> QED
  BY <1>1, <1>15, <1>16, SetsAfter DEF n

LEMMA ConstructIs ==
  ASSUME NEW c \in Classes, NEW m, Owned(m, c, Live(m)), NEW o \in Objects, m.object[o] = Dead
  PROVE  Sets(c, m, Construct(m, o, c), o, Defaults[c], << >>)
<1> DEFINE new == [values |-> Defaults[c], pointer |-> Null, size |-> 0]
           n == Construct(m, o, c)
           none == << >>
<1>1. new \in Object(c)
  BY ClassData DEF Object, Null
<1>2. n = [m EXCEPT !.object[o] = new]
  BY DEF Construct
<1>3. o \notin Live(m)
  BY DEF Live
<1> HIDE DEF new, n
<1>4. /\ Owned(n, c, Live(m)) /\ n.object = [m.object EXCEPT ![o] = new]
      /\ \A p \in Objects \ {o} : Elements(n, p) = Elements(m, p)
  BY <1>1, <1>2, <1>3, Hold
<1>5. MemoryType(m, c) /\ MemoryType(n, c)
  BY <1>4 DEF Owned
<1>6. n.object[o] = new /\ \A p \in Objects \ {o} : n.object[p] = m.object[p]
  BY <1>4, <1>5 DEF MemoryType
<1>7. Live(n) \ {o} = Live(m)
  BY <1>3, <1>6 DEF Live
<1>8. none \in Seq(Element) /\ Len(none) = 0 /\ none = << >>
  OBVIOUS
<1> HIDE DEF none
<1>9. Placed(n, n, o, none)
  <2>1. new = [values |-> new.values, pointer |-> Null, size |-> 0]
    BY DEF new
  <2>2. n.object = [n.object EXCEPT ![o] = [values |-> n.object[o].values,
                                             pointer |-> Null, size |-> Len(none)]]
    <3> DEFINE f == n.object
    <3>1. f \in [Objects -> {Dead} \cup Object(c)]
      BY <1>5 DEF MemoryType
    <3>2. f[o] = [values |-> f[o].values, pointer |-> Null, size |-> 0]
      BY <1>6, <2>1
    <3> HIDE DEF f
    <3>3. f = [f EXCEPT ![o] = [values |-> f[o].values, pointer |-> Null, size |-> 0]]
      BY <3>1, <3>2
    <3> QED
      BY <1>8, <3>3 DEF f
  <2>3. /\ n = [object |-> n.object, block |-> n.block]
        /\ n.block = [x \in DOMAIN n.block |-> n.block[x]]
        /\ Null \in Nat
    BY <1>5 DEF MemoryType, Null
  <2> QED
    BY <1>8, <2>2, <2>3 DEF Placed
<1>10. Sets(c, n, n, o, n.object[o].values, none)
  BY <1>1, <1>4, <1>6, <1>7, <1>8, <1>9, Place
<1>11. n.object[o].values = Defaults[c]
  BY <1>6 DEF new
<1>12. \A p \in Live(m) \ {o} : Elements(n, p) = Elements(m, p)
  BY <1>4 DEF Live
<1> QED
  BY <1>6, <1>8, <1>10, <1>11, <1>12, SetsAfter DEF n

\* The object is gone, the others are as they were.
LEMMA DestructIs ==
  ASSUME NEW c, NEW m, Owned(m, c, Live(m)), NEW o \in Live(m)
  PROVE  LET n == Destruct(m, o)
         IN  /\ Owned(n, c, Live(n)) /\ Live(n) = Live(m) \ {o}
             /\ \A p \in Objects \ {o} : n.object[p] = m.object[p]
             /\ \A p \in Live(n) : Elements(n, p) = Elements(m, p)
<1> DEFINE r == Release(m, o)
           n == Destruct(m, o)
<1>1. /\ Owned(r, c, Live(m) \ {o}) /\ r.object = m.object
      /\ \A p \in Live(m) \ {o} : Elements(r, p) = Elements(m, p)
  BY ReleaseIs
<1>2. n = [r EXCEPT !.object[o] = Dead]
  BY DEF Destruct
<1> HIDE DEF r, n
<1>3. o \in Objects \ (Live(m) \ {o}) /\ Dead \in {Dead} \cup Object(c)
  BY DEF Live
<1>4. /\ Owned(n, c, Live(m) \ {o}) /\ n.object = [r.object EXCEPT ![o] = Dead]
      /\ \A p \in Objects \ {o} : Elements(n, p) = Elements(r, p)
  BY <1>1, <1>2, <1>3, Hold
<1>5. m.object \in [Objects -> {Dead} \cup Object(c)]
  BY DEF Owned, MemoryType
<1>6. n.object[o] = Dead /\ \A p \in Objects \ {o} : n.object[p] = m.object[p]
  BY <1>1, <1>3, <1>4, <1>5
<1>7. Live(n) = Live(m) \ {o}
  BY <1>6 DEF Live
<1>8. \A p \in Live(n) : p \in Objects \ {o} /\ p \in Live(m) \ {o}
  BY <1>7 DEF Live
<1> QED
  BY <1>1, <1>4, <1>6, <1>7, <1>8 DEF n

\* The values of an object change, its array stays.
LEMMA ValuesIs ==
  ASSUME NEW c, NEW m, Owned(m, c, Live(m)), NEW o \in Live(m),
         NEW k, NEW x \in Int
  PROVE  Sets(c, m, [m EXCEPT !.object[o].values[k] = x],
              o, [m.object[o].values EXCEPT ![k] = x], Elements(m, o))
<1> DEFINE n == [m EXCEPT !.object[o].values[k] = x]
           old == m.object[o]
           v == [old.values EXCEPT ![k] = x]
           new == [old EXCEPT !.values = v]
<1>1. MemoryType(m, c) /\ KnowsBlock(m, c, o)
  BY DEF Owned
<1>2. o \in Objects /\ old \in Object(c)
  BY <1>1, LiveObject
<1>3. /\ new \in Object(c) /\ new.values = v /\ new.pointer = old.pointer
      /\ new.size = old.size
  BY <1>2 DEF Object
<1>4. n = [object |-> [m.object EXCEPT ![o] = new], block |-> m.block]
  <2> DEFINE f == m.object
             b == m.block
  <2>1. m = [object |-> f, block |-> b]
    BY <1>1 DEF MemoryType
  <2>2. n = [m EXCEPT !.object[o] = new]
    OBVIOUS
  <2> HIDE DEF f, b, new, n
  <2> QED
    BY <2>1, <2>2, ChangeObject DEF f, b
<1> HIDE DEF new, n
<1>5. /\ n.object = [m.object EXCEPT ![o] = new] /\ n.block = m.block
      /\ n = [object |-> n.object, block |-> n.block]
  <2> DEFINE f == [m.object EXCEPT ![o] = new]
             b == m.block
  <2>1. n = [object |-> f, block |-> b]
    BY <1>4
  <2> HIDE DEF f, b
  <2> QED
    BY <2>1, RecordParts, Zenon DEF f, b
<1>6. m.object \in [Objects -> {Dead} \cup Object(c)]
  BY <1>1 DEF MemoryType
<1>7. /\ n.object \in [Objects -> {Dead} \cup Object(c)] /\ n.object[o] = new
      /\ \A p \in Objects \ {o} : n.object[p] = m.object[p]
  BY <1>2, <1>3, <1>5, <1>6
<1>8. MemoryType(n, c)
  BY <1>1, <1>5, <1>7 DEF MemoryType
<1>9. \A p \in Live(m) : /\ p \in Objects
                         /\ n.object[p] \in Object(c)
                         /\ n.object[p].pointer = m.object[p].pointer
                         /\ n.object[p].size = m.object[p].size
  BY <1>1, <1>3, <1>7, LiveObject
<1>10. Live(n) = Live(m)
  BY <1>3, <1>7, ObjectIsLive DEF Live
<1>11. \A p \in Live(m) : KnowsBlock(n, c, p) /\ Elements(n, p) = Elements(m, p)
  BY <1>5, <1>9 DEF Owned, KnowsBlock, Elements
<1>12. Owned(n, c, Live(m))
  BY <1>5, <1>8, <1>9, <1>11 DEF Owned
<1> QED
  BY <1>3, <1>7, <1>10, <1>11, <1>12 DEF Sets, n

\* The elements of an array change, its length stays.
LEMMA RewriteIs ==
  ASSUME NEW c, NEW m, Owned(m, c, Live(m)), NEW o \in Live(m),
         NEW e \in Seq(Element), Len(e) = m.object[o].size
  PROVE  Sets(c, m, [m EXCEPT !.block[m.object[o].pointer] = e],
              o, m.object[o].values, e)
<1> DEFINE n == [m EXCEPT !.block[m.object[o].pointer] = e]
           a == m.object[o].pointer
<1>1. MemoryType(m, c) /\ KnowsBlock(m, c, o)
  BY DEF Owned
<1>2. o \in Objects /\ m.object[o] \in Object(c)
  BY <1>1, LiveObject
<1>3. /\ n.object = m.object /\ n.block = [m.block EXCEPT ![a] = e]
      /\ n = [object |-> n.object, block |-> n.block]
  <2> DEFINE f == m.object
             b == m.block
  <2>1. m = [object |-> f, block |-> b] /\ n = [m EXCEPT !.block = [b EXCEPT ![a] = e]]
    BY <1>1 DEF MemoryType
  <2> HIDE DEF f, b, a
  <2> DEFINE g == [b EXCEPT ![a] = e]
  <2>2. n = [m EXCEPT !.block = g]
    BY <2>1
  <2> HIDE DEF g, n
  <2>3. n = [object |-> f, block |-> g]
    BY <2>1, <2>2
  <2> QED
    BY <2>3, RecordParts, Zenon DEF f, b, g
<1> HIDE DEF n
<1>4. m.block \in [DOMAIN m.block -> Seq(Element)]
  BY <1>1 DEF MemoryType
<1>5. /\ DOMAIN n.block = DOMAIN m.block
      /\ \A x \in DOMAIN m.block : n.block[x] = IF x = a THEN e ELSE m.block[x]
      /\ n.block \in [DOMAIN n.block -> Seq(Element)]
  BY <1>3, <1>4
<1>6. MemoryType(n, c)
  BY <1>1, <1>3, <1>5 DEF MemoryType
<1>7. Live(n) = Live(m)
  BY <1>3 DEF Live
<1>8. /\ \A p \in Live(m) : KnowsBlock(m, c, p)
      /\ \A p, q \in Live(m) :
           p # q /\ m.object[p].pointer = m.object[q].pointer => m.object[p].pointer = Null
      /\ \A x \in DOMAIN m.block : \E p \in Live(m) : m.object[p].pointer = x
      /\ Live(m) \subseteq Objects
  BY DEF Owned
<1>9. KnowsBlock(n, c, o) /\ Elements(n, o) = e
  <2>1. CASE a = Null
    <3>1. m.object[o].size = 0
      BY <1>1, <2>1 DEF KnowsBlock
    <3>2. e = << >>
      BY <3>1
    <3>3. KnowsBlock(n, c, o)
      BY <1>1, <1>3, <2>1 DEF KnowsBlock
    <3> QED
      BY <1>3, <1>6, <2>1, <3>2, <3>3, ElementsAre
  <2>2. CASE a # Null
    <3>1. a \in DOMAIN n.block /\ n.block[a] = e
      BY <1>1, <1>5, <2>2 DEF KnowsBlock
    <3>2. KnowsBlock(n, c, o)
      BY <1>1, <1>3, <2>2, <3>1 DEF KnowsBlock
    <3> QED
      BY <1>3, <1>6, <2>2, <3>1, <3>2, ElementsAre
  <2> QED
    BY <2>1, <2>2
<1>10. ASSUME NEW p \in Live(m) \ {o}
       PROVE  KnowsBlock(n, c, p) /\ Elements(n, p) = Elements(m, p)
  <2>1. KnowsBlock(m, c, p) /\ (m.object[p].pointer = a => a = Null)
    BY <1>8
  <2>2. m.object[p].pointer # Null =>
          /\ m.object[p].pointer \in DOMAIN n.block
          /\ n.block[m.object[p].pointer] = m.block[m.object[p].pointer]
    BY <1>5, <2>1 DEF KnowsBlock
  <2>3. KnowsBlock(n, c, p)
    BY <1>3, <2>1, <2>2 DEF KnowsBlock
  <2>4. Elements(n, p) = IF n.object[p].pointer = Null THEN << >>
                         ELSE n.block[n.object[p].pointer]
    BY <1>6, <2>3, ElementsAre, Zenon
  <2>5. Elements(m, p) = IF m.object[p].pointer = Null THEN << >>
                         ELSE m.block[m.object[p].pointer]
    BY <1>1, <2>1, ElementsAre
  <2>6. n.object[p].pointer = m.object[p].pointer
    BY <1>3
  <2> QED
    BY <2>2, <2>3, <2>4, <2>5, <2>6
<1>11. \A p \in Live(m) : KnowsBlock(n, c, p)
  BY <1>9, <1>10
<1>12. Owned(n, c, Live(m))
  BY <1>3, <1>5, <1>6, <1>8, <1>11 DEF Owned
<1> QED
  BY <1>3, <1>7, <1>9, <1>10, <1>12 DEF Sets, n

-----------------------------------------------------------------------------
(***************************************************************************)
(* The methods.  Every one gives one object a new value and leaves the     *)
(* others as they are.                                                     *)
(***************************************************************************)
LEMMA SetsAgain ==
  ASSUME NEW c, NEW m, NEW n, NEW k, NEW o, NEW v, NEW e, NEW w, NEW d,
         Sets(c, m, n, o, v, e), Sets(c, n, k, o, w, d)
  PROVE  Sets(c, m, k, o, w, d)
<1>1. /\ \A p \in Objects \ {o} : n.object[p] = m.object[p]
      /\ \A p \in Live(m) \ {o} : Elements(n, p) = Elements(m, p)
  BY DEF Sets
<1> QED
  BY <1>1, SetsAfter

\* What an object has.
LEMMA OwnedObject ==
  ASSUME NEW m, NEW c, Owned(m, c, Live(m)), NEW o \in Live(m)
  PROVE  /\ MemoryType(m, c) /\ KnowsBlock(m, c, o) /\ o \in Objects
         /\ m.object[o] \in Object(c)
         /\ m.object[o].values \in [DOMAIN Defaults[c] -> Int]
         /\ Elements(m, o) \in Seq(Element)
         /\ m.object[o].size \in Nat /\ m.object[o].size = Len(Elements(m, o))
         /\ Elements(m, o) # << >> => HoldsArray(c)
<1>1. MemoryType(m, c) /\ KnowsBlock(m, c, o)
  BY DEF Owned
<1>2. o \in Objects /\ m.object[o] \in Object(c)
  BY <1>1, LiveObject
<1>3. m.object[o].values \in [DOMAIN Defaults[c] -> Int] /\ m.object[o].size \in Nat
  BY <1>2 DEF Object
<1> QED
  BY <1>1, <1>2, <1>3, ElementsAre

LEMMA SetterIs ==
  ASSUME NEW c, NEW m, Owned(m, c, Live(m)), NEW o \in Live(m), NEW name, NEW x \in Int
  PROVE  Sets(c, m, Setter(m, o, c, name, x), o,
              [m.object[o].values EXCEPT ![Visible[c][name]] = x], Elements(m, o))
BY ValuesIs DEF Setter

\* A place that the array does not have is left out.
LEMMA SetElementIs ==
  ASSUME NEW c, NEW m, Owned(m, c, Live(m)), NEW o \in Live(m), NEW k, NEW x \in Element
  PROVE  Sets(c, m, SetElement(m, o, k, x), o, m.object[o].values,
              [Elements(m, o) EXCEPT ![k] = x])
<1> DEFINE a == m.object[o].pointer
           e == Elements(m, o)
           d == [e EXCEPT ![k] = x]
           n == SetElement(m, o, k, x)
<1>1. /\ MemoryType(m, c) /\ KnowsBlock(m, c, o)
      /\ e \in Seq(Element) /\ m.object[o].size \in Nat /\ m.object[o].size = Len(e)
  BY OwnedObject
<1>2. CASE a # Null
  <2>1. e = m.block[a]
    BY <1>1, <1>2, ElementsAre
  <2>2. d \in Seq(Element) /\ Len(d) = Len(e)
    <3> HIDE DEF e
    <3>1. DOMAIN e = 1 .. Len(e) /\ Len(e) \in Nat /\ \A i \in 1 .. Len(e) : e[i] \in Element
      BY <1>1
    <3> DEFINE s == Len(e)
    <3>2. d = [i \in 1 .. s |-> IF i = k THEN x ELSE e[i]]
      BY <1>1, <3>1
    <3> HIDE DEF s, d
    <3> QED
      BY <3>1, <3>2 DEF s
  <2>3. n = [m EXCEPT !.block[a] = d]
    BY <2>1 DEF SetElement
  <2> HIDE DEF e, d
  <2>4. Sets(c, m, [m EXCEPT !.block[a] = d], o, m.object[o].values, d)
    BY <1>1, <2>2, RewriteIs
  <2> QED
    BY <2>3, <2>4 DEF d, e
<1>3. CASE a = Null
  <2>1. e = << >> /\ a \notin DOMAIN m.block
    BY <1>1, <1>3, ElementsAre DEF MemoryType
  <2>2. n = m
    <3> DEFINE b == m.block
               f == m.object
    <3>1. m = [object |-> f, block |-> b] /\ b = [y \in DOMAIN b |-> b[y]]
      BY <1>1 DEF MemoryType
    <3>2. n = [m EXCEPT !.block = [b EXCEPT ![a] = [b[a] EXCEPT ![k] = x]]]
      BY DEF SetElement
    <3> DEFINE y == [b[a] EXCEPT ![k] = x]
               g == [b EXCEPT ![a] = y]
    <3> HIDE DEF n, f, y, a
    <3>3. g = b
      <4> HIDE DEF b
      <4> QED
        BY <2>1, <3>1 DEF b
    <3> HIDE DEF b, g
    <3>4. n = [m EXCEPT !.block = b]
      BY <3>2, <3>3 DEF g, y
    <3> QED
      BY <3>1, <3>4
  <2>3. d = e
    BY <2>1
  <2>4. Sets(c, m, m, o, m.object[o].values, e)
    BY <1>1 DEF Sets, Live
  <2> QED
    BY <2>2, <2>3, <2>4
<1> QED
  BY <1>2, <1>3

LEMMA SetElementsIs ==
  ASSUME NEW c, NEW m, Owned(m, c, Live(m)), NEW o \in Live(m),
         NEW e \in Seq(Element), Len(e) = Len(Elements(m, o))
  PROVE  Sets(c, m, SetElements(m, o, e), o, m.object[o].values, e)
<1>1. m.object[o].size = Len(Elements(m, o))
  BY OwnedObject
<1> QED
  BY <1>1, RewriteIs DEF SetElements

\* set...ArraySize: what the array gets behind its elements are default ones.
Resized(c, e, size) ==
  [i \in 1 .. size |-> IF i <= Len(e) THEN e[i] ELSE DefaultElement(c)]

LEMMA ElementTypes ==
  ASSUME NEW c
  PROVE  DefaultElement(c) \in Element /\ OtherElement(c) \in Element
BY DEF DefaultElement, OtherElement, AckRange, Element

LEMMA SetArraySizeIs ==
  ASSUME NEW c, NEW m, Owned(m, c, Live(m)), NEW o \in Live(m),
         NEW size \in Nat, size # 0 => HoldsArray(c)
  PROVE  /\ Sets(c, m, SetArraySize(m, o, c, size), o, m.object[o].values,
                 Resized(c, Elements(m, o), size))
         /\ Resized(c, Elements(m, o), size) \in Seq(Element)
         /\ Len(Resized(c, Elements(m, o), size)) = size
<1> DEFINE e == Elements(m, o)
           x == DefaultElement(c)
           d == [i \in 1 .. size |-> IF i <= Len(e) THEN e[i] ELSE x]
<1>1. e \in Seq(Element) /\ m.object[o].size = Len(e)
  BY OwnedObject
<1>2. SetArraySize(m, o, c, size) = Reattach(m, o, d)
  BY <1>1 DEF SetArraySize
<1>3. d = Resized(c, e, size)
  BY DEF Resized
<1>4. x \in Element
  BY ElementTypes
<1> HIDE DEF e, x
<1>5. d \in Seq(Element) /\ Len(d) = size
  BY <1>1, <1>4
<1>6. d # << >> => size # 0
  BY <1>5
<1> HIDE DEF d
<1>7. Sets(c, m, Reattach(m, o, d), o, m.object[o].values, d)
  BY <1>5, <1>6, ReattachIs
<1> QED
  BY <1>2, <1>3, <1>5, <1>7 DEF e

LEMMA InsertElementIs ==
  ASSUME NEW c, NEW m, Owned(m, c, Live(m)), NEW o \in Live(m), HoldsArray(c),
         NEW k \in 1 .. m.object[o].size + 1, NEW x \in Element
  PROVE  /\ Sets(c, m, InsertElement(m, o, k, x), o, m.object[o].values,
                 InsertAt(Elements(m, o), k, x))
         /\ Len(InsertAt(Elements(m, o), k, x)) = Len(Elements(m, o)) + 1
         /\ InsertAt(Elements(m, o), k, x)[k] = x
         /\ InsertAt(Elements(m, o), k, x) \in Seq(Element)
<1> DEFINE e == Elements(m, o)
           d == InsertAt(e, k, x)
           a == SubSeq(e, 1, k - 1)
           b == SubSeq(e, k, Len(e))
           one == <<x>>
           f == a \o one
<1>1. e \in Seq(Element) /\ m.object[o].size = Len(e) /\ Len(e) \in Nat
  BY OwnedObject
<1>2. d = (a \o one) \o b
  BY DEF InsertAt
<1> HIDE DEF e
<1>3. /\ k \in Nat \ {0} /\ k <= Len(e) + 1
      /\ a \in Seq(Element) /\ Len(a) = k - 1
      /\ b \in Seq(Element) /\ Len(b) = Len(e) - k + 1
      /\ one \in Seq(Element) /\ Len(one) = 1 /\ one[1] = x
  BY <1>1
<1> HIDE DEF a, b, one, d
<1>4. f \in Seq(Element) /\ Len(f) = k /\ f[k] = x
  <2>0. a \in Seq(Element) /\ one \in Seq(Element)
    BY <1>3
  <2>1. /\ f \in Seq(Element) /\ Len(f) = Len(a) + Len(one)
        /\ \A i \in 1 .. Len(one) : f[Len(a) + i] = one[i]
    BY <2>0, ConcatIs
  <2> HIDE DEF f
  <2>2. (k - 1) + 1 = k /\ 1 \in 1 .. Len(one)
    BY <1>3
  <2> QED
    BY <1>3, <2>1, <2>2
<1> HIDE DEF f
<1>5. /\ f \o b \in Seq(Element) /\ Len(f \o b) = Len(f) + Len(b)
      /\ \A i \in 1 .. Len(f) : (f \o b)[i] = f[i]
  BY <1>3, <1>4, ConcatIs
<1>6. d = f \o b
  BY <1>2 DEF f
<1>7. d \in Seq(Element) /\ Len(d) = Len(e) + 1 /\ d[k] = x
  BY <1>1, <1>3, <1>4, <1>5, <1>6
<1>8. Sets(c, m, Reattach(m, o, d), o, m.object[o].values, d)
  BY <1>7, ReattachIs
<1>9. InsertElement(m, o, k, x) = Reattach(m, o, d)
  BY DEF InsertElement, d, e
<1> QED
  BY <1>7, <1>8, <1>9 DEF d, e

LEMMA EraseElementIs ==
  ASSUME NEW c, NEW m, Owned(m, c, Live(m)), NEW o \in Live(m),
         NEW k \in 1 .. m.object[o].size
  PROVE  Sets(c, m, EraseElement(m, o, k), o, m.object[o].values,
              RemoveAt(Elements(m, o), k))
<1> DEFINE e == Elements(m, o)
           d == RemoveAt(e, k)
           a == SubSeq(e, 1, k - 1)
           b == SubSeq(e, k + 1, Len(e))
<1>1. /\ e \in Seq(Element) /\ m.object[o].size = Len(e) /\ Len(e) \in Nat
      /\ e # << >> => HoldsArray(c)
  BY OwnedObject
<1>2. d = a \o b
  BY DEF RemoveAt
<1> HIDE DEF e
<1>3. a \in Seq(Element) /\ b \in Seq(Element) /\ e # << >>
  BY <1>1
<1> HIDE DEF a, b, d
<1>4. d \in Seq(Element)
  BY <1>2, <1>3, ConcatIs
<1>5. Sets(c, m, Reattach(m, o, d), o, m.object[o].values, d)
  BY <1>1, <1>3, <1>4, ReattachIs
<1>6. EraseElement(m, o, k) = Reattach(m, o, d)
  BY DEF EraseElement, d, e
<1> QED
  BY <1>5, <1>6 DEF d, e

LEMMA CopyIs ==
  ASSUME NEW c, NEW m, Owned(m, c, Live(m)), NEW o \in Live(m), NEW p \in Live(m), o # p
  PROVE  Sets(c, m, Copy(m, o, p), o, m.object[p].values, Elements(m, p))
<1> DEFINE r == Release(m, o)
           v == m.object[p].values
           e == Elements(m, p)
           new == [m.object[o] EXCEPT !.values = v]
           n == [r EXCEPT !.object[o] = new]
<1>1. /\ Owned(r, c, Live(m) \ {o}) /\ r.object = m.object
      /\ \A q \in Live(m) \ {o} : Elements(r, q) = Elements(m, q)
  BY ReleaseIs
<1>2. /\ MemoryType(m, c) /\ m.object[o] \in Object(c) /\ o \in Objects
      /\ v \in [DOMAIN Defaults[c] -> Int]
      /\ e \in Seq(Element) /\ (e # << >> => HoldsArray(c))
  BY OwnedObject
<1>3. Elements(r, p) = e
  BY <1>1
<1>4. Copy(m, o, p) = Attach(n, o, e)
  BY <1>1, <1>3 DEF Copy
<1>5. new \in Object(c) /\ new.values = v
  <2> HIDE DEF v
  <2> QED
    BY <1>2 DEF Object
<1>6. n = [r EXCEPT !.object[o] = new]
  OBVIOUS
<1> HIDE DEF r, v, e, new, n
<1>7. o \in Objects \ (Live(m) \ {o}) /\ new \in {Dead} \cup Object(c)
  BY <1>2, <1>5
<1>8. /\ Owned(n, c, Live(m) \ {o}) /\ n.object = [r.object EXCEPT ![o] = new]
      /\ \A q \in Objects \ {o} : Elements(n, q) = Elements(r, q)
  BY <1>1, <1>6, <1>7, Hold
<1>9. m.object \in [Objects -> {Dead} \cup Object(c)]
  BY <1>2 DEF MemoryType
<1>10. n.object[o] = new /\ \A q \in Objects \ {o} : n.object[q] = m.object[q]
  BY <1>1, <1>2, <1>8, <1>9
<1>11. Live(n) \ {o} = Live(m) \ {o}
  BY <1>10 DEF Live
<1>12. Owned(n, c, Live(n) \ {o})
  BY <1>8, <1>11
<1>13. Sets(c, n, Attach(n, o, e), o, v, e)
  BY <1>2, <1>5, <1>10, <1>12, AttachIs
<1>14. \A q \in Live(m) \ {o} : Elements(n, q) = Elements(m, q)
  BY <1>1, <1>8 DEF Live
<1>15. Sets(c, m, Attach(n, o, e), o, v, e)
  BY <1>10, <1>13, <1>14, SetsAfter
<1> QED
  BY <1>4, <1>15 DEF v, e

LEMMA CopyConstructIs ==
  ASSUME NEW c \in Classes, NEW m, Owned(m, c, Live(m)),
         NEW o \in Objects, m.object[o] = Dead, NEW p \in Live(m)
  PROVE  Sets(c, m, CopyConstruct(m, o, p, c), o, m.object[p].values, Elements(m, p))
<1> DEFINE n == Construct(m, o, c)
<1>1. Sets(c, m, n, o, Defaults[c], << >>)
  BY ConstructIs
<1> HIDE DEF n
<1>2. o # p /\ p \in Objects
  BY DEF Live
<1>3. /\ Owned(n, c, Live(n)) /\ o \in Live(n) /\ n.object[p] = m.object[p]
      /\ Elements(n, p) = Elements(m, p)
  BY <1>1, <1>2 DEF Sets
<1>4. p \in Live(n)
  BY <1>2, <1>3 DEF Live
<1>5. Sets(c, n, Copy(n, o, p), o, n.object[p].values, Elements(n, p))
  BY <1>2, <1>3, <1>4, CopyIs
<1>6. Sets(c, n, Copy(n, o, p), o, m.object[p].values, Elements(m, p))
  BY <1>3, <1>5
<1>7. Sets(c, m, Copy(n, o, p), o, m.object[p].values, Elements(m, p))
  BY <1>1, <1>6, SetsAgain
<1> QED
  BY <1>7 DEF CopyConstruct, n

-----------------------------------------------------------------------------
(***************************************************************************)
(* Packing and unpacking.                                                  *)
(***************************************************************************)
\* The members, with a value or with an array.
LEMMA MembersAre ==
  ASSUME NEW c \in Classes
  PROVE  /\ Len(MembersOf[c]) \in Nat
         /\ DOMAIN MembersOf[c] = 1 .. Len(MembersOf[c])
         /\ \A i \in 1 .. Len(MembersOf[c]) :
              ~IsArray(c, i) => Key(MembersOf[c][i]) \in DOMAIN Defaults[c]
         /\ \A k \in DOMAIN Defaults[c] :
              \E i \in 1 .. Len(MembersOf[c]) : ~IsArray(c, i) /\ k = Key(MembersOf[c][i])
         /\ HoldsArray(c) => \E i \in 1 .. Len(MembersOf[c]) : IsArray(c, i)
<1> DEFINE x == MembersOf[c]
           S == [owner : STRING, member : [name : STRING, default : Int, array : BOOLEAN]]
<1>1. /\ x \in Seq(S)
      /\ DOMAIN Defaults[c] = {Key(x[i]) : i \in {j \in DOMAIN x : ~IsArray(c, j)}}
  BY ClassData
<1>2. HoldsArray(c) => \E i \in DOMAIN x : IsArray(c, i)
  BY DEF HoldsArray
<1> HIDE DEF x, S
<1>3. Len(x) \in Nat /\ DOMAIN x = 1 .. Len(x)
  BY <1>1
<1>4. \A i \in 1 .. Len(x) : ~IsArray(c, i) => Key(x[i]) \in DOMAIN Defaults[c]
  BY <1>1, <1>3
<1>5. \A k \in DOMAIN Defaults[c] : \E i \in 1 .. Len(x) : ~IsArray(c, i) /\ k = Key(x[i])
  BY <1>1, <1>3
<1> QED
  BY <1>2, <1>3, <1>4, <1>5 DEF x

LEMMA PackedIs ==
  ASSUME NEW c \in Classes, NEW m, Owned(m, c, Live(m)), NEW p \in Live(m),
         NEW i \in 1 .. Len(MembersOf[c])
  PROVE  LET x == MembersOf[c][i]
             v == m.object[p].values[Key(x)]
             e == Elements(m, p)
         IN  /\ Packed(m, p, x) \in Seq(Element)
             /\ IF x.member.array THEN Packed(m, p, x) = <<Len(e)>> \o e /\ Len(e) \in Element
                ELSE Packed(m, p, x) = <<v>> /\ v \in Element
<1> DEFINE x == MembersOf[c][i]
           v == m.object[p].values[Key(x)]
           e == Elements(m, p)
<1>1. /\ m.object[p].values \in [DOMAIN Defaults[c] -> Int]
      /\ e \in Seq(Element) /\ m.object[p].size = Len(e)
  BY OwnedObject
<1>2. Len(e) \in Nat
  BY <1>1
<1>3. Len(e) \in Element /\ <<Len(e)>> \in Seq(Element)
  <2>1. Len(e) \in Element
    BY <1>2 DEF Element
  <2> QED
    BY <2>1
<1>4. ~x.member.array => v \in Element
  <2>1. ~x.member.array => Key(x) \in DOMAIN Defaults[c]
    BY MembersAre DEF IsArray
  <2> QED
    BY <1>1, <2>1 DEF Element
<1>5. Packed(m, p, x) = IF x.member.array THEN <<Len(e)>> \o e ELSE <<v>>
  BY <1>1 DEF Packed
<1>6. CASE x.member.array
  <2>1. <<Len(e)>> \o e \in Seq(Element)
    BY <1>1, <1>3, ConcatIs
  <2> QED
    BY <1>3, <1>5, <1>6, <2>1
<1>7. CASE ~x.member.array
  <2> HIDE DEF x, v, e
  <2>1. v \in Element /\ Packed(m, p, x) = <<v>>
    BY <1>4, <1>5, <1>7
  <2>2. <<v>> \in Seq(Element)
    BY <2>1
  <2>3. Packed(m, p, x) \in Seq(Element)
    BY <2>1, <2>2
  <2> QED
    BY <1>7, <2>1, <2>3 DEF x, v, e
<1> QED
  BY <1>6, <1>7

\* The buffer, one member after the other; what is packed later follows.
LEMMA PackTrace ==
  ASSUME NEW c \in Classes, NEW m, Owned(m, c, Live(m)), NEW p \in Live(m)
  PROVE  LET x == MembersOf[c]
             n == Len(x)
         IN  \E packed :
               /\ packed[0] = << >> /\ packed[n] = ParsimPack(m, p, c)
               /\ \A k \in 1 .. n : packed[k] = packed[k - 1] \o Packed(m, p, x[k])
               /\ \A k \in 0 .. n : /\ packed[k] \in Seq(Element)
                                    /\ \E rest \in Seq(Element) :
                                         packed[k] \o rest = ParsimPack(m, p, c)
<1> DEFINE x == MembersOf[c]
           n == Len(x)
           f == [i \in DOMAIN x |-> Packed(m, p, x[i])]
           none == << >>
           buffer == ParsimPack(m, p, c)
<1>1. n \in Nat /\ DOMAIN x = 1 .. n
  BY MembersAre
<1>2. DOMAIN f = 1 .. n /\ \A k \in 1 .. n : f[k] = Packed(m, p, x[k])
  BY <1>1
<1>3. \A k \in 1 .. n : f[k] \in Seq(Element)
  <2> SUFFICES ASSUME NEW k \in 1 .. n PROVE f[k] \in Seq(Element)
    OBVIOUS
  <2>1. Packed(m, p, x[k]) \in Seq(Element)
    BY PackedIs
  <2> QED
    BY <1>2, <2>1
<1>4. buffer = Concat!Fold(none, f)
  BY DEF ParsimPack, Concat!Fold, FoldLeft, MapThenFoldSet, Max,
         Concat!MapThenFoldSet, Concat!Largest
<1>5. none \in Seq(Element) /\ none = << >> /\ \A s \in Seq(Element) : s \o none = s
  OBVIOUS
<1> HIDE DEF f, none, buffer, x, n
<1>6. PICK packed :
        /\ packed[0] = none
        /\ \A k \in 1 .. n : packed[k] = packed[k - 1] \o f[k]
        /\ packed[n] = Concat!Fold(none, f)
  BY <1>1, <1>2, Concat!FoldTrace
<1>7. \A k \in 0 .. n : packed[k] \in Seq(Element)
  <2> DEFINE K == {k \in Nat : k <= n => packed[k] \in Seq(Element)}
  <2>1. 0 \in K
    BY <1>5, <1>6
  <2>2. ASSUME NEW k \in Nat, k \in K PROVE k + 1 \in K
    <3> SUFFICES ASSUME k + 1 <= n PROVE packed[k + 1] \in Seq(Element)
      OBVIOUS
    <3>1. k + 1 \in 1 .. n /\ (k + 1) - 1 = k
      BY <1>1
    <3>2. packed[k] \in Seq(Element) /\ f[k + 1] \in Seq(Element)
      BY <1>1, <1>3, <2>2, <3>1
    <3>3. packed[k + 1] = packed[k] \o f[k + 1]
      BY <1>6, <3>1
    <3> QED
      BY <3>2, <3>3, ConcatIs
  <2> HIDE DEF K
  <2>3. Nat \subseteq K
    BY <2>1, <2>2, Concat!NatSetInduction
  <2> QED
    BY <1>1, <2>3 DEF K
<1>8. \A k \in 0 .. n : \E rest \in Seq(Element) : packed[k] \o rest = buffer
  <2> DEFINE Goes(k) == \E rest \in Seq(Element) : packed[k] \o rest = buffer
             K == {j \in Nat : j <= n => Goes(n - j)}
  <2>1. 0 \in K
    <3>1. packed[n] \in Seq(Element) /\ n - 0 = n
      BY <1>1, <1>7
    <3>2. packed[n] \o none = buffer
      BY <1>4, <1>5, <1>6, <3>1
    <3>3. Goes(n - 0)
      BY <1>5, <3>1, <3>2
    <3> HIDE DEF Goes
    <3> QED
      BY <3>3
  <2>2. ASSUME NEW j \in Nat, j \in K PROVE j + 1 \in K
    <3> HIDE DEF Goes
    <3> SUFFICES ASSUME j + 1 <= n PROVE Goes(n - (j + 1))
      OBVIOUS
    <3> DEFINE k == n - j
    <3>1. k \in 1 .. n /\ n - (j + 1) = k - 1 /\ k - 1 \in 0 .. n
      BY <1>1
    <3>2. PICK rest \in Seq(Element) : packed[k] \o rest = buffer
      BY <1>1, <2>2 DEF Goes
    <3> HIDE DEF k
    <3>3. packed[k - 1] \in Seq(Element) /\ f[k] \in Seq(Element)
      BY <1>3, <1>7, <3>1
    <3>4. packed[k] = packed[k - 1] \o f[k]
      BY <1>6, <3>1
    <3>5. f[k] \o rest \in Seq(Element)
      BY <3>3, ConcatIs
    <3>6. (packed[k - 1] \o f[k]) \o rest = packed[k - 1] \o (f[k] \o rest)
      <4> DEFINE a == packed[k - 1]
                 b == f[k]
      <4>1. a \in Seq(Element) /\ b \in Seq(Element)
        BY <3>3
      <4> HIDE DEF a, b
      <4>2. (a \o b) \o rest = a \o (b \o rest)
        BY <4>1, Associative
      <4> QED
        BY <4>2 DEF a, b
    <3>7. Goes(k - 1)
      BY <3>2, <3>4, <3>5, <3>6 DEF Goes
    <3> QED
      BY <3>1, <3>7
  <2> HIDE DEF K
  <2>3. Nat \subseteq K
    BY <2>1, <2>2, Concat!NatSetInduction
  <2>4. ASSUME NEW k \in 0 .. n PROVE \E rest \in Seq(Element) : packed[k] \o rest = buffer
    <3>1. n - k \in Nat /\ n - k <= n /\ n - (n - k) = k
      BY <1>1
    <3>2. n - k \in K
      BY <2>3, <3>1
    <3> HIDE DEF Goes
    <3>3. Goes(k)
      BY <3>1, <3>2 DEF K
    <3> QED
      BY <3>3 DEF Goes
  <2> QED
    BY <2>4
<1>9. \A k \in 1 .. n : packed[k] = packed[k - 1] \o Packed(m, p, x[k])
  BY <1>2, <1>6
<1>10. packed[0] = << >> /\ packed[n] = buffer
  BY <1>4, <1>5, <1>6
<1> QED
  BY <1>7, <1>8, <1>9, <1>10 DEF x, n, buffer

\* In n, object o of m has the first k members of object p.
HasMembers(c, m, n, o, p, k) ==
  LET x == MembersOf[c]
  IN  /\ Sets(c, m, n, o, n.object[o].values, Elements(n, o))
      /\ \A i \in 1 .. k : ~IsArray(c, i) =>
           n.object[o].values[Key(x[i])] = m.object[p].values[Key(x[i])]
      /\ (\E i \in 1 .. k : IsArray(c, i)) => Elements(n, o) = Elements(m, p)

\* A new array takes the place of the old one.
LEMMA ReplaceIs ==
  ASSUME NEW c, NEW m, Owned(m, c, Live(m)), NEW o \in Live(m),
         NEW e \in Seq(Element), e # << >> => HoldsArray(c)
  PROVE  Sets(c, m, Attach(Release(m, o), o, e), o, m.object[o].values, e)
<1> DEFINE r == Release(m, o)
<1>1. /\ Owned(r, c, Live(m) \ {o}) /\ r.object = m.object /\ Live(r) = Live(m)
      /\ \A q \in Live(m) \ {o} : Elements(r, q) = Elements(m, q)
  BY ReleaseIs
<1>2. o \in Objects /\ m.object[o] \in Object(c)
  BY OwnedObject
<1> HIDE DEF r
<1>3. Owned(r, c, Live(r) \ {o})
  BY <1>1
<1>4. Sets(c, r, Attach(r, o, e), o, r.object[o].values, e)
  BY <1>1, <1>2, <1>3, AttachIs
<1>5. \A q \in Objects \ {o} : r.object[q] = m.object[q]
  BY <1>1
<1> QED
  BY <1>1, <1>4, <1>5, SetsAfter DEF r

LEMMA TakeMemberIs ==
  ASSUME NEW c \in Classes, NEW m, Owned(m, c, Live(m)), NEW o \in Live(m),
         NEW p \in Live(m), o # p, NEW k \in 1 .. Len(MembersOf[c]),
         NEW t, t.o = o, HasMembers(c, m, t.m, o, p, k - 1),
         NEW rest \in Seq(Element), t.rest = Packed(m, p, MembersOf[c][k]) \o rest
  PROVE  LET u == TakeMember(t, MembersOf[c][k])
         IN  u.o = o /\ u.rest = rest /\ HasMembers(c, m, u.m, o, p, k)
<1> DEFINE n == t.m
           x == MembersOf[c][k]
           v == m.object[p].values[Key(x)]
           e == Elements(m, p)
           w == n.object[o].values
           u == TakeMember(t, x)
           packed == Packed(m, p, x)
           d == u.m
<1>1. /\ Sets(c, m, n, o, w, Elements(n, o))
      /\ \A i \in 1 .. k - 1 : ~IsArray(c, i) =>
           w[Key(MembersOf[c][i])] = m.object[p].values[Key(MembersOf[c][i])]
      /\ (\E i \in 1 .. k - 1 : IsArray(c, i)) => Elements(n, o) = e
  BY DEF HasMembers
<1>2. Owned(n, c, Live(n)) /\ o \in Live(n)
  BY <1>1 DEF Sets
<1>3. /\ packed \in Seq(Element)
      /\ IF x.member.array THEN packed = <<Len(e)>> \o e /\ Len(e) \in Element
         ELSE packed = <<v>> /\ v \in Element
  BY PackedIs
<1>4. /\ e \in Seq(Element) /\ (e # << >> => HoldsArray(c))
      /\ m.object[p].values \in [DOMAIN Defaults[c] -> Int]
  BY OwnedObject
<1>5. /\ w \in [DOMAIN Defaults[c] -> Int] /\ n.object[o] \in Object(c) /\ o \in Objects
  BY <1>2, OwnedObject
<1>6. k \in Nat /\ k - 1 \in Nat /\ \A i \in 1 .. k : i \in 1 .. k - 1 \/ i = k
  BY MembersAre
<1>7. IsArray(c, k) = x.member.array
  BY DEF IsArray
<1>8. t.rest = packed \o rest
  OBVIOUS
<1>9. CASE x.member.array
  <2> DEFINE r == Release(n, o)
             size == Head(t.rest)
             part == SubSeq(t.rest, 2, size + 1)
  <2>1. size = Len(e) /\ part = e /\ SubSeq(t.rest, size + 2, Len(t.rest)) = rest
    <3> HIDE DEF e, packed
    <3> DEFINE buffer == (<<Len(e)>> \o e) \o rest
    <3>1. t.rest = buffer
      BY <1>3, <1>8, <1>9
    <3>2. Len(e) \in Element /\ e \in Seq(Element)
      BY <1>3, <1>4, <1>9
    <3>3. /\ Head(buffer) = Len(e) /\ SubSeq(buffer, 2, Len(e) + 1) = e
          /\ SubSeq(buffer, Len(e) + 2, Len(buffer)) = rest
      BY <3>2, TakeCounted
    <3> HIDE DEF buffer
    <3> QED
      BY <3>1, <3>3
  <2>2. u = [o |-> o, m |-> Attach(r, o, part), rest |-> SubSeq(t.rest, size + 2, Len(t.rest))]
    BY <1>9 DEF TakeMember
  <2> HIDE DEF u, r, size, part
  <2>3. u = [o |-> o, m |-> Attach(r, o, e), rest |-> rest]
    BY <2>1, <2>2
  <2>4. u.o = o /\ u.rest = rest /\ d = Attach(r, o, e)
    BY <2>3
  <2>5. Sets(c, n, Attach(r, o, e), o, w, e)
    <3> HIDE DEF e, n
    <3> QED
      BY <1>2, <1>4, ReplaceIs DEF r
  <2> HIDE DEF e, n, x, d, packed, v
  <2>6. Sets(c, n, d, o, w, e)
    BY <2>4, <2>5
  <2>7. Sets(c, m, d, o, w, e)
    BY <1>1, <2>6, SetsAgain
  <2>8. d.object[o].values = w /\ Elements(d, o) = e
    BY <2>7 DEF Sets
  <2>9. \A i \in 1 .. k : ~IsArray(c, i) =>
           d.object[o].values[Key(MembersOf[c][i])]
             = m.object[p].values[Key(MembersOf[c][i])]
    BY <1>1, <1>6, <1>7, <1>9, <2>8
  <2>10. HasMembers(c, m, d, o, p, k)
    BY <2>7, <2>8, <2>9 DEF HasMembers, e
  <2> QED
    BY <2>4, <2>10 DEF u, d, x
<1>10. CASE ~x.member.array
  <2> DEFINE key == Key(x)
             f == [w EXCEPT ![key] = v]
  <2>1. Head(t.rest) = v /\ SubSeq(t.rest, 2, Len(t.rest)) = rest
    <3> HIDE DEF v, packed
    <3> DEFINE buffer == <<v>> \o rest
    <3>1. t.rest = buffer /\ v \in Element
      BY <1>3, <1>8, <1>10
    <3>2. Head(buffer) = v /\ SubSeq(buffer, 2, Len(buffer)) = rest
      BY <3>1, TakeOne
    <3> HIDE DEF buffer
    <3> QED
      BY <3>1, <3>2
  <2>2. u = [o |-> o, m |-> [n EXCEPT !.object[o].values[key] = Head(t.rest)],
             rest |-> SubSeq(t.rest, 2, Len(t.rest))]
    BY <1>10 DEF TakeMember
  <2>3. ~x.member.array => key \in DOMAIN Defaults[c]
    BY MembersAre, <1>7
  <2>4. key \in DOMAIN Defaults[c] /\ v \in Int
    BY <1>4, <1>10, <2>3
  <2>5. Sets(c, n, [n EXCEPT !.object[o].values[key] = v], o, f, Elements(n, o))
    <3> HIDE DEF n, key, v
    <3> QED
      BY <1>2, <2>4, ValuesIs
  <2> DEFINE g == [n EXCEPT !.object[o].values[key] = v]
  <2>6. u = [o |-> o, m |-> g, rest |-> rest]
    BY <2>1, <2>2
  <2> HIDE DEF g, u
  <2>7. u.o = o /\ u.rest = rest /\ d = g
    BY <2>6
  <2>8. Sets(c, n, d, o, f, Elements(n, o))
    BY <2>5, <2>7 DEF g
  <2> HIDE DEF d, n, f
  <2>9. Sets(c, m, d, o, f, Elements(n, o))
    BY <1>1, <2>8, SetsAgain
  <2>10. d.object[o].values = f /\ Elements(d, o) = Elements(n, o)
    BY <2>9 DEF Sets
  <2>11. /\ f[key] = v
         /\ \A j \in DOMAIN Defaults[c] \ {key} : f[j] = w[j]
    <3> HIDE DEF w, v, key
    <3> QED
      BY <1>5, <2>4 DEF f
  <2>12. ASSUME NEW i \in 1 .. k, ~IsArray(c, i)
         PROVE  f[Key(MembersOf[c][i])] = m.object[p].values[Key(MembersOf[c][i])]
    <3> DEFINE j == Key(MembersOf[c][i])
    <3>1. i \in 1 .. Len(MembersOf[c])
      BY MembersAre
    <3>2. j \in DOMAIN Defaults[c]
      BY <2>12, <3>1, MembersAre
    <3>3. CASE j = key
      BY <2>11, <3>3
    <3>4. CASE j # key
      <4>1. i # k
        BY <3>4
      <4>2. i \in 1 .. k - 1
        BY <1>6, <4>1
      <4>3. w[j] = m.object[p].values[j]
        BY <1>1, <2>12, <4>2
      <4> HIDE DEF j, key
      <4>4. f[j] = w[j]
        BY <2>11, <3>2, <3>4
      <4> QED
        BY <4>3, <4>4 DEF j
    <3> QED
      BY <3>3, <3>4
  <2>13. (\E i \in 1 .. k : IsArray(c, i)) => Elements(d, o) = e
    <3>1. ~IsArray(c, k)
      BY <1>7, <1>10
    <3> HIDE DEF e
    <3> QED
      BY <1>1, <1>6, <2>10, <3>1
  <2>14. HasMembers(c, m, d, o, p, k)
    BY <2>9, <2>10, <2>12, <2>13 DEF HasMembers
  <2> QED
    BY <2>7, <2>14 DEF u, d
<1> QED
  BY <1>9, <1>10

\* An unpacked object has the values and elements of the packed one.
LEMMA UnpackIs ==
  ASSUME NEW c \in Classes, NEW m, Owned(m, c, Live(m)), NEW o \in Live(m),
         NEW p \in Live(m), o # p
  PROVE  Sets(c, m, ParsimUnpack(m, o, c, ParsimPack(m, p, c)), o,
              m.object[p].values, Elements(m, p))
<1> DEFINE x == MembersOf[c]
           N == Len(x)
           buffer == ParsimPack(m, p, c)
           base == [o |-> o, m |-> m, rest |-> buffer]
           n == ParsimUnpack(m, o, c, buffer)
<1>1. N \in Nat /\ DOMAIN x = 1 .. N
  BY MembersAre
<1>2. PICK packed :
        /\ packed[0] = << >> /\ packed[N] = buffer
        /\ \A k \in 1 .. N : packed[k] = packed[k - 1] \o Packed(m, p, x[k])
        /\ \A k \in 0 .. N : /\ packed[k] \in Seq(Element)
                             /\ \E rest \in Seq(Element) : packed[k] \o rest = buffer
  BY PackTrace
<1>3. n = Takes!Fold(base, x).m
  BY DEF ParsimUnpack, Takes!Fold, FoldLeft, MapThenFoldSet, Max,
         Takes!MapThenFoldSet, Takes!Largest
<1>4. base.o = o /\ base.m = m /\ base.rest = buffer
  OBVIOUS
<1> HIDE DEF n, base, x
<1>5. PICK taken :
        /\ taken[0] = base
        /\ \A k \in 1 .. N : taken[k] = TakeMember(taken[k - 1], x[k])
        /\ taken[N] = Takes!Fold(base, x)
  <2> HIDE DEF N
  <2> QED
    BY <1>1, Takes!FoldTrace
<1> DEFINE Has(k) == /\ taken[k].o = o /\ taken[k].rest \in Seq(Element)
                     /\ packed[k] \o taken[k].rest = buffer
                     /\ HasMembers(c, m, taken[k].m, o, p, k)
           K == {k \in Nat : k <= N => Has(k)}
<1>6. 0 \in K
  <2>1. Sets(c, m, m, o, m.object[o].values, Elements(m, o))
    BY DEF Sets
  <2>2. HasMembers(c, m, m, o, p, 0)
    <3>1. \A i \in 1 .. 0 : FALSE
      OBVIOUS
    <3> QED
      BY <2>1, <3>1 DEF HasMembers
  <2>3. packed[0] = << >> /\ packed[0] \in Seq(Element)
    BY <1>1, <1>2
  <2>4. buffer \in Seq(Element)
    BY <1>1, <1>2
  <2> HIDE DEF buffer
  <2>5. packed[0] \o buffer = buffer
    BY <2>3, <2>4
  <2> QED
    BY <1>4, <1>5, <2>2, <2>4, <2>5
<1>7. ASSUME NEW j \in Nat, j \in K PROVE j + 1 \in K
  <2> DEFINE k == j + 1
             t == taken[j]
             y == Packed(m, p, x[k])
             u == TakeMember(t, x[k])
             before == packed[j]
  <2> HIDE DEF Has
  <2> SUFFICES ASSUME k <= N PROVE Has(k)
    OBVIOUS
  <2>1. k \in 1 .. N /\ k - 1 = j /\ j <= N /\ k \in 0 .. N /\ j \in 0 .. N
    BY <1>1
  <2>2. Has(j)
    BY <1>7, <2>1
  <2>3. taken[k] = u
    BY <1>5, <2>1
  <2>4. PICK rest \in Seq(Element) : packed[k] \o rest = buffer
    BY <1>2, <2>1
  <2>5. packed[k] = before \o y /\ before \in Seq(Element)
    BY <1>2, <2>1
  <2>6. y \in Seq(Element)
    BY <2>1, PackedIs DEF x
  <2>7. t.o = o /\ t.rest \in Seq(Element) /\ before \o t.rest = buffer
    BY <2>2 DEF Has
  <2>8. HasMembers(c, m, t.m, o, p, k - 1)
    BY <2>1, <2>2 DEF Has
  <2> HIDE DEF k, t, y, buffer, before, u
  <2>9. (before \o y) \o rest = before \o (y \o rest)
    BY <2>5, <2>6, Associative
  <2>10. y \o rest \in Seq(Element)
    BY <2>6, ConcatIs
  <2>11. before \o (y \o rest) = before \o t.rest
    BY <2>4, <2>5, <2>7, <2>9
  <2>12. t.rest = y \o rest
    BY <2>5, <2>7, <2>10, <2>11, Cancel
  <2>13. u.o = o /\ u.rest = rest /\ HasMembers(c, m, u.m, o, p, k)
    <3>1. k \in 1 .. Len(MembersOf[c]) /\ t.o = o
      BY <2>1, <2>7 DEF x
    <3>2. t.rest = Packed(m, p, MembersOf[c][k]) \o rest
      BY <2>12 DEF x, y
    <3>3. LET z == TakeMember(t, MembersOf[c][k])
          IN  z.o = o /\ z.rest = rest /\ HasMembers(c, m, z.m, o, p, k)
      BY <2>8, <3>1, <3>2, TakeMemberIs, SMTT(60)
    <3> QED
      BY <3>3 DEF x, u
  <2> QED
    BY <2>3, <2>4, <2>13 DEF Has
<1>8. Has(N)
  <2> HIDE DEF K
  <2>1. Nat \subseteq K
    BY <1>6, <1>7, Takes!NatSetInduction
  <2> HIDE DEF Has, N
  <2> QED
    BY <1>1, <2>1 DEF K
<1>9. HasMembers(c, m, n, o, p, N)
  BY <1>3, <1>5, <1>8
<1>10. /\ Sets(c, m, n, o, n.object[o].values, Elements(n, o))
       /\ \A i \in 1 .. N : ~IsArray(c, i) =>
            n.object[o].values[Key(x[i])] = m.object[p].values[Key(x[i])]
       /\ (\E i \in 1 .. N : IsArray(c, i)) => Elements(n, o) = Elements(m, p)
  BY <1>9 DEF HasMembers, x
<1>11. Owned(n, c, Live(n)) /\ o \in Live(n)
  BY <1>10 DEF Sets
<1> DEFINE w == n.object[o].values
           v == m.object[p].values
<1>12. /\ w \in [DOMAIN Defaults[c] -> Int] /\ v \in [DOMAIN Defaults[c] -> Int]
       /\ (Elements(n, o) # << >> => HoldsArray(c))
       /\ (Elements(m, p) # << >> => HoldsArray(c))
  BY <1>11, OwnedObject
<1>13. w = v
  <2>1. \A k \in DOMAIN Defaults[c] : \E i \in 1 .. N : ~IsArray(c, i) /\ k = Key(x[i])
    BY MembersAre DEF x
  <2>2. \A k \in DOMAIN Defaults[c] : w[k] = v[k]
    BY <1>10, <2>1
  <2> HIDE DEF w, v
  <2> QED
    BY <1>12, <2>2
<1>14. Elements(n, o) = Elements(m, p)
  <2>1. HoldsArray(c) => \E i \in 1 .. N : IsArray(c, i)
    BY MembersAre DEF x
  <2> QED
    BY <1>10, <1>12, <2>1
<1> QED
  BY <1>10, <1>13, <1>14 DEF n

-----------------------------------------------------------------------------
(***************************************************************************)
(* ACK frames: what handleAckTimeout writes into an object is what         *)
(* processPacketFrames reads from it.                                      *)
(***************************************************************************)
Acks == INSTANCE QuicConnectionServerProofs WITH
  Packets <- {}, rcv_next <- 0, received_out_of_order <- {}, current_largest <- 0,
  ack_timer <- FALSE, num_packets_recieved <- 0, receiver <- 0, arrived <- {}

LEMMA AckOfIs ==
  ASSUME NEW r \in Reports
  PROVE  /\ AckOf(r).largest \in Int /\ AckOf(r).first \in Int
         /\ AckOf(r).ranges \in Seq(Element)
         /\ r.list = {} => AckOf(r).ranges = << >>
         /\ AckOf(r) = [largest |-> AckOf(r).largest, first |-> AckOf(r).first,
                        ranges |-> AckOf(r).ranges]
         /\ DecodeAck(AckOf(r)) = Descending(Reported(r))
         /\ TotalAcked(AckOf(r)) = Len(DecodeAck(AckOf(r)))
<1> DEFINE list == r.list
           next == r.rcv_next
           current == r.current_largest
           frame == AckOf(r)
<1>1. /\ next \in Int /\ current \in Int /\ list \in SUBSET Int /\ IsFiniteSet(list)
      /\ list = {} => current < next
  BY ReportsAssumption
<1>2. CASE list # {}
  <2>1. frame = OutOfOrderAck(list, next) /\ Reported(r) = list
    BY <1>2 DEF AckOf, Reported
  <2> HIDE DEF list, next, frame
  <2>2. Acks!IsFiniteSet(list)
    BY <1>1 DEF IsFiniteSet, Acks!IsFiniteSet
  <2>3. LET f == Acks!OutOfOrderAck(list, next)
        IN  /\ f \in Acks!AckFrames
            /\ Acks!DecodeAck(f) = Acks!Descending(list)
            /\ Acks!TotalAcked(f) = Len(Acks!DecodeAck(f))
    BY <1>1, <1>2, <2>2, Acks!AckRangesRoundTrip
  <2>4. OutOfOrderAck(list, next) = Acks!OutOfOrderAck(list, next)
    BY DEF OutOfOrderAck, Acks!OutOfOrderAck, HoleRanges, Acks!HoleRanges,
       LastRange, Acks!LastRange, AckRange, Acks!AckRange, Missing, Acks!Missing,
       Descending, Acks!Descending, Ascending, Acks!Ascending, Max, Acks!Max,
       Min, Acks!Min, Cardinality, Acks!Cardinality
  <2>5. Descending(list) = Acks!Descending(list)
    BY DEF Descending, Acks!Descending, Cardinality, Acks!Cardinality
  <2>6. DecodeAck(frame) = Acks!DecodeAck(frame) /\ TotalAcked(frame) = Acks!TotalAcked(frame)
    BY DEF DecodeAck, Acks!DecodeAck, DecodeRange, Acks!DecodeRange, Downwards,
       Acks!Downwards, FoldLeft, Acks!FoldLeft, MapThenFoldSet, Acks!MapThenFoldSet,
       Max, Acks!Max, TotalAcked, Acks!TotalAcked
  <2>7. frame \in [largest : Int, first : Int, ranges : Seq([gap : Int, length : Int])]
    BY <2>1, <2>3, <2>4 DEF Acks!AckFrames
  <2>8. frame.ranges \in Seq(Element)
    <3> DEFINE s == frame.ranges
               R == [gap : Int, length : Int]
    <3>1. s \in Seq(R)
      BY <2>7
    <3>2. R \subseteq Element
      BY DEF Element
    <3> HIDE DEF s, R
    <3>3. Len(s) \in Nat /\ \A i \in 1 .. Len(s) : s[i] \in Element
      BY <3>1, <3>2
    <3>4. s = [i \in 1 .. Len(s) |-> s[i]]
      BY <3>1
    <3>5. [i \in 1 .. Len(s) |-> s[i]] \in Seq(Element)
      <4> DEFINE n == Len(s)
      <4> HIDE DEF n
      <4> QED
        BY <3>3 DEF n
    <3> QED
      BY <3>4, <3>5 DEF s
  <2> QED
    BY <1>2, <2>1, <2>3, <2>4, <2>5, <2>6, <2>7, <2>8 DEF list, frame
<1>3. CASE list = {}
  <2>1. frame = InOrderAck(next, current) /\ Reported(r) = current + 1 .. next - 1
    BY <1>3 DEF AckOf, Reported
  <2> HIDE DEF list, next, current, frame
  <2>2. LET f == Acks!InOrderAck(next, current)
        IN  /\ Acks!DecodeAck(f) = Acks!Descending(current + 1 .. next - 1)
            /\ Acks!TotalAcked(f) = Len(Acks!DecodeAck(f))
    BY <1>1, <1>3, Acks!AckInOrderRoundTrip
  <2>3. InOrderAck(next, current) = Acks!InOrderAck(next, current)
    BY DEF InOrderAck, Acks!InOrderAck
  <2>4. Descending(current + 1 .. next - 1) = Acks!Descending(current + 1 .. next - 1)
    BY DEF Descending, Acks!Descending, Cardinality, Acks!Cardinality
  <2>5. DecodeAck(frame) = Acks!DecodeAck(frame) /\ TotalAcked(frame) = Acks!TotalAcked(frame)
    BY DEF DecodeAck, Acks!DecodeAck, DecodeRange, Acks!DecodeRange, Downwards,
       Acks!Downwards, FoldLeft, Acks!FoldLeft, MapThenFoldSet, Acks!MapThenFoldSet,
       Max, Acks!Max, TotalAcked, Acks!TotalAcked
  <2>6. /\ frame.largest \in Int /\ frame.first \in Int /\ frame.ranges = << >>
        /\ frame = [largest |-> frame.largest, first |-> frame.first,
                    ranges |-> frame.ranges]
    BY <1>1, <2>1 DEF InOrderAck
  <2>7. frame.ranges \in Seq(Element)
    BY <2>6
  <2> QED
    BY <1>3, <2>1, <2>2, <2>3, <2>4, <2>5, <2>6, <2>7 DEF list, frame
<1> QED
  BY <1>2, <1>3

\* The values of an object with a frame.
FrameValues(r) ==
  LET V      == Visible["ACKFrame"]
      frame  == AckOf(r)
      typed  == [Defaults["ACKFrame"] EXCEPT ![V["frame_type"]] = ACK]
      listed == IF r.list = {} THEN typed
                ELSE [typed EXCEPT ![V["ACK_range_count"]] = Len(frame.ranges)]
      firsts == [listed EXCEPT ![V["first_ACK_range"]] = frame.first]
  IN  [firsts EXCEPT ![V["largest_acknowledged"]] = frame.largest]

LEMMA SetterAgain ==
  ASSUME NEW c, NEW m, NEW n, NEW o, NEW v, NEW e, Sets(c, m, n, o, v, e),
         NEW name, NEW x \in Int
  PROVE  Sets(c, m, Setter(n, o, c, name, x), o, [v EXCEPT ![Visible[c][name]] = x], e)
<1>1. /\ Owned(n, c, Live(n)) /\ o \in Live(n) /\ n.object[o].values = v
      /\ Elements(n, o) = e
  BY DEF Sets
<1>2. Sets(c, n, Setter(n, o, c, name, x), o,
           [n.object[o].values EXCEPT ![Visible[c][name]] = x], Elements(n, o))
  BY <1>1, SetterIs
<1>3. Sets(c, n, Setter(n, o, c, name, x), o, [v EXCEPT ![Visible[c][name]] = x], e)
  BY <1>1, <1>2
<1> QED
  BY <1>3, SetsAgain

LEMMA WriteAckIs ==
  ASSUME NEW r \in Reports, NEW m, Owned(m, "ACKFrame", Live(m)),
         NEW o \in Objects, m.object[o] = Dead
  PROVE  Sets("ACKFrame", m, WriteAck(m, o, r), o, FrameValues(r), AckOf(r).ranges)
<1> DEFINE c == "ACKFrame"
           V == Visible[c]
           frame == AckOf(r)
           count == Len(frame.ranges)
           made == Construct(m, o, c)
           typed == Setter(made, o, c, "frame_type", ACK)
           sized == SetArraySize(typed, o, c, count)
           filled == SetElements(sized, o, frame.ranges)
           listed == IF r.list # {} THEN Setter(filled, o, c, "ACK_range_count", count)
                     ELSE typed
           firsts == Setter(listed, o, c, "first_ACK_range", frame.first)
           v1 == [Defaults[c] EXCEPT ![V["frame_type"]] = ACK]
           v2 == IF r.list = {} THEN v1 ELSE [v1 EXCEPT ![V["ACK_range_count"]] = count]
           v3 == [v2 EXCEPT ![V["first_ACK_range"]] = frame.first]
           none == << >>
           empty == Resized(c, none, count)
<1>1. c \in Classes /\ HoldsArray(c)
  BY AckFrameData DEF HoldsArray
<1>2. /\ frame.largest \in Int /\ frame.first \in Int /\ frame.ranges \in Seq(Element)
      /\ count \in Nat /\ (r.list = {} => frame.ranges = none) /\ ACK \in Int
  <2>1. frame.ranges \in Seq(Element)
    BY AckOfIs
  <2>2. count \in Nat
    BY <2>1
  <2> QED
    BY <2>2, AckOfIs DEF ACK
<1>3. /\ WriteAck(m, o, r) = Setter(firsts, o, c, "largest_acknowledged", frame.largest)
      /\ FrameValues(r) = [v3 EXCEPT ![V["largest_acknowledged"]] = frame.largest]
  BY DEF WriteAck, FrameValues
<1> HIDE DEF c, none
<1>4. Sets(c, m, made, o, Defaults[c], none)
  BY <1>1, ConstructIs DEF none, c
<1> HIDE DEF made
<1>5. Sets(c, m, typed, o, v1, none)
  BY <1>2, <1>4, SetterAgain
<1> HIDE DEF typed, v1
<1>6. Owned(typed, c, Live(typed)) /\ o \in Live(typed)
      /\ typed.object[o].values = v1 /\ Elements(typed, o) = none
  BY <1>5 DEF Sets
<1>7. /\ Sets(c, typed, sized, o, v1, empty) /\ Len(empty) = count
  <2> HIDE DEF count
  <2>1. /\ Sets(c, typed, sized, o, typed.object[o].values, Resized(c, Elements(typed, o), count))
        /\ Len(Resized(c, Elements(typed, o), count)) = count
    BY <1>1, <1>2, <1>6, SetArraySizeIs
  <2> QED
    BY <1>6, <2>1
<1> HIDE DEF sized, empty
<1>8. /\ Owned(sized, c, Live(sized)) /\ o \in Live(sized)
      /\ sized.object[o].values = v1 /\ Elements(sized, o) = empty
  BY <1>7 DEF Sets
<1>9. Sets(c, sized, filled, o, v1, frame.ranges)
  <2>1. Len(frame.ranges) = Len(Elements(sized, o))
    BY <1>7, <1>8
  <2>2. Sets(c, sized, filled, o, sized.object[o].values, frame.ranges)
    <3> HIDE DEF frame
    <3> QED
      BY <1>2, <1>8, <2>1, SetElementsIs
  <2> QED
    BY <1>8, <2>2
<1> HIDE DEF filled, frame
<1>10. Sets(c, m, filled, o, v1, frame.ranges)
  <2>1. Sets(c, typed, filled, o, v1, frame.ranges)
    BY <1>7, <1>9, SetsAgain
  <2> QED
    BY <1>5, <2>1, SetsAgain
<1>11. Sets(c, m, listed, o, v2, frame.ranges)
  <2>1. CASE r.list = {}
    BY <1>2, <1>5, <2>1
  <2>2. CASE r.list # {}
    <3>1. count \in Int
      BY <1>2
    <3> HIDE DEF count
    <3>2. Sets(c, m, Setter(filled, o, c, "ACK_range_count", count), o,
               [v1 EXCEPT ![V["ACK_range_count"]] = count], frame.ranges)
      BY <1>10, <3>1, SetterAgain
    <3> QED
      BY <2>2, <3>2
  <2> QED
    BY <2>1, <2>2
<1> HIDE DEF listed, v2
<1>12. Sets(c, m, firsts, o, v3, frame.ranges)
  BY <1>2, <1>11, SetterAgain
<1> HIDE DEF firsts, v3
<1>13. Sets(c, m, Setter(firsts, o, c, "largest_acknowledged", frame.largest), o,
            [v3 EXCEPT ![V["largest_acknowledged"]] = frame.largest], frame.ranges)
  BY <1>2, <1>12, SetterAgain
<1> QED
  BY <1>3, <1>13 DEF c, frame

\* The value of an object with these members.
Value(c, v, e) ==
  [fields |-> [n \in DOMAIN Visible[c] |-> v[Visible[c][n]]], elements |-> e]

\* The frame is read from any object with the values of the one it was
\* written to: every name has a member of its own.
LEMMA ReadAckIs ==
  ASSUME NEW r \in Reports, NEW m, NEW o,
         ValueOf(m, o, "ACKFrame") = Value("ACKFrame", FrameValues(r), AckOf(r).ranges)
  PROVE  ReadAck(m, o) = AckOf(r)
<1> DEFINE c == "ACKFrame"
           V == Visible[c]
           D == Defaults[c]
           frame == AckOf(r)
           count == Len(frame.ranges)
           w == m.object[o].values
           v1 == [D EXCEPT ![V["frame_type"]] = ACK]
           v2 == IF r.list = {} THEN v1 ELSE [v1 EXCEPT ![V["ACK_range_count"]] = count]
           v3 == [v2 EXCEPT ![V["first_ACK_range"]] = frame.first]
           v4 == [v3 EXCEPT ![V["largest_acknowledged"]] = frame.largest]
           a == V["frame_type"]
           b == V["ACK_range_count"]
           f == V["first_ACK_range"]
           l == V["largest_acknowledged"]
<1>1. FrameValues(r) = v4
  BY DEF FrameValues
<1>2. /\ Elements(m, o) = frame.ranges
      /\ \A n \in DOMAIN V : w[V[n]] = v4[V[n]]
  <2> DEFINE g == [n \in DOMAIN V |-> w[V[n]]]
             h == [n \in DOMAIN V |-> v4[V[n]]]
  <2>1. ValueOf(m, o, c) = [fields |-> g, elements |-> Elements(m, o)]
    BY DEF ValueOf
  <2>2. Value(c, FrameValues(r), frame.ranges) = [fields |-> h, elements |-> frame.ranges]
    BY <1>1 DEF Value
  <2> HIDE DEF g, h
  <2>3. g = h /\ Elements(m, o) = frame.ranges
    BY <2>1, <2>2
  <2>4. \A n \in DOMAIN V : g[n] = w[V[n]] /\ h[n] = v4[V[n]]
    BY DEF g, h
  <2> HIDE DEF w, v4, V, frame
  <2> QED
    BY <2>3, <2>4
<1>3. {"frame_type", "largest_acknowledged", "first_ACK_range", "ACK_range_count"}
        \subseteq DOMAIN V
  BY AckFrameData
<1>4. /\ {a, b, f, l} \subseteq DOMAIN D /\ D = [k \in DOMAIN D |-> D[k]] /\ D[b] = 0
      /\ a # b /\ a # f /\ a # l /\ b # f /\ b # l /\ f # l
  <2>1. \A n \in DOMAIN V : V[n] \in DOMAIN D /\ V[n][2] = n
    BY ClassData, AckFrameData
  <2>2. D \in [DOMAIN D -> Int]
    BY ClassData, AckFrameData
  <2>3. D[b] = 0
    BY AckFrameData
  <2> HIDE DEF V, D
  <2> QED
    BY <1>3, <2>1, <2>2, <2>3
<1>5. w[b] = v4[b] /\ w[f] = v4[f] /\ w[l] = v4[l]
  BY <1>2, <1>3
<1>6. /\ frame.ranges \in Seq(Element) /\ (r.list = {} => frame.ranges = << >>)
      /\ frame = [largest |-> frame.largest, first |-> frame.first, ranges |-> frame.ranges]
  BY AckOfIs
<1>7. ReadAck(m, o) = [largest |-> w[l], first |-> w[f],
                       ranges |-> SubSeq(Elements(m, o), 1, w[b])]
  BY DEF ReadAck, Getter
<1> HIDE DEF D, a, b, f, l, count, frame, w
<1>8. v4[l] = frame.largest /\ v4[f] = frame.first
      /\ v4[b] = IF r.list = {} THEN 0 ELSE count
  <2>1. v1 = [v1 EXCEPT ![b] = v1[b]] /\ DOMAIN v1 = DOMAIN D /\ v1[b] = 0
    BY <1>4 DEF a, b
  <2> HIDE DEF v1
  <2>2. DOMAIN v2 = DOMAIN D /\ v2[b] = IF r.list = {} THEN 0 ELSE count
    BY <1>4, <2>1 DEF b
  <2> HIDE DEF v2
  <2>3. DOMAIN v3 = DOMAIN D /\ v3[b] = v2[b] /\ v3[f] = frame.first
    BY <1>4, <2>2 DEF f
  <2> HIDE DEF v3
  <2>4. v4[l] = frame.largest /\ v4[f] = v3[f] /\ v4[b] = v3[b]
    BY <1>4, <2>3 DEF l
  <2> QED
    BY <2>2, <2>3, <2>4
<1>9. SubSeq(Elements(m, o), 1, w[b]) = frame.ranges
  <2> DEFINE s == frame.ranges
  <2>1. s \in Seq(Element) /\ (r.list = {} => s = << >>) /\ Elements(m, o) = s
    BY <1>2, <1>6
  <2>2. w[b] = Len(s)
    <3>1. w[b] = IF r.list = {} THEN 0 ELSE Len(s)
      BY <1>5, <1>8 DEF count
    <3>2. r.list = {} => Len(s) = 0
      BY <2>1
    <3> QED
      BY <3>1, <3>2
  <2> HIDE DEF s
  <2>3. SubSeq(s, 1, Len(s)) = s
    <3>1. Len(s) \in Nat
      BY <2>1
    <3> DEFINE t == SubSeq(s, 1, Len(s))
    <3>2. t \in Seq(Element) /\ Len(t) = Len(s) /\ \A i \in 1 .. Len(s) : t[i] = s[i]
      BY <2>1, <3>1
    <3> HIDE DEF t
    <3>3. t = s
      BY <2>1, <3>2, SameSeq
    <3> QED
      BY <3>3 DEF t
  <2> QED
    BY <2>1, <2>2, <2>3 DEF s
<1> QED
  BY <1>5, <1>6, <1>7, <1>8, <1>9 DEF frame

-----------------------------------------------------------------------------
(***************************************************************************)
(* The inductive invariant.  Besides the ownership of the blocks it says   *)
(* what a new object holds, which no step changes, and that every object   *)
(* holds the frame when the server wrote one.                              *)
(***************************************************************************)
NewValues(c, r) == IF r = NoReport THEN Defaults[c] ELSE FrameValues(r)
NewElements(r)  == IF r = NoReport THEN << >> ELSE AckOf(r).ranges
NewValue(c, r)  == Value(c, NewValues(c, r), NewElements(r))

ReportOf(c, r) ==
  /\ c \in Classes
  /\ r \in Reports \cup {NoReport}
  /\ r # NoReport => c = "ACKFrame"

MessageInv ==
  /\ ReportOf(class, report)
  /\ Owned(memory, class, Live(memory))
  /\ Objects # {} => first = NewValue(class, report)
  /\ report # NoReport =>
       \A o \in Live(memory) : ValueOf(memory, o, class) = NewValue(class, report)

\* A step gives object o a value.
Gives(o, v, e) ==
  /\ Sets(class, memory, memory', o, v, e)
  /\ UNCHANGED <<class, report, first>>

\* No step but these two changes an object.
Removes(o) ==
  /\ o \in Live(memory) /\ Live(memory') = Live(memory) \ {o}
  /\ Owned(memory', class, Live(memory'))
  /\ \A p \in Live(memory') : ValueOf(memory', p, class) = ValueOf(memory, p, class)
  /\ UNCHANGED <<class, report, first>>

Stays == UNCHANGED <<class, memory, report, first>>

LEMMA SetsValue ==
  ASSUME NEW c, NEW m, NEW n, NEW o, NEW v, NEW e, Sets(c, m, n, o, v, e)
  PROVE  /\ o \in Objects /\ Owned(n, c, Live(n)) /\ Live(n) = Live(m) \cup {o}
         /\ ValueOf(n, o, c) = Value(c, v, e)
         /\ \A p \in Live(m) \ {o} : ValueOf(n, p, c) = ValueOf(m, p, c)
<1>1. /\ o \in Live(n) /\ Owned(n, c, Live(n)) /\ n.object[o].values = v
      /\ Elements(n, o) = e
      /\ \A p \in Objects \ {o} : n.object[p] = m.object[p]
      /\ \A p \in Live(m) \ {o} : Elements(n, p) = Elements(m, p)
  BY DEF Sets
<1>2. o \in Objects
  BY <1>1 DEF Live
<1>3. Live(n) = Live(m) \cup {o}
  BY <1>1 DEF Live
<1>4. ValueOf(n, o, c) = Value(c, v, e)
  BY <1>1 DEF ValueOf, Value
<1>5. \A p \in Live(m) \ {o} : ValueOf(n, p, c) = ValueOf(m, p, c)
  BY <1>1 DEF ValueOf, Live
<1> QED
  BY <1>1, <1>2, <1>3, <1>4, <1>5

LEMMA CreatedIs ==
  ASSUME ReportOf(class, report), NEW m, Owned(m, class, Live(m)),
         NEW o \in Objects, m.object[o] = Dead
  PROVE  Sets(class, m, Created(m, o), o, NewValues(class, report), NewElements(report))
<1>1. CASE report = NoReport
  <2>1. Sets(class, m, Construct(m, o, class), o, Defaults[class], << >>)
    BY ConstructIs DEF ReportOf
  <2> QED
    BY <1>1, <2>1 DEF Created, NewValues, NewElements
<1>2. CASE report # NoReport
  <2>1. class = "ACKFrame" /\ report \in Reports
    BY <1>2 DEF ReportOf
  <2>2. Sets("ACKFrame", m, WriteAck(m, o, report), o, FrameValues(report),
             AckOf(report).ranges)
    BY <2>1, WriteAckIs
  <2> QED
    BY <1>2, <2>1, <2>2 DEF Created, NewValues, NewElements
<1> QED
  BY <1>1, <1>2

LEMMA InitInv == Init => MessageInv
<1> SUFFICES ASSUME Init PROVE MessageInv
  OBVIOUS
<1> DEFINE f == [o \in Objects |-> Dead]
           none == << >>
<1>1. ReportOf(class, report)
  BY DEF Init, ReportOf
<1>2. memory = [object |-> f, block |-> none]
  BY DEF Init
<1>3. memory.object = f /\ memory.block = none /\ DOMAIN none = {}
      /\ memory = [object |-> memory.object, block |-> memory.block]
  <2>1. DOMAIN none = {}
    OBVIOUS
  <2> HIDE DEF f, none
  <2>2. memory.object = f /\ memory.block = none
    BY <1>2
  <2> QED
    BY <1>2, <2>1, <2>2
<1>4. Live(memory) = {}
  BY <1>3 DEF Live
<1>5. MemoryType(memory, class)
  <2>1. IsFiniteSet({})
    BY FS_EmptySet
  <2>2. none \in [DOMAIN none -> Seq(Element)]
    OBVIOUS
  <2>3. f \in [Objects -> {Dead} \cup Object(class)]
    OBVIOUS
  <2> HIDE DEF f, none
  <2> QED
    BY <1>3, <2>1, <2>2, <2>3 DEF MemoryType
<1>6. Owned(memory, class, Live(memory))
  BY <1>3, <1>4, <1>5 DEF Owned
<1>7. Objects # {} => first = NewValue(class, report)
  <2> SUFFICES ASSUME Objects # {} PROVE first = NewValue(class, report)
    OBVIOUS
  <2> DEFINE o == CHOOSE x \in Objects : TRUE
             n == Created(memory, o)
  <2>1. o \in Objects
    OBVIOUS
  <2>2. memory.object[o] = Dead
    BY <1>3, <2>1
  <2>3. first = ValueOf(n, o, class)
    BY DEF Init
  <2> HIDE DEF o, f, n
  <2>4. Sets(class, memory, n, o, NewValues(class, report), NewElements(report))
    BY <1>1, <1>6, <2>1, <2>2, CreatedIs DEF n
  <2> QED
    BY <2>3, <2>4, SetsValue DEF NewValue
<1> QED
  BY <1>1, <1>4, <1>6, <1>7 DEF MessageInv

LEMMA GivesInv ==
  ASSUME MessageInv, NEW o, NEW v, NEW e, Gives(o, v, e),
         report # NoReport => Value(class, v, e) = NewValue(class, report)
  PROVE  MessageInv'
<1>1. /\ o \in Objects /\ Owned(memory', class, Live(memory'))
      /\ Live(memory') = Live(memory) \cup {o}
      /\ ValueOf(memory', o, class) = Value(class, v, e)
      /\ \A p \in Live(memory) \ {o} : ValueOf(memory', p, class) = ValueOf(memory, p, class)
  BY SetsValue DEF Gives
<1>2. class' = class /\ report' = report /\ first' = first
  BY DEF Gives
<1>3. report # NoReport =>
        \A p \in Live(memory') : ValueOf(memory', p, class) = NewValue(class, report)
  BY <1>1 DEF MessageInv
<1> QED
  BY <1>1, <1>2, <1>3 DEF MessageInv

LEMMA RemovesInv ==
  ASSUME MessageInv, NEW o, Removes(o)
  PROVE  MessageInv'
BY DEF MessageInv, Removes

-----------------------------------------------------------------------------
(***************************************************************************)
(* What each operation does to the value of its object.                    *)
(***************************************************************************)
LEMMA CreateGives ==
  ASSUME MessageInv, NEW o \in Objects, Create(o)
  PROVE  /\ o \notin Live(memory)
         /\ Gives(o, NewValues(class, report), NewElements(report))
<1>1. memory.object[o] = Dead /\ memory' = Created(memory, o)
      /\ UNCHANGED <<class, report, first>>
  BY DEF Create, Becomes
<1>2. o \notin Live(memory)
  BY <1>1 DEF Live
<1>3. Sets(class, memory, Created(memory, o), o, NewValues(class, report), NewElements(report))
  BY <1>1, CreatedIs DEF MessageInv
<1> QED
  BY <1>1, <1>2, <1>3 DEF Gives

LEMMA DestroyRemoves ==
  ASSUME MessageInv, NEW o \in Objects, Destroy(o)
  PROVE  Removes(o)
<1>1. o \in Live(memory) /\ memory' = Destruct(memory, o) /\ UNCHANGED <<class, report, first>>
  BY DEF Destroy, Becomes
<1> DEFINE n == Destruct(memory, o)
<1>2. /\ Owned(n, class, Live(n)) /\ Live(n) = Live(memory) \ {o}
      /\ \A p \in Objects \ {o} : n.object[p] = memory.object[p]
      /\ \A p \in Live(n) : Elements(n, p) = Elements(memory, p)
  BY <1>1, DestructIs DEF MessageInv
<1> HIDE DEF n
<1>3. \A p \in Live(n) : ValueOf(n, p, class) = ValueOf(memory, p, class)
  BY <1>2 DEF ValueOf, Live
<1>4. memory' = n
  BY <1>1 DEF n
<1> QED
  BY <1>1, <1>2, <1>3, <1>4 DEF Removes

LEMMA DuplicateGives ==
  ASSUME MessageInv, NEW o \in Objects, NEW p \in Objects, Duplicate(o, p)
  PROVE  /\ p \in Live(memory)
         /\ Gives(o, memory.object[p].values, Elements(memory, p))
<1>1. /\ memory.object[o] = Dead /\ p \in Live(memory)
      /\ memory' = CopyConstruct(memory, o, p, class) /\ UNCHANGED <<class, report, first>>
  BY DEF Duplicate, Becomes
<1>2. Sets(class, memory, CopyConstruct(memory, o, p, class), o,
           memory.object[p].values, Elements(memory, p))
  BY <1>1, CopyConstructIs DEF MessageInv, ReportOf
<1> QED
  BY <1>1, <1>2 DEF Gives

LEMMA AssignGives ==
  ASSUME MessageInv, NEW o \in Objects, NEW p \in Objects, AssignFrom(o, p)
  PROVE  \/ Stays
         \/ /\ p \in Live(memory)
            /\ Gives(o, memory.object[p].values, Elements(memory, p))
<1>1. /\ o \in Live(memory) /\ p \in Live(memory)
      /\ memory' = Assign(memory, o, p) /\ UNCHANGED <<class, report, first>>
  BY DEF AssignFrom, Becomes
<1>2. CASE o = p
  BY <1>1, <1>2 DEF Assign, Stays
<1>3. CASE o # p
  <2>1. Sets(class, memory, Copy(memory, o, p), o,
             memory.object[p].values, Elements(memory, p))
    BY <1>1, <1>3, CopyIs DEF MessageInv
  <2>2. memory' = Copy(memory, o, p)
    BY <1>1, <1>3 DEF Assign
  <2> QED
    BY <1>1, <2>1, <2>2 DEF Gives
<1> QED
  BY <1>2, <1>3

LEMMA TransportGives ==
  ASSUME MessageInv, NEW o \in Objects, NEW p \in Objects, Transport(o, p)
  PROVE  /\ p \in Live(memory)
         /\ Gives(o, memory.object[p].values, Elements(memory, p))
<1> DEFINE n == ParsimUnpack(memory, o, class, ParsimPack(memory, p, class))
<1>1. /\ o \in Live(memory) /\ p \in Live(memory) /\ o # p
      /\ memory' = n /\ UNCHANGED <<class, report, first>>
  BY DEF Transport, Becomes
<1>2. Sets(class, memory, n, o, memory.object[p].values, Elements(memory, p))
  BY <1>1, UnpackIs DEF MessageInv, ReportOf
<1> HIDE DEF n
<1> QED
  BY <1>1, <1>2 DEF Gives

LEMMA SetterGives ==
  ASSUME MessageInv, NEW o \in Live(memory), NEW name,
         Changes(Setter(memory, o, class, name, 1))
  PROVE  /\ report = NoReport
         /\ Gives(o, [memory.object[o].values EXCEPT ![Visible[class][name]] = 1],
                  Elements(memory, o))
<1>1. Sets(class, memory, Setter(memory, o, class, name, 1), o,
           [memory.object[o].values EXCEPT ![Visible[class][name]] = 1],
           Elements(memory, o))
  BY SetterIs DEF MessageInv
<1> QED
  BY <1>1 DEF Gives, Changes

LEMMA SetElementGives ==
  ASSUME MessageInv, NEW o \in Live(memory), NEW k, NEW x \in Element,
         Changes(SetElement(memory, o, k, x))
  PROVE  /\ report = NoReport
         /\ Gives(o, memory.object[o].values, [Elements(memory, o) EXCEPT ![k] = x])
<1>1. Sets(class, memory, SetElement(memory, o, k, x), o, memory.object[o].values,
           [Elements(memory, o) EXCEPT ![k] = x])
  BY SetElementIs DEF MessageInv
<1> QED
  BY <1>1 DEF Gives, Changes

\* A field edited through the descriptor is a member, a place of the array,
\* or one that cannot be edited.
LEMMA EditGives ==
  ASSUME MessageInv, NEW o \in Objects, EditField(o)
  PROVE  /\ o \in Live(memory) /\ report = NoReport
         /\ \/ Stays
            \/ \E name \in DOMAIN Visible[class] :
                 Gives(o, [memory.object[o].values EXCEPT ![Visible[class][name]] = 1],
                       Elements(memory, o))
            \/ \E k : Gives(o, memory.object[o].values,
                            [Elements(memory, o) EXCEPT ![k] = 1])
<1>1. PICK field, k : Changes(SetFieldValueAsString(memory, o, class, field, k, 1))
  BY DEF EditField
<1>2. o \in Live(memory)
  BY DEF EditField
<1>3. report = NoReport
  BY <1>1 DEF Changes
<1> DEFINE name == GetFieldName(class, field)
<1>4. CASE ~IsEditable(class, field)
  BY <1>1, <1>2, <1>3, <1>4 DEF SetFieldValueAsString, Changes, Stays
<1>5. CASE IsEditable(class, field) /\ IsArrayField(class, name)
  <2>1. Changes(SetElement(memory, o, k, 1))
    BY <1>1, <1>5 DEF SetFieldValueAsString
  <2>2. 1 \in Element
    BY DEF Element
  <2> QED
    BY <1>2, <2>1, <2>2, SetElementGives
<1>6. CASE IsEditable(class, field) /\ ~IsArrayField(class, name)
  <2>1. Changes(Setter(memory, o, class, name, 1))
    BY <1>1, <1>6 DEF SetFieldValueAsString
  <2>2. name \in DOMAIN Visible[class]
    BY <1>6 DEF IsArrayField
  <2> HIDE DEF name
  <2> QED
    BY <1>2, <2>1, <2>2, SetterGives
<1> QED
  BY <1>4, <1>5, <1>6

LEMMA ArrayOfClass ==
  ASSUME MessageInv, HasArray(class)
  PROVE  HoldsArray(class)
BY ClassData DEF HoldsArray, MessageInv, ReportOf

LEMMA ResizeGives ==
  ASSUME MessageInv, NEW o \in Objects, ResizeArray(o)
  PROVE  /\ o \in Live(memory) /\ report = NoReport
         /\ \E size \in Nat :
              LET e == Resized(class, Elements(memory, o), size)
              IN  e \in Seq(Element) /\ Len(e) = size
                  /\ Gives(o, memory.object[o].values, e)
<1>1. /\ o \in Live(memory) /\ HasArray(class)
      /\ \E size \in 0 .. MaxLength : Changes(SetArraySize(memory, o, class, size))
  BY DEF ResizeArray
<1>2. PICK size \in 0 .. MaxLength : Changes(SetArraySize(memory, o, class, size))
  BY <1>1
<1>3. size \in Nat /\ HoldsArray(class)
  BY <1>1, ArrayOfClass, LengthAssumption
<1> DEFINE e == Resized(class, Elements(memory, o), size)
<1>4. /\ Sets(class, memory, SetArraySize(memory, o, class, size), o,
              memory.object[o].values, e)
      /\ e \in Seq(Element) /\ Len(e) = size
  BY <1>1, <1>3, SetArraySizeIs DEF MessageInv
<1> HIDE DEF e
<1>5. Gives(o, memory.object[o].values, e) /\ report = NoReport
  BY <1>2, <1>4 DEF Gives, Changes
<1> QED
  BY <1>1, <1>3, <1>4, <1>5 DEF e

LEMMA ChangeElementGives ==
  ASSUME MessageInv, NEW o \in Objects, ChangeElement(o)
  PROVE  /\ o \in Live(memory) /\ report = NoReport
         /\ \E k, x : Gives(o, memory.object[o].values,
                            [Elements(memory, o) EXCEPT ![k] = x])
<1>1. PICK k : Changes(SetElement(memory, o, k, OtherElement(class)))
  BY DEF ChangeElement
<1>2. o \in Live(memory) /\ OtherElement(class) \in Element
  BY ElementTypes DEF ChangeElement
<1> QED
  BY <1>1, <1>2, SetElementGives

LEMMA InsertGives ==
  ASSUME MessageInv, NEW o \in Objects, Insert(o)
  PROVE  /\ o \in Live(memory) /\ report = NoReport
         /\ \E k \in 1 .. Len(Elements(memory, o)) + 1 : \E x :
              LET e == InsertAt(Elements(memory, o), k, x)
              IN  e \in Seq(Element) /\ Len(e) = Len(Elements(memory, o)) + 1 /\ e[k] = x
                  /\ Gives(o, memory.object[o].values, e)
<1> DEFINE x == OtherElement(class)
<1>1. /\ o \in Live(memory) /\ HasArray(class)
      /\ \E k \in 1 .. memory.object[o].size + 1 : Changes(InsertElement(memory, o, k, x))
  BY DEF Insert
<1>2. PICK k \in 1 .. memory.object[o].size + 1 : Changes(InsertElement(memory, o, k, x))
  BY <1>1
<1>3. HoldsArray(class) /\ x \in Element
  BY <1>1, ArrayOfClass, ElementTypes
<1>4. memory.object[o].size = Len(Elements(memory, o))
  BY <1>1, OwnedObject DEF MessageInv
<1> DEFINE e == InsertAt(Elements(memory, o), k, x)
<1> HIDE DEF x
<1>5. /\ Sets(class, memory, InsertElement(memory, o, k, x), o, memory.object[o].values, e)
      /\ e \in Seq(Element) /\ Len(e) = Len(Elements(memory, o)) + 1 /\ e[k] = x
  BY <1>1, <1>2, <1>3, InsertElementIs DEF MessageInv
<1> HIDE DEF e
<1>6. Gives(o, memory.object[o].values, e) /\ report = NoReport
  BY <1>2, <1>5 DEF Gives, Changes
<1> QED
  BY <1>1, <1>2, <1>4, <1>5, <1>6 DEF e

LEMMA EraseGives ==
  ASSUME MessageInv, NEW o \in Objects, Erase(o)
  PROVE  /\ o \in Live(memory) /\ report = NoReport
         /\ \E k \in 1 .. Len(Elements(memory, o)) :
              Gives(o, memory.object[o].values, RemoveAt(Elements(memory, o), k))
<1>1. /\ o \in Live(memory)
      /\ \E k \in 1 .. memory.object[o].size : Changes(EraseElement(memory, o, k))
  BY DEF Erase
<1>2. PICK k \in 1 .. memory.object[o].size : Changes(EraseElement(memory, o, k))
  BY <1>1
<1>3. memory.object[o].size = Len(Elements(memory, o))
  BY <1>1, OwnedObject DEF MessageInv
<1>4. Sets(class, memory, EraseElement(memory, o, k), o, memory.object[o].values,
           RemoveAt(Elements(memory, o), k))
  BY <1>1, <1>2, EraseElementIs DEF MessageInv
<1>5. Gives(o, memory.object[o].values, RemoveAt(Elements(memory, o), k))
      /\ report = NoReport
  BY <1>2, <1>4 DEF Gives, Changes
<1> QED
  BY <1>1, <1>2, <1>3, <1>5

-----------------------------------------------------------------------------
(***************************************************************************)
(* Every step keeps the invariant.                                         *)
(***************************************************************************)
LEMMA ValueIs ==
  ASSUME NEW m, NEW o, NEW c
  PROVE  ValueOf(m, o, c) = Value(c, m.object[o].values, Elements(m, o))
BY DEF ValueOf, Value

\* What is copied from an object is its value, which is the frame if there is one.
LEMMA CopyInv ==
  ASSUME MessageInv, NEW o, NEW p \in Live(memory),
         Gives(o, memory.object[p].values, Elements(memory, p))
  PROVE  MessageInv'
<1>1. report # NoReport =>
        Value(class, memory.object[p].values, Elements(memory, p)) = NewValue(class, report)
  BY ValueIs DEF MessageInv
<1> QED
  BY <1>1, GivesInv

LEMMA ChangeInv ==
  ASSUME MessageInv, report = NoReport, NEW o, NEW v, NEW e, Gives(o, v, e)
  PROVE  MessageInv'
BY GivesInv

LEMMA StepInv == MessageInv /\ [Next]_vars => MessageInv'
<1> SUFFICES ASSUME MessageInv, [Next]_vars PROVE MessageInv'
  OBVIOUS
<1>1. ASSUME NEW o \in Objects, Create(o) PROVE MessageInv'
  <2>1. Gives(o, NewValues(class, report), NewElements(report))
    BY <1>1, CreateGives
  <2> QED
    BY <2>1, GivesInv DEF NewValue
<1>2. ASSUME NEW o \in Objects, Destroy(o) PROVE MessageInv'
  BY <1>2, DestroyRemoves, RemovesInv
<1>3. ASSUME NEW o \in Objects, CallSetter(o) PROVE MessageInv'
  <2>1. o \in Live(memory)
        /\ \E name \in DOMAIN Visible[class] : Changes(Setter(memory, o, class, name, 1))
    BY <1>3 DEF CallSetter
  <2> QED
    BY <2>1, SetterGives, ChangeInv
<1>4. ASSUME NEW o \in Objects, EditField(o) PROVE MessageInv'
  <2>1. Stays => MessageInv'
    BY DEF Stays, MessageInv
  <2> QED
    BY <1>4, <2>1, EditGives, ChangeInv
<1>5. ASSUME NEW o \in Objects, ResizeArray(o) PROVE MessageInv'
  BY <1>5, ResizeGives, ChangeInv
<1>6. ASSUME NEW o \in Objects, ChangeElement(o) PROVE MessageInv'
  BY <1>6, ChangeElementGives, ChangeInv
<1>7. ASSUME NEW o \in Objects, Insert(o) PROVE MessageInv'
  BY <1>7, InsertGives, ChangeInv
<1>8. ASSUME NEW o \in Objects, Erase(o) PROVE MessageInv'
  BY <1>8, EraseGives, ChangeInv
<1>9. ASSUME NEW o \in Objects, NEW p \in Objects, Duplicate(o, p) PROVE MessageInv'
  BY <1>9, DuplicateGives, CopyInv
<1>10. ASSUME NEW o \in Objects, NEW p \in Objects, AssignFrom(o, p) PROVE MessageInv'
  <2>1. Stays => MessageInv'
    BY DEF Stays, MessageInv
  <2> QED
    BY <1>10, <2>1, AssignGives, CopyInv
<1>11. ASSUME NEW o \in Objects, NEW p \in Objects, Transport(o, p) PROVE MessageInv'
  BY <1>11, TransportGives, CopyInv
<1>12. CASE UNCHANGED vars
  BY <1>12 DEF vars, MessageInv
<1> QED
  BY <1>1, <1>2, <1>3, <1>4, <1>5, <1>6, <1>7, <1>8, <1>9, <1>10, <1>11, <1>12 DEF Next

\* The objects with an array and the blocks correspond to each other.
LEMMA OneOwnerEach ==
  ASSUME NEW m, NEW c, Owned(m, c, Live(m))
  PROVE  LET owners == {o \in Live(m) : m.object[o].pointer # Null}
         IN  /\ {m.object[o].pointer : o \in owners} = DOMAIN m.block
             /\ Cardinality(owners) = Cardinality(DOMAIN m.block)
<1> DEFINE owners == {o \in Live(m) : m.object[o].pointer # Null}
           blocks == DOMAIN m.block
           owner == [a \in blocks |-> CHOOSE o \in owners : m.object[o].pointer = a]
<1>1. /\ \A o \in owners : m.object[o].pointer \in blocks
      /\ blocks \subseteq Nat \ {Null} /\ IsFiniteSet(blocks)
      /\ \A a \in blocks : \E o \in Live(m) : m.object[o].pointer = a
      /\ \A o, p \in owners : m.object[o].pointer = m.object[p].pointer => o = p
  BY DEF Owned, KnowsBlock, MemoryType
<1>2. \A a \in blocks : \E o \in owners : m.object[o].pointer = a
  BY <1>1
<1> HIDE DEF owners, blocks
<1>3. \A a \in blocks : owner[a] \in owners /\ m.object[owner[a]].pointer = a
  BY <1>2
<1>4. \A o \in owners : owner[m.object[o].pointer] = o
  BY <1>1, <1>3
<1>5. owner \in Bijection(blocks, owners)
  <2>1. owner \in [blocks -> owners]
    BY <1>3
  <2> HIDE DEF owner
  <2>2. \A a, b \in blocks : owner[a] = owner[b] => a = b
    BY <1>3
  <2>3. \A o \in owners : \E a \in blocks : owner[a] = o
    BY <1>1, <1>4
  <2> QED
    BY <2>1, <2>2, <2>3 DEF Bijection, Injection, Surjection, IsInjective
<1>6. Cardinality(owners) = Cardinality(blocks)
  BY <1>1, <1>5, FS_Bijection DEF ExistsBijection
<1>7. {m.object[o].pointer : o \in owners} = blocks
  BY <1>1, <1>2
<1> QED
  BY <1>6, <1>7 DEF owners, blocks

LEMMA InvImplies == MessageInv => OwnsItsBlock /\ RoundTrip /\ ArrayFits
<1> SUFFICES ASSUME MessageInv PROVE OwnsItsBlock /\ RoundTrip /\ ArrayFits
  OBVIOUS
<1>1. OwnsItsBlock
  <2> DEFINE owners == {o \in Live(memory) : memory.object[o].pointer # Null}
  <2>1. /\ {memory.object[o].pointer : o \in owners} = DOMAIN memory.block
        /\ Cardinality(owners) = Cardinality(DOMAIN memory.block)
    BY OneOwnerEach DEF MessageInv
  <2>2. \A o \in Live(memory) :
          memory.object[o].size =
            IF o \in owners THEN Len(memory.block[memory.object[o].pointer]) ELSE 0
    BY DEF MessageInv, Owned, KnowsBlock
  <2> QED
    BY <2>1, <2>2 DEF OwnsItsBlock
<1>2. ASSUME report # NoReport, NEW o \in Live(memory)
      PROVE  /\ report \in Reports /\ ReadAck(memory, o) = AckOf(report)
  <2>1. report \in Reports /\ class = "ACKFrame"
    BY <1>2 DEF MessageInv, ReportOf
  <2>2. ValueOf(memory, o, "ACKFrame")
          = Value("ACKFrame", FrameValues(report), AckOf(report).ranges)
    BY <1>2, <2>1 DEF MessageInv, NewValue, NewValues, NewElements
  <2> QED
    BY <2>1, <2>2, ReadAckIs
<1>3. RoundTrip
  BY <1>2, AckOfIs DEF RoundTrip
<1>4. ArrayFits
  BY <1>2, AckOfIs DEF ArrayFits
<1> QED
  BY <1>1, <1>3, <1>4

THEOREM MessageInvariant == Spec => []MessageInv
BY InitInv, StepInv, PTL DEF Spec

(***************************************************************************)
(* Whatever objects of a class are created, copied, sent, changed and      *)
(* destroyed, in any order, every block of memory has exactly one owner,   *)
(* which knows how long it is: the destructor, operator= and the methods   *)
(* of arrays neither lose a block nor delete one twice.                    *)
(***************************************************************************)
THEOREM BlocksAreOwned == Spec => []OwnsItsBlock
BY MessageInvariant, InvImplies, PTL

(***************************************************************************)
(* Whatever set of packets is out of order, the client reads from the ACK  *)
(* frame that handleAckTimeout builds, and from every copy of it, exactly  *)
(* the numbers the server has, from the largest down.                      *)
(***************************************************************************)
THEOREM FrameRoundTrip == Spec => []RoundTrip
BY MessageInvariant, InvImplies, PTL

(***************************************************************************)
(* The array that the client allocates for an ACK frame has a place for    *)
(* every number it writes into it.                                         *)
(***************************************************************************)
THEOREM FrameArrayFits == Spec => []ArrayFits
BY MessageInvariant, InvImplies, PTL

-----------------------------------------------------------------------------
(***************************************************************************)
(* Objects behave like values: every step is one of MessageValues.         *)
(***************************************************************************)
Vals(m, c) ==
  [o \in Objects |-> IF o \in Live(m) THEN <<ValueOf(m, o, c)>> ELSE << >>]

LEMMA ValsIs ==
  ASSUME NEW m, NEW c, NEW o \in Live(m)
  PROVE  /\ Vals(m, c)[o] = <<ValueOf(m, o, c)>> /\ Vals(m, c)[o] # << >>
         /\ Vals(m, c)[o][1] = ValueOf(m, o, c)
<1>1. o \in Objects
  BY DEF Live
<1> DEFINE x == ValueOf(m, o, c)
           s == Vals(m, c)[o]
<1>2. s = <<x>>
  BY <1>1 DEF Vals
<1> HIDE DEF x, s
<1> QED
  BY <1>2 DEF x, s

LEMMA GivesVals ==
  ASSUME NEW o, NEW v, NEW e, Gives(o, v, e)
  PROVE  /\ Vals(memory, class)' = [Vals(memory, class) EXCEPT ![o] = <<Value(class, v, e)>>]
         /\ first' = first
<1> DEFINE n == memory'
           x == Value(class, v, e)
           old == Vals(memory, class)
           new == Vals(n, class)
<1>1. /\ o \in Objects /\ Live(n) = Live(memory) \cup {o}
      /\ ValueOf(n, o, class) = x
      /\ \A p \in Live(memory) \ {o} : ValueOf(n, p, class) = ValueOf(memory, p, class)
      /\ class' = class /\ first' = first
  BY SetsValue DEF Gives
<1>2. Vals(memory, class)' = new
  BY <1>1 DEF Vals
<1> HIDE DEF n, x
<1>3. new[o] = <<x>>
  BY <1>1 DEF Vals
<1>4. \A p \in Objects \ {o} : new[p] = old[p]
  BY <1>1 DEF Vals
<1>5. /\ old = [p \in Objects |-> old[p]] /\ new = [p \in Objects |-> new[p]]
  BY DEF Vals
<1> HIDE DEF old, new
<1>6. new = [old EXCEPT ![o] = <<x>>]
  BY <1>1, <1>3, <1>4, <1>5
<1> QED
  BY <1>1, <1>2, <1>6 DEF x, old

LEMMA AbstractLive ==
  ASSUME NEW o \in Objects
  PROVE  AsValues!Live(o) <=> o \in Live(memory)
<1>1. o \in Live(memory) => Vals(memory, class)[o] # << >>
  BY ValsIs
<1>2. o \notin Live(memory) => Vals(memory, class)[o] = << >>
  BY DEF Vals
<1> QED
  BY <1>1, <1>2 DEF AsValues!Live, Vals

LEMMA CreateIsNew ==
  ASSUME MessageInv, NEW o \in Objects, Create(o)
  PROVE  AsValues!New(o)
<1>1. o \notin Live(memory) /\ Gives(o, NewValues(class, report), NewElements(report))
  BY CreateGives
<1>2. first = Value(class, NewValues(class, report), NewElements(report))
  BY DEF MessageInv, NewValue
<1>3. /\ Vals(memory, class)' = [Vals(memory, class) EXCEPT ![o] = <<first>>]
      /\ first' = first
  BY <1>1, <1>2, GivesVals
<1> QED
  BY <1>1, <1>3, AbstractLive DEF AsValues!New, AsValues!Put, Vals

LEMMA DestroyIsDiscard ==
  ASSUME MessageInv, NEW o \in Objects, Destroy(o)
  PROVE  AsValues!Discard(o)
<1> DEFINE n == memory'
           old == Vals(memory, class)
           new == Vals(n, class)
           none == << >>
<1>1. /\ o \in Live(memory) /\ Live(n) = Live(memory) \ {o}
      /\ \A p \in Live(n) : ValueOf(n, p, class) = ValueOf(memory, p, class)
      /\ class' = class /\ first' = first
  BY DestroyRemoves DEF Removes
<1>2. Vals(memory, class)' = new
  BY <1>1 DEF Vals
<1> HIDE DEF n
<1>3. new[o] = none
  BY <1>1 DEF Vals
<1>4. \A p \in Objects \ {o} : new[p] = old[p]
  BY <1>1 DEF Vals
<1>5. /\ old = [p \in Objects |-> old[p]] /\ new = [p \in Objects |-> new[p]]
  BY DEF Vals
<1> HIDE DEF old, new, none
<1>6. new = [old EXCEPT ![o] = none]
  BY <1>3, <1>4, <1>5
<1>7. Vals(memory, class)' = [Vals(memory, class) EXCEPT ![o] = << >>]
  BY <1>2, <1>6 DEF old, none
<1>8. AsValues!Put(o, << >>)
  BY <1>1, <1>7 DEF AsValues!Put, Vals
<1> QED
  BY <1>1, <1>8, AbstractLive DEF AsValues!Discard

LEMMA CopyIsCopyOf ==
  ASSUME NEW o \in Objects, NEW p \in Live(memory),
         Gives(o, memory.object[p].values, Elements(memory, p))
  PROVE  AsValues!CopyOf(o, p)
<1> DEFINE x == Value(class, memory.object[p].values, Elements(memory, p))
<1>1. p \in Objects
  BY DEF Live
<1>2. Vals(memory, class)[p] = <<x>>
  BY ValsIs, ValueIs
<1>3. Vals(memory, class)' = [Vals(memory, class) EXCEPT ![o] = <<x>>] /\ first' = first
  BY GivesVals
<1> HIDE DEF x
<1>4. Vals(memory, class)' = [Vals(memory, class) EXCEPT ![o] = Vals(memory, class)[p]]
  BY <1>2, <1>3
<1> QED
  BY <1>1, <1>3, <1>4, AbstractLive DEF AsValues!CopyOf, AsValues!Put, Vals

\* A name stands for one member, so only the field with the name changes.
LEMMA SetterIsChangeField ==
  ASSUME MessageInv, NEW o \in Live(memory), NEW name \in DOMAIN Visible[class],
         Gives(o, [memory.object[o].values EXCEPT ![Visible[class][name]] = 1],
               Elements(memory, o))
  PROVE  AsValues!ChangeField(o)
<1> DEFINE V == Visible[class]
           v == memory.object[o].values
           e == Elements(memory, o)
           w == [v EXCEPT ![V[name]] = 1]
           f == [n \in DOMAIN V |-> v[V[n]]]
           g == [n \in DOMAIN V |-> w[V[n]]]
           h == [f EXCEPT ![name] = 1]
           vals == Vals(memory, class)
           s == vals[o]
           x == [fields |-> f, elements |-> e]
           y == [fields |-> h, elements |-> e]
<1>1. o \in Objects /\ v \in [DOMAIN Defaults[class] -> Int]
  BY OwnedObject DEF MessageInv
<1>2. \A n \in DOMAIN V : V[n] \in DOMAIN Defaults[class] /\ V[n][2] = n
  BY ClassData DEF MessageInv, ReportOf
<1>3. g = h
  <2> DEFINE key == V[name]
             D == DOMAIN Defaults[class]
  <2>1. /\ key \in D /\ v \in [D -> Int]
        /\ \A n \in DOMAIN V : V[n] \in D /\ (V[n] = key => n = name)
    BY <1>1, <1>2
  <2>2. w = [v EXCEPT ![key] = 1] /\ V[name] = key
    OBVIOUS
  <2> HIDE DEF V, v, w, key, D
  <2>3. w[key] = 1 /\ \A k \in D \ {key} : w[k] = v[k]
    BY <2>1, <2>2
  <2>4. \A n \in DOMAIN V : w[V[n]] = IF n = name THEN 1 ELSE v[V[n]]
    BY <2>1, <2>2, <2>3
  <2> QED
    BY <2>4
<1>4. s = <<x>>
  <2>1. ValueOf(memory, o, class) = x
    BY DEF ValueOf
  <2> HIDE DEF x
  <2> QED
    BY <2>1, ValsIs
<1>5. Value(class, w, e) = y
  BY <1>3 DEF Value
<1>6. vals' = [vals EXCEPT ![o] = <<y>>] /\ first' = first
  <2> HIDE DEF y
  <2>1. vals' = [vals EXCEPT ![o] = <<Value(class, w, e)>>] /\ first' = first
    BY GivesVals
  <2> QED
    BY <1>5, <2>1
<1>7. DOMAIN s[1].fields = DOMAIN V /\ [s EXCEPT ![1].fields[name] = 1] = <<y>>
  <2> HIDE DEF s, e, f, V
  <2>1. s[1] = x /\ x.fields = f
    BY <1>4
  <2>2. [x EXCEPT !.fields[name] = 1] = y
    BY DEF h
  <2>3. DOMAIN f = DOMAIN V
    BY DEF f
  <2> HIDE DEF x, y
  <2>4. [s EXCEPT ![1] = y] = <<y>>
    BY <1>4
  <2> QED
    BY <2>1, <2>2, <2>3, <2>4
<1>8. \E n \in DOMAIN vals[o][1].fields :
        /\ vals' = [vals EXCEPT ![o] = [vals[o] EXCEPT ![1].fields[n] = 1]]
        /\ first' = first
  <2> HIDE DEF y, V
  <2>1. vals' = [vals EXCEPT ![o] = [vals[o] EXCEPT ![1].fields[name] = 1]]
    BY <1>6, <1>7
  <2>2. name \in DOMAIN vals[o][1].fields
    BY <1>7 DEF V
  <2> QED
    BY <1>6, <2>1, <2>2
<1>9. AsValues!Live(o)
  BY <1>1, AbstractLive
<1> QED
  BY <1>8, <1>9 DEF AsValues!ChangeField, AsValues!Put, Vals

\* Only the elements of an object change.
LEMMA ElementsPut ==
  ASSUME MessageInv, NEW o \in Live(memory), NEW e,
         Gives(o, memory.object[o].values, e)
  PROVE  LET vals == Vals(memory, class)
         IN  /\ o \in Objects /\ AsValues!Live(o)
             /\ vals[o][1].elements = Elements(memory, o)
             /\ vals'[o] # << >> /\ vals'[o][1].elements = e
             /\ vals' = [vals EXCEPT ![o] = [vals[o] EXCEPT ![1].elements = e]]
             /\ first' = first
<1> DEFINE v == memory.object[o].values
           f == [n \in DOMAIN Visible[class] |-> v[Visible[class][n]]]
           d == Elements(memory, o)
           vals == Vals(memory, class)
           s == vals[o]
           x == [fields |-> f, elements |-> d]
           y == [fields |-> f, elements |-> e]
<1>1. o \in Objects
  BY DEF Live
<1>2. s = <<x>>
  <2>1. ValueOf(memory, o, class) = x
    BY DEF ValueOf
  <2> HIDE DEF x
  <2> QED
    BY <2>1, ValsIs
<1>3. vals' = [vals EXCEPT ![o] = <<y>>] /\ first' = first
  <2>1. Value(class, v, e) = y
    BY DEF Value
  <2>2. vals' = [vals EXCEPT ![o] = <<Value(class, v, e)>>] /\ first' = first
    BY GivesVals
  <2> HIDE DEF y
  <2> QED
    BY <2>1, <2>2
<1>4. vals'[o] = <<y>>
  <2>1. DOMAIN vals = Objects
    BY DEF Vals
  <2> DEFINE g == vals
  <2> HIDE DEF g, y
  <2>2. [g EXCEPT ![o] = <<y>>][o] = <<y>>
    BY <1>1, <2>1 DEF g
  <2> QED
    BY <1>3, <2>2 DEF g
<1>5. s[1].elements = d /\ [s EXCEPT ![1].elements = e] = <<y>>
  <2> HIDE DEF s, d, f
  <2>1. s[1] = x /\ x.elements = d /\ [x EXCEPT !.elements = e] = y
    BY <1>2
  <2> HIDE DEF x, y
  <2>2. [s EXCEPT ![1] = y] = <<y>>
    BY <1>2
  <2> QED
    BY <2>1, <2>2
<1>6. <<y>> # << >> /\ <<y>>[1] = y /\ y.elements = e
  <2>1. y.elements = e
    OBVIOUS
  <2> HIDE DEF y
  <2> QED
    BY <2>1
<1> HIDE DEF y
<1>7. vals' = [vals EXCEPT ![o] = [vals[o] EXCEPT ![1].elements = e]]
  BY <1>3, <1>5
<1> QED
  BY <1>1, <1>3, <1>4, <1>5, <1>6, <1>7, AbstractLive

LEMMA ResizeIs ==
  ASSUME MessageInv, NEW o \in Objects, ResizeArray(o)
  PROVE  AsValues!Resize(o)
<1> DEFINE d == Elements(memory, o)
           vals == Vals(memory, class)
<1>1. o \in Live(memory)
  BY ResizeGives
<1>2. PICK size \in Nat :
        /\ Len(Resized(class, d, size)) = size
        /\ Gives(o, memory.object[o].values, Resized(class, d, size))
  BY ResizeGives
<1> DEFINE e == Resized(class, d, size)
<1>3. d \in Seq(Element)
  BY <1>1, OwnedObject DEF MessageInv
<1>4. DOMAIN d = 1 .. Len(d) /\ Len(d) \in Nat
  <2> HIDE DEF d
  <2> QED
    BY <1>3
<1>5. DOMAIN e = 1 .. size
      /\ \A i \in 1 .. size : e[i] = IF i <= Len(d) THEN d[i] ELSE DefaultElement(class)
  BY DEF Resized
<1> HIDE DEF e, d
<1>6. /\ \A i \in DOMAIN e \cap DOMAIN d : e[i] = d[i]
      /\ \A i, j \in DOMAIN e \ DOMAIN d : e[i] = e[j]
  BY <1>4, <1>5
<1>7. /\ o \in Objects /\ AsValues!Live(o)
      /\ vals[o][1].elements = d
      /\ vals'[o] # << >> /\ vals'[o][1].elements = e
      /\ vals' = [vals EXCEPT ![o] = [vals[o] EXCEPT ![1].elements = e]]
      /\ first' = first
  BY <1>1, <1>2, ElementsPut DEF e, d
<1> HIDE DEF vals
<1>8. /\ \A i \in DOMAIN vals'[o][1].elements \cap DOMAIN vals[o][1].elements :
           vals'[o][1].elements[i] = vals[o][1].elements[i]
      /\ \A i, j \in DOMAIN vals'[o][1].elements \ DOMAIN vals[o][1].elements :
           vals'[o][1].elements[i] = vals'[o][1].elements[j]
      /\ vals' = [vals EXCEPT ![o] = [vals[o] EXCEPT ![1].elements = vals'[o][1].elements]]
  BY <1>6, <1>7
<1> QED
  BY <1>7, <1>8 DEF AsValues!Resize, AsValues!Put, vals, Vals

\* One element is replaced, added or removed.
OneElement(d, e) ==
  \/ /\ Len(e) = Len(d)
     /\ \E k \in DOMAIN d : e = ReplaceAt(d, k, e[k])
  \/ /\ Len(e) = Len(d) + 1
     /\ \E k \in DOMAIN e : e = InsertAt(d, k, e[k])
  \/ \E k \in DOMAIN d : e = RemoveAt(d, k)

LEMMA OneElementIs ==
  ASSUME MessageInv, NEW o \in Live(memory), NEW e,
         Gives(o, memory.object[o].values, e),
         OneElement(Elements(memory, o), e)
  PROVE  AsValues!ChangeElements(o)
<1> DEFINE d == Elements(memory, o)
           vals == Vals(memory, class)
<1>1. /\ o \in Objects /\ AsValues!Live(o)
      /\ vals[o][1].elements = d
      /\ vals'[o] # << >> /\ vals'[o][1].elements = e
      /\ vals' = [vals EXCEPT ![o] = [vals[o] EXCEPT ![1].elements = e]]
      /\ first' = first
  BY ElementsPut
<1> HIDE DEF vals, d
<1>2. OneElement(vals[o][1].elements, vals'[o][1].elements)
  BY <1>1 DEF d
<1>3. vals' = [vals EXCEPT ![o] = [vals[o] EXCEPT ![1].elements = vals'[o][1].elements]]
  BY <1>1
<1> QED
  BY <1>1, <1>2, <1>3
     DEF AsValues!ChangeElements, AsValues!Put, AsValues!ReplaceAt, AsValues!InsertAt,
         AsValues!RemoveAt, OneElement, ReplaceAt, InsertAt, RemoveAt, vals, Vals

\* A place outside the array is not written, and the step shows nothing.
LEMMA PlaceSet ==
  ASSUME MessageInv, NEW o \in Live(memory), NEW k, NEW x,
         Gives(o, memory.object[o].values, [Elements(memory, o) EXCEPT ![k] = x])
  PROVE  AsValues!ChangeElements(o) \/ UNCHANGED AsValues!valueVars
<1> DEFINE d == Elements(memory, o)
           e == [d EXCEPT ![k] = x]
           vals == Vals(memory, class)
<1>1. d \in Seq(Element)
  BY OwnedObject DEF MessageInv
<1>2. CASE k \in DOMAIN d
  <2>1. OneElement(d, e)
    <3>1. e[k] = x /\ DOMAIN e = DOMAIN d /\ d = [i \in DOMAIN d |-> d[i]]
      <4> HIDE DEF d
      <4> QED
        BY <1>1, <1>2
    <3>2. e = ReplaceAt(d, k, e[k])
      BY <3>1 DEF ReplaceAt
    <3>3. Len(e) = Len(d)
      <4> HIDE DEF d
      <4> QED
        BY <1>1
    <3> QED
      BY <1>2, <3>2, <3>3 DEF OneElement
  <2> QED
    BY <2>1, OneElementIs
<1>3. CASE k \notin DOMAIN d
  <2>1. e = d
    <3> HIDE DEF d
    <3> QED
      BY <1>1, <1>3
  <2>2. /\ vals' = [vals EXCEPT ![o] = <<Value(class, memory.object[o].values, d)>>]
        /\ first' = first
    BY <2>1, GivesVals
  <2>3. vals[o] = <<Value(class, memory.object[o].values, d)>>
    BY ValsIs, ValueIs
  <2>4. vals = [p \in Objects |-> vals[p]]
    BY DEF Vals
  <2> DEFINE y == <<Value(class, memory.object[o].values, d)>>
  <2> HIDE DEF vals, y
  <2>5. vals' = vals
    BY <2>2, <2>3, <2>4 DEF y
  <2> QED
    BY <2>2, <2>5 DEF AsValues!valueVars, vals, Vals
<1> QED
  BY <1>2, <1>3

LEMMA InsertIs ==
  ASSUME MessageInv, NEW o \in Objects, Insert(o)
  PROVE  AsValues!ChangeElements(o)
<1> DEFINE d == Elements(memory, o)
<1>1. o \in Live(memory)
  BY InsertGives
<1>2. PICK k \in 1 .. Len(d) + 1 : \E x :
        /\ InsertAt(d, k, x) \in Seq(Element) /\ Len(InsertAt(d, k, x)) = Len(d) + 1
        /\ InsertAt(d, k, x)[k] = x
        /\ Gives(o, memory.object[o].values, InsertAt(d, k, x))
  BY InsertGives
<1>3. PICK x :
        /\ InsertAt(d, k, x) \in Seq(Element) /\ Len(InsertAt(d, k, x)) = Len(d) + 1
        /\ InsertAt(d, k, x)[k] = x
        /\ Gives(o, memory.object[o].values, InsertAt(d, k, x))
  BY <1>2
<1> DEFINE e == InsertAt(d, k, x)
<1>4. OneElement(d, e)
  <2>1. e \in Seq(Element) /\ Len(e) = Len(d) + 1 /\ e = InsertAt(d, k, e[k])
    BY <1>3
  <2> HIDE DEF e
  <2>2. k \in DOMAIN e
    BY <1>2, <2>1
  <2> QED
    BY <2>1, <2>2 DEF OneElement
<1> QED
  BY <1>1, <1>3, <1>4, OneElementIs

LEMMA EraseIs ==
  ASSUME MessageInv, NEW o \in Objects, Erase(o)
  PROVE  AsValues!ChangeElements(o)
<1> DEFINE d == Elements(memory, o)
<1>1. o \in Live(memory)
  BY EraseGives
<1>2. PICK k \in 1 .. Len(d) : Gives(o, memory.object[o].values, RemoveAt(d, k))
  BY EraseGives
<1>3. d \in Seq(Element)
  BY <1>1, OwnedObject DEF MessageInv
<1>4. k \in DOMAIN d
  <2> HIDE DEF d
  <2> QED
    BY <1>2, <1>3
<1>5. OneElement(d, RemoveAt(d, k))
  BY <1>4 DEF OneElement
<1> QED
  BY <1>1, <1>2, <1>5, OneElementIs

LEMMA StaysIs ==
  ASSUME UNCHANGED <<class, memory, first>>
  PROVE  UNCHANGED AsValues!valueVars
<1>1. class' = class /\ memory' = memory /\ first' = first
  OBVIOUS
<1> QED
  BY <1>1 DEF AsValues!valueVars, Live, ValueOf, Elements

LEMMA AbstractInit == Init => AsValues!ValueInit
<1> SUFFICES ASSUME Init PROVE AsValues!ValueInit
  OBVIOUS
<1> DEFINE f == [o \in Objects |-> Dead]
           none == << >>
<1>1. memory = [object |-> f, block |-> none]
  BY DEF Init
<1>2. \A o \in Objects : memory.object[o] = Dead
  <2>1. \A o \in Objects : f[o] = Dead
    OBVIOUS
  <2> HIDE DEF f, none
  <2> QED
    BY <1>1, <2>1
<1>3. Live(memory) = {}
  BY <1>2 DEF Live
<1>4. Vals(memory, class) = [o \in Objects |-> << >>]
  BY <1>3 DEF Vals
<1> QED
  BY <1>4 DEF AsValues!ValueInit, Vals

LEMMA AbstractStep ==
  MessageInv /\ [Next]_vars => [AsValues!ValueNext]_AsValues!valueVars
<1> SUFFICES ASSUME MessageInv, [Next]_vars
             PROVE  AsValues!ValueNext \/ UNCHANGED AsValues!valueVars
  OBVIOUS
<1> DEFINE Goal == AsValues!ValueNext \/ UNCHANGED AsValues!valueVars
<1>1. ASSUME NEW o \in Objects, Create(o) PROVE Goal
  BY <1>1, CreateIsNew DEF AsValues!ValueNext
<1>2. ASSUME NEW o \in Objects, Destroy(o) PROVE Goal
  BY <1>2, DestroyIsDiscard DEF AsValues!ValueNext
<1>3. ASSUME NEW o \in Objects, CallSetter(o) PROVE Goal
  <2>1. o \in Live(memory)
        /\ \E name \in DOMAIN Visible[class] : Changes(Setter(memory, o, class, name, 1))
    BY <1>3 DEF CallSetter
  <2>2. AsValues!ChangeField(o)
    BY <2>1, SetterGives, SetterIsChangeField
  <2> QED
    BY <2>2 DEF AsValues!ValueNext
<1>4. ASSUME NEW o \in Objects, EditField(o) PROVE Goal
  <2>1. o \in Live(memory)
    BY <1>4, EditGives
  <2>2. CASE Stays
    BY <2>2, StaysIs DEF Stays
  <2>3. CASE \E name \in DOMAIN Visible[class] :
               Gives(o, [memory.object[o].values EXCEPT ![Visible[class][name]] = 1],
                     Elements(memory, o))
    BY <2>1, <2>3, SetterIsChangeField DEF AsValues!ValueNext
  <2>4. CASE \E k : Gives(o, memory.object[o].values,
                          [Elements(memory, o) EXCEPT ![k] = 1])
    BY <2>1, <2>4, PlaceSet DEF AsValues!ValueNext
  <2> QED
    BY <1>4, <2>2, <2>3, <2>4, EditGives
<1>5. ASSUME NEW o \in Objects, ResizeArray(o) PROVE Goal
  BY <1>5, ResizeIs DEF AsValues!ValueNext
<1>6. ASSUME NEW o \in Objects, ChangeElement(o) PROVE Goal
  BY <1>6, ChangeElementGives, PlaceSet DEF AsValues!ValueNext
<1>7. ASSUME NEW o \in Objects, Insert(o) PROVE Goal
  BY <1>7, InsertIs DEF AsValues!ValueNext
<1>8. ASSUME NEW o \in Objects, Erase(o) PROVE Goal
  BY <1>8, EraseIs DEF AsValues!ValueNext
<1>9. ASSUME NEW o \in Objects, NEW p \in Objects, Duplicate(o, p) PROVE Goal
  BY <1>9, DuplicateGives, CopyIsCopyOf DEF AsValues!ValueNext
<1>10. ASSUME NEW o \in Objects, NEW p \in Objects, AssignFrom(o, p) PROVE Goal
  <2>1. CASE Stays
    BY <2>1, StaysIs DEF Stays
  <2>2. CASE /\ p \in Live(memory)
             /\ Gives(o, memory.object[p].values, Elements(memory, p))
    BY <2>2, CopyIsCopyOf DEF AsValues!ValueNext
  <2> QED
    BY <1>10, <2>1, <2>2, AssignGives
<1>11. ASSUME NEW o \in Objects, NEW p \in Objects, Transport(o, p) PROVE Goal
  BY <1>11, TransportGives, CopyIsCopyOf DEF AsValues!ValueNext
<1>12. CASE UNCHANGED vars
  BY <1>12, StaysIs DEF vars
<1> QED
  BY <1>1, <1>2, <1>3, <1>4, <1>5, <1>6, <1>7, <1>8, <1>9, <1>10, <1>11, <1>12 DEF Next

(***************************************************************************)
(* Objects with pointers to blocks of memory implement values: a copy has  *)
(* all fields of its original and keeps them, an unpacked object has those *)
(* of the packed one, a change changes what it names and nothing else.     *)
(***************************************************************************)
THEOREM ObjectsAreValues == Spec => BehavesLikeValues
<1>1. Init => AsValues!ValueInit
  BY AbstractInit
<1>2. MessageInv /\ [Next]_vars => [AsValues!ValueNext]_AsValues!valueVars
  BY AbstractStep
<1> QED
  BY <1>1, <1>2, MessageInvariant, PTL DEF Spec, BehavesLikeValues, AsValues!ValueSpec

=============================================================================
