-------------------------------- MODULE Lemmas --------------------------------
(***************************************************************************)
(* What the proofs of the other modules need of vectors used as stacks,    *)
(* and of the natural numbers.                                             *)
(***************************************************************************)
EXTENDS Snake, SequenceTheorems, WellFoundedInduction, TLAPS

-----------------------------------------------------------------------------
(* Vectors.                                                                 *)

\* A sequence is one of its own elements.
LEMMA SeqIsSeq ==
    ASSUME NEW S, NEW s \in Seq(S)
    PROVE  IsSeq(s)
<1>1. /\ Len(s) \in Nat
      /\ s \in [1 .. Len(s) -> S]
      /\ DOMAIN s = 1 .. Len(s)
  BY LenProperties
<1>2. s \in [1 .. Len(s) -> {s[i] : i \in DOMAIN s}]
  BY <1>1
<1> QED
  BY <1>1, <1>2, SeqDef DEF IsSeq

\* What is known of a vector.
LEMMA IsSeqDomain ==
    ASSUME NEW s, IsSeq(s)
    PROVE  /\ Len(s) \in Nat
           /\ DOMAIN s = 1 .. Len(s)
           /\ s \in Seq({s[i] : i \in DOMAIN s})
BY LenProperties DEF IsSeq

\* A vector that is not empty has a first and a last element.
LEMMA VectorNotEmpty ==
    ASSUME NEW s, IsSeq(s)
    PROVE  s # <<>> <=> Len(s) >= 1
BY EmptySeq, IsSeqDomain

\* The tail of a vector, and its head.
LEMMA TailOfVector ==
    ASSUME NEW s, IsSeq(s), s # <<>>
    PROVE  /\ IsSeq(Tail(s))
           /\ Len(s) >= 1
           /\ Len(Tail(s)) = Len(s) - 1
           /\ Head(s) = s[1]
           /\ \A i \in DOMAIN Tail(s) : i + 1 \in DOMAIN s /\ Tail(s)[i] = s[i + 1]
<1> DEFINE R == {s[i] : i \in DOMAIN s}
<1>1. s \in Seq(R)
  BY DEF IsSeq
<1> HIDE DEF R
<1>2. /\ Head(s) \in R
      /\ Tail(s) \in Seq(R)
      /\ Len(Tail(s)) = Len(s) - 1
      /\ \A i \in 1 .. Len(Tail(s)) : Tail(s)[i] = s[i + 1]
  BY <1>1, HeadTailProperties
<1>3. Len(s) \in Nat /\ DOMAIN s = 1 .. Len(s) /\ Len(s) >= 1
  BY <1>1, EmptySeq, LenProperties
<1>4. IsSeq(Tail(s)) /\ DOMAIN Tail(s) = 1 .. Len(Tail(s))
  BY <1>2, SeqIsSeq, LenProperties
<1>5. Head(s) = s[1]
  BY <1>1
<1> QED
  BY <1>2, <1>3, <1>4, <1>5

\* Pushing one element.
LEMMA PushedVector ==
    ASSUME NEW s, NEW e, IsSeq(s)
    PROVE  /\ IsSeq(Append(s, e))
           /\ Len(Append(s, e)) = Len(s) + 1
           /\ DOMAIN Append(s, e) = 1 .. Len(s) + 1
           /\ \A i \in 1 .. Len(s) : Append(s, e)[i] = s[i]
           /\ Append(s, e)[Len(s) + 1] = e
<1> DEFINE R == {s[i] : i \in DOMAIN s} \cup {e}
<1>1. s \in Seq({s[i] : i \in DOMAIN s}) /\ Len(s) \in Nat
  BY IsSeqDomain
<1>2. s \in Seq(R) /\ e \in R
  BY <1>1, SeqMonotonic
<1> HIDE DEF R
<1>3. /\ Append(s, e) \in Seq(R)
      /\ Len(Append(s, e)) = Len(s) + 1
      /\ \A i \in 1 .. Len(s) : Append(s, e)[i] = s[i]
      /\ Append(s, e)[Len(s) + 1] = e
  BY <1>2, AppendProperties
<1> QED
  BY <1>1, <1>3, SeqIsSeq, LenProperties

\* Popping all but the first n elements.
LEMMA PrefixOfVector ==
    ASSUME NEW s, IsSeq(s), NEW n \in 0 .. Len(s)
    PROVE  /\ IsSeq(SubSeq(s, 1, n))
           /\ Len(SubSeq(s, 1, n)) = n
           /\ DOMAIN SubSeq(s, 1, n) = 1 .. n
           /\ \A i \in 1 .. n : SubSeq(s, 1, n)[i] = s[i]
<1> DEFINE R == {s[i] : i \in DOMAIN s}
           b == SubSeq(s, 1, n)
<1>1. Len(s) \in Nat /\ DOMAIN s = 1 .. Len(s) /\ n \in Nat /\ n <= Len(s)
  BY IsSeqDomain
<1>2. \A i \in 1 .. n : s[i] \in R
  BY <1>1
<1> HIDE DEF R
<1>3. /\ b \in Seq(R)
      /\ Len(b) = n
      /\ \A i \in 1 .. n : b[i] = s[i]
  BY <1>1, <1>2, SubSeqProperties
<1> QED
  BY <1>3, SeqIsSeq, LenProperties DEF b

\* The last n elements.
LEMMA SuffixOfVector ==
    ASSUME NEW s, IsSeq(s), NEW n \in 0 .. Len(s)
    PROVE  LET b == SubSeq(s, Len(s) - n + 1, Len(s))
           IN  /\ IsSeq(b)
               /\ Len(b) = n
               /\ DOMAIN b = 1 .. n
               /\ \A i \in 1 .. n : b[i] = s[Len(s) - n + i]
<1> DEFINE R == {s[i] : i \in DOMAIN s}
           m == Len(s) - n + 1
           b == SubSeq(s, m, Len(s))
<1>1. Len(s) \in Nat /\ DOMAIN s = 1 .. Len(s) /\ n \in Nat /\ n <= Len(s)
  BY IsSeqDomain
<1>2. m \in Int /\ \A i \in m .. Len(s) : s[i] \in R
  BY <1>1
<1>3. Len(s) - m + 1 = n /\ (m <= Len(s) <=> n >= 1)
  BY <1>1
<1>4. \A i \in 1 .. n : m + i - 1 = Len(s) - n + i
  BY <1>1
<1> HIDE DEF R, m
<1>5. /\ b \in Seq(R)
      /\ Len(b) = n
      /\ \A i \in 1 .. n : b[i] = s[m + i - 1]
  BY <1>1, <1>2, <1>3, SubSeqProperties
<1>6. \A i \in 1 .. n : b[i] = s[Len(s) - n + i]
  BY <1>4, <1>5
<1> QED
  BY <1>5, <1>6, SeqIsSeq, LenProperties DEF b, m

-----------------------------------------------------------------------------
(* Natural numbers.                                                         *)

\* A set of natural numbers that is not empty has a least element.
LEMMA LeastElement ==
    ASSUME NEW T, T \subseteq Nat, T # {}
    PROVE  \E x \in T : \A y \in T : x <= y
<1> DEFINE R == {ss \in Nat \X Nat : ss[1] < ss[2]}
<1>1. IsWellFoundedOn(R, Nat)
  BY NatLessThanWellFounded, Zenon DEF OpToRel
<1>2. PICK x \in T : \A y \in T : ~(<<y, x>> \in R)
  <2> HIDE DEF R
  <2> QED
    BY <1>1, WFMin
<1>3. ASSUME NEW y \in T PROVE x <= y
  <2>1. x \in Nat /\ y \in Nat
    OBVIOUS
  <2>2. <<y, x>> \in R <=> y < x
    BY <2>1
  <2> QED
    BY <1>2, <2>1, <2>2
<1> QED
  BY <1>3

\* A set that has 0, and with each number the next, has them all.
LEMMA NatInductiveSet ==
    ASSUME NEW S, 0 \in S, \A n \in Nat : n \in S => n + 1 \in S
    PROVE  Nat \subseteq S
<1> DEFINE T == Nat \ S
<1> SUFFICES ASSUME T # {} PROVE FALSE
  OBVIOUS
<1>1. PICK x \in T : \A y \in T : x <= y
  BY LeastElement
<1>2. x - 1 \in Nat /\ x - 1 + 1 = x
  OBVIOUS
<1>3. x - 1 \notin T
  BY <1>1, <1>2
<1> QED
  BY <1>2, <1>3

-----------------------------------------------------------------------------
(* Functions defined by recursion from 1, and induction from there.         *)

\* f is defined by recursion, from a with the steps of G
Recurs(f, n, a, G) == \A k \in 1 .. n : f[k] = IF k = 1 THEN a ELSE G[<<k, f[k - 1]>>]

\* A function defined by recursion exists.
LEMMA RecursiveFunction ==
    ASSUME NEW n \in Nat, NEW V, NEW a \in V, NEW G,
           \A k \in 2 .. n : \A x \in V : G[<<k, x>>] \in V
    PROVE  \E f \in [1 .. n -> V] : Recurs(f, n, a, G)
<1> DEFINE Is(f, m) == /\ f \in [1 .. m -> V]
                       /\ \A k \in 1 .. m : f[k] = IF k = 1 THEN a ELSE G[<<k, f[k - 1]>>]
           S == {m \in Nat : m <= n => \E f : Is(f, m)}
<1>1. 0 \in S
  <2>1. Is([k \in 1 .. 0 |-> a], 0)
    OBVIOUS
  <2> QED
    BY <2>1
<1>2. ASSUME NEW m \in Nat, m \in S PROVE m + 1 \in S
  <2> SUFFICES ASSUME m + 1 <= n PROVE \E f : Is(f, m + 1)
    OBVIOUS
  <2>1. PICK f : Is(f, m)
    BY <1>2
  <2> DEFINE v == IF m = 0 THEN a ELSE G[<<m + 1, f[m]>>]
             f2 == [k \in 1 .. m + 1 |-> IF k = m + 1 THEN v ELSE f[k]]
  <2>2. v \in V
    <3>1. CASE m = 0
      BY <3>1
    <3>2. CASE m # 0
      <4>1. f[m] \in V /\ m + 1 \in 2 .. n
        BY <2>1, <3>2
      <4> QED
        BY <3>2, <4>1
    <3> QED
      BY <3>1, <3>2
  <2>3. (m + 1) - 1 = m /\ (m + 1 = 1 <=> m = 0)
    OBVIOUS
  <2>4. f2[m + 1] = IF m + 1 = 1 THEN a ELSE G[<<m + 1, f2[(m + 1) - 1]>>]
    <3>1. CASE m = 0
      BY <3>1
    <3>2. CASE m # 0
      <4>1. f2[m] = f[m]
        BY <3>2
      <4> HIDE DEF f2
      <4>2. f2[m + 1] = v
        BY DEF f2
      <4> QED
        BY <2>3, <3>2, <4>1, <4>2
    <3> QED
      BY <3>1, <3>2
  <2>5. ASSUME NEW k \in 1 .. m PROVE f2[k] = IF k = 1 THEN a ELSE G[<<k, f2[k - 1]>>]
    <3>1. f2[k] = f[k] /\ (k # 1 => f2[k - 1] = f[k - 1])
      OBVIOUS
    <3>2. f[k] = IF k = 1 THEN a ELSE G[<<k, f[k - 1]>>]
      BY <2>1
    <3> HIDE DEF f2
    <3> QED
      BY <3>1, <3>2
  <2>6. f2 \in [1 .. m + 1 -> V]
    BY <2>1, <2>2
  <2> HIDE DEF f2, v
  <2>7. Is(f2, m + 1)
    BY <2>4, <2>5, <2>6
  <2> QED
    BY <2>7
<1> HIDE DEF S
<1>3. n \in S
  BY <1>1, <1>2, NatInductiveSet
<1> QED
  BY <1>3 DEF S, Recurs

\* A set that has 1, and with each number below n the next, has them all up to n.
LEMMA UpTo ==
    ASSUME NEW n \in Nat, NEW T, 1 \in T, \A k \in 1 .. n - 1 : k \in T => k + 1 \in T
    PROVE  1 .. n \subseteq T
<1> DEFINE S == {m \in Nat : m + 1 <= n => m + 1 \in T}
<1>1. 0 \in S
  OBVIOUS
<1>2. \A m \in Nat : m \in S => m + 1 \in S
  OBVIOUS
<1> HIDE DEF S
<1>3. Nat \subseteq S
  BY <1>1, <1>2, NatInductiveSet
<1>4. ASSUME NEW k \in 1 .. n PROVE k \in T
  <2>1. k - 1 \in S /\ (k - 1) + 1 = k
    BY <1>3
  <2> QED
    BY <2>1 DEF S
<1> QED
  BY <1>4
=============================================================================
