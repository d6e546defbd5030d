----------------------------- MODULE SeqLemmas ----------------------------
(***************************************************************************)
(* Facts about sequences and their elements that the proofs of several     *)
(* components rest on, and induction over the numbers, stated of a set of  *)
(* them: the library's theorems on induction take a predicate, which no    *)
(* prover here can supply.                                                 *)
(***************************************************************************)
EXTENDS Naturals, Sequences, FiniteSets, Functions,
        SequenceTheorems, FiniteSetTheorems, WellFoundedInduction, TLAPS

---------------------------------------------------------------------------
(* Induction, over sets of numbers. *)

\* A set of numbers that is not empty has a least one.
LEMMA Least == ASSUME NEW T, T \subseteq Nat, T # {} PROVE \E x \in T : \A y \in T : x <= y
<1> DEFINE R == {ss \in Nat \X Nat : ss[1] < ss[2]}
<1>1. OpToRel(<, Nat) = R
  BY DEF OpToRel
<1>2. IsWellFoundedOn(R, Nat)
  BY <1>1, NatLessThanWellFounded
<1>4. \A x, y \in Nat : x < y => <<x, y>> \in R
  OBVIOUS
<1> HIDE DEF R
<1>5. PICK x \in T : \A y \in T : ~ (<<y, x>> \in R)
  BY <1>2, WFMin
<1>6. \A y \in T : ~ (y < x)
  BY <1>4, <1>5
<1>7. \A y \in T : x <= y
  BY <1>6, SMT
<1> QED BY <1>7, Zenon

\* A set with 0, and with the next of each number it has, has them all.
LEMMA Inductive == ASSUME NEW T, 0 \in T, \A n \in Nat : n \in T => n + 1 \in T PROVE Nat \subseteq T
<1> SUFFICES ASSUME Nat \ T # {} PROVE FALSE
  OBVIOUS
<1>1. PICK x \in Nat \ T : \A y \in Nat \ T : x <= y
  BY Least
<1>2. x # 0 /\ x - 1 \in Nat /\ x - 1 \notin Nat \ T
  BY <1>1, SMT
<1>3. (x - 1) + 1 \in T
  BY <1>2
<1> QED BY <1>1, <1>3, SMT

---------------------------------------------------------------------------
(* Sequences. *)

\* No element comes twice.
Once(s) == \A i, j \in DOMAIN s : s[i] = s[j] => i = j

\* A sequence of S whose elements are all in T is one of T.
LEMMA OfRange ==
    ASSUME NEW S, NEW s \in Seq(S)
    PROVE  /\ Range(s) \subseteq S
           /\ \A T : Range(s) \subseteq T => s \in Seq(T)
<1>1. DOMAIN s = 1 .. Len(s) /\ Len(s) \in Nat /\ s \in [1 .. Len(s) -> S]
  BY LenProperties
<1>2. Range(s) \subseteq S
  BY <1>1 DEF Range
<1>3. ASSUME NEW T, Range(s) \subseteq T PROVE s \in Seq(T)
  <2>1. \A i \in 1 .. Len(s) : s[i] \in T
    BY <1>1, <1>3 DEF Range
  <2>2. s \in [1 .. Len(s) -> T]
    BY <1>1, <2>1
  <2> QED BY <1>1, <2>2, SeqDef
<1> QED BY <1>2, <1>3

\* One more at the end.
LEMMA OfAppend ==
   ASSUME NEW S, NEW s \in Seq(S), NEW e \in S
   PROVE /\ Append(s, e) \in Seq(S)
         /\ Range(Append(s, e)) = Range(s) \cup {e}
         /\ Once(s) /\ e \notin Range(s) => Once(Append(s, e))
<1>1. /\ Append(s, e) \in Seq(S) /\ Len(Append(s, e)) = Len(s) + 1 /\ Len(s) \in Nat
      /\ DOMAIN s = 1 .. Len(s) /\ DOMAIN Append(s, e) = 1 .. Len(s) + 1
  BY AppendProperties, LenProperties
<1>2. /\ \A i \in 1 .. Len(s) : Append(s, e)[i] = s[i]
      /\ Append(s, e)[Len(s) + 1] = e
  BY AppendProperties
<1>3. Range(Append(s, e)) = Range(s) \cup {e}
  <2>1. Range(Append(s, e)) \subseteq Range(s) \cup {e}
    BY <1>1, <1>2 DEF Range
  <2>2. e \in Range(Append(s, e))
    <3>1. Len(s) + 1 \in DOMAIN Append(s, e)
      BY <1>1
    <3> QED BY <3>1, <1>2 DEF Range
  <2>3. Range(s) \subseteq Range(Append(s, e))
    <3> SUFFICES ASSUME NEW i \in DOMAIN s PROVE s[i] \in Range(Append(s, e))
      BY DEF Range
    <3>1. i \in DOMAIN Append(s, e) /\ Append(s, e)[i] = s[i]
      BY <1>1, <1>2
    <3> QED BY <3>1 DEF Range
  <2> QED BY <2>1, <2>2, <2>3
<1>4. ASSUME Once(s), e \notin Range(s) PROVE Once(Append(s, e))
  BY <1>1, <1>2, <1>4 DEF Once, Range
<1> QED BY <1>1, <1>3, <1>4

\* The first taken off.
LEMMA OfTail ==
   ASSUME NEW S, NEW s \in Seq(S), s # <<>>
   PROVE /\ Head(s) \in S /\ Tail(s) \in Seq(S)
         /\ Range(s) = {Head(s)} \cup Range(Tail(s))
         /\ Once(s) => Once(Tail(s)) /\ Head(s) \notin Range(Tail(s))
<1>1. /\ Head(s) \in S /\ Tail(s) \in Seq(S) /\ Len(Tail(s)) = Len(s) - 1
      /\ \A i \in 1 .. Len(Tail(s)) : Tail(s)[i] = s[i + 1]
  BY HeadTailProperties
<1>2. /\ Len(s) \in Nat \ {0} /\ DOMAIN s = 1 .. Len(s) /\ DOMAIN Tail(s) = 1 .. Len(s) - 1
  BY <1>1, EmptySeq, LenProperties
<1>h. Head(s) = s[1] /\ 1 \in DOMAIN s
  BY <1>2
<1>3. Range(s) = {Head(s)} \cup Range(Tail(s))
  <2>1. ASSUME NEW i \in DOMAIN s PROVE s[i] \in {Head(s)} \cup Range(Tail(s))
    <3>1. CASE i = 1
      BY <3>1, <1>h
    <3>2. CASE i # 1
      <4>1. i - 1 \in DOMAIN Tail(s) /\ Tail(s)[i - 1] = s[(i - 1) + 1] /\ (i - 1) + 1 = i
        BY <3>2, <1>1, <1>2
      <4> QED BY <4>1 DEF Range
    <3> QED BY <3>1, <3>2
  <2>2. ASSUME NEW i \in DOMAIN Tail(s) PROVE Tail(s)[i] \in Range(s)
    <3>1. i + 1 \in DOMAIN s /\ Tail(s)[i] = s[i + 1]
      BY <1>1, <1>2
    <3> QED BY <3>1 DEF Range
  <2>3. Head(s) \in Range(s)
    BY <1>h DEF Range
  <2> QED BY <2>1, <2>2, <2>3 DEF Range
<1>4. ASSUME Once(s) PROVE Once(Tail(s)) /\ Head(s) \notin Range(Tail(s))
  <2>1. \A i \in DOMAIN Tail(s) : i + 1 \in DOMAIN s /\ Tail(s)[i] = s[i + 1] /\ i \in Nat \ {0}
    BY <1>1, <1>2
  <2>2. Once(Tail(s))
    <3> SUFFICES ASSUME NEW i \in DOMAIN Tail(s), NEW j \in DOMAIN Tail(s), Tail(s)[i] = Tail(s)[j]
                 PROVE  i = j
      BY DEF Once
    <3>1. i + 1 = j + 1
      BY <1>4, <2>1 DEF Once
    <3> QED BY <3>1, <2>1
  <2>3. Head(s) \notin Range(Tail(s))
    <3> SUFFICES ASSUME NEW i \in DOMAIN Tail(s), Tail(s)[i] = Head(s) PROVE FALSE
      BY DEF Range
    <3>1. i + 1 = 1
      BY <1>4, <2>1, <1>h DEF Once
    <3> QED BY <3>1, <2>1
  <2> QED BY <2>2, <2>3
<1> QED BY <1>1, <1>3, <1>4

\* A stretch of a sequence.
LEMMA OfSubSeq ==
    ASSUME NEW S, NEW s \in Seq(S), NEW m \in 1 .. Len(s) + 1, NEW n \in 0 .. Len(s)
    PROVE  /\ SubSeq(s, m, n) \in Seq(S)
           /\ Range(SubSeq(s, m, n)) = {s[i] : i \in m .. n}
           /\ Once(s) => Once(SubSeq(s, m, n))
<1> DEFINE r == SubSeq(s, m, n)
<1>1. DOMAIN s = 1 .. Len(s) /\ Len(s) \in Nat
  BY LenProperties
<1>2. /\ r \in Seq(S) /\ Len(r) = IF m <= n THEN n - m + 1 ELSE 0
      /\ \A i \in 1 .. n - m + 1 : r[i] = s[m + i - 1]
  <2>1. \A i \in m .. n : s[i] \in S
    BY <1>1, ElementOfSeq
  <2> QED BY <1>1, <2>1, SubSeqProperties
<1>3. DOMAIN r = 1 .. Len(r)
  BY <1>2, LenProperties
<1>4. \A i \in DOMAIN r : m + i - 1 \in m .. n /\ r[i] = s[m + i - 1] /\ i \in Nat
  BY <1>1, <1>2, <1>3
<1>5. \A i \in m .. n : i - m + 1 \in DOMAIN r /\ r[i - m + 1] = s[i]
  <2> SUFFICES ASSUME NEW i \in m .. n PROVE i - m + 1 \in DOMAIN r /\ r[i - m + 1] = s[i]
    OBVIOUS
  <2>1. i - m + 1 \in 1 .. n - m + 1 /\ m + (i - m + 1) - 1 = i /\ m <= n
    BY <1>1
  <2> QED BY <2>1, <1>2, <1>3
<1> HIDE DEF r
<1>6. Range(r) = {s[i] : i \in m .. n}
  <2>1. ASSUME NEW i \in DOMAIN r PROVE r[i] \in {s[j] : j \in m .. n}
    BY <1>4
  <2>2. ASSUME NEW i \in m .. n PROVE s[i] \in Range(r)
    BY <1>5 DEF Range
  <2> QED BY <2>1, <2>2 DEF Range
<1>7. ASSUME Once(s), NEW i \in DOMAIN r, NEW j \in DOMAIN r, r[i] = r[j] PROVE i = j
  <2>1. m + i - 1 \in DOMAIN s /\ m + j - 1 \in DOMAIN s /\ s[m + i - 1] = s[m + j - 1]
    BY <1>1, <1>4, <1>7
  <2>2. m + i - 1 = m + j - 1
    BY <2>1, <1>7 DEF Once
  <2> QED BY <2>2, <1>4
<1> QED BY <1>2, <1>6, <1>7 DEF r, Once

\* A sequence cut in two.
LEMMA OfSplit ==
    ASSUME NEW S, NEW s \in Seq(S), NEW n \in 0 .. Len(s)
    PROVE  /\ SubSeq(s, 1, n) \in Seq(S) /\ SubSeq(s, n + 1, Len(s)) \in Seq(S)
           /\ Range(s) = Range(SubSeq(s, 1, n)) \cup Range(SubSeq(s, n + 1, Len(s)))
           /\ Once(s) => /\ Once(SubSeq(s, 1, n)) /\ Once(SubSeq(s, n + 1, Len(s)))
                         /\ Range(SubSeq(s, 1, n)) \cap Range(SubSeq(s, n + 1, Len(s))) = {}
<1>1. DOMAIN s = 1 .. Len(s) /\ Len(s) \in Nat
  BY LenProperties
<1>2. 1 \in 1 .. Len(s) + 1 /\ n + 1 \in 1 .. Len(s) + 1 /\ Len(s) \in 0 .. Len(s)
  BY <1>1
<1>3. /\ SubSeq(s, 1, n) \in Seq(S) /\ Range(SubSeq(s, 1, n)) = {s[i] : i \in 1 .. n}
      /\ Once(s) => Once(SubSeq(s, 1, n))
  BY <1>2, OfSubSeq
<1>4. /\ SubSeq(s, n + 1, Len(s)) \in Seq(S)
      /\ Range(SubSeq(s, n + 1, Len(s))) = {s[i] : i \in n + 1 .. Len(s)}
      /\ Once(s) => Once(SubSeq(s, n + 1, Len(s)))
  BY <1>2, OfSubSeq
<1>5. Range(s) = {s[i] : i \in 1 .. n} \cup {s[i] : i \in n + 1 .. Len(s)}
  <2>1. \A i \in 1 .. Len(s) : i \in 1 .. n \/ i \in n + 1 .. Len(s)
    BY <1>1
  <2>2. \A i \in 1 .. n : i \in 1 .. Len(s)
    BY <1>1
  <2>3. \A i \in n + 1 .. Len(s) : i \in 1 .. Len(s)
    BY <1>1
  <2> QED BY <1>1, <2>1, <2>2, <2>3 DEF Range
<1>6. Once(s) => {s[i] : i \in 1 .. n} \cap {s[i] : i \in n + 1 .. Len(s)} = {}
  BY <1>1 DEF Once
<1> QED BY <1>3, <1>4, <1>5, <1>6

\* One sequence after another.
LEMMA OfConcat ==
    ASSUME NEW S, NEW s \in Seq(S), NEW t \in Seq(S)
    PROVE  /\ s \o t \in Seq(S)
           /\ Range(s \o t) = Range(s) \cup Range(t)
           /\ Once(s) /\ Once(t) /\ Range(s) \cap Range(t) = {} => Once(s \o t)
<1> DEFINE r == s \o t
<1>1. /\ DOMAIN s = 1 .. Len(s) /\ Len(s) \in Nat /\ DOMAIN t = 1 .. Len(t) /\ Len(t) \in Nat
  BY LenProperties
<1>2. /\ r \in Seq(S) /\ Len(r) = Len(s) + Len(t)
      /\ \A i \in 1 .. Len(s) + Len(t) : r[i] = IF i <= Len(s) THEN s[i] ELSE t[i - Len(s)]
  BY ConcatProperties
<1>3. DOMAIN r = 1 .. Len(s) + Len(t)
  BY <1>2, LenProperties
<1> HIDE DEF r
<1>4. \A i \in DOMAIN r : \/ i \in DOMAIN s /\ r[i] = s[i]
                          \/ i - Len(s) \in DOMAIN t /\ r[i] = t[i - Len(s)] /\ i \notin DOMAIN s
  BY <1>1, <1>2, <1>3
<1>5. \A i \in DOMAIN s : i \in DOMAIN r /\ r[i] = s[i]
  BY <1>1, <1>2, <1>3
<1>6. \A i \in DOMAIN t : i + Len(s) \in DOMAIN r /\ r[i + Len(s)] = t[i]
  <2> SUFFICES ASSUME NEW i \in DOMAIN t PROVE i + Len(s) \in DOMAIN r /\ r[i + Len(s)] = t[i]
    OBVIOUS
  <2>1. (i + Len(s)) - Len(s) = i /\ ~(i + Len(s) <= Len(s)) /\ i + Len(s) \in 1 .. Len(s) + Len(t)
    BY <1>1
  <2> QED BY <2>1, <1>2, <1>3
<1>7. Range(r) = Range(s) \cup Range(t)
  BY <1>4, <1>5, <1>6 DEF Range
<1>8. ASSUME Once(s), Once(t), Range(s) \cap Range(t) = {},
             NEW i \in DOMAIN r, NEW j \in DOMAIN r, r[i] = r[j]
      PROVE  i = j
  <2>1. CASE i \in DOMAIN s /\ j \in DOMAIN s
    BY <2>1, <1>8, <1>5 DEF Once
  <2>2. CASE i \notin DOMAIN s /\ j \notin DOMAIN s
    <3>1. i - Len(s) = j - Len(s)
      BY <2>2, <1>8, <1>4 DEF Once
    <3> QED BY <3>1, <1>1, <1>3
  <2>3. CASE i \in DOMAIN s /\ j \notin DOMAIN s
    BY <2>3, <1>8, <1>4 DEF Range
  <2>4. CASE i \notin DOMAIN s /\ j \in DOMAIN s
    BY <2>4, <1>8, <1>4 DEF Range
  <2> QED BY <2>1, <2>2, <2>3, <2>4
<1> QED BY <1>2, <1>7, <1>8 DEF r, Once

\* One element taken out, and what came after it put first.
LEMMA OfWithoutOne ==
    ASSUME NEW S, NEW s \in Seq(S), NEW k \in 1 .. Len(s), Once(s)
    PROVE  LET r == SubSeq(s, k + 1, Len(s)) \o SubSeq(s, 1, k - 1)
           IN  /\ r \in Seq(S \ {s[k]})
               /\ Range(r) = Range(s) \ {s[k]}
               /\ Once(r)
<1> DEFINE a == SubSeq(s, k + 1, Len(s))
           b == SubSeq(s, 1, k - 1)
           T == S \ {s[k]}
<1>1. DOMAIN s = 1 .. Len(s) /\ Len(s) \in Nat
  BY LenProperties
<1>2. /\ k + 1 \in 1 .. Len(s) + 1 /\ Len(s) \in 0 .. Len(s)
      /\ 1 \in 1 .. Len(s) + 1 /\ k - 1 \in 0 .. Len(s)
  BY <1>1
<1>3. a \in Seq(S) /\ Range(a) = {s[i] : i \in k + 1 .. Len(s)} /\ Once(a)
  BY <1>2, OfSubSeq
<1>4. b \in Seq(S) /\ Range(b) = {s[i] : i \in 1 .. k - 1} /\ Once(b)
  BY <1>2, OfSubSeq
<1>5. \A i \in DOMAIN s : i = k \/ (i \in k + 1 .. Len(s) /\ s[i] # s[k])
                                \/ (i \in 1 .. k - 1 /\ s[i] # s[k])
  BY <1>1 DEF Once
<1>6. /\ \A i \in k + 1 .. Len(s) : i \in DOMAIN s /\ i # k
      /\ \A i \in 1 .. k - 1 : i \in DOMAIN s /\ i # k
      /\ \A i \in k + 1 .. Len(s), j \in 1 .. k - 1 : i # j
      /\ k \in DOMAIN s
  BY <1>1
<1> HIDE DEF a, b
<1>7. Range(a) \cup Range(b) = Range(s) \ {s[k]}
  <2>1. \A i \in k + 1 .. Len(s) : s[i] \in Range(s) \ {s[k]}
    BY <1>6 DEF Range, Once
  <2>2. \A i \in 1 .. k - 1 : s[i] \in Range(s) \ {s[k]}
    BY <1>6 DEF Range, Once
  <2>3. \A i \in DOMAIN s : s[i] # s[k] => s[i] \in Range(a) \cup Range(b)
    BY <1>3, <1>4, <1>5
  <2>4. \A x \in Range(s) : x # s[k] => x \in Range(a) \cup Range(b)
    BY <2>3 DEF Range
  <2> QED BY <1>3, <1>4, <2>1, <2>2, <2>4
<1>8. Range(a) \cap Range(b) = {}
  BY <1>3, <1>4, <1>6 DEF Once
<1>9. a \o b \in Seq(S) /\ Range(a \o b) = Range(s) \ {s[k]} /\ Once(a \o b)
  BY <1>3, <1>4, <1>7, <1>8, OfConcat
<1>10. a \o b \in Seq(S \ {s[k]})
  BY <1>9, OfRange
<1> QED BY <1>9, <1>10 DEF a, b

\* The elements of a sequence are finitely many.
LEMMA FiniteRange ==
    ASSUME NEW S, NEW s \in Seq(S)
    PROVE  IsFiniteSet(Range(s))
<1>1. DOMAIN s = 1 .. Len(s) /\ Len(s) \in Nat
  BY LenProperties
<1>2. IsFiniteSet(1 .. Len(s))
  BY <1>1, FS_Interval
<1>3. Range(s) = {s[i] : i \in 1 .. Len(s)}
  BY <1>1 DEF Range
<1> DEFINE f == [i \in 1 .. Len(s) |-> s[i]]
<1>4. f \in Surjection(1 .. Len(s), Range(s))
  BY <1>3 DEF Surjection
<1> QED
  BY <1>2, <1>4, FS_Surjection
=============================================================================
