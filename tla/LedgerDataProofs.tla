--------------------------- MODULE LedgerDataProofs ---------------------------
(***************************************************************************)
(* Lemmas about the operators of LedgerData.tla and about the sequences    *)
(* that create_book builds with FlattenSeq: types, ranges, distinctness.   *)
(***************************************************************************)
EXTENDS LedgerData, SequencesExt, SequenceTheorems, WellFoundedInduction, TLAPS

-----------------------------------------------------------------------------
(* Induction over the natural numbers, in the form of a statement on sets. *)

LEMMA LeastNatural ==
  ASSUME NEW S \in SUBSET Nat, S # {}
  PROVE  \E m \in S : \A k \in S : m <= k
<1>1. \E m \in S : \A k \in S : <<k, m>> \notin OpToRel(<, Nat)
  BY NatLessThanWellFounded, WFMin
<1>2. PICK m \in S : \A k \in S : <<k, m>> \notin OpToRel(<, Nat)
  BY <1>1
<1>3. ASSUME NEW k \in S
      PROVE  m <= k
  <2>1. k \in Nat /\ m \in Nat
    OBVIOUS
  <2>2. ~(k < m)
    BY <1>2, <2>1 DEF OpToRel
  <2> QED
    BY <2>1, <2>2
<1> QED
  BY <1>3

LEMMA InductionTo ==
  ASSUME NEW n \in Nat, NEW S,
         0 \in S,
         \A k \in 0..n : k + 1 \in 0..n /\ k \in S => k + 1 \in S
  PROVE  \A k \in 0..n : k \in S
<1> DEFINE Bad == {k \in 0..n : k \notin S}
<1> SUFFICES ASSUME Bad # {}
             PROVE  FALSE
  OBVIOUS
<1>1. Bad \in SUBSET Nat
  OBVIOUS
<1>2. PICK m \in Bad : \A k \in Bad : m <= k
  <2> HIDE DEF Bad
  <2> QED
    BY <1>1, LeastNatural
<1>3. m \in 0..n /\ m \notin S /\ m # 0
  OBVIOUS
<1>4. m - 1 \in 0..n /\ m - 1 \notin Bad
  BY <1>2, <1>3
<1>5. m - 1 \in S /\ (m - 1) + 1 = m
  BY <1>3, <1>4
<1> QED
  BY <1>3, <1>4, <1>5

-----------------------------------------------------------------------------
(* FlattenSeq: its partial results, and what they contain.                 *)

\* f[k] is the concatenation of the first k sequences of ss.
Partial(f, ss) ==
  /\ DOMAIN f = 0..Len(ss)
  /\ f[0] = <<>>
  /\ \A k \in 1..Len(ss) : f[k] = f[k - 1] \o ss[k]

LEMMA PartialExists ==
  ASSUME NEW S, NEW ss \in Seq(S)
  PROVE  \E f : Partial(f, ss)
<1> DEFINE n == Len(ss)
           Upto(m, f) == /\ DOMAIN f = 0..m
                         /\ f[0] = <<>>
                         /\ \A k \in 1..m : f[k] = f[k - 1] \o ss[k]
           Good == {m \in 0..n : \E f : Upto(m, f)}
<1>0. n \in Nat
  OBVIOUS
<1>1. 0 \in Good
  <2>1. Upto(0, [k \in 0..0 |-> <<>>])
    OBVIOUS
  <2>2. \E f : Upto(0, f)
    BY <2>1
  <2> HIDE DEF Upto
  <2> QED
    BY <1>0, <2>2
<1>2. ASSUME NEW m \in 0..n, m + 1 \in 0..n, m \in Good
      PROVE  m + 1 \in Good
  <2>1. PICK f : Upto(m, f)
    BY <1>2
  <2> DEFINE g == [k \in 0..(m + 1) |-> IF k = m + 1 THEN f[m] \o ss[m + 1] ELSE f[k]]
  <2>2. g[0] = <<>> /\ DOMAIN g = 0..(m + 1)
    BY <1>0, <1>2, <2>1
  <2>3. ASSUME NEW k \in 1..(m + 1)
        PROVE  g[k] = g[k - 1] \o ss[k]
    <3>1. k - 1 \in 0..m /\ k - 1 # m + 1
      BY <1>0, <1>2
    <3>2. g[k - 1] = f[k - 1]
      BY <1>0, <1>2, <3>1
    <3>3. CASE k = m + 1
      BY <1>0, <1>2, <3>2, <3>3
    <3>4. CASE k # m + 1
      <4>1. k \in 1..m
        BY <1>0, <1>2, <3>4
      <4>2. g[k] = f[k]
        BY <3>4
      <4> QED
        BY <2>1, <3>2, <4>1, <4>2
    <3> QED
      BY <3>3, <3>4
  <2>4. Upto(m + 1, g)
    <3> HIDE DEF g
    <3> QED
      BY <2>2, <2>3
  <2> HIDE DEF Upto, g
  <2> QED
    BY <1>2, <2>4
<1>3. n \in Good
  <2> HIDE DEF Good
  <2>1. \A k \in 0..n : k \in Good
    BY <1>0, <1>1, <1>2, InductionTo
  <2> QED
    BY <1>0, <2>1
<1>4. PICK f : Upto(n, f)
  BY <1>3
<1> QED
  BY <1>4 DEF Partial

LEMMA FlattenIsPartial ==
  ASSUME NEW T, NEW ss \in Seq(Seq(T)), NEW f, Partial(f, ss)
  PROVE  FlattenSeq(ss) = f[Len(ss)]
<1> DEFINE n == Len(ss)
           Flattens(fl) == fl = [i \in 1..n |-> IF i = 1 THEN ss[i] ELSE fl[i - 1] \o ss[i]]
           flatten == CHOOSE fl : Flattens(fl)
<1>0. n \in Nat
  OBVIOUS
<1>1. CASE n = 0
  BY <1>1 DEF FlattenSeq, Partial
<1>2. CASE n # 0
  <2>1. FlattenSeq(ss) = flatten[n]
    BY <1>2 DEF FlattenSeq
  <2>2. f[1] = ss[1]
    <3>1. 1 \in 1..n /\ 1 - 1 = 0
      BY <1>0, <1>2
    <3>2. f[1] = f[1 - 1] \o ss[1] /\ f[0] = <<>>
      BY <3>1 DEF Partial
    <3>3. ss[1] \in Seq(T)
      BY <3>1
    <3>4. f[1] = <<>> \o ss[1]
      BY <3>1, <3>2
    <3> QED
      BY <3>3, <3>4, ConcatEmptySeq
  <2> DEFINE g == [i \in 1..n |-> f[i]]
  <2>3. ASSUME NEW i \in 1..n
        PROVE  g[i] = IF i = 1 THEN ss[i] ELSE g[i - 1] \o ss[i]
    <3>1. CASE i = 1
      BY <2>2, <3>1
    <3>2. CASE i # 1
      <4>1. i - 1 \in 1..n
        BY <1>0, <3>2
      <4>2. g[i - 1] = f[i - 1] /\ g[i] = f[i]
        BY <4>1
      <4> QED
        BY <3>2, <4>2 DEF Partial
    <3> QED
      BY <3>1, <3>2
  <2>4. Flattens(g)
    <3>1. g = [i \in 1..n |-> g[i]]
      OBVIOUS
    <3> HIDE DEF g
    <3> QED
      BY <2>3, <3>1
  <2>5. Flattens(flatten)
    <3>1. \E fl : Flattens(fl)
      BY <2>4
    <3> HIDE DEF Flattens
    <3> QED
      BY <3>1
  <2> HIDE DEF flatten
  <2> DEFINE Agree == {i \in 0..n : i = 0 \/ flatten[i] = f[i]}
  <2>6. 0 \in Agree
    BY <1>0
  <2>7. ASSUME NEW i \in 0..n, i + 1 \in 0..n, i \in Agree
        PROVE  i + 1 \in Agree
    <3>1. i + 1 \in 1..n /\ (i + 1) - 1 = i
      BY <1>0, <2>7
    <3>2. flatten[i + 1] = IF i + 1 = 1 THEN ss[i + 1] ELSE flatten[i] \o ss[i + 1]
      BY <2>5, <3>1
    <3>3. f[i + 1] = f[i] \o ss[i + 1]
      BY <3>1 DEF Partial
    <3>4. CASE i = 0
      BY <2>2, <3>2, <3>4, <3>1
    <3>5. CASE i # 0
      <4>1. i + 1 # 1 /\ flatten[i] = f[i]
        BY <2>7, <3>5
      <4>2. flatten[i + 1] = f[i + 1]
        BY <3>2, <3>3, <4>1
      <4> QED
        BY <2>7, <4>2
    <3> QED
      BY <3>4, <3>5
  <2>8. n \in Agree
    <3> HIDE DEF Agree
    <3>1. \A i \in 0..n : i \in Agree
      BY <1>0, <2>6, <2>7, InductionTo
    <3> QED
      BY <1>0, <3>1
  <2> QED
    BY <1>2, <2>1, <2>8
<1> QED
  BY <1>1, <1>2

LEMMA PartialType ==
  ASSUME NEW T, NEW ss \in Seq(Seq(T)), NEW f, Partial(f, ss)
  PROVE  \A k \in 0..Len(ss) : f[k] \in Seq(T)
<1> DEFINE Good == {k \in 0..Len(ss) : f[k] \in Seq(T)}
<1>0. Len(ss) \in Nat
  OBVIOUS
<1>1. 0 \in Good
  <2>1. f[0] = <<>> /\ 0 \in 0..Len(ss)
    BY <1>0 DEF Partial
  <2> QED
    BY <2>1, EmptySeq
<1>2. ASSUME NEW k \in 0..Len(ss), k + 1 \in 0..Len(ss), k \in Good
      PROVE  k + 1 \in Good
  <2>1. k + 1 \in 1..Len(ss) /\ (k + 1) - 1 = k
    BY <1>0, <1>2
  <2>2. f[k + 1] = f[k] \o ss[k + 1]
    BY <2>1 DEF Partial
  <2>3. ss[k + 1] \in Seq(T) /\ f[k] \in Seq(T)
    BY <1>2, <2>1
  <2> QED
    BY <1>2, <2>2, <2>3, ConcatProperties
<1>3. \A k \in 0..Len(ss) : k \in Good
  <2> HIDE DEF Good
  <2> QED
    BY <1>0, <1>1, <1>2, InductionTo
<1> QED
  BY <1>3

LEMMA PartialRange ==
  ASSUME NEW T, NEW ss \in Seq(Seq(T)), NEW f, Partial(f, ss)
  PROVE  \A k \in 0..Len(ss) : Range(f[k]) = UNION {Range(ss[j]) : j \in 1..k}
<1> DEFINE Good == {k \in 0..Len(ss) : Range(f[k]) = UNION {Range(ss[j]) : j \in 1..k}}
<1>0. Len(ss) \in Nat
  OBVIOUS
<1>1. 0 \in Good
  <2>1. f[0] = <<>> /\ 0 \in 0..Len(ss) /\ 1..0 = {}
    BY <1>0 DEF Partial
  <2>2. Range(<<>>) = {}
    BY DEF Range
  <2>3. UNION {Range(ss[j]) : j \in 1..0} = {}
    BY <2>1
  <2> QED
    BY <2>1, <2>2, <2>3
<1>2. ASSUME NEW k \in 0..Len(ss), k + 1 \in 0..Len(ss), k \in Good
      PROVE  k + 1 \in Good
  <2>1. k + 1 \in 1..Len(ss) /\ (k + 1) - 1 = k
    BY <1>0, <1>2
  <2>2. f[k + 1] = f[k] \o ss[k + 1]
    BY <2>1 DEF Partial
  <2>3. ss[k + 1] \in Seq(T) /\ f[k] \in Seq(T)
    BY <1>2, <2>1, PartialType
  <2>4. Range(f[k + 1]) = Range(f[k]) \cup Range(ss[k + 1])
    BY <2>2, <2>3, RangeConcatenation
  <2>5. 1..(k + 1) = 1..k \cup {k + 1}
    BY <1>2
  <2>6. UNION {Range(ss[j]) : j \in 1..(k + 1)}
          = (UNION {Range(ss[j]) : j \in 1..k}) \cup Range(ss[k + 1])
    BY <2>5
  <2>7. Range(f[k]) = UNION {Range(ss[j]) : j \in 1..k}
    BY <1>2
  <2> QED
    BY <1>2, <2>4, <2>6, <2>7
<1>3. \A k \in 0..Len(ss) : k \in Good
  <2> HIDE DEF Good
  <2> QED
    BY <1>0, <1>1, <1>2, InductionTo
<1> QED
  BY <1>3

LEMMA ConcatInjective ==
  ASSUME NEW T, NEW s \in Seq(T), NEW t \in Seq(T),
         IsInjective(s), IsInjective(t), Range(s) \cap Range(t) = {}
  PROVE  IsInjective(s \o t)
<1> SUFFICES ASSUME NEW i \in DOMAIN (s \o t), NEW j \in DOMAIN (s \o t),
                    (s \o t)[i] = (s \o t)[j]
             PROVE  i = j
  BY DEF IsInjective
<1>1. /\ Len(s) \in Nat /\ Len(t) \in Nat
      /\ DOMAIN s = 1..Len(s) /\ DOMAIN t = 1..Len(t)
      /\ DOMAIN (s \o t) = 1..(Len(s) + Len(t))
  OBVIOUS
<1>2. \A m \in DOMAIN s : s[m] \in Range(s)
  BY DEF Range
<1>3. \A m \in DOMAIN t : t[m] \in Range(t)
  BY DEF Range
<1>4. \A m \in 1..(Len(s) + Len(t)) :
        \/ m \in DOMAIN s /\ (s \o t)[m] = s[m]
        \/ m - Len(s) \in DOMAIN t /\ (s \o t)[m] = t[m - Len(s)]
  OBVIOUS
<1>5. CASE i \in DOMAIN s /\ j \in DOMAIN s
  BY <1>1, <1>5 DEF IsInjective
<1>6. CASE i \notin DOMAIN s /\ j \notin DOMAIN s
  <2>1. i - Len(s) = j - Len(s)
    BY <1>1, <1>4, <1>6 DEF IsInjective
  <2> QED
    BY <1>1, <2>1
<1>7. CASE i \in DOMAIN s /\ j \notin DOMAIN s
  <2>1. (s \o t)[i] \in Range(s)
    BY <1>1, <1>2, <1>7
  <2>2. (s \o t)[j] \in Range(t)
    BY <1>1, <1>3, <1>4, <1>7
  <2> QED
    BY <2>1, <2>2
<1>8. CASE i \notin DOMAIN s /\ j \in DOMAIN s
  <2>1. (s \o t)[j] \in Range(s)
    BY <1>1, <1>2, <1>8
  <2>2. (s \o t)[i] \in Range(t)
    BY <1>1, <1>3, <1>4, <1>8
  <2> QED
    BY <2>1, <2>2
<1> QED
  BY <1>5, <1>6, <1>7, <1>8

LEMMA PartialInjective ==
  ASSUME NEW T, NEW ss \in Seq(Seq(T)), NEW f, Partial(f, ss),
         \A j \in 1..Len(ss) : IsInjective(ss[j]),
         \A i, j \in 1..Len(ss) : i # j => Range(ss[i]) \cap Range(ss[j]) = {}
  PROVE  \A k \in 0..Len(ss) : IsInjective(f[k])
<1> DEFINE Good == {k \in 0..Len(ss) : IsInjective(f[k])}
<1>0. Len(ss) \in Nat
  OBVIOUS
<1>1. 0 \in Good
  <2>1. f[0] = <<>> /\ 0 \in 0..Len(ss)
    BY <1>0 DEF Partial
  <2>2. IsInjective(<<>>)
    BY DEF IsInjective
  <2> QED
    BY <2>1, <2>2
<1>2. ASSUME NEW k \in 0..Len(ss), k + 1 \in 0..Len(ss), k \in Good
      PROVE  k + 1 \in Good
  <2>1. k + 1 \in 1..Len(ss) /\ (k + 1) - 1 = k
    BY <1>0, <1>2
  <2>2. f[k + 1] = f[k] \o ss[k + 1]
    BY <2>1 DEF Partial
  <2>3. ss[k + 1] \in Seq(T) /\ f[k] \in Seq(T)
    BY <1>2, <2>1, PartialType
  <2>4. Range(f[k]) = UNION {Range(ss[j]) : j \in 1..k}
    BY PartialRange
  <2>5. \A j \in 1..k : Range(ss[j]) \cap Range(ss[k + 1]) = {}
    <3>1. \A j \in 1..k : j \in 1..Len(ss) /\ j # k + 1
      BY <1>0, <1>2
    <3> QED
      BY <2>1, <3>1
  <2>6. Range(f[k]) \cap Range(ss[k + 1]) = {}
    BY <2>4, <2>5
  <2>7. IsInjective(f[k + 1])
    BY <1>2, <2>1, <2>2, <2>3, <2>6, ConcatInjective
  <2> QED
    BY <1>2, <2>7
<1>3. \A k \in 0..Len(ss) : k \in Good
  <2> HIDE DEF Good
  <2> QED
    BY <1>0, <1>1, <1>2, InductionTo
<1> QED
  BY <1>3

\* What FlattenSeq returns: a sequence of the elements of the sequences, without
\* a repetition when they have none.
LEMMA FlattenSeqContents ==
  ASSUME NEW T, NEW ss \in Seq(Seq(T))
  PROVE  /\ FlattenSeq(ss) \in Seq(T)
         /\ Range(FlattenSeq(ss)) = UNION {Range(ss[j]) : j \in 1..Len(ss)}
         /\ /\ \A j \in 1..Len(ss) : IsInjective(ss[j])
            /\ \A i, j \in 1..Len(ss) : i # j => Range(ss[i]) \cap Range(ss[j]) = {}
            => IsInjective(FlattenSeq(ss))
<1>1. PICK f : Partial(f, ss)
  BY PartialExists
<1>2. FlattenSeq(ss) = f[Len(ss)] /\ Len(ss) \in 0..Len(ss)
  BY <1>1, FlattenIsPartial
<1>3. FlattenSeq(ss) \in Seq(T)
  BY <1>1, <1>2, PartialType
<1>4. Range(FlattenSeq(ss)) = UNION {Range(ss[j]) : j \in 1..Len(ss)}
  BY <1>1, <1>2, PartialRange
<1>5. ASSUME \A j \in 1..Len(ss) : IsInjective(ss[j]),
             \A i, j \in 1..Len(ss) : i # j => Range(ss[i]) \cap Range(ss[j]) = {}
      PROVE  IsInjective(FlattenSeq(ss))
  <2>1. \A k \in 0..Len(ss) : IsInjective(f[k])
    BY <1>1, <1>5, PartialInjective
  <2> QED
    BY <1>2, <2>1
<1> QED
  BY <1>3, <1>4, <1>5

-----------------------------------------------------------------------------
(* FlattenSeq one sequence at a time.                                      *)

LEMMA FlattenEmpty == FlattenSeq(<<>>) = <<>>
<1>1. <<>> \in Seq(Seq({}))
  OBVIOUS
<1>2. PICK f : Partial(f, <<>>)
  BY <1>1, PartialExists
<1>3. FlattenSeq(<<>>) = f[Len(<<>>)]
  BY <1>1, <1>2, FlattenIsPartial
<1>4. Len(<<>>) = 0
  OBVIOUS
<1>5. f[0] = <<>>
  BY <1>2 DEF Partial
<1> QED
  BY <1>3, <1>4, <1>5

LEMMA FlattenHead ==
  ASSUME NEW T, NEW ss \in Seq(Seq(T)), ss # <<>>
  PROVE  FlattenSeq(ss) = Head(ss) \o FlattenSeq(Tail(ss))
<1> DEFINE tt == Tail(ss)
           n == Len(ss)
<1>1. /\ n \in Nat /\ n > 0 /\ tt \in Seq(Seq(T)) /\ Len(tt) = n - 1
      /\ Head(ss) = ss[1] /\ ss[1] \in Seq(T)
      /\ \A k \in 1..(n - 1) : tt[k] = ss[k + 1] /\ ss[k + 1] \in Seq(T)
  <2>1. n \in Nat /\ n > 0
    OBVIOUS
  <2>2. /\ tt \in Seq(Seq(T)) /\ Len(tt) = n - 1 /\ \A k \in 1..Len(tt) : tt[k] = ss[k + 1]
    BY HeadTailProperties
  <2>3. Head(ss) = ss[1]
    OBVIOUS
  <2>4. \A k \in 1..n : ss[k] \in Seq(T)
    OBVIOUS
  <2> QED
    BY <2>1, <2>2, <2>3, <2>4
<1> HIDE DEF tt, n
<1>2. PICK f : Partial(f, ss)
  BY PartialExists
<1>3. PICK g : Partial(g, tt)
  BY <1>1, PartialExists
<1>4. FlattenSeq(ss) = f[n] /\ \A k \in 0..n : f[k] \in Seq(T)
  BY <1>2, FlattenIsPartial, PartialType DEF n
<1>5. FlattenSeq(tt) = g[n - 1] /\ \A k \in 0..(n - 1) : g[k] \in Seq(T)
  BY <1>1, <1>3, FlattenIsPartial, PartialType
<1>6. /\ f[0] = <<>> /\ \A k \in 1..n : f[k] = f[k - 1] \o ss[k]
      /\ g[0] = <<>> /\ \A k \in 1..(n - 1) : g[k] = g[k - 1] \o tt[k]
  BY <1>1, <1>2, <1>3 DEF Partial, n
<1> DEFINE Good == {k \in 0..(n - 1) : f[k + 1] = ss[1] \o g[k]}
<1>7. 0 \in Good
  <2>0. 1 \in 1..n /\ 1 - 1 = 0 /\ 0 + 1 = 1 /\ 0 \in 0..(n - 1)
    BY <1>1
  <2>1. f[1] = <<>> \o ss[1]
    BY <1>6, <2>0
  <2>2. <<>> \o ss[1] = ss[1] /\ ss[1] \o <<>> = ss[1]
    BY <1>1, ConcatEmptySeq
  <2> QED
    BY <1>6, <2>0, <2>1, <2>2
<1>8. ASSUME NEW k \in 0..(n - 1), k + 1 \in 0..(n - 1), k \in Good
      PROVE  k + 1 \in Good
  <2>1. k \in Nat /\ k + 1 \in 1..(n - 1) /\ (k + 1) + 1 \in 1..n /\ (k + 1) - 1 = k
        /\ ((k + 1) + 1) - 1 = k + 1
    BY <1>1, <1>8
  <2>2. f[(k + 1) + 1] = f[k + 1] \o ss[(k + 1) + 1]
    BY <1>6, <2>1
  <2>3. g[k + 1] = g[k] \o ss[(k + 1) + 1]
    BY <1>1, <1>6, <2>1
  <2>4. ss[1] \in Seq(T) /\ g[k] \in Seq(T) /\ ss[(k + 1) + 1] \in Seq(T)
    BY <1>1, <1>5, <2>1
  <2>5. (ss[1] \o g[k]) \o ss[(k + 1) + 1] = ss[1] \o (g[k] \o ss[(k + 1) + 1])
    <3> DEFINE a == ss[1]
               b == g[k]
               c == ss[(k + 1) + 1]
    <3>1. a \in Seq(T) /\ b \in Seq(T) /\ c \in Seq(T)
      BY <2>4
    <3> HIDE DEF a, b, c
    <3>2. (a \o b) \o c = a \o (b \o c)
      BY <3>1
    <3> QED
      BY <3>2 DEF a, b, c
  <2>6. f[k + 1] = ss[1] \o g[k]
    BY <1>8
  <2> QED
    BY <1>8, <2>2, <2>3, <2>5, <2>6
<1>9. \A k \in 0..(n - 1) : k \in Good
  <2>1. n - 1 \in Nat
    BY <1>1
  <2> HIDE DEF Good
  <2> QED
    BY <1>7, <1>8, <2>1, InductionTo
<1>10. f[n] = ss[1] \o g[n - 1]
  <2>1. n - 1 \in 0..(n - 1) /\ (n - 1) + 1 = n
    BY <1>1
  <2> QED
    BY <1>9, <2>1
<1> QED
  BY <1>1, <1>4, <1>5, <1>10 DEF tt

LEMMA FlattenOne ==
  ASSUME NEW T, NEW s \in Seq(T)
  PROVE  FlattenSeq(<<s>>) = s
<1>1. <<s>> \in Seq(Seq(T)) /\ <<s>> # <<>> /\ Head(<<s>>) = s /\ Tail(<<s>>) = <<>>
  OBVIOUS
<1>2. FlattenSeq(<<s>>) = s \o <<>>
  BY <1>1, FlattenHead, FlattenEmpty
<1> QED
  BY <1>2, ConcatEmptySeq

\* An earlier partial result is the beginning of a later one.
LEMMA PartialPrefix ==
  ASSUME NEW T, NEW ss \in Seq(Seq(T)), NEW f, Partial(f, ss), NEW k \in 0..Len(ss)
  PROVE  \A m \in 0..Len(ss) : k <= m =>
           /\ Len(f[k]) <= Len(f[m])
           /\ \A i \in 1..Len(f[k]) : f[m][i] = f[k][i]
<1> DEFINE Good == {m \in 0..Len(ss) : k <= m =>
                      /\ Len(f[k]) <= Len(f[m])
                      /\ \A i \in 1..Len(f[k]) : f[m][i] = f[k][i]}
<1>0. Len(ss) \in Nat /\ k \in Nat
  OBVIOUS
<1>1. \A m \in 0..Len(ss) : f[m] \in Seq(T)
  BY PartialType
<1>a. \A m \in 0..Len(ss) : Len(f[m]) \in Nat
  BY <1>1, LenProperties
<1>2. 0 \in Good
  BY <1>0, <1>a
<1>3. ASSUME NEW m \in 0..Len(ss), m + 1 \in 0..Len(ss), m \in Good
      PROVE  m + 1 \in Good
  <2>1. CASE k = m + 1
    BY <1>3, <1>a, <2>1
  <2>2. CASE k # m + 1
    <3>1. m + 1 \in 1..Len(ss) /\ (m + 1) - 1 = m
      BY <1>0, <1>3
    <3> DEFINE a == f[m]
               b == ss[m + 1]
               c == f[m + 1]
    <3>2. c = a \o b
      BY <3>1 DEF Partial
    <3>a. a \in Seq(T) /\ b \in Seq(T)
      BY <1>1, <3>1
    <3>4. Len(a) \in Nat /\ Len(b) \in Nat /\ Len(f[k]) \in Nat
      BY <1>a, <3>a, LenProperties
    <3> HIDE DEF a, b, c
    <3>3. /\ Len(c) = Len(a) + Len(b)
          /\ \A i \in 1..(Len(a) + Len(b)) : c[i] = IF i <= Len(a) THEN a[i] ELSE b[i - Len(a)]
      BY <3>2, <3>a, ConcatProperties
    <3>5. k <= m + 1 => k <= m
      BY <1>0, <1>3, <2>2
    <3>6. k <= m + 1 => /\ Len(f[k]) <= Len(a)
                        /\ \A i \in 1..Len(f[k]) : a[i] = f[k][i]
      BY <1>3, <3>5 DEF a
    <3>7. k <= m + 1 => /\ Len(f[k]) <= Len(c)
                        /\ \A i \in 1..Len(f[k]) : c[i] = f[k][i]
      <4> SUFFICES ASSUME k <= m + 1
                   PROVE  /\ Len(f[k]) <= Len(c)
                          /\ \A i \in 1..Len(f[k]) : c[i] = f[k][i]
        OBVIOUS
      <4>1. Len(f[k]) <= Len(a) /\ Len(f[k]) <= Len(c)
        BY <3>3, <3>4, <3>6
      <4>2. ASSUME NEW i \in 1..Len(f[k])
            PROVE  c[i] = f[k][i]
        <5>1. i \in 1..(Len(a) + Len(b)) /\ i <= Len(a) /\ a[i] = f[k][i]
          BY <3>4, <3>6, <4>1, <4>2
        <5> QED
          BY <3>3, <5>1
      <4> QED
        BY <4>1, <4>2
    <3> QED
      BY <1>3, <3>7 DEF c
  <2> QED
    BY <2>1, <2>2
<1>4. \A m \in 0..Len(ss) : m \in Good
  <2> HIDE DEF Good
  <2> QED
    BY <1>0, <1>2, <1>3, InductionTo
<1> QED
  BY <1>4

\* Elements of different sequences have different places in the concatenation.
LEMMA FlattenApart ==
  ASSUME NEW T, NEW ss \in Seq(Seq(T)), NEW i \in 1..Len(ss), NEW j \in 1..Len(ss), i < j,
         NEW x \in 1..Len(ss[i]), NEW y \in 1..Len(ss[j])
  PROVE  \E m, n \in DOMAIN FlattenSeq(ss) :
           m # n /\ FlattenSeq(ss)[m] = ss[i][x] /\ FlattenSeq(ss)[n] = ss[j][y]
<1>1. PICK f : Partial(f, ss)
  BY PartialExists
<1>2. FlattenSeq(ss) = f[Len(ss)] /\ \A k \in 0..Len(ss) : f[k] \in Seq(T)
  BY <1>1, FlattenIsPartial, PartialType
<1>3. Len(ss) \in Nat /\ i \in Nat /\ j \in Nat /\ Len(ss) \in 0..Len(ss)
  OBVIOUS
<1>4. i - 1 \in 0..Len(ss) /\ j - 1 \in 0..Len(ss) /\ i <= j - 1 /\ i \in 0..Len(ss) /\ j \in 0..Len(ss)
  BY <1>3
<1>5. ASSUME NEW k \in 1..Len(ss), NEW z \in 1..Len(ss[k])
      PROVE  /\ Len(f[k - 1]) \in Nat
             /\ Len(f[k - 1]) + z \in 1..Len(f[k])
             /\ f[k][Len(f[k - 1]) + z] = ss[k][z]
             /\ Len(f[k - 1]) + z \in 1..Len(f[Len(ss)])
             /\ f[Len(ss)][Len(f[k - 1]) + z] = ss[k][z]
  <2>1. k - 1 \in 0..Len(ss) /\ k \in 0..Len(ss) /\ k <= Len(ss)
    BY <1>3
  <2> DEFINE a == f[k - 1]
             b == ss[k]
             c == f[k]
             all == f[Len(ss)]
             p == Len(a) + z
  <2>2. c = a \o b
    BY <1>1 DEF Partial
  <2>3. b \in Seq(T) /\ a \in Seq(T) /\ all \in Seq(T)
    BY <1>2, <1>3, <2>1
  <2>4. Len(a) \in Nat /\ Len(b) \in Nat /\ Len(all) \in Nat
    BY <2>3, LenProperties
  <2>5. Len(c) <= Len(all) /\ \A q \in 1..Len(c) : all[q] = c[q]
    BY <1>1, <1>3, <2>1, PartialPrefix
  <2>z. z \in 1..Len(b)
    BY <1>5
  <2> HIDE DEF a, b, c, all
  <2>6. /\ Len(c) = Len(a) + Len(b)
        /\ \A q \in 1..(Len(a) + Len(b)) : c[q] = IF q <= Len(a) THEN a[q] ELSE b[q - Len(a)]
    BY <2>2, <2>3, ConcatProperties
  <2>7. p \in 1..(Len(a) + Len(b)) /\ ~(p <= Len(a)) /\ p - Len(a) = z /\ Len(c) \in Nat
    BY <2>4, <2>6, <2>z
  <2>8. p \in 1..Len(c) /\ c[p] = b[z]
    BY <2>6, <2>7
  <2>9. p \in 1..Len(all) /\ all[p] = b[z]
    BY <2>4, <2>5, <2>7, <2>8
  <2> QED
    BY <2>4, <2>8, <2>9 DEF a, b, c, all
<1> DEFINE m == Len(f[i - 1]) + x
           n == Len(f[j - 1]) + y
<1>6. /\ m \in 1..Len(f[Len(ss)]) /\ f[Len(ss)][m] = ss[i][x] /\ m \in 1..Len(f[i])
  BY <1>5
<1>7. /\ n \in 1..Len(f[Len(ss)]) /\ f[Len(ss)][n] = ss[j][y]
      /\ Len(f[j - 1]) \in Nat
  BY <1>5
<1>8. Len(f[i]) <= Len(f[j - 1])
  BY <1>1, <1>4, PartialPrefix
<1>9. Len(f[i]) \in Nat
  BY <1>2, <1>4, LenProperties
<1>10. m < n
  <2>1. m <= Len(f[i]) /\ m \in Nat
    BY <1>6, <1>9
  <2>2. n > Len(f[j - 1])
    BY <1>7
  <2> HIDE DEF m, n
  <2> QED
    BY <1>7, <1>8, <1>9, <2>1, <2>2
<1>11. DOMAIN FlattenSeq(ss) = 1..Len(f[Len(ss)])
  BY <1>2, <1>3
<1>12. m \in DOMAIN FlattenSeq(ss) /\ n \in DOMAIN FlattenSeq(ss) /\ m \in Int /\ n \in Int
  BY <1>2, <1>6, <1>7, <1>11
<1> HIDE DEF m, n
<1>13. m # n
  BY <1>10, <1>12
<1> QED
  BY <1>2, <1>6, <1>7, <1>12, <1>13

-----------------------------------------------------------------------------
(* Rows: their types, keys and places.                                     *)

LEMMA BookRowType == BookRow \in Row
  BY DEF BookRow, Row

LEMMA AccountRowType ==
  ASSUME NEW a \in Accounts
  PROVE  AccountRow(a) \in Row
  BY DEF AccountRow, Row

LEMMA PeriodRowType ==
  ASSUME NEW p \in Periods
  PROVE  PeriodRow(p) \in Row
  BY DEF PeriodRow, Row

LEMMA HeaderRowType ==
  ASSUME NEW tx \in Journal
  PROVE  HeaderRow(tx) \in Row
<1>1. tx.ref \in Refs
  BY DEF Journal
<1>2. [period |-> tx.period, of |-> tx.of, note |-> tx.note, state |-> tx.state] \in Header
  BY DEF Journal, Header
<1> QED
  BY <1>1, <1>2 DEF HeaderRow, Row

LEMMA EntryRowType ==
  ASSUME NEW tx \in Journal, NEW i \in 1..Len(tx.lines)
  PROVE  EntryRow(tx, i) \in Row
<1>1. tx.ref \in Refs /\ tx.lines \in Seq(Line)
  BY DEF Journal
<1>2. tx.lines[i] \in Line /\ i \in Nat \ {0}
  BY <1>1
<1> QED
  BY <1>1, <1>2 DEF EntryRow, Row

LEMMA TransactionRowsType ==
  ASSUME NEW tx \in Journal
  PROVE  /\ TransactionRows(tx) \in Seq(Row)
         /\ TransactionRows(tx) # <<>>
<1>1. tx.lines \in Seq(Line)
  BY DEF Journal
<1> DEFINE n == Len(tx.lines) + 1
<1>2. n \in Nat /\ n >= 1
  BY <1>1
<1>3. \A i \in 1..n : (IF i = 1 THEN HeaderRow(tx) ELSE EntryRow(tx, i - 1)) \in Row
  <2> TAKE i \in 1..n
  <2>1. CASE i = 1
    BY <2>1, HeaderRowType
  <2>2. CASE i # 1
    <3>1. i - 1 \in 1..Len(tx.lines)
      BY <1>1, <2>2
    <3> QED
      BY <2>2, <3>1, EntryRowType
  <2> QED
    BY <2>1, <2>2
<1>4. TransactionRows(tx) = [i \in 1..n |-> IF i = 1 THEN HeaderRow(tx) ELSE EntryRow(tx, i - 1)]
  BY DEF TransactionRows
<1> HIDE DEF n
<1> QED
  BY <1>2, <1>3, <1>4

LEMMA MasterRowsType ==
  ASSUME NEW accounts \in Seq(Accounts), NEW periods \in Seq(Periods)
  PROVE  /\ MasterRows(accounts, periods) \in Seq(Row)
         /\ MasterRows(accounts, periods) # <<>>
<1> DEFINE ar == [i \in DOMAIN accounts |-> AccountRow(accounts[i])]
           pr == [i \in DOMAIN periods |-> PeriodRow(periods[i])]
<1>1. ar \in Seq(Row)
  <2>1. \A i \in 1..Len(accounts) : AccountRow(accounts[i]) \in Row
    BY AccountRowType
  <2> QED
    BY <2>1
<1>2. pr \in Seq(Row)
  <2>1. \A i \in 1..Len(periods) : PeriodRow(periods[i]) \in Row
    BY PeriodRowType
  <2> QED
    BY <2>1
<1>3. <<BookRow>> \in Seq(Row)
  BY BookRowType
<1>4. MasterRows(accounts, periods) = <<BookRow>> \o ar \o pr
  BY DEF MasterRows
<1> HIDE DEF ar, pr
<1>5. Len(<<BookRow>> \o ar \o pr) >= 1
  BY <1>1, <1>2, <1>3
<1> QED
  BY <1>1, <1>2, <1>3, <1>4, <1>5

\* Rows, a table and a key apart.
Keyed(R) == \A r1, r2 \in R : r1.table = r2.table /\ r1.key = r2.key => r1 = r2

\* The tables of a book's own data.
MasterTables == {"books", "accounts", "periods"}

LEMMA RowShape ==
  ASSUME NEW r \in Row
  PROVE  /\ r.table \in CoreTables \cup {"legislative_validation"}
         /\ r.table = "books" => r.key = <<>>
         /\ r.table = "accounts" => r.key \in Accounts \X {1}
         /\ r.table = "periods" => r.key \in Periods \X {1}
         /\ r.table = "transactions" => r.key \in Refs \X {0} /\ r.data \in Header
         /\ r.table = "entries" => r.key \in Refs \X (Nat \ {0}) /\ r.data \in Line
         /\ r.table = "legislative_validation" => r.key \in Refs \X {0}
  BY DEF Row, CoreTables

LEMMA SignedType ==
  ASSUME NEW row \in Row, NEW actor \in Actors \cup {None}
  PROVE  Signed(row, actor) \in AuditRow
  BY DEF Signed, AuditRow, Row, CoreTables

\* The rows of a transaction: a header and its entries, each with a key of its own.
LEMMA TransactionRowsContents ==
  ASSUME NEW tx \in Journal
  PROVE  /\ Range(TransactionRows(tx))
              = {HeaderRow(tx)} \cup {EntryRow(tx, i) : i \in 1..Len(tx.lines)}
         /\ \A n \in 1..(Len(tx.lines) + 1) : TransactionRows(tx)[n].key = <<tx.ref, n - 1>>
         /\ IsInjective(TransactionRows(tx))
         /\ Len(tx.lines) \in Nat
<1>1. Len(tx.lines) \in Nat
  <2>1. tx.lines \in Seq(Line)
    BY DEF Journal
  <2> QED
    BY <2>1
<1> DEFINE n == Len(tx.lines)
           tr == TransactionRows(tx)
<1>2. /\ DOMAIN tr = 1..(n + 1)
      /\ tr[1] = HeaderRow(tx)
      /\ \A i \in 1..n : i + 1 \in 1..(n + 1) /\ tr[i + 1] = EntryRow(tx, i)
  BY <1>1 DEF TransactionRows
<1>3. \A i \in 1..(n + 1) : i = 1 \/ (i - 1 \in 1..n /\ tr[i] = EntryRow(tx, i - 1))
  BY <1>1 DEF TransactionRows
<1> HIDE DEF n, tr
<1>4. Range(tr) = {HeaderRow(tx)} \cup {EntryRow(tx, i) : i \in 1..n}
  <2>1. Range(tr) = {tr[i] : i \in 1..(n + 1)}
    BY <1>2 DEF Range
  <2>2. \A x \in Range(tr) : x = HeaderRow(tx) \/ \E i \in 1..n : x = EntryRow(tx, i)
    BY <1>2, <1>3, <2>1
  <2>3. HeaderRow(tx) \in Range(tr)
    BY <1>1, <1>2, <2>1 DEF n
  <2>4. \A i \in 1..n : EntryRow(tx, i) \in Range(tr)
    BY <1>2, <2>1
  <2> QED
    BY <2>2, <2>3, <2>4
<1>5. \A i \in 1..(n + 1) : tr[i].key = <<tx.ref, i - 1>>
  BY <1>2, <1>3 DEF HeaderRow, EntryRow
<1>6. IsInjective(tr)
  <2>1. \A i, j \in 1..(n + 1) : i - 1 = j - 1 => i = j
    BY <1>1 DEF n
  <2> QED
    BY <1>2, <1>5, <2>1 DEF IsInjective
<1> QED
  BY <1>1, <1>4, <1>5, <1>6 DEF n, tr

LEMMA MasterRowsContents ==
  ASSUME NEW accounts \in Seq(Accounts), NEW periods \in Seq(Periods)
  PROVE  /\ Range(MasterRows(accounts, periods))
              = {BookRow} \cup {AccountRow(a) : a \in Range(accounts)}
                          \cup {PeriodRow(p) : p \in Range(periods)}
         /\ IsInjective(accounts) /\ IsInjective(periods)
            => IsInjective(MasterRows(accounts, periods))
<1> DEFINE br == <<BookRow>>
           ar == [i \in DOMAIN accounts |-> AccountRow(accounts[i])]
           pr == [i \in DOMAIN periods |-> PeriodRow(periods[i])]
<1>1. ar \in Seq(Row)
  <2>1. \A i \in 1..Len(accounts) : AccountRow(accounts[i]) \in Row
    BY AccountRowType
  <2> QED
    BY <2>1
<1>2. pr \in Seq(Row)
  <2>1. \A i \in 1..Len(periods) : PeriodRow(periods[i]) \in Row
    BY PeriodRowType
  <2> QED
    BY <2>1
<1>3. br \in Seq(Row) /\ br \o ar \in Seq(Row)
  BY BookRowType, <1>1, ConcatProperties
<1>4. MasterRows(accounts, periods) = (br \o ar) \o pr
  BY DEF MasterRows
<1>5. Range(ar) = {AccountRow(a) : a \in Range(accounts)}
  BY DEF Range
<1>6. Range(pr) = {PeriodRow(p) : p \in Range(periods)}
  BY DEF Range
<1>7. Range(br) = {BookRow} /\ IsInjective(br)
  BY DEF Range, IsInjective
<1>8. IsInjective(accounts) => IsInjective(ar)
  BY DEF IsInjective, AccountRow
<1>9. IsInjective(periods) => IsInjective(pr)
  BY DEF IsInjective, PeriodRow
<1> HIDE DEF br, ar, pr
<1>10. Range(br \o ar) = {BookRow} \cup Range(ar)
  BY <1>1, <1>3, <1>7, RangeConcatenation
<1>11. Range((br \o ar) \o pr) = {BookRow} \cup Range(ar) \cup Range(pr)
  <2> DEFINE ba == br \o ar
  <2>1. ba \in Seq(Row) /\ Range(ba) = {BookRow} \cup Range(ar)
    BY <1>3, <1>10
  <2> HIDE DEF ba
  <2>2. Range(ba \o pr) = Range(ba) \cup Range(pr)
    BY <1>2, <2>1, RangeConcatenation
  <2>3. Range(ba \o pr) = {BookRow} \cup Range(ar) \cup Range(pr)
    BY <2>1, <2>2
  <2> QED
    BY <2>3 DEF ba
<1>12. Range(br) \cap Range(ar) = {} /\ Range(br \o ar) \cap Range(pr) = {}
  BY <1>5, <1>6, <1>7, <1>10 DEF BookRow, AccountRow, PeriodRow
<1>13. IsInjective(ar) /\ IsInjective(pr) => IsInjective((br \o ar) \o pr)
  <2>1. IsInjective(ar) => IsInjective(br \o ar)
    BY <1>1, <1>3, <1>7, <1>12, ConcatInjective
  <2> QED
    BY <1>2, <1>3, <1>12, <2>1, ConcatInjective
<1> QED
  BY <1>4, <1>5, <1>6, <1>8, <1>9, <1>11, <1>13

-----------------------------------------------------------------------------
(* Databases.                                                              *)

\* What a committed transaction with these rows makes of a database.
WithRows(d, rows, actor) ==
  [rows |-> d.rows \cup {row \in Range(rows) : row.table \in CoreTables},
   audit |-> d.audit \o [i \in DOMAIN rows |-> Signed(rows[i], actor)]]

\* Each row was signed at one place of the audit log, and nothing else was.
Audited(d) ==
  /\ \A i, j \in DOMAIN d.audit :
       /\ d.audit[i].table \in CoreTables
       /\ d.audit[i].table = d.audit[j].table
       /\ d.audit[i].key = d.audit[j].key
       => i = j
  /\ \A row \in d.rows :
       \E i \in DOMAIN d.audit : d.audit[i].table = row.table /\ d.audit[i].key = row.key
  /\ \A i \in DOMAIN d.audit :
       \/ d.audit[i].table = "legislative_validation"
       \/ HasRow(d, d.audit[i].table, d.audit[i].key)

LEMMA WithRowsAudit ==
  ASSUME NEW d \in Database, NEW rows \in Seq(Row), NEW actor \in Actors
  PROVE  LET e == WithRows(d, rows, actor)
         IN  /\ e \in Database
             /\ Len(d.audit) \in Nat /\ Len(rows) \in Nat
             /\ DOMAIN d.audit = 1..Len(d.audit)
             /\ DOMAIN e.audit = 1..(Len(d.audit) + Len(rows))
             /\ \A i \in 1..Len(d.audit) : e.audit[i] = d.audit[i]
             /\ \A i \in 1..Len(rows) :
                  e.audit[Len(d.audit) + i] = Signed(rows[i], actor)
<1> DEFINE added == [i \in DOMAIN rows |-> Signed(rows[i], actor)]
           e == WithRows(d, rows, actor)
<1>1. d.audit \in Seq(AuditRow) /\ d.rows \subseteq {r \in Row : r.table \in CoreTables}
  BY DEF Database
<1>2. added \in Seq(AuditRow) /\ Len(added) = Len(rows) /\ DOMAIN rows = 1..Len(rows)
  <2>1. \A i \in 1..Len(rows) : Signed(rows[i], actor) \in AuditRow
    BY SignedType
  <2> QED
    BY <2>1
<1>3. \A i \in 1..Len(rows) : added[i] = Signed(rows[i], actor)
  BY <1>2
<1>4. e.audit = d.audit \o added
      /\ e = [rows |-> d.rows \cup {row \in Range(rows) : row.table \in CoreTables},
              audit |-> d.audit \o added]
  BY DEF WithRows
<1> HIDE DEF added, e
<1>5. d.audit \o added \in Seq(AuditRow)
  BY <1>1, <1>2, ConcatProperties
<1>6. Range(rows) \subseteq Row
  BY RangeOfSeq
<1>7. e \in Database
  BY <1>1, <1>4, <1>5, <1>6 DEF Database
<1>8. Len(d.audit) \in Nat /\ Len(rows) \in Nat /\ DOMAIN d.audit = 1..Len(d.audit)
  BY <1>1
<1>9. DOMAIN e.audit = 1..(Len(d.audit) + Len(rows))
  <2>1. Len(d.audit \o added) = Len(d.audit) + Len(added)
    BY <1>1, <1>2, ConcatProperties
  <2>2. DOMAIN (d.audit \o added) = 1..Len(d.audit \o added)
    BY <1>5, LenProperties
  <2> QED
    BY <1>2, <1>4, <2>1, <2>2
<1>10. \A i \in 1..Len(d.audit) : e.audit[i] = d.audit[i]
  BY <1>1, <1>2, <1>4
<1>11. ASSUME NEW i \in 1..Len(rows)
       PROVE  e.audit[Len(d.audit) + i] = added[i]
  <2>1. /\ Len(d.audit) + i \in 1..(Len(d.audit) + Len(added))
        /\ ~(Len(d.audit) + i <= Len(d.audit))
        /\ (Len(d.audit) + i) - Len(d.audit) = i
    BY <1>2, <1>8
  <2>2. (d.audit \o added)[Len(d.audit) + i] = added[(Len(d.audit) + i) - Len(d.audit)]
    BY <1>1, <1>2, <2>1, ConcatProperties
  <2> QED
    BY <1>4, <2>1, <2>2
<1> QED
  BY <1>3, <1>7, <1>8, <1>9, <1>10, <1>11 DEF e

\* Rows that are new to the tables keep the audit log a copy of them.
LEMMA AuditAdded ==
  ASSUME NEW d \in Database, Audited(d), NEW rows \in Seq(Row), NEW actor \in Actors,
         \A i, j \in DOMAIN rows :
           /\ rows[i].table \in CoreTables
           /\ rows[i].table = rows[j].table
           /\ rows[i].key = rows[j].key
           => i = j,
         \A row \in Range(rows) : row.table \in CoreTables => ~HasRow(d, row.table, row.key)
  PROVE  Audited(WithRows(d, rows, actor))
<1> DEFINE e == WithRows(d, rows, actor)
           a == Len(d.audit)
           n == Len(rows)
<1>1. /\ a \in Nat /\ n \in Nat /\ DOMAIN d.audit = 1..a /\ DOMAIN e.audit = 1..(a + n)
      /\ \A i \in 1..a : e.audit[i] = d.audit[i]
      /\ \A i \in 1..n : e.audit[a + i] = Signed(rows[i], actor)
      /\ DOMAIN rows = 1..n
  BY WithRowsAudit
<1>2. e.rows = d.rows \cup {row \in Range(rows) : row.table \in CoreTables}
  BY DEF WithRows
<1> HIDE DEF e, a, n
<1>3. \A i \in 1..(a + n) : i \in 1..a \/ (i - a \in 1..n /\ a + (i - a) = i)
  BY <1>1
<1>4. \A i \in 1..n : a + i \in 1..(a + n)
  BY <1>1
<1>5. \A i \in 1..n : /\ e.audit[a + i].table = rows[i].table
                      /\ e.audit[a + i].key = rows[i].key
                      /\ rows[i] \in Range(rows)
  <2>1. \A i \in 1..n : rows[i] \in Range(rows)
    BY <1>1 DEF Range
  <2>2. \A i \in 1..n : /\ Signed(rows[i], actor).table = rows[i].table
                         /\ Signed(rows[i], actor).key = rows[i].key
    BY DEF Signed
  <2> QED
    BY <1>1, <2>1, <2>2
<1>6. ASSUME NEW i \in DOMAIN e.audit, NEW j \in DOMAIN e.audit,
             e.audit[i].table \in CoreTables,
             e.audit[i].table = e.audit[j].table, e.audit[i].key = e.audit[j].key
      PROVE  i = j
  <2>1. CASE i \in 1..a /\ j \in 1..a
    <3>1. e.audit[i] = d.audit[i] /\ e.audit[j] = d.audit[j]
      BY <1>1, <2>1
    <3> QED
      BY <1>1, <1>6, <2>1, <3>1 DEF Audited
  <2>2. CASE i \in 1..a /\ j \notin 1..a
    <3>1. j - a \in 1..n /\ a + (j - a) = j
      BY <1>1, <1>3, <2>2
    <3>2. HasRow(d, e.audit[i].table, e.audit[i].key)
      BY <1>1, <1>6, <2>2 DEF Audited, CoreTables
    <3> QED
      BY <1>5, <1>6, <3>1, <3>2
  <2>3. CASE i \notin 1..a /\ j \in 1..a
    <3>1. i - a \in 1..n /\ a + (i - a) = i
      BY <1>1, <1>3, <2>3
    <3>2. HasRow(d, e.audit[j].table, e.audit[j].key)
      BY <1>1, <1>6, <2>3 DEF Audited, CoreTables
    <3> QED
      BY <1>5, <1>6, <3>1, <3>2
  <2>4. CASE i \notin 1..a /\ j \notin 1..a
    <3>1. i - a \in 1..n /\ a + (i - a) = i /\ j - a \in 1..n /\ a + (j - a) = j
      BY <1>1, <1>3, <2>4
    <3>2. /\ e.audit[i].table = rows[i - a].table /\ e.audit[i].key = rows[i - a].key
          /\ e.audit[j].table = rows[j - a].table /\ e.audit[j].key = rows[j - a].key
      <4> DEFINE k == i - a
                 m == j - a
      <4>1. k \in 1..n /\ m \in 1..n /\ a + k = i /\ a + m = j
        BY <3>1
      <4> HIDE DEF k, m
      <4>2. /\ e.audit[i].table = rows[k].table /\ e.audit[i].key = rows[k].key
            /\ e.audit[j].table = rows[m].table /\ e.audit[j].key = rows[m].key
        BY <1>5, <4>1
      <4> QED
        BY <4>2 DEF k, m
    <3>3. i - a = j - a
      BY <1>1, <1>6, <3>1, <3>2
    <3> QED
      BY <3>1, <3>3
  <2> QED
    BY <2>1, <2>2, <2>3, <2>4
<1>7. ASSUME NEW row \in e.rows
      PROVE  \E i \in DOMAIN e.audit :
               e.audit[i].table = row.table /\ e.audit[i].key = row.key
  <2>1. CASE row \in d.rows
    <3>1. PICK i \in 1..a : d.audit[i].table = row.table /\ d.audit[i].key = row.key
      BY <1>1, <2>1 DEF Audited
    <3>2. i \in 1..(a + n)
      BY <1>1
    <3> QED
      BY <1>1, <3>1, <3>2
  <2>2. CASE row \in Range(rows)
    <3>1. PICK i \in 1..n : row = rows[i]
      BY <1>1, <2>2 DEF Range
    <3> QED
      BY <1>1, <1>4, <1>5, <3>1
  <2> QED
    BY <1>2, <2>1, <2>2
<1>8. ASSUME NEW i \in DOMAIN e.audit
      PROVE  \/ e.audit[i].table = "legislative_validation"
             \/ HasRow(e, e.audit[i].table, e.audit[i].key)
  <2>1. CASE i \in 1..a
    BY <1>1, <1>2, <2>1 DEF Audited, HasRow
  <2>2. CASE i \notin 1..a
    <3>1. i - a \in 1..n /\ a + (i - a) = i
      BY <1>1, <1>3, <2>2
    <3>2. rows[i - a] \in Row /\ rows[i - a] \in Range(rows)
      BY <1>1, <1>5, <3>1
    <3>3. CASE rows[i - a].table \in CoreTables
      BY <1>2, <1>5, <3>1, <3>2, <3>3 DEF HasRow
    <3>4. CASE rows[i - a].table = "legislative_validation"
      BY <1>5, <3>1, <3>4
    <3> QED
      BY <3>2, <3>3, <3>4, RowShape
  <2> QED
    BY <2>1, <2>2
<1> QED
  BY <1>6, <1>7, <1>8 DEF Audited, e

LEMMA DatabaseRows ==
  ASSUME NEW d \in Database
  PROVE  /\ d.rows \subseteq Row
         /\ d.audit \in Seq(AuditRow)
         /\ \A row \in d.rows : row.table \in CoreTables
         /\ \A h \in RowsOf(d, "transactions") :
              /\ h \in d.rows /\ h.table = "transactions" /\ h.data \in Header
              /\ h.key[1] \in Refs /\ h.key = <<h.key[1], 0>>
              /\ HasTransaction(d, h.key[1])
         /\ \A x \in RowsOf(d, "entries") :
              /\ x \in d.rows /\ x.table = "entries" /\ x.data \in Line
              /\ x.key[1] \in Refs /\ x.key[2] \in Nat \ {0} /\ x.key = <<x.key[1], x.key[2]>>
<1>1. d.rows \subseteq Row /\ d.audit \in Seq(AuditRow) /\ \A row \in d.rows : row.table \in CoreTables
  BY DEF Database
<1>2. ASSUME NEW h \in RowsOf(d, "transactions")
      PROVE  /\ h \in d.rows /\ h.table = "transactions" /\ h.data \in Header
             /\ h.key[1] \in Refs /\ h.key = <<h.key[1], 0>>
             /\ HasTransaction(d, h.key[1])
  <2>1. h \in d.rows /\ h.table = "transactions" /\ h \in Row
    BY <1>1 DEF RowsOf
  <2>2. h.key \in Refs \X {0} /\ h.data \in Header
    BY <2>1, RowShape
  <2>3. h.key[1] \in Refs /\ h.key = <<h.key[1], 0>>
    BY <2>2
  <2>4. HasTransaction(d, h.key[1])
    BY <2>1, <2>3 DEF HasTransaction, HasRow
  <2> QED
    BY <2>1, <2>2, <2>3, <2>4
<1>3. ASSUME NEW x \in RowsOf(d, "entries")
      PROVE  /\ x \in d.rows /\ x.table = "entries" /\ x.data \in Line
             /\ x.key[1] \in Refs /\ x.key[2] \in Nat \ {0} /\ x.key = <<x.key[1], x.key[2]>>
  <2>1. x \in d.rows /\ x.table = "entries" /\ x \in Row
    BY <1>1 DEF RowsOf
  <2>2. x.key \in Refs \X (Nat \ {0}) /\ x.data \in Line
    BY <2>1, RowShape
  <2> QED
    BY <2>1, <2>2
<1> QED
  BY <1>1, <1>2, <1>3

LEMMA StoredLines ==
  ASSUME NEW d, NEW tx \in Journal,
         {r \in RowsOf(d, "entries") : r.key[1] = tx.ref}
           = {EntryRow(tx, i) : i \in 1..Len(tx.lines)}
  PROVE  LinesOf(d, tx.ref) = tx.lines
<1> DEFINE n == Len(tx.lines)
           stored == {r \in RowsOf(d, "entries") : r.key[1] = tx.ref}
<1>1. n \in Nat /\ tx.lines \in Seq(Line) /\ DOMAIN tx.lines = 1..n
  BY DEF Journal
<1>2. LinesOf(d, tx.ref)
        = [k \in {r.key[2] : r \in stored} |-> (CHOOSE r \in stored : r.key[2] = k).data]
  BY DEF LinesOf
<1>3. stored = {EntryRow(tx, i) : i \in 1..n}
  OBVIOUS
<1> HIDE DEF stored, n
<1>4. \A i \in 1..n : EntryRow(tx, i).key[2] = i /\ EntryRow(tx, i).data = tx.lines[i]
  BY DEF EntryRow
<1>5. {r.key[2] : r \in stored} = 1..n
  BY <1>3, <1>4
<1>6. ASSUME NEW k \in 1..n
      PROVE  (CHOOSE r \in stored : r.key[2] = k).data = tx.lines[k]
  <2>1. EntryRow(tx, k) \in stored /\ EntryRow(tx, k).key[2] = k
    BY <1>3, <1>4
  <2>2. \A r \in stored : r.key[2] = k => r = EntryRow(tx, k)
    BY <1>3, <1>4
  <2>3. (CHOOSE r \in stored : r.key[2] = k) = EntryRow(tx, k)
    BY <2>1, <2>2
  <2> QED
    BY <1>4, <2>3
<1>7. tx.lines = [k \in 1..n |-> tx.lines[k]]
  BY <1>1
<1> QED
  BY <1>2, <1>5, <1>6, <1>7

LEMMA StoredHeader ==
  ASSUME NEW d \in Database, Keyed(d.rows), NEW h \in RowsOf(d, "transactions")
  PROVE  HeaderOf(d, h.key[1]) = h.data
<1>1. h.key[1] = h.key[1] /\ h \in d.rows /\ h.key = <<h.key[1], 0>> /\ h.table = "transactions"
  BY DatabaseRows
<1>2. \A g \in RowsOf(d, "transactions") : g.key[1] = h.key[1] => g = h
  <2> TAKE g \in RowsOf(d, "transactions")
  <2> HAVE g.key[1] = h.key[1]
  <2>1. g \in d.rows /\ g.key = <<g.key[1], 0>> /\ g.table = "transactions"
    BY DatabaseRows
  <2> QED
    BY <1>1, <2>1 DEF Keyed
<1>3. (CHOOSE g \in RowsOf(d, "transactions") : g.key[1] = h.key[1]) = h
  BY <1>2
<1> QED
  BY <1>3 DEF HeaderOf

\* The accounts of a stored journal are stored.
LEMMA StoredAccounts ==
  ASSUME NEW d, NEW ref,
         \A x \in RowsOf(d, "entries") : HasRow(d, "accounts", <<x.data.account, 1>>)
  PROVE  \A i \in DOMAIN LinesOf(d, ref) :
           HasRow(d, "accounts", <<LinesOf(d, ref)[i].account, 1>>)
<1> SUFFICES ASSUME NEW i \in DOMAIN LinesOf(d, ref)
             PROVE  HasRow(d, "accounts", <<LinesOf(d, ref)[i].account, 1>>)
  OBVIOUS
<1> DEFINE stored == {r \in RowsOf(d, "entries") : r.key[1] = ref}
<1>1. LinesOf(d, ref)
        = [n \in {r.key[2] : r \in stored} |-> (CHOOSE r \in stored : r.key[2] = n).data]
  BY DEF LinesOf
<1>2. /\ i \in {r.key[2] : r \in stored}
      /\ LinesOf(d, ref)[i] = (CHOOSE r \in stored : r.key[2] = i).data
  BY <1>1
<1>3. PICK r \in stored : LinesOf(d, ref)[i] = r.data
  <2> HIDE DEF stored
  <2> QED
    BY <1>2
<1> QED
  BY <1>3

LEMMA StoredTransaction ==
  ASSUME NEW d, NEW ref, HasTransaction(d, ref)
  PROVE  \E h \in RowsOf(d, "transactions") : h.key = <<ref, 0>> /\ h.key[1] = ref
  BY DEF HasTransaction, HasRow, RowsOf

LEMMA AccountKeys ==
  ASSUME NEW d \in Database, NEW a
  PROVE  a \in {r.key[1] : r \in RowsOf(d, "accounts")} <=> HasRow(d, "accounts", <<a, 1>>)
<1>1. \A x \in RowsOf(d, "accounts") : x.key = <<x.key[1], 1>> /\ x \in d.rows /\ x.table = "accounts"
  <2> TAKE x \in RowsOf(d, "accounts")
  <2>1. x \in d.rows /\ x \in Row /\ x.table = "accounts"
    BY DatabaseRows DEF RowsOf
  <2>2. x.key \in Accounts \X {1}
    BY <2>1, RowShape
  <2> QED
    BY <2>1, <2>2
<1>2. a \in {r.key[1] : r \in RowsOf(d, "accounts")} <=> \E x \in RowsOf(d, "accounts") : x.key[1] = a
  OBVIOUS
<1>3. HasRow(d, "accounts", <<a, 1>>) <=> \E x \in RowsOf(d, "accounts") : x.key = <<a, 1>>
  BY DEF HasRow, RowsOf
<1>4. \A x \in RowsOf(d, "accounts") : x.key[1] = a <=> x.key = <<a, 1>>
  BY <1>1
<1> QED
  BY <1>2, <1>3, <1>4

\* The rows of a set of journals.
HeadersOf(Ts) == {HeaderRow(tx) : tx \in Ts}
EntriesOf(Ts) == UNION {{EntryRow(tx, i) : i \in 1..Len(tx.lines)} : tx \in Ts}
JournalRows(Ts) == UNION {Range(TransactionRows(tx)) : tx \in Ts}

\* e is d with the rows of a book, if Ms is not empty, and of new journals.
Adds(d, e, Ms, Ts) ==
  /\ Ts \subseteq Journal
  /\ \A row \in Ms : row.table \in MasterTables
  /\ e.rows = d.rows \cup Ms \cup JournalRows(Ts)
  /\ \A tx \in Ts : ~HasTransaction(d, tx.ref)
  /\ \A t1, t2 \in Ts : t1.ref = t2.ref => t1 = t2

EntriesBelong(d) == \A x \in RowsOf(d, "entries") : HasTransaction(d, x.key[1])

\* The journals of a set are added to those that are stored and change none.
LEMMA JournalsAdded ==
  ASSUME NEW d \in Database, EntriesBelong(d), NEW e, NEW Ms, NEW Ts, Adds(d, e, Ms, Ts)
  PROVE  /\ RowsOf(e, "transactions") = RowsOf(d, "transactions") \cup HeadersOf(Ts)
         /\ RowsOf(e, "entries") = RowsOf(d, "entries") \cup EntriesOf(Ts)
         /\ \A tx \in Ts : LinesOf(e, tx.ref) = tx.lines
         /\ \A ref : HasTransaction(d, ref) => LinesOf(e, ref) = LinesOf(d, ref)
<1> USE DEF Adds, EntriesBelong
<1> DEFINE Entries(tx) == {EntryRow(tx, i) : i \in 1..Len(tx.lines)}
<1>1. \A tx \in Ts : Range(TransactionRows(tx)) = {HeaderRow(tx)} \cup Entries(tx)
  BY TransactionRowsContents
<1>2. \A tx \in Ts : /\ HeaderRow(tx).table = "transactions"
                     /\ \A x \in Entries(tx) : x.table = "entries" /\ x.key[1] = tx.ref
  BY DEF HeaderRow, EntryRow
<1> HIDE DEF Entries
<1>3. RowsOf(e, "transactions") = RowsOf(d, "transactions") \cup HeadersOf(Ts)
  BY <1>1, <1>2 DEF RowsOf, MasterTables, HeadersOf, JournalRows
<1>4. RowsOf(e, "entries") = RowsOf(d, "entries") \cup UNION {Entries(tx) : tx \in Ts}
  BY <1>1, <1>2 DEF RowsOf, MasterTables, JournalRows
<1>5. ASSUME NEW tx \in Ts
      PROVE  LinesOf(e, tx.ref) = tx.lines
  <2>1. \A x \in RowsOf(d, "entries") : x.key[1] # tx.ref
    OBVIOUS
  <2>2. \A t1 \in Ts : \A x \in Entries(t1) : x.key[1] = tx.ref => t1 = tx
    BY <1>2
  <2>3. {r \in RowsOf(e, "entries") : r.key[1] = tx.ref} = Entries(tx)
    BY <1>2, <1>4, <2>1, <2>2
  <2> QED
    BY <2>3, StoredLines DEF Entries
<1>6. ASSUME NEW ref, HasTransaction(d, ref)
      PROVE  LinesOf(e, ref) = LinesOf(d, ref)
  <2>1. \A tx \in Ts : \A x \in Entries(tx) : x.key[1] # ref
    BY <1>2, <1>6
  <2>2. {r \in RowsOf(e, "entries") : r.key[1] = ref}
          = {r \in RowsOf(d, "entries") : r.key[1] = ref}
    BY <1>4, <2>1
  <2> DEFINE A == {r \in RowsOf(e, "entries") : r.key[1] = ref}
             B == {r \in RowsOf(d, "entries") : r.key[1] = ref}
             L(S) == [n \in {r.key[2] : r \in S} |-> (CHOOSE r \in S : r.key[2] = n).data]
  <2>3. LinesOf(e, ref) = L(A) /\ LinesOf(d, ref) = L(B) /\ A = B
    BY <2>2 DEF LinesOf
  <2> HIDE DEF A, B, L
  <2> QED
    BY <2>3
<1> QED
  BY <1>3, <1>4, <1>5, <1>6 DEF Entries, EntriesOf

\* What every committed database is: rows with keys of their own, in a book, and
\* whole, balanced, posted journals on accounts of the book.
Sound(d) ==
  /\ Keyed(d.rows)
  /\ d.rows # {} => HasRow(d, "books", <<>>)
  /\ \A x \in RowsOf(d, "entries") :
       /\ HasTransaction(d, x.key[1])
       /\ HasRow(d, "accounts", <<x.data.account, 1>>)
  /\ \A h \in RowsOf(d, "transactions") :
       /\ LinesOf(d, h.key[1]) \in Seq(Line)
       /\ Balanced(LinesOf(d, h.key[1]))
       /\ h.data.state = "posted"

\* The rows of a book and of journals with different references are apart.
LEMMA NewRowsKeyed ==
  ASSUME NEW Ms, \A row \in Ms : row.table \in MasterTables, Keyed(Ms),
         NEW Ts \in SUBSET Journal, \A t1, t2 \in Ts : t1.ref = t2.ref => t1 = t2
  PROVE  Keyed(Ms \cup JournalRows(Ts))
<1> SUFFICES ASSUME NEW r1 \in Ms \cup JournalRows(Ts),
                    NEW r2 \in Ms \cup JournalRows(Ts),
                    r1.table = r2.table, r1.key = r2.key
             PROVE  r1 = r2
  BY DEF Keyed
<1>1. ASSUME NEW tx \in Ts, NEW row \in Range(TransactionRows(tx))
      PROVE  /\ row.table \in {"transactions", "entries"} /\ row.key[1] = tx.ref
             /\ \E n \in 1..(Len(tx.lines) + 1) :
                  /\ row = TransactionRows(tx)[n]
                  /\ TransactionRows(tx)[n].key = <<tx.ref, n - 1>>
  <2>1. row = HeaderRow(tx) \/ \E i \in 1..Len(tx.lines) : row = EntryRow(tx, i)
    BY <1>1, TransactionRowsContents
  <2>2. DOMAIN TransactionRows(tx) = 1..(Len(tx.lines) + 1)
    BY DEF TransactionRows
  <2>3. \E n \in 1..(Len(tx.lines) + 1) : row = TransactionRows(tx)[n]
    BY <1>1, <2>2 DEF Range
  <2>4. row.table \in {"transactions", "entries"} /\ row.key[1] = tx.ref
    BY <2>1 DEF HeaderRow, EntryRow
  <2> QED
    BY <2>3, <2>4, TransactionRowsContents
<1>2. CASE r1 \in Ms /\ r2 \in Ms
  BY <1>2 DEF Keyed
<1>3. CASE r1 \notin Ms /\ r2 \notin Ms
  <2>1. PICK t1 \in Ts : r1 \in Range(TransactionRows(t1))
    BY <1>3 DEF JournalRows
  <2>2. PICK t2 \in Ts : r2 \in Range(TransactionRows(t2))
    BY <1>3 DEF JournalRows
  <2>3. t1 = t2
    BY <1>1, <2>1, <2>2
  <2>4. PICK n \in 1..(Len(t1.lines) + 1) :
          r1 = TransactionRows(t1)[n] /\ TransactionRows(t1)[n].key = <<t1.ref, n - 1>>
    BY <1>1, <2>1
  <2>5. PICK m \in 1..(Len(t1.lines) + 1) :
          r2 = TransactionRows(t1)[m] /\ TransactionRows(t1)[m].key = <<t1.ref, m - 1>>
    BY <1>1, <2>2, <2>3
  <2>6. n - 1 = m - 1 /\ Len(t1.lines) \in Nat
    BY <2>4, <2>5, TransactionRowsContents
  <2>7. n = m
    BY <2>6
  <2> QED
    BY <2>4, <2>5, <2>7
<1>4. CASE r1 \in Ms /\ r2 \notin Ms
  <2>1. r2.table \in {"transactions", "entries"} /\ r1.table \in MasterTables
    BY <1>1, <1>4 DEF JournalRows
  <2> QED
    BY <2>1 DEF MasterTables
<1>5. CASE r1 \notin Ms /\ r2 \in Ms
  <2>1. r1.table \in {"transactions", "entries"} /\ r2.table \in MasterTables
    BY <1>1, <1>5 DEF JournalRows
  <2> QED
    BY <2>1 DEF MasterTables
<1> QED
  BY <1>2, <1>3, <1>4, <1>5

LEMMA KeyedUnion ==
  ASSUME NEW R1, NEW R2, Keyed(R1), Keyed(R2),
         \A r1 \in R1, r2 \in R2 : ~(r1.table = r2.table /\ r1.key = r2.key)
  PROVE  Keyed(R1 \cup R2)
  BY DEF Keyed

LEMMA SoundAdded ==
  ASSUME NEW d \in Database, Sound(d), NEW e \in Database,
         NEW Ms, NEW Ts, Adds(d, e, Ms, Ts), Keyed(Ms),
         \A row \in Ms : ~HasRow(d, row.table, row.key),
         HasRow(e, "books", <<>>),
         \A tx \in Ts :
           /\ tx.state = "posted"
           /\ Balanced(tx.lines)
           /\ \A i \in DOMAIN tx.lines : HasRow(e, "accounts", <<tx.lines[i].account, 1>>)
  PROVE  Sound(e)
<1>1. /\ RowsOf(e, "transactions")
           = RowsOf(d, "transactions") \cup HeadersOf(Ts)
      /\ RowsOf(e, "entries")
           = RowsOf(d, "entries") \cup EntriesOf(Ts)
      /\ \A tx \in Ts : LinesOf(e, tx.ref) = tx.lines
      /\ \A ref : HasTransaction(d, ref) => LinesOf(e, ref) = LinesOf(d, ref)
  <2>1. EntriesBelong(d)
    BY DEF Sound, EntriesBelong
  <2> QED
    BY <2>1, JournalsAdded
<1>0. /\ Ts \subseteq Journal
      /\ \A row \in Ms : row.table \in MasterTables
      /\ e.rows = d.rows \cup Ms \cup JournalRows(Ts)
      /\ \A tx \in Ts : ~HasTransaction(d, tx.ref)
      /\ \A t1, t2 \in Ts : t1.ref = t2.ref => t1 = t2
  BY DEF Adds
<1>2. \A table, key : HasRow(d, table, key) => HasRow(e, table, key)
  BY <1>0 DEF HasRow
<1>3. Keyed(e.rows)
  <2>1. Keyed(Ms \cup JournalRows(Ts))
    BY <1>0, NewRowsKeyed
  <2>2. ASSUME NEW r1 \in d.rows, NEW r2 \in Ms \cup JournalRows(Ts)
        PROVE  ~(r1.table = r2.table /\ r1.key = r2.key)
    <3>1. CASE r2 \in Ms
      BY <3>1 DEF HasRow
    <3>2. CASE r2 \in JournalRows(Ts)
      <4>1. PICK tx \in Ts : r2 \in Range(TransactionRows(tx))
        BY <3>2 DEF JournalRows
      <4>2. CASE r2 = HeaderRow(tx)
        BY <1>0, <4>2 DEF HeaderRow, HasTransaction, HasRow
      <4>3. CASE r2 # HeaderRow(tx)
        <5>1. PICK i \in 1..Len(tx.lines) : r2 = EntryRow(tx, i)
          BY <1>0, <4>1, <4>3, TransactionRowsContents
        <5>2. r2.table = "entries" /\ r2.key[1] = tx.ref
          BY <5>1 DEF EntryRow
        <5>3. r1 \in RowsOf(d, "entries") => HasTransaction(d, r1.key[1])
          BY DEF Sound
        <5> QED
          BY <1>0, <5>2, <5>3 DEF RowsOf
      <4> QED
        BY <4>2, <4>3
    <3> QED
      BY <3>1, <3>2
  <2>3. Keyed(d.rows)
    BY DEF Sound
  <2>4. e.rows = d.rows \cup (Ms \cup JournalRows(Ts))
    BY <1>0
  <2> QED
    BY <2>1, <2>2, <2>3, <2>4, KeyedUnion
<1>4. ASSUME NEW tx \in Ts
      PROVE  HasTransaction(e, tx.ref)
  <2>1. HeaderRow(tx) \in RowsOf(e, "transactions")
    BY <1>1 DEF HeadersOf
  <2> QED
    BY <2>1 DEF HasTransaction, HasRow, RowsOf, HeaderRow
<1>5. ASSUME NEW x \in RowsOf(e, "entries")
      PROVE  /\ HasTransaction(e, x.key[1])
             /\ HasRow(e, "accounts", <<x.data.account, 1>>)
  <2>1. CASE x \in RowsOf(d, "entries")
    BY <1>2, <2>1 DEF Sound, HasTransaction
  <2>2. CASE x \notin RowsOf(d, "entries")
    <3>1. PICK tx \in Ts : x \in {EntryRow(tx, i) : i \in 1..Len(tx.lines)}
      BY <1>1, <2>2 DEF EntriesOf
    <3>2. PICK i \in 1..Len(tx.lines) : x = EntryRow(tx, i)
      BY <3>1
    <3>3. x.key[1] = tx.ref /\ x.data = tx.lines[i]
      BY <3>2 DEF EntryRow
    <3>4. i \in DOMAIN tx.lines
      BY <1>0 DEF Journal
    <3> QED
      BY <1>4, <3>3, <3>4
  <2> QED
    BY <2>1, <2>2
<1>6. ASSUME NEW h \in RowsOf(e, "transactions")
      PROVE  /\ LinesOf(e, h.key[1]) \in Seq(Line)
             /\ Balanced(LinesOf(e, h.key[1]))
             /\ h.data.state = "posted"
  <2>1. CASE h \in RowsOf(d, "transactions")
    <3>1. HasTransaction(d, h.key[1])
      BY <2>1, DatabaseRows
    <3> QED
      BY <1>1, <2>1, <3>1 DEF Sound
  <2>2. CASE h \notin RowsOf(d, "transactions")
    <3>1. PICK tx \in Ts : h = HeaderRow(tx)
      BY <1>1, <2>2 DEF HeadersOf
    <3>2. h.key[1] = tx.ref /\ h.data.state = tx.state
      BY <3>1 DEF HeaderRow
    <3>3. tx.lines \in Seq(Line)
      BY <1>0 DEF Journal
    <3> QED
      BY <1>1, <3>2, <3>3
  <2> QED
    BY <2>1, <2>2
<1> QED
  BY <1>3, <1>5, <1>6 DEF Sound

\* The rows of a book, or of journals on its accounts, that nothing in d rules out.
Accepted(d, rows, actor, Ms, Ts) ==
  LET e == WithRows(d, rows, actor)
  IN  /\ rows \in Seq(Row) /\ IsInjective(rows) /\ actor \in Actors
      /\ Range(rows) = Ms \cup JournalRows(Ts)
      /\ Adds(d, e, Ms, Ts) /\ Keyed(Ms)
      /\ \A row \in Ms : ~HasRow(d, row.table, row.key)
      /\ HasRow(e, "books", <<>>)
      /\ \A tx \in Ts :
           /\ tx.state = "posted"
           /\ Balanced(tx.lines)
           /\ \A i \in DOMAIN tx.lines : HasRow(e, "accounts", <<tx.lines[i].account, 1>>)

\* They leave a sound and audited database.
LEMMA WriteIsSound ==
  ASSUME NEW d \in Database, Sound(d), Audited(d),
         NEW rows, NEW actor, NEW Ms, NEW Ts, Accepted(d, rows, actor, Ms, Ts)
  PROVE  /\ WithRows(d, rows, actor) \in Database
         /\ Sound(WithRows(d, rows, actor))
         /\ Audited(WithRows(d, rows, actor))
<1>0. /\ rows \in Seq(Row) /\ IsInjective(rows) /\ actor \in Actors
      /\ Range(rows) = Ms \cup JournalRows(Ts)
      /\ Adds(d, WithRows(d, rows, actor), Ms, Ts) /\ Keyed(Ms)
      /\ \A row \in Ms : ~HasRow(d, row.table, row.key)
  BY DEF Accepted
<1> DEFINE e == WithRows(d, rows, actor)
<1>1. e \in Database
  BY <1>0, WithRowsAudit
<1>2. Sound(e)
  <2> HIDE DEF e
  <2> QED
    BY <1>1, SoundAdded DEF e, Accepted
<1>3. /\ Ts \subseteq Journal
      /\ \A row \in Ms : row.table \in MasterTables
      /\ \A tx \in Ts : ~HasTransaction(d, tx.ref)
      /\ \A t1, t2 \in Ts : t1.ref = t2.ref => t1 = t2
  BY <1>0 DEF Adds
<1>4. ASSUME NEW row \in Range(rows)
      PROVE  ~HasRow(d, row.table, row.key)
  <2>1. CASE row \in Ms
    BY <1>0, <2>1
  <2>2. CASE row \notin Ms
    <3>1. PICK tx \in Ts : row \in Range(TransactionRows(tx))
      BY <1>0, <2>2 DEF JournalRows
    <3>2. CASE row = HeaderRow(tx)
      BY <1>3, <3>2 DEF HeaderRow, HasTransaction
    <3>3. CASE row # HeaderRow(tx)
      <4>1. PICK i \in 1..Len(tx.lines) : row = EntryRow(tx, i)
        BY <1>3, <3>1, <3>3, TransactionRowsContents
      <4>2. row.table = "entries" /\ row.key[1] = tx.ref
        BY <4>1 DEF EntryRow
      <4> QED
        BY <1>3, <4>2 DEF HasRow, Sound, RowsOf
    <3> QED
      BY <3>2, <3>3
  <2> QED
    BY <2>1, <2>2
<1>5. Keyed(Range(rows))
  BY <1>0, <1>3, NewRowsKeyed
<1>6. ASSUME NEW i \in DOMAIN rows, NEW j \in DOMAIN rows,
             rows[i].table = rows[j].table, rows[i].key = rows[j].key
      PROVE  i = j
  <2>1. rows[i] \in Range(rows) /\ rows[j] \in Range(rows)
    BY DEF Range
  <2>2. rows[i] = rows[j]
    BY <1>5, <1>6, <2>1 DEF Keyed
  <2> QED
    BY <1>0, <2>2 DEF IsInjective
<1>7. Audited(e)
  BY <1>0, <1>4, <1>6, AuditAdded
<1> QED
  BY <1>1, <1>2, <1>7

\* What was stored stays as it was, and the journals are stored as they are.
LEMMA WriteKeeps ==
  ASSUME NEW d \in Database, Sound(d), Audited(d),
         NEW rows, NEW actor, NEW Ms, NEW Ts, Accepted(d, rows, actor, Ms, Ts)
  PROVE  LET e == WithRows(d, rows, actor)
         IN  /\ e.rows = d.rows \cup Ms \cup JournalRows(Ts)
             /\ RowsOf(e, "transactions") = RowsOf(d, "transactions") \cup HeadersOf(Ts)
             /\ \A tx \in Ts : LinesOf(e, tx.ref) = tx.lines
             /\ \A tx \in Ts : HasTransaction(e, tx.ref) /\ HeaderRow(tx) \in e.rows
             /\ \A table, key : HasRow(d, table, key) => HasRow(e, table, key)
             /\ \A ref : HasTransaction(d, ref) =>
                           /\ HasTransaction(e, ref)
                           /\ LinesOf(e, ref) = LinesOf(d, ref)
                           /\ HeaderOf(e, ref) = HeaderOf(d, ref)
<1> DEFINE e == WithRows(d, rows, actor)
<1>1. e \in Database /\ Sound(e) /\ Adds(d, e, Ms, Ts)
  BY WriteIsSound DEF Accepted
<1> HIDE DEF e
<1>2. EntriesBelong(d) /\ Keyed(d.rows) /\ Keyed(e.rows)
  BY <1>1 DEF Sound, EntriesBelong
<1>3. /\ RowsOf(e, "transactions") = RowsOf(d, "transactions") \cup HeadersOf(Ts)
      /\ \A tx \in Ts : LinesOf(e, tx.ref) = tx.lines
      /\ \A ref : HasTransaction(d, ref) => LinesOf(e, ref) = LinesOf(d, ref)
  BY <1>1, <1>2, JournalsAdded
<1>4. e.rows = d.rows \cup Ms \cup JournalRows(Ts)
  BY <1>1 DEF Adds
<1>5. \A table, key : HasRow(d, table, key) => HasRow(e, table, key)
  BY <1>4 DEF HasRow
<1>6. \A ref : HasTransaction(d, ref) => HasTransaction(e, ref)
  BY <1>5 DEF HasTransaction
<1>7. ASSUME NEW ref, HasTransaction(d, ref)
      PROVE  HeaderOf(e, ref) = HeaderOf(d, ref)
  <2>1. PICK h \in RowsOf(d, "transactions") : h.key[1] = ref
    BY <1>7, StoredTransaction
  <2>2. h \in RowsOf(e, "transactions")
    BY <1>3
  <2>3. HeaderOf(d, h.key[1]) = h.data
    BY <1>2, StoredHeader
  <2>4. HeaderOf(e, h.key[1]) = h.data
    BY <1>1, <1>2, <2>2, StoredHeader
  <2> QED
    BY <2>1, <2>3, <2>4
<1>8. ASSUME NEW tx \in Ts
      PROVE  HasTransaction(e, tx.ref) /\ HeaderRow(tx) \in e.rows
  <2>1. HeaderRow(tx) \in RowsOf(e, "transactions")
    BY <1>3 DEF HeadersOf
  <2> QED
    BY <2>1 DEF HasTransaction, HasRow, RowsOf, HeaderRow
<1> QED
  BY <1>3, <1>4, <1>5, <1>6, <1>7, <1>8 DEF e

\* Only the rows of a database decide whether it is sound.
LEMMA SameRows ==
  ASSUME NEW d, NEW e, e.rows = d.rows
  PROVE  /\ \A table : RowsOf(e, table) = RowsOf(d, table)
         /\ \A table, key : HasRow(e, table, key) <=> HasRow(d, table, key)
         /\ \A ref : LinesOf(e, ref) = LinesOf(d, ref) /\ HeaderOf(e, ref) = HeaderOf(d, ref)
         /\ Sound(d) => Sound(e)
<1>1. \A table : RowsOf(e, table) = RowsOf(d, table)
  BY DEF RowsOf
<1>2. \A table, key : HasRow(e, table, key) <=> HasRow(d, table, key)
  BY DEF HasRow
<1>3. \A ref : LinesOf(e, ref) = LinesOf(d, ref) /\ HeaderOf(e, ref) = HeaderOf(d, ref)
  <2> TAKE ref
  <2> DEFINE S(R) == {r \in R : r.key[1] = ref}
             L(R) == [n \in {r.key[2] : r \in S(R)} |-> (CHOOSE r \in S(R) : r.key[2] = n).data]
             H(R) == (CHOOSE r \in R : r.key[1] = ref).data
  <2>1. LinesOf(e, ref) = L(RowsOf(e, "entries")) /\ LinesOf(d, ref) = L(RowsOf(d, "entries"))
    BY DEF LinesOf
  <2>2. /\ HeaderOf(e, ref) = H(RowsOf(e, "transactions"))
        /\ HeaderOf(d, ref) = H(RowsOf(d, "transactions"))
    BY DEF HeaderOf
  <2> HIDE DEF S, L, H
  <2> QED
    BY <1>1, <2>1, <2>2
<1>4. Sound(d) => Sound(e)
  BY <1>1, <1>2, <1>3 DEF Sound, HasTransaction
<1> QED
  BY <1>1, <1>2, <1>3, <1>4

\* A legislative result is a row of the audit log alone.
LEMMA LegislativeIsSound ==
  ASSUME NEW d \in Database, Sound(d), Audited(d), NEW ref \in Refs, NEW actor \in Actors
  PROVE  LET e == WithRows(d, <<LegislativeRow(ref)>>, actor)
         IN  e \in Database /\ e.rows = d.rows /\ Sound(e) /\ Audited(e)
<1> DEFINE rows == <<LegislativeRow(ref)>>
           e == WithRows(d, rows, actor)
<1>1. rows \in Seq(Row)
  BY DEF LegislativeRow, Row
<1>2. \A row \in Range(rows) : row.table = "legislative_validation" /\ row.table \notin CoreTables
  BY DEF LegislativeRow, Range, CoreTables
<1>3. \A i \in DOMAIN rows : rows[i] \in Range(rows)
  BY DEF Range
<1> HIDE DEF rows
<1>4. e \in Database
  BY <1>1, WithRowsAudit
<1>5. e.rows = d.rows
  BY <1>2 DEF WithRows
<1>6. Audited(e)
  BY <1>1, <1>2, <1>3, AuditAdded
<1> HIDE DEF e
<1>7. Sound(e)
  BY <1>5, SameRows
<1> QED
  BY <1>4, <1>5, <1>6, <1>7 DEF e, rows

-----------------------------------------------------------------------------
(* The transaction that append_reversal builds.                            *)

LEMMA InvertedLines ==
  ASSUME NEW lines \in Seq(Line)
  PROVE  /\ Inverted(lines) \in Seq(Line)
         /\ DOMAIN Inverted(lines) = DOMAIN lines
         /\ \A i \in DOMAIN lines :
              /\ Inverted(lines)[i] \in Line
              /\ Inverted(lines)[i].account = lines[i].account
              /\ Inverted(lines)[i].amount = lines[i].amount
              /\ Inverted(lines)[i].currency = lines[i].currency
              /\ Inverted(lines)[i].side = Opposite(lines[i].side)
              /\ lines[i].side \in Sides
<1>1. DOMAIN lines = 1..Len(lines) /\ Len(lines) \in Nat
  OBVIOUS
<1>2. ASSUME NEW i \in DOMAIN lines
      PROVE  /\ [lines[i] EXCEPT !.side = Opposite(@)] \in Line
             /\ [lines[i] EXCEPT !.side = Opposite(@)].account = lines[i].account
             /\ [lines[i] EXCEPT !.side = Opposite(@)].amount = lines[i].amount
             /\ [lines[i] EXCEPT !.side = Opposite(@)].currency = lines[i].currency
             /\ [lines[i] EXCEPT !.side = Opposite(@)].side = Opposite(lines[i].side)
             /\ lines[i].side \in Sides
  <2>1. lines[i] \in Line
    BY <1>1
  <2>2. lines[i].side \in Sides /\ Opposite(lines[i].side) \in Sides
    BY <2>1 DEF Line, Opposite, Sides
  <2> QED
    BY <2>1, <2>2 DEF Line
<1> DEFINE f(i) == [lines[i] EXCEPT !.side = Opposite(@)]
<1>3. Inverted(lines) = [i \in 1..Len(lines) |-> f(i)]
  BY <1>1 DEF Inverted
<1>4. \A i \in 1..Len(lines) :
        /\ f(i) \in Line
        /\ f(i).account = lines[i].account /\ f(i).amount = lines[i].amount
        /\ f(i).currency = lines[i].currency /\ f(i).side = Opposite(lines[i].side)
        /\ lines[i].side \in Sides
  BY <1>1, <1>2
<1> HIDE DEF f
<1>5. Inverted(lines) \in Seq(Line) /\ DOMAIN Inverted(lines) = 1..Len(lines)
  BY <1>1, <1>3, <1>4
<1> QED
  BY <1>1, <1>3, <1>4, <1>5

\* What is debited is credited: the sides change places in every currency.
LEMMA InvertedBalance ==
  ASSUME NEW lines \in Seq(Line), Balanced(lines)
  PROVE  Balanced(Inverted(lines))
<1> DEFINE inv == Inverted(lines)
           amounts == [i \in DOMAIN lines |-> Value(lines[i].amount)]
           on(c, side) == {i \in DOMAIN lines : lines[i].currency = c /\ lines[i].side = side}
<1>1. \A c \in Currencies : \A side \in Sides :
        SideTotal(lines, c, side) = SumFunctionOnSet(amounts, on(c, side))
  BY DEF SideTotal
<1>2. /\ DOMAIN inv = DOMAIN lines
      /\ \A i \in DOMAIN lines : /\ inv[i].amount = lines[i].amount
                                 /\ inv[i].currency = lines[i].currency
                                 /\ inv[i].side = Opposite(lines[i].side)
                                 /\ lines[i].side \in Sides
  BY InvertedLines
<1> HIDE DEF inv
<1>3. ASSUME NEW c \in Currencies, NEW side \in Sides
      PROVE  SideTotal(inv, c, side) = SumFunctionOnSet(amounts, on(c, Opposite(side)))
  <2>1. [i \in DOMAIN inv |-> Value(inv[i].amount)] = amounts
    BY <1>2
  <2>2. {i \in DOMAIN inv : inv[i].currency = c /\ inv[i].side = side} = on(c, Opposite(side))
    BY <1>2 DEF Opposite, Sides
  <2>3. SideTotal(inv, c, side)
          = SumFunctionOnSet([i \in DOMAIN inv |-> Value(inv[i].amount)],
                             {i \in DOMAIN inv : inv[i].currency = c /\ inv[i].side = side})
    BY DEF SideTotal
  <2> QED
    BY <2>1, <2>2, <2>3
<1> HIDE DEF amounts, on
<1>4. Opposite("Dr") = "Cr" /\ Opposite("Cr") = "Dr" /\ "Dr" \in Sides /\ "Cr" \in Sides
  BY DEF Opposite, Sides
<1>5. \A c \in Currencies : SideTotal(inv, c, "Dr") = SideTotal(inv, c, "Cr")
  <2> TAKE c \in Currencies
  <2>1. SideTotal(lines, c, "Dr") = SideTotal(lines, c, "Cr")
    BY DEF Balanced
  <2> QED
    BY <1>1, <1>3, <1>4, <2>1
<1>6. \E i, j \in DOMAIN inv : i # j
  BY <1>2 DEF Balanced
<1> QED
  BY <1>5, <1>6 DEF Balanced, inv

LEMMA ReversalIsValid ==
  ASSUME NEW d \in Database, Sound(d), NEW original \in Refs, NEW reversal \in Refs,
         HasTransaction(d, original), ~HasTransaction(d, reversal)
  PROVE  LET tx == ReversalOf(d, original, reversal)
         IN  /\ tx \in Journal /\ ValidJournal(tx)
             /\ tx.ref = reversal /\ tx.of = original
             /\ tx.state = "posted" /\ tx.note = "reversal"
             /\ tx.lines = Inverted(LinesOf(d, original))
             /\ tx.period = HeaderOf(d, original).period
             /\ Balanced(tx.lines)
             /\ \A i \in DOMAIN tx.lines : HasRow(d, "accounts", <<tx.lines[i].account, 1>>)
             /\ HasRow(d, "books", <<>>)
<1> DEFINE lines == LinesOf(d, original)
<1>1. PICK h \in RowsOf(d, "transactions") : h.key[1] = original
  BY StoredTransaction
<1>2. lines \in Seq(Line) /\ Balanced(lines) /\ HasRow(d, "books", <<>>)
  <2>1. h \in d.rows
    BY DatabaseRows
  <2> QED
    BY <1>1, <2>1 DEF Sound
<1>3. HeaderOf(d, original) \in Header
  BY <1>1, StoredHeader, DatabaseRows DEF Sound
<1>4. Inverted(lines) \in Seq(Line) /\ Balanced(Inverted(lines))
  BY <1>2, InvertedLines, InvertedBalance
<1>5. original # reversal
  OBVIOUS
<1>6. ReversalOf(d, original, reversal) \in Journal
  BY <1>3, <1>4 DEF ReversalOf, Journal, Header
<1>7. \A i \in DOMAIN lines : HasRow(d, "accounts", <<lines[i].account, 1>>)
  <2>1. \A x \in RowsOf(d, "entries") : HasRow(d, "accounts", <<x.data.account, 1>>)
    BY DEF Sound
  <2> QED
    BY <2>1, StoredAccounts
<1>8. \A i \in DOMAIN Inverted(lines) : HasRow(d, "accounts", <<Inverted(lines)[i].account, 1>>)
  BY <1>2, <1>7, InvertedLines
<1> QED
  BY <1>2, <1>4, <1>5, <1>6, <1>8 DEF ReversalOf, ValidJournal

-----------------------------------------------------------------------------
(* Requests.                                                               *)

LEMMA RequestFields ==
  ASSUME NEW r \in Request
  PROVE  /\ r.actor \in Actors
         /\ r.op = "create_book" =>
              /\ r.accounts \in Seq(Accounts) /\ r.periods \in Seq(Periods)
              /\ r.transactions \in Seq(Journal) /\ r.transactions \in Seq(CallerJournal)
         /\ r.op = "append_transaction" => r.tx \in Journal /\ r.tx.note = "caller"
         /\ r.op = "append_reversal" => r.original \in Refs /\ r.reversal \in Refs
         /\ r.op = "append_legislative_result" => r.ref \in Refs
<1>1. CallerJournal \subseteq Journal /\ \A tx \in CallerJournal : tx.note = "caller"
  BY DEF CallerJournal
<1>2. CASE r \in CreateBookRequest
  <2>1. /\ r.op = "create_book" /\ r.actor \in Actors
        /\ r.accounts \in Seq(Accounts) /\ r.periods \in Seq(Periods)
        /\ r.transactions \in Seq(CallerJournal)
    BY <1>2 DEF CreateBookRequest
  <2>2. r.transactions \in Seq(Journal)
    BY <1>1, <2>1, SeqMonotonic
  <2> QED
    BY <2>1, <2>2
<1>3. CASE r \in AppendRequest
  BY <1>1, <1>3 DEF AppendRequest
<1>4. CASE r \in ReversalRequest
  BY <1>4 DEF ReversalRequest
<1>5. CASE r \in LegislativeRequest
  BY <1>5 DEF LegislativeRequest
<1> QED
  BY <1>2, <1>3, <1>4, <1>5 DEF Request

-----------------------------------------------------------------------------
(* The rows of several journals, and of a book.                            *)

\* In the order in which they are inserted.
RowsOfJournals(js) == FlattenSeq([i \in DOMAIN js |-> TransactionRows(js[i])])

LEMMA RowSequences ==
  ASSUME NEW js \in Seq(Journal)
  PROVE  LET ss == [i \in DOMAIN js |-> TransactionRows(js[i])]
         IN  /\ ss \in Seq(Seq(Row)) /\ Len(ss) = Len(js)
             /\ \A i \in 1..Len(js) : ss[i] = TransactionRows(js[i])
<1>1. DOMAIN js = 1..Len(js) /\ Len(js) \in Nat /\ \A i \in 1..Len(js) : js[i] \in Journal
  OBVIOUS
<1>2. \A i \in 1..Len(js) : TransactionRows(js[i]) \in Seq(Row)
  BY <1>1, TransactionRowsType
<1> QED
  BY <1>1, <1>2

LEMMA RowsOfJournalsType ==
  ASSUME NEW js \in Seq(Journal)
  PROVE  RowsOfJournals(js) \in Seq(Row)
<1> DEFINE ss == [i \in DOMAIN js |-> TransactionRows(js[i])]
<1>1. ss \in Seq(Seq(Row)) /\ RowsOfJournals(js) = FlattenSeq(ss)
  BY RowSequences DEF RowsOfJournals
<1> HIDE DEF ss
<1> QED
  BY <1>1, FlattenSeqContents

LEMMA RowsOfNoJournal == RowsOfJournals(<<>>) = <<>>
<1>1. [i \in DOMAIN <<>> |-> TransactionRows(<<>>[i])] = <<>>
  OBVIOUS
<1> QED
  BY <1>1, FlattenEmpty DEF RowsOfJournals

LEMMA RowsOfFirstJournal ==
  ASSUME NEW js \in Seq(Journal), js # <<>>
  PROVE  RowsOfJournals(js) = TransactionRows(Head(js)) \o RowsOfJournals(Tail(js))
<1> DEFINE ss == [i \in DOMAIN js |-> TransactionRows(js[i])]
           tt == [i \in DOMAIN Tail(js) |-> TransactionRows(Tail(js)[i])]
<1>1. /\ ss \in Seq(Seq(Row)) /\ Len(ss) = Len(js)
      /\ \A i \in 1..Len(js) : ss[i] = TransactionRows(js[i])
  BY RowSequences
<1>2. /\ Tail(js) \in Seq(Journal) /\ Len(Tail(js)) = Len(js) - 1 /\ Head(js) = js[1]
      /\ \A i \in 1..Len(Tail(js)) : Tail(js)[i] = js[i + 1]
      /\ Len(js) \in Nat \ {0}
  BY HeadTailProperties
<1>3. /\ tt \in Seq(Seq(Row)) /\ Len(tt) = Len(js) - 1
      /\ \A i \in 1..(Len(js) - 1) : tt[i] = TransactionRows(js[i + 1])
  <2>1. /\ tt \in Seq(Seq(Row)) /\ Len(tt) = Len(Tail(js))
        /\ \A i \in 1..Len(Tail(js)) : tt[i] = TransactionRows(Tail(js)[i])
    BY <1>2, RowSequences
  <2> HIDE DEF tt
  <2> QED
    BY <1>2, <2>1
<1>4. RowsOfJournals(js) = FlattenSeq(ss) /\ RowsOfJournals(Tail(js)) = FlattenSeq(tt)
  BY DEF RowsOfJournals
<1> HIDE DEF ss, tt
<1>5. ss # <<>> /\ Head(ss) = TransactionRows(Head(js))
  BY <1>1, <1>2
<1>6. Tail(ss) = tt
  <2>1. /\ Tail(ss) \in Seq(Seq(Row)) /\ Len(Tail(ss)) = Len(js) - 1
        /\ \A i \in 1..Len(Tail(ss)) : Tail(ss)[i] = ss[i + 1]
    BY <1>1, <1>5, HeadTailProperties
  <2>2. \A i \in 1..Len(Tail(ss)) : Tail(ss)[i] = tt[i]
    BY <1>1, <1>2, <1>3, <2>1
  <2> QED
    BY <1>3, <2>1, <2>2, SeqEqual
<1> QED
  BY <1>1, <1>4, <1>5, <1>6, FlattenHead

LEMMA RowsOfOneJournal ==
  ASSUME NEW tx \in Journal
  PROVE  RowsOfJournals(<<tx>>) = TransactionRows(tx)
<1>1. <<tx>> \in Seq(Journal) /\ <<tx>> # <<>> /\ Head(<<tx>>) = tx /\ Tail(<<tx>>) = <<>>
  OBVIOUS
<1>2. RowsOfJournals(<<tx>>) = TransactionRows(tx) \o <<>>
  BY <1>1, RowsOfFirstJournal, RowsOfNoJournal
<1> QED
  BY <1>2, TransactionRowsType, ConcatEmptySeq

LEMMA RangeOfJournals ==
  ASSUME NEW js \in Seq(Journal)
  PROVE  Range(RowsOfJournals(js)) = JournalRows(Range(js))
<1> DEFINE ss == [i \in DOMAIN js |-> TransactionRows(js[i])]
<1>1. /\ ss \in Seq(Seq(Row)) /\ Len(ss) = Len(js)
      /\ \A i \in 1..Len(js) : ss[i] = TransactionRows(js[i])
  BY RowSequences
<1>2. RowsOfJournals(js) = FlattenSeq(ss)
  BY DEF RowsOfJournals
<1> HIDE DEF ss
<1>3. Range(FlattenSeq(ss)) = UNION {Range(ss[i]) : i \in 1..Len(ss)}
  BY <1>1, FlattenSeqContents
<1>4. Range(js) = {js[i] : i \in 1..Len(js)}
  BY RangeEquality
<1> QED
  BY <1>1, <1>2, <1>3, <1>4 DEF JournalRows

\* Two journals with one reference have header rows with one key, at two places.
LEMMA SharedReference ==
  ASSUME NEW js \in Seq(Journal), NEW i \in 1..Len(js), NEW j \in 1..Len(js), i # j,
         js[i].ref = js[j].ref
  PROVE  \E m, n \in DOMAIN RowsOfJournals(js) :
           /\ m # n
           /\ RowsOfJournals(js)[m].table = "transactions"
           /\ RowsOfJournals(js)[n].table = "transactions"
           /\ RowsOfJournals(js)[m].key = RowsOfJournals(js)[n].key
<1> DEFINE ss == [k \in DOMAIN js |-> TransactionRows(js[k])]
<1>1. /\ ss \in Seq(Seq(Row)) /\ Len(ss) = Len(js)
      /\ \A k \in 1..Len(js) : ss[k] = TransactionRows(js[k])
  BY RowSequences
<1>2. RowsOfJournals(js) = FlattenSeq(ss)
  BY DEF RowsOfJournals
<1> HIDE DEF ss
<1>3. \A k \in 1..Len(js) : js[k] \in Journal
  OBVIOUS
<1>4. \A k \in 1..Len(js) : 1 \in 1..Len(ss[k]) /\ ss[k][1] = HeaderRow(js[k])
  <2> TAKE k \in 1..Len(js)
  <2>1. TransactionRows(js[k]) \in Seq(Row) /\ TransactionRows(js[k]) # <<>>
    BY <1>3, TransactionRowsType
  <2>2. Len(js[k].lines) \in Nat
    BY <1>3, TransactionRowsContents
  <2>3. 1 \in 1..(Len(js[k].lines) + 1)
    BY <2>2
  <2>4. TransactionRows(js[k])[1] = HeaderRow(js[k])
    BY <2>3 DEF TransactionRows
  <2>5. 1 \in 1..Len(TransactionRows(js[k]))
    BY <2>1
  <2> QED
    BY <1>1, <2>4, <2>5
<1>5. \A a, b \in 1..Len(js) : a < b =>
        \E m, n \in DOMAIN FlattenSeq(ss) :
          /\ m # n
          /\ FlattenSeq(ss)[m] = HeaderRow(js[a]) /\ FlattenSeq(ss)[n] = HeaderRow(js[b])
  BY <1>1, <1>4, FlattenApart
<1>6. i < j \/ j < i
  <2>1. i \in Int /\ j \in Int
    OBVIOUS
  <2> QED
    BY <2>1
<1>7. HeaderRow(js[i]).table = "transactions" /\ HeaderRow(js[j]).table = "transactions"
      /\ HeaderRow(js[i]).key = HeaderRow(js[j]).key
  BY DEF HeaderRow
<1> QED
  BY <1>2, <1>5, <1>6, <1>7

\* All rows of create_book: those of the book, then those of each transaction.
LEMMA BookRows ==
  ASSUME NEW accounts \in Seq(Accounts), NEW periods \in Seq(Periods), NEW js \in Seq(Journal),
         IsInjective(accounts), IsInjective(periods),
         \A i, j \in DOMAIN js : i # j => js[i].ref # js[j].ref
  PROVE  LET ms  == MasterRows(accounts, periods)
             all == ms \o RowsOfJournals(js)
         IN  /\ all \in Seq(Row) /\ IsInjective(all)
             /\ Range(all) = Range(ms) \cup JournalRows(Range(js))
             /\ Range(js) \subseteq Journal
             /\ \A t1, t2 \in Range(js) : t1.ref = t2.ref => t1 = t2
             /\ \A row \in Range(ms) : row \in Row /\ row.table \in MasterTables
             /\ Keyed(Range(ms))
<1> DEFINE ss == [i \in DOMAIN js |-> TransactionRows(js[i])]
           ms == MasterRows(accounts, periods)
<1>1. DOMAIN js = 1..Len(js) /\ Len(js) \in Nat
  OBVIOUS
<1>2. \A i \in 1..Len(js) : js[i] \in Journal /\ js[i] \in Range(js)
  BY <1>1 DEF Range
<1>3. /\ ss \in Seq(Seq(Row)) /\ Len(ss) = Len(js)
      /\ \A i \in 1..Len(js) : ss[i] = TransactionRows(js[i])
  BY RowSequences
<1>4. \A i, j \in 1..Len(js) : i # j => js[i].ref # js[j].ref
  BY <1>1
<1>5. RowsOfJournals(js) = FlattenSeq(ss)
  BY DEF RowsOfJournals
<1> HIDE DEF ss
<1>7. \A i \in 1..Len(js) : \A row \in Range(ss[i]) :
        row.key[1] = js[i].ref /\ row.table \in {"transactions", "entries"}
  BY <1>2, <1>3, TransactionRowsContents DEF HeaderRow, EntryRow
<1>8. \A i, j \in 1..Len(ss) : i # j => Range(ss[i]) \cap Range(ss[j]) = {}
  <2> TAKE i, j \in 1..Len(ss)
  <2> HAVE i # j
  <2>1. i \in 1..Len(js) /\ j \in 1..Len(js) /\ js[i].ref # js[j].ref
    BY <1>3, <1>4
  <2>2. ASSUME NEW row \in Range(ss[i]), row \in Range(ss[j])
        PROVE  FALSE
    BY <1>7, <2>1, <2>2
  <2> QED
    BY <2>2
<1>9. \A i \in 1..Len(ss) : IsInjective(ss[i])
  BY <1>2, <1>3, TransactionRowsContents
<1>10. RowsOfJournals(js) \in Seq(Row) /\ IsInjective(RowsOfJournals(js))
  BY <1>3, <1>5, <1>8, <1>9, FlattenSeqContents
<1>11. Range(RowsOfJournals(js)) = JournalRows(Range(js))
  BY RangeOfJournals
<1>13. /\ ms \in Seq(Row) /\ IsInjective(ms)
       /\ Range(ms) = {BookRow} \cup {AccountRow(a) : a \in Range(accounts)}
                                \cup {PeriodRow(p) : p \in Range(periods)}
  BY MasterRowsType, MasterRowsContents
<1> HIDE DEF ms
<1>14. \A row \in Range(ms) : row \in Row /\ row.table \in MasterTables
  <2>1. \A row \in Range(ms) : row.table \in MasterTables
    BY <1>13 DEF BookRow, AccountRow, PeriodRow, MasterTables
  <2> QED
    BY <1>13, <2>1, RangeOfSeq
<1>15. Keyed(Range(ms))
  BY <1>13 DEF Keyed, BookRow, AccountRow, PeriodRow
<1>16. Range(ms) \cap Range(RowsOfJournals(js)) = {}
  <2>1. \A row \in JournalRows(Range(js)) : row.table \in {"transactions", "entries"}
    <3>1. \A tx \in Range(js) : \A row \in Range(TransactionRows(tx)) :
            row.table \in {"transactions", "entries"}
      BY TransactionRowsContents, RangeOfSeq DEF HeaderRow, EntryRow
    <3> QED
      BY <3>1 DEF JournalRows
  <2> QED
    BY <1>11, <1>14, <2>1 DEF MasterTables
<1>17. ms \o RowsOfJournals(js) \in Seq(Row) /\ IsInjective(ms \o RowsOfJournals(js))
  <2> DEFINE fs == RowsOfJournals(js)
  <2>1. fs \in Seq(Row) /\ IsInjective(fs) /\ Range(ms) \cap Range(fs) = {}
    BY <1>10, <1>16
  <2> HIDE DEF fs
  <2>2. ms \o fs \in Seq(Row)
    BY <1>13, <2>1, ConcatProperties
  <2>3. IsInjective(ms \o fs)
    BY <1>13, <2>1, ConcatInjective
  <2> QED
    BY <2>2, <2>3 DEF fs
<1>18. Range(ms \o RowsOfJournals(js)) = Range(ms) \cup JournalRows(Range(js))
  BY <1>10, <1>11, <1>13, RangeConcatenation
<1>19. Range(js) \subseteq Journal
  BY <1>1, RangeOfSeq
<1>20. \A t1, t2 \in Range(js) : t1.ref = t2.ref => t1 = t2
  BY <1>1, <1>4 DEF Range
<1> QED
  BY <1>14, <1>15, <1>17, <1>18, <1>19, <1>20 DEF ms

\* A new book is accepted by an empty database.
LEMMA BookAccepted ==
  ASSUME NEW d \in Database, Sound(d), ~HasRow(d, "books", <<>>),
         NEW accounts \in Seq(Accounts), NEW periods \in Seq(Periods), NEW js \in Seq(Journal),
         ValidBook(accounts, periods, js), NEW actor \in Actors,
         \A i, j \in DOMAIN js : i # j => js[i].ref # js[j].ref
  PROVE  Accepted(d, MasterRows(accounts, periods) \o RowsOfJournals(js), actor,
                  Range(MasterRows(accounts, periods)), Range(js))
<1> DEFINE Ms == Range(MasterRows(accounts, periods))
           all == MasterRows(accounts, periods) \o RowsOfJournals(js)
           e == WithRows(d, all, actor)
           Ts == Range(js)
<1>1. /\ all \in Seq(Row) /\ Range(all) = Ms \cup JournalRows(Ts)
      /\ IsInjective(all)
      /\ Ts \subseteq Journal
      /\ \A t1, t2 \in Ts : t1.ref = t2.ref => t1 = t2
      /\ \A row \in Ms : row \in Row /\ row.table \in MasterTables
      /\ Keyed(Ms)
  BY BookRows DEF ValidBook
<1>2. d.rows = {}
  BY DEF Sound
<1>4. \A row \in JournalRows(Ts) : row.table \in CoreTables
  <2>1. \A tx \in Ts : \A row \in Range(TransactionRows(tx)) : row.table \in CoreTables
    BY <1>1, TransactionRowsContents DEF HeaderRow, EntryRow, CoreTables
  <2> QED
    BY <2>1 DEF JournalRows
<1>8. Ms = {BookRow} \cup {AccountRow(a) : a \in Range(accounts)}
                     \cup {PeriodRow(p) : p \in Range(periods)}
  BY MasterRowsContents
<1> HIDE DEF Ms, all
<1>5. e.rows = d.rows \cup Ms \cup JournalRows(Ts)
  BY <1>1, <1>4 DEF WithRows, MasterTables, CoreTables
<1>6. \A table, key : ~HasRow(d, table, key)
  BY <1>2 DEF HasRow
<1>7. Adds(d, e, Ms, Ts)
  BY <1>1, <1>5, <1>6 DEF Adds, HasTransaction
<1>9. HasRow(e, "books", <<>>)
  <2>1. BookRow \in e.rows
    BY <1>5, <1>8
  <2> QED
    BY <2>1 DEF HasRow, BookRow
<1>10. \A a \in Range(accounts) : HasRow(e, "accounts", <<a, 1>>)
  <2> TAKE a \in Range(accounts)
  <2>1. AccountRow(a) \in e.rows
    BY <1>5, <1>8
  <2> QED
    BY <2>1 DEF HasRow, AccountRow
<1>11. ASSUME NEW tx \in Ts
       PROVE  /\ tx.state = "posted"
              /\ Balanced(tx.lines)
              /\ \A i \in DOMAIN tx.lines : HasRow(e, "accounts", <<tx.lines[i].account, 1>>)
  BY <1>10 DEF ValidBook, ValidJournal
<1> HIDE DEF e
<1>12. Accepted(d, all, actor, Ms, Ts)
  BY <1>1, <1>6, <1>7, <1>9, <1>11 DEF Accepted, e
<1> QED
  BY <1>12 DEF all, Ms

\* One more journal.
LEMMA JournalAccepted ==
  ASSUME NEW d \in Database, NEW tx \in Journal, NEW actor \in Actors,
         ~HasTransaction(d, tx.ref), HasRow(d, "books", <<>>),
         tx.state = "posted", Balanced(tx.lines),
         \A i \in DOMAIN tx.lines : HasRow(d, "accounts", <<tx.lines[i].account, 1>>)
  PROVE  Accepted(d, TransactionRows(tx), actor, {}, {tx})
<1> DEFINE rows == TransactionRows(tx)
           e == WithRows(d, rows, actor)
<1>1. /\ rows \in Seq(Row) /\ IsInjective(rows)
      /\ \A row \in Range(rows) : row.table \in CoreTables
  BY TransactionRowsType, TransactionRowsContents DEF HeaderRow, EntryRow, CoreTables
<1>2. Range(rows) = {} \cup JournalRows({tx})
  BY DEF JournalRows
<1>3. e.rows = d.rows \cup {} \cup JournalRows({tx})
  BY <1>1, <1>2 DEF WithRows
<1>4. \A table, key : HasRow(d, table, key) => HasRow(e, table, key)
  BY <1>3 DEF HasRow
<1>5. Adds(d, e, {}, {tx}) /\ Keyed({})
  BY <1>3 DEF Adds, Keyed
<1> HIDE DEF rows, e
<1>6. HasRow(e, "books", <<>>)
  BY <1>4
<1>7. \A i \in DOMAIN tx.lines : HasRow(e, "accounts", <<tx.lines[i].account, 1>>)
  BY <1>4
<1> QED
  BY <1>1, <1>2, <1>5, <1>6, <1>7 DEF Accepted, e, rows
=============================================================================
