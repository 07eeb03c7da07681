------------------------------- MODULE Lemmas -------------------------------
(***************************************************************************)
(* Facts about sets of numbers, sequences and the operators of the modules *)
(* SequencesExt, FiniteSetsExt and Ranks, which the proofs of all the      *)
(* components share.                                                       *)
(***************************************************************************)
EXTENDS SequencesExt, Ranks, SequenceTheorems, FiniteSetTheorems,
        WellFoundedInduction, TLAPS

-----------------------------------------------------------------------------
(* Least and greatest elements *)

(* A set of natural numbers that is not empty has a least element.          *)
LEMMA LeastNat ==
  ASSUME NEW T, T \subseteq Nat, T # {}
  PROVE  \E x \in T : \A y \in T : x <= y
<1> DEFINE R == {ss \in Nat \X Nat : ss[1] < ss[2]}
<1>1. IsWellFoundedOn(R, Nat)
  <2>1. R = OpToRel(<, Nat)
    BY Zenon DEF OpToRel
  <2> QED BY <2>1, NatLessThanWellFounded, Zenon
<1> HIDE DEF R
<1>2. PICK x \in T : \A y \in T : ~ (<<y, x>> \in R)
  BY <1>1, WFMin
<1>3. \A y \in T : ~ (y < x)
  BY <1>2 DEF R
<1> QED BY <1>3

(* A collection of finite sets that is not empty has a smallest member.      *)
LEMMA LeastSubset ==
  ASSUME NEW S, IsFiniteSet(S), NEW B, B \subseteq SUBSET S, B # {}
  PROVE  \E s \in B : IsFiniteSet(s) /\ \A t \in SUBSET s : t # s => t \notin B
<1> DEFINE T == {Cardinality(s) : s \in B}
<1>1. \A s \in B : IsFiniteSet(s) /\ Cardinality(s) \in Nat
  BY FS_Subset, FS_CardinalityType
<1>2. PICK n \in T : \A m \in T : n <= m
  <2>1. T \subseteq Nat /\ T # {}
    BY <1>1
  <2> HIDE DEF T
  <2> QED BY <2>1, LeastNat
<1>3. PICK s \in B : n = Cardinality(s)
  OBVIOUS
<1>4. ASSUME NEW t \in SUBSET s, t # s PROVE t \notin B
  <2>1. Cardinality(t) <= Cardinality(s) /\ Cardinality(t) # Cardinality(s)
    BY <1>1, <1>4, FS_Subset
  <2>2. Cardinality(t) \in Nat /\ Cardinality(s) \in Nat
    BY <1>1, FS_Subset, FS_CardinalityType
  <2>3. t \in B => Cardinality(s) <= Cardinality(t)
    BY <1>2, <1>3
  <2> QED BY <2>1, <2>2, <2>3
<1> QED BY <1>1, <1>3, <1>4

LEMMA MinIs ==
  ASSUME NEW S, S \subseteq Nat, NEW x \in S, \A y \in S : x <= y
  PROVE  Min(S) = x
<1>1. Min(S) \in S /\ \A y \in S : Min(S) <= y
  <2> DEFINE Smallest(z) == \A y \in S : z <= y
  <2>1. Min(S) = CHOOSE z \in S : Smallest(z)
    BY DEF Min
  <2>2. Smallest(x)
    OBVIOUS
  <2> HIDE DEF Smallest
  <2>3. Min(S) \in S /\ Smallest(Min(S))
    BY <2>1, <2>2
  <2> QED BY <2>3 DEF Smallest
<1>2. Min(S) <= x /\ x <= Min(S) /\ Min(S) \in Nat /\ x \in Nat
  BY <1>1
<1> QED BY <1>2

(* A bounded set of numbers has a greatest element, and Max is that one.    *)
LEMMA MaxIs ==
  ASSUME NEW k \in Nat, NEW S, S \subseteq 1..k, S # {}
  PROVE  Max(S) \in S /\ \A y \in S : Max(S) >= y
<1> DEFINE T == {k - x : x \in S}
           Greatest(x) == \A y \in S : x >= y
<1>1. T \subseteq Nat /\ T # {}
  <2>1. \A x \in S : k - x \in Nat
    OBVIOUS
  <2>2. PICK x : x \in S
    OBVIOUS
  <2>3. k - x \in T
    BY <2>2
  <2> QED BY <2>1, <2>3
<1>2. PICK m \in T : \A y \in T : m <= y
  BY <1>1, LeastNat
<1>3. PICK x \in S : m = k - x
  BY <1>2
<1>4. Greatest(x)
  <2> SUFFICES ASSUME NEW y \in S PROVE x >= y
    OBVIOUS
  <2>1. k - x <= k - y
    BY <1>2, <1>3
  <2> QED BY <2>1
<1>5. Max(S) = CHOOSE y \in S : Greatest(y)
  BY DEF Max
<1> HIDE DEF Greatest
<1>6. Max(S) \in S /\ Greatest(Max(S))
  BY <1>4, <1>5
<1> QED BY <1>6 DEF Greatest

-----------------------------------------------------------------------------
(* FlattenSeq, by its recursive function *)

Flattens(f, ss, m) ==
    f = [i \in 1..m |-> IF i = 1 THEN ss[i] ELSE f[i - 1] \o ss[i]]

(* The function is determined by the elements it has taken.                 *)
LEMMA FlattensSame ==
  ASSUME NEW ss, NEW tt, NEW m \in Nat, NEW n \in Nat, m <= n,
         \A i \in 1..m : tt[i] = ss[i],
         NEW f, Flattens(f, ss, m), NEW g, Flattens(g, tt, n)
  PROVE  \A i \in 1..m : g[i] = f[i]
<1> DEFINE T == {i \in 1..m : g[i] # f[i]}
<1>1. /\ \A i \in 1..m : f[i] = IF i = 1 THEN ss[i] ELSE f[i - 1] \o ss[i]
      /\ \A i \in 1..m : g[i] = IF i = 1 THEN tt[i] ELSE g[i - 1] \o tt[i]
  <2>1. f = [i \in 1..m |-> IF i = 1 THEN ss[i] ELSE f[i - 1] \o ss[i]]
    BY DEF Flattens
  <2>2. g = [i \in 1..n |-> IF i = 1 THEN tt[i] ELSE g[i - 1] \o tt[i]]
    BY DEF Flattens
  <2>3. 1..m \subseteq 1..n
    OBVIOUS
  <2>4. \A i \in 1..m : f[i] = IF i = 1 THEN ss[i] ELSE f[i - 1] \o ss[i]
    BY <2>1, Zenon
  <2>5. \A i \in 1..n : g[i] = IF i = 1 THEN tt[i] ELSE g[i - 1] \o tt[i]
    BY <2>2, Zenon
  <2> QED BY <2>3, <2>4, <2>5
<1>2. CASE T # {}
  <2>1. PICK k \in T : \A i \in T : k <= i
    <3>1. T \subseteq Nat
      OBVIOUS
    <3> QED BY <1>2, <3>1, LeastNat
  <2>2. k \in 1..m /\ g[k] # f[k]
    OBVIOUS
  <2>3. k # 1 => g[k - 1] = f[k - 1]
    BY <2>1, <2>2
  <2> QED BY <1>1, <2>2, <2>3
<1> QED BY <1>2

LEMMA FlattensExists ==
  ASSUME NEW ss, NEW m \in Nat
  PROVE  \E f : Flattens(f, ss, m)
<1> DEFINE T == {i \in Nat : ~ \E f : Flattens(f, ss, i)}
<1>1. CASE T # {}
  <2>1. PICK k \in T : \A i \in T : k <= i
    <3>1. T \subseteq Nat
      OBVIOUS
    <3> QED BY <1>1, <3>1, LeastNat
  <2>2. k \in Nat /\ ~ \E f : Flattens(f, ss, k)
    OBVIOUS
  <2>3. k # 0
    <3>1. Flattens([i \in 1..0 |-> 0], ss, 0)
      BY DEF Flattens
    <3> QED BY <2>2, <3>1
  <2>4. PICK f : Flattens(f, ss, k - 1)
    BY <2>1, <2>2, <2>3
  <2> DEFINE g == [i \in 1..k |-> IF i = k THEN IF k = 1 THEN ss[k] ELSE f[k - 1] \o ss[k]
                                  ELSE f[i]]
  <2>5. \A i \in 1..(k - 1) : f[i] = IF i = 1 THEN ss[i] ELSE f[i - 1] \o ss[i]
    <3>1. f = [i \in 1..(k - 1) |-> IF i = 1 THEN ss[i] ELSE f[i - 1] \o ss[i]]
      BY <2>4 DEF Flattens
    <3> QED BY <3>1, Zenon
  <2>6. \A i \in 1..k : g[i] = IF i = 1 THEN ss[i] ELSE g[i - 1] \o ss[i]
    <3> SUFFICES ASSUME NEW i \in 1..k
                 PROVE  g[i] = IF i = 1 THEN ss[i] ELSE g[i - 1] \o ss[i]
      OBVIOUS
    <3>1. i # 1 => i - 1 \in 1..k /\ i - 1 # k
      BY <2>2
    <3>2. i # 1 => g[i - 1] = f[i - 1]
      BY <3>1
    <3>3. CASE i = k
      BY <3>2, <3>3
    <3>4. CASE i # k
      <4>1. i \in 1..(k - 1) /\ g[i] = f[i]
        BY <2>2, <3>4
      <4> QED BY <2>5, <3>2, <4>1
    <3> QED BY <3>3, <3>4
  <2>7. g = [i \in 1..k |-> g[i]]
    OBVIOUS
  <2> HIDE DEF g
  <2>8. g = [i \in 1..k |-> IF i = 1 THEN ss[i] ELSE g[i - 1] \o ss[i]]
    BY <2>6, <2>7
  <2> QED BY <2>2, <2>8 DEF Flattens
<1> QED BY <1>1

LEMMA FlattenSeqIs ==
  ASSUME NEW ss, Len(ss) \in Nat, Len(ss) # 0
  PROVE  \E f : Flattens(f, ss, Len(ss)) /\ FlattenSeq(ss) = f[Len(ss)]
<1> DEFINE f == CHOOSE g : Flattens(g, ss, Len(ss))
<1>1. FlattenSeq(ss) = f[Len(ss)]
  BY DEF FlattenSeq, Flattens
<1>2. Flattens(f, ss, Len(ss))
  BY FlattensExists
<1> QED BY <1>1, <1>2

(* Flattening one more sequence puts it at the end.                         *)
LEMMA FlattenSeqAppend ==
  ASSUME NEW S, NEW ss \in Seq(Seq(S)), NEW e \in Seq(S)
  PROVE  FlattenSeq(Append(ss, e)) = FlattenSeq(ss) \o e
<1> DEFINE tt == Append(ss, e)
           n == Len(ss)
<1>1. /\ n \in Nat /\ Len(tt) = n + 1 /\ tt[n + 1] = e
      /\ \A i \in 1..n : tt[i] = ss[i]
  BY LenProperties, AppendProperties
<1> HIDE DEF tt
<1>2. PICK g : Flattens(g, tt, n + 1) /\ FlattenSeq(tt) = g[n + 1]
  BY <1>1, FlattenSeqIs
<1>3. g[n + 1] = IF n = 0 THEN e ELSE g[n] \o e
  <2>1. g = [i \in 1..(n + 1) |-> IF i = 1 THEN tt[i] ELSE g[i - 1] \o tt[i]]
    BY <1>2 DEF Flattens
  <2>2. n + 1 \in 1..(n + 1) /\ (n + 1) - 1 = n /\ (n + 1 = 1 <=> n = 0)
    BY <1>1
  <2>3. g[n + 1] = IF n + 1 = 1 THEN tt[n + 1] ELSE g[(n + 1) - 1] \o tt[n + 1]
    BY <2>1, <2>2, Zenon
  <2> QED BY <1>1, <2>2, <2>3
<1>4. CASE n = 0
  <2>1. ss = << >> /\ FlattenSeq(ss) = << >>
    BY <1>4, EmptySeq DEF FlattenSeq
  <2>2. << >> \o e = e
    BY ConcatEmptySeq
  <2> QED BY <1>2, <1>3, <1>4, <2>1, <2>2 DEF tt
<1>5. CASE n # 0
  <2>1. PICK f : Flattens(f, ss, n) /\ FlattenSeq(ss) = f[n]
    BY <1>1, <1>5, FlattenSeqIs
  <2>2. g[n] = f[n]
    <3>1. PICK m \in Nat : m = n + 1
      BY <1>1
    <3>2. Flattens(g, tt, m) /\ n <= m /\ n \in 1..n
      BY <1>1, <1>2, <1>5, <3>1
    <3> HIDE DEF n
    <3>3. \A i \in 1..n : g[i] = f[i]
      BY <1>1, <2>1, <3>2, FlattensSame, SMTT(30)
    <3> QED BY <3>2, <3>3
  <2> QED BY <1>2, <1>3, <1>5, <2>1, <2>2 DEF tt
<1> QED BY <1>4, <1>5

(* Flattening gives a sequence over what the sequences are over.             *)
LEMMA FlattenSeqType ==
  ASSUME NEW S, NEW ss \in Seq(Seq(S))
  PROVE  FlattenSeq(ss) \in Seq(S)
<1>1. PICK n \in Nat : n = Len(ss)
  BY LenProperties
<1>2. \A i \in 1..n : ss[i] \in Seq(S)
  BY <1>1, LenProperties
<1>3. CASE n = 0
  BY <1>1, <1>3, EmptySeq DEF FlattenSeq
<1>4. CASE n # 0
  <2>1. PICK f : Flattens(f, ss, n) /\ FlattenSeq(ss) = f[n]
    BY <1>1, <1>4, FlattenSeqIs
  <2>2. \A i \in 1..n : f[i] = IF i = 1 THEN ss[i] ELSE f[i - 1] \o ss[i]
    <3>1. f = [i \in 1..n |-> IF i = 1 THEN ss[i] ELSE f[i - 1] \o ss[i]]
      BY <2>1 DEF Flattens
    <3> QED BY <3>1, Zenon
  <2> DEFINE T == {i \in 1..n : f[i] \notin Seq(S)}
  <2>3. CASE T # {}
    <3>1. PICK k \in T : \A i \in T : k <= i
      <4>1. T \subseteq Nat
        OBVIOUS
      <4> QED BY <2>3, <4>1, LeastNat
    <3>2. k \in 1..n /\ f[k] \notin Seq(S)
      OBVIOUS
    <3>3. CASE k = 1
      BY <1>2, <2>2, <3>2, <3>3
    <3>4. CASE k # 1
      <4>1. PICK j \in 1..n : j = k - 1 /\ j < k
        BY <3>2, <3>4
      <4>2. f[j] \in Seq(S)
        BY <3>1, <4>1
      <4>3. f[k] = f[j] \o ss[k]
        BY <2>2, <3>2, <3>4, <4>1
      <4>4. ss[k] \in Seq(S)
        BY <1>2, <3>2
      <4>5. f[j] \o ss[k] \in Seq(S)
        BY <4>2, <4>4, ConcatProperties
      <4> QED BY <3>2, <4>3, <4>5
    <3> QED BY <3>3, <3>4
  <2>4. CASE T = {}
    <3>1. n \in 1..n
      BY <1>4
    <3> QED BY <2>1, <2>4, <3>1
  <2> QED BY <2>3, <2>4
<1> QED BY <1>3, <1>4

-----------------------------------------------------------------------------
(* The members of a set of numbers in their order *)

LEMMA SeqMonotone ==
  ASSUME NEW S, NEW T, S \subseteq T, NEW s \in Seq(S)
  PROVE  s \in Seq(T)
OBVIOUS

LEMMA AppendIs ==
  ASSUME NEW c \in Nat, NEW s, s = [k \in 1..c |-> s[k]], NEW x
  PROVE  Append(s, x) = [k \in 1..(c + 1) |-> IF k \in 1..c THEN s[k] ELSE x]
<1> DEFINE T == {s[k] : k \in 1..c} \cup {x}
           t == [k \in 1..(c + 1) |-> IF k \in 1..c THEN s[k] ELSE x]
<1>1. s \in Seq(T) /\ Len(s) = c
  OBVIOUS
<1>2. t \in Seq(T) /\ Len(t) = c + 1
  OBVIOUS
<1>3. /\ Append(s, x) \in Seq(T) /\ Len(Append(s, x)) = c + 1
      /\ \A k \in 1..c : Append(s, x)[k] = s[k]
      /\ Append(s, x)[c + 1] = x
  BY <1>1, AppendProperties
<1> HIDE DEF T
<1>4. \A k \in 1..(c + 1) : Append(s, x)[k] = t[k]
  BY <1>3
<1> HIDE DEF t
<1>5. Append(s, x) = t
  BY <1>2, <1>3, <1>4, SeqEqual
<1> QED BY <1>5 DEF t

LEMMA AppendToConcat ==
  ASSUME NEW T, NEW s \in Seq(T), NEW t \in Seq(T), NEW e
  PROVE  Append(s \o t, e) = s \o Append(t, e)
<1>0. PICK U : U = T \cup {e}
  OBVIOUS
<1>1. T \subseteq U /\ e \in U
  BY <1>0
<1>2. s \in Seq(U) /\ t \in Seq(U) /\ << e >> \in Seq(U)
  BY <1>1, SeqMonotone
<1>3. s \o t \in Seq(U)
  BY <1>2, ConcatProperties
<1>4. Append(s \o t, e) = (s \o t) \o << e >>
  BY <1>1, <1>3, AppendIsConcat
<1>5. Append(t, e) = t \o << e >>
  BY <1>1, <1>2, AppendIsConcat
<1>6. (s \o t) \o << e >> = s \o (t \o << e >>)
  BY <1>2, ConcatAssociative
<1> QED BY <1>4, <1>5, <1>6

(* A number beyond those of a set comes last.                               *)
LEMMA InOrderAdd ==
  ASSUME NEW n \in Nat, NEW S, S \subseteq 1..n, NEW x \in Nat, n < x
  PROVE  InOrder(S \cup {x}) = Append(InOrder(S), x)
<1> DEFINE U == S \cup {x}
           c == Cardinality(S)
<1>1. IsFiniteSet(S) /\ c \in Nat
  <2>1. 1 \in Int /\ n \in Int
    OBVIOUS
  <2>2. IsFiniteSet(1..n)
    BY <2>1, FS_Interval
  <2> QED BY <2>2, FS_Subset, FS_CardinalityType
<1>0. \A z \in U : z <= x
  OBVIOUS
<1>2. x \notin S /\ Cardinality(U) = c + 1
  BY <1>1, FS_AddElement
<1>3. \A k \in 1..c : Ranked(U, k) = Ranked(S, k)
  <2> SUFFICES ASSUME NEW k \in 1..c PROVE Ranked(U, k) = Ranked(S, k)
    OBVIOUS
  <2>1. \A y \in S : {z \in U : z <= y} = {z \in S : z <= y}
    OBVIOUS
  <2>2. {z \in U : z <= x} = U
    BY <1>0
  <2>3. \A y \in U : Cardinality({z \in U : z <= y}) = k
                       <=> y \in S /\ Cardinality({z \in S : z <= y}) = k
    <3>1. Cardinality({z \in U : z <= x}) # k
      BY <1>1, <1>2, <2>2
    <3> SUFFICES ASSUME NEW y \in U
                 PROVE  Cardinality({z \in U : z <= y}) = k
                          <=> y \in S /\ Cardinality({z \in S : z <= y}) = k
      OBVIOUS
    <3>2. CASE y = x
      BY <1>2, <3>1, <3>2
    <3>3. CASE y # x
      <4>1. y \in S
        BY <3>3
      <4>2. {z \in U : z <= y} = {z \in S : z <= y}
        BY <2>1, <4>1
      <4> HIDE DEF U
      <4> QED BY <4>1, <4>2
    <3> QED BY <3>2, <3>3
  <2> QED BY <2>3 DEF Ranked
<1>4. Ranked(U, c + 1) = {x}
  <2>1. {z \in U : z <= x} = U
    BY <1>0
  <2>2. \A y \in S : Cardinality({z \in U : z <= y}) <= c
    <3> SUFFICES ASSUME NEW y \in S PROVE Cardinality({z \in U : z <= y}) <= c
      OBVIOUS
    <3>1. {z \in U : z <= y} \subseteq S
      OBVIOUS
    <3> QED BY <1>1, <3>1, FS_Subset
  <2>3. \A y \in S : Cardinality({z \in U : z <= y}) \in Nat
    <3> SUFFICES ASSUME NEW y \in S PROVE Cardinality({z \in U : z <= y}) \in Nat
      OBVIOUS
    <3>1. IsFiniteSet({z \in U : z <= y})
      <4>1. {z \in U : z <= y} \subseteq S
        OBVIOUS
      <4> QED BY <1>1, <4>1, FS_Subset
    <3> QED BY <3>1, FS_CardinalityType
  <2>4. \A y \in U : Cardinality({z \in U : z <= y}) = c + 1 <=> y = x
    <3> SUFFICES ASSUME NEW y \in U
                 PROVE  Cardinality({z \in U : z <= y}) = c + 1 <=> y = x
      OBVIOUS
    <3>1. CASE y = x
      BY <1>2, <2>1, <3>1
    <3>2. CASE y # x
      <4>1. y \in S
        BY <3>2
      <4> HIDE DEF U, c
      <4> QED BY <1>1, <2>2, <2>3, <3>2, <4>1
    <3> QED BY <3>1, <3>2
  <2>5. Ranked(U, c + 1) = {y \in U : Cardinality({z \in U : z <= y}) = c + 1}
    BY DEF Ranked
  <2>6. x \in U
    OBVIOUS
  <2> HIDE DEF U, c
  <2> QED BY <2>4, <2>5, <2>6
<1>5. InOrder(U) = [k \in 1..(c + 1) |-> IF k \in 1..c THEN InOrder(S)[k] ELSE x]
  <2>1. InOrder(U) = [k \in 1..(c + 1) |-> CHOOSE y \in Ranked(U, k) : TRUE]
    BY <1>2 DEF InOrder
  <2>2. InOrder(S) = [k \in 1..c |-> CHOOSE y \in Ranked(S, k) : TRUE]
    BY DEF InOrder
  <2>3. \A k \in 1..(c + 1) : (CHOOSE y \in Ranked(U, k) : TRUE)
                              = IF k \in 1..c THEN InOrder(S)[k] ELSE x
    <3> SUFFICES ASSUME NEW k \in 1..(c + 1)
                 PROVE  (CHOOSE y \in Ranked(U, k) : TRUE)
                          = IF k \in 1..c THEN InOrder(S)[k] ELSE x
      OBVIOUS
    <3>1. CASE k \in 1..c
      <4>1. InOrder(S)[k] = CHOOSE y \in Ranked(S, k) : TRUE
        BY <2>2, <3>1, Zenon
      <4>2. Ranked(U, k) = Ranked(S, k)
        BY <1>3, <3>1
      <4> HIDE DEF U, c
      <4> QED BY <3>1, <4>1, <4>2
    <3>2. CASE k \notin 1..c
      <4>1. k = c + 1
        BY <1>1, <3>2
      <4>2. Ranked(U, k) = {x}
        BY <1>4, <4>1
      <4> HIDE DEF U, c
      <4>3. (CHOOSE y \in Ranked(U, k) : TRUE) \in Ranked(U, k)
        BY <4>2
      <4> QED BY <3>2, <4>2, <4>3
    <3> QED BY <3>1, <3>2
  <2> HIDE DEF U, c
  <2> QED BY <2>1, <2>3, Zenon
<1>6. InOrder(S) = [k \in 1..c |-> InOrder(S)[k]]
  BY DEF InOrder
<1> HIDE DEF U, c
<1>7. Append(InOrder(S), x)
      = [k \in 1..(c + 1) |-> IF k \in 1..c THEN InOrder(S)[k] ELSE x]
  BY <1>1, <1>6, AppendIs
<1> QED BY <1>5, <1>7 DEF U

LEMMA InOrderEmpty == InOrder({}) = << >>
<1>1. Cardinality({}) = 0
  BY FS_EmptySet
<1>2. InOrder({}) = [k \in 1..0 |-> CHOOSE x \in Ranked({}, k) : TRUE]
  BY <1>1 DEF InOrder
<1> QED BY <1>2

LEMMA InOrderType ==
  ASSUME NEW n \in Nat, NEW S, S \subseteq 1..n
  PROVE  InOrder(S) \in Seq(S)
<1> DEFINE T == {m \in Nat : ~ \A U \in SUBSET (1..m) : InOrder(U) \in Seq(U)}
<1>1. CASE T # {}
  <2>1. PICK m \in T : \A j \in T : m <= j
    <3>1. T \subseteq Nat
      OBVIOUS
    <3> QED BY <1>1, <3>1, LeastNat
  <2>2. PICK U \in SUBSET (1..m) : InOrder(U) \notin Seq(U)
    OBVIOUS
  <2>3. m \in Nat
    OBVIOUS
  <2>4. CASE m \notin U
    <3>1. m # 0
      <4>1. CASE m = 0
        <5>1. U = {}
          BY <4>1
        <5>2. << >> \in Seq({})
          OBVIOUS
        <5> QED BY <2>2, <5>1, <5>2, InOrderEmpty
      <4> QED BY <4>1
    <3>2. m - 1 \in Nat /\ m - 1 \notin T
      BY <2>1, <2>3, <3>1
    <3>3. U \in SUBSET (1..(m - 1))
      BY <2>3, <2>4
    <3> QED BY <2>2, <3>2, <3>3
  <2>5. CASE m \in U
    <3> DEFINE V == U \ {m}
    <3>1. PICK p \in Nat : p = m - 1 /\ p < m
      BY <2>3, <2>5
    <3>2. p \notin T
      BY <2>1, <3>1
    <3>3. V \subseteq 1..p
      BY <2>3, <3>1
    <3>4. InOrder(V) \in Seq(V)
      BY <3>2, <3>3
    <3>5. U = V \cup {m}
      BY <2>5
    <3> HIDE DEF V, T
    <3>6. InOrder(V \cup {m}) = Append(InOrder(V), m)
      BY <2>3, <3>1, <3>3, InOrderAdd
    <3>7. InOrder(V) \in Seq(U) /\ m \in U
      BY <2>5, <3>4, <3>5
    <3>8. Append(InOrder(V), m) \in Seq(U)
      BY <3>7, AppendProperties
    <3> QED BY <2>2, <3>5, <3>6, <3>8
  <2> QED BY <2>4, <2>5
<1>2. CASE T = {}
  BY <1>2
<1> QED BY <1>1, <1>2

-----------------------------------------------------------------------------
(* Subsequences *)

(* A subsequence that ends in e is one more than the subsequence before.     *)
LEMMA SubSeqNext ==
  ASSUME NEW S, NEW s \in Seq(S), NEW m \in Nat, NEW n \in Nat, NEW j \in Nat,
         j = n + 1, j <= Len(s), 1 <= m, m <= j
  PROVE  SubSeq(s, m, j) = Append(SubSeq(s, m, n), s[j])
<1>1. Len(s) \in Nat /\ \A k \in 1..Len(s) : s[k] \in S
  BY LenProperties
<1>3. m \in 1..Len(s) /\ j \in m..Len(s) /\ j - 1 = n
  BY <1>1
<1>4. SubSeq(s, m, j) = SubSeq(s, m, j - 1) \o << s[j] >>
  BY <1>3, SubSeqRecursiveSecond
<1>5. SubSeq(s, m, n) \in Seq(S)
  <2>1. m \in Int /\ n \in Int /\ \A i \in m..n : s[i] \in S
    BY <1>1
  <2> QED BY <2>1, SubSeqProperties
<1>6. s[j] \in S
  BY <1>1, <1>3
<1>7. Append(SubSeq(s, m, n), s[j]) = SubSeq(s, m, n) \o << s[j] >>
  BY <1>5, <1>6, AppendIsConcat
<1> QED BY <1>3, <1>4, <1>7

(* A subsequence depends on nothing but the elements it takes.               *)
LEMMA SubSeqSame ==
  ASSUME NEW s, NEW t, NEW m \in Int, NEW n \in Int, \A i \in m..n : s[i] = t[i]
  PROVE  SubSeq(s, m, n) = SubSeq(t, m, n)
<1> DEFINE T == {s[i] : i \in m..n}
<1>1. (\A i \in m..n : s[i] \in T) /\ (\A i \in m..n : t[i] \in T)
  OBVIOUS
<1> HIDE DEF T
<1>2. PICK u, v : u = SubSeq(s, m, n) /\ v = SubSeq(t, m, n)
  OBVIOUS
<1>3. /\ u \in Seq(T) /\ Len(u) = (IF m <= n THEN n - m + 1 ELSE 0)
      /\ \A i \in 1..(n - m + 1) : u[i] = s[m + i - 1]
  BY <1>1, <1>2, SubSeqProperties
<1>4. /\ v \in Seq(T) /\ Len(v) = (IF m <= n THEN n - m + 1 ELSE 0)
      /\ \A i \in 1..(n - m + 1) : v[i] = t[m + i - 1]
  BY <1>1, <1>2, SubSeqProperties
<1>5. \A i \in 1..(n - m + 1) : m + i - 1 \in m..n
  OBVIOUS
<1>6. \A i \in 1..(n - m + 1) : u[i] = v[i]
  BY <1>3, <1>4, <1>5
<1>7. \A i \in 1..Len(u) : u[i] = v[i]
  BY <1>3, <1>6
<1>8. u = v
  BY <1>3, <1>4, <1>7, SeqEqual
<1> QED BY <1>2, <1>8
LEMMA SubSeqOne ==
  ASSUME NEW s, NEW k \in Nat
  PROVE  SubSeq(s, k, k) = << s[k] >>
<1>1. PICK x : x = s[k]
  OBVIOUS
<1>2. PICK t : t = SubSeq(s, k, k)
  OBVIOUS
<1>3. k \in Int /\ \A i \in k..k : s[i] \in {x}
  BY <1>1
<1>4. t \in Seq({x}) /\ Len(t) = (IF k <= k THEN k - k + 1 ELSE 0)
  BY <1>2, <1>3, SubSeqProperties
<1>5. Len(t) = 1 /\ t[1] = x
  BY <1>4
<1>6. << x >> \in Seq({x}) /\ Len(<< x >>) = 1 /\ << x >>[1] = x
  OBVIOUS
<1>7. \A i \in 1..Len(t) : t[i] = << x >>[i]
  BY <1>5, <1>6
<1>8. t = << x >>
  BY <1>4, <1>5, <1>6, <1>7, SeqEqual
<1> QED BY <1>1, <1>2, <1>8

Leading(f, c) == [k \in 1..c |-> f[k]]

(* The first n values of f are sequences over S.                            *)
AreSequences(S, f, n) == \A k \in 1..n : f[k] \in Seq(S)

Follows(c, d) == c \in Nat /\ d \in Nat /\ d = c + 1
Joins(s, t, u) == u = s \o t

LEMMA FlattenNext ==
  ASSUME NEW S, NEW f, NEW c, NEW d, Follows(c, d), AreSequences(S, f, d)
  PROVE  /\ FlattenSeq(Leading(f, c)) \in Seq(S)
         /\ Joins(FlattenSeq(Leading(f, c)), f[d], FlattenSeq(Leading(f, d)))
<1> USE DEF AreSequences, Follows, Joins
<1> DEFINE s == [k \in 1..c |-> f[k]]
           t == [k \in 1..d |-> f[k]]
<1>1. d \in 1..d /\ 1..c \subseteq 1..d /\ \A k \in 1..d : k \notin 1..c => k = d
  OBVIOUS
<1>2. s \in Seq(Seq(S)) /\ f[d] \in Seq(S)
  BY <1>1
<1>3. \A k \in 1..c : s[k] = f[k]
  BY Zenon
<1>4. s = [k \in 1..c |-> s[k]]
  BY Zenon
<1> HIDE DEF s
<1>5. Append(s, f[d]) = [k \in 1..d |-> IF k \in 1..c THEN s[k] ELSE f[d]]
  <2>1. Append(s, f[d]) = [k \in 1..(c + 1) |-> IF k \in 1..c THEN s[k] ELSE f[d]]
    BY <1>4, AppendIs
  <2> QED
    BY <2>1, Zenon
<1>6. \A k \in 1..d : f[k] = IF k \in 1..c THEN s[k] ELSE f[d]
  BY <1>1, <1>3, Zenon
<1>7. t = Append(s, f[d])
  BY <1>5, <1>6, Zenon
<1>8. FlattenSeq(s) \in Seq(S) /\ FlattenSeq(t) = FlattenSeq(s) \o f[d]
  BY <1>2, <1>7, FlattenSeqAppend, FlattenSeqType, Zenon
<1> QED
  BY <1>8, Zenon DEF s, Leading

(* The sequences f[1] to f[n] are g[1] to g[m] with empty ones among them:   *)
(* g[k] is at at[k].                                                        *)
Spread(S, m, n, f, g, at) ==
    /\ \A q \in 1..n : f[q] \in Seq(S)
    /\ \A k \in 1..m : at[k] \in 1..n /\ g[k] = f[at[k]]
    /\ \A j, k \in 1..m : j < k => at[j] < at[k]
    /\ \A q \in 1..n : (\A k \in 1..m : at[k] # q) => f[q] = << >>

(* Empty sequences add nothing, wherever they are.                          *)
LEMMA FlattenSparse ==
  ASSUME NEW S, NEW m \in Nat, NEW n \in Nat, NEW f, NEW g, NEW at,
         Spread(S, m, n, f, g, at)
  PROVE  FlattenSeq(Leading(f, n)) = FlattenSeq(Leading(g, m))
<1> DEFINE F(x) == FlattenSeq(Leading(f, x))
           G(k) == FlattenSeq(Leading(g, k))
           Upto(k, x) == \A j \in 1..m : j <= k <=> at[j] <= x
           Same(x) == \A k \in 0..m : Upto(k, x) => F(x) = G(k)
           T == {x \in 0..n : ~Same(x)}
<1>0. /\ \A q \in 1..n : f[q] \in Seq(S)
      /\ \A k \in 1..m : at[k] \in 1..n /\ g[k] = f[at[k]]
  BY Zenon DEF Spread
<1>1. \A k \in 1..m : g[k] \in Seq(S)
  BY <1>0, Zenon
<1>2. Same(0)
  <2>1. ASSUME NEW k \in 0..m, Upto(k, 0)
        PROVE  F(0) = G(k)
    <3>1. k = 0
      <4>1. ASSUME k # 0
            PROVE  FALSE
        <5>1. k \in 1..m /\ k <= k
          BY <4>1
        <5>2. at[k] <= 0 /\ at[k] \in 1..n
          BY <1>0, <2>1, <5>1, Zenon
        <5> QED
          BY <5>2
      <4> QED
        BY <4>1
    <3>2. Leading(f, 0) = << >> /\ Leading(g, 0) = << >>
      BY DEF Leading
    <3> QED
      BY <3>1, <3>2, Zenon
  <2> QED
    BY <2>1, Zenon
<1>3. ASSUME NEW x \in 0..n, NEW y \in 0..n, y = x + 1, Same(x)
      PROVE  Same(y)
  <2> SUFFICES ASSUME NEW k \in 0..m, Upto(k, y)
               PROVE  F(y) = G(k)
    BY Zenon
  <2>1. x \in Nat /\ y \in Nat /\ y \in 1..n /\ 1..y \subseteq 1..n
    BY <1>3
  <2>2. F(x) \in Seq(S) /\ F(y) = F(x) \o f[y]
    <3>1. AreSequences(S, f, y)
      BY <1>0, <2>1, Zenon DEF AreSequences
    <3>2. Follows(x, y)
      BY <1>3, <2>1, Zenon DEF Follows
    <3>3. F(x) \in Seq(S) /\ Joins(F(x), f[y], F(y))
      BY <3>1, <3>2, FlattenNext, Zenon
    <3> QED
      BY <3>3, Zenon DEF Joins
  <2>3. CASE \E j \in 1..m : at[j] = y
    <3>1. PICK j \in 1..m : at[j] = y
      BY <2>3, Zenon
    <3>2. y <= y
      BY <2>1
    <3>3. j <= k
      BY <3>1, <3>2, Zenon
    <3>4. k \in 1..m /\ k \in Nat
      BY <3>3
    <3>5. at[k] <= y /\ at[k] \in 1..n
      <4>1. k <= k
        BY <3>4
      <4> QED
        BY <1>0, <3>4, <4>1, Zenon
    <3>6. ~(j < k)
      <4>1. j < k => at[j] < at[k]
        BY <3>4, Zenon DEF Spread
      <4> QED
        BY <2>1, <3>1, <3>4, <3>5, <4>1
    <3>7. j = k
      BY <3>3, <3>4, <3>6
    <3>8. PICK i \in 0..m : k = i + 1 /\ i \in Nat /\ 1..k \subseteq 1..m
      <4>1. k - 1 \in 0..m /\ k = (k - 1) + 1 /\ k - 1 \in Nat /\ 1..k \subseteq 1..m
        BY <3>4
      <4> QED
        BY <4>1, Zenon
    <3>9. Upto(i, x)
      <4>1. ASSUME NEW l \in 1..m
            PROVE  l <= i <=> at[l] <= x
        <5>1. l <= k <=> at[l] <= y
          BY Zenon
        <5>2. l < k => at[l] < y
          BY <3>1, <3>4, <3>7, Zenon DEF Spread
        <5>3. at[l] \in Nat
          BY <1>0
        <5>4. l <= i <=> l < k
          BY <3>8
        <5>5. l = k => at[l] = y
          BY <3>1, <3>7, Zenon
        <5> QED
          BY <1>3, <2>1, <3>4, <5>1, <5>2, <5>3, <5>4, <5>5
      <4> QED
        BY <4>1, Zenon
    <3>10. F(x) = G(i)
      BY <1>3, <3>8, <3>9, Zenon
    <3>11. G(k) = G(i) \o g[k]
      <4>1. AreSequences(S, g, k)
        BY <1>1, <3>8, Zenon DEF AreSequences
      <4>2. Follows(i, k)
        BY <3>4, <3>8, Zenon DEF Follows
      <4>3. Joins(G(i), g[k], G(k))
        BY <4>1, <4>2, FlattenNext, Zenon
      <4> QED
        BY <4>3, Zenon DEF Joins
    <3>12. g[k] = f[y]
      BY <1>0, <3>1, <3>4, <3>7, Zenon
    <3> HIDE DEF F, G
    <3> QED
      BY <2>2, <3>10, <3>11, <3>12, Zenon
  <2>4. CASE ~ \E j \in 1..m : at[j] = y
    <3>1. f[y] = << >>
      BY <2>1, <2>4, Zenon DEF Spread
    <3>2. Upto(k, x)
      <4>1. ASSUME NEW l \in 1..m
            PROVE  l <= k <=> at[l] <= x
        <5>1. l <= k <=> at[l] <= y
          BY Zenon
        <5>2. at[l] \in Nat /\ at[l] # y
          BY <1>0, <2>4
        <5> QED
          BY <1>3, <2>1, <5>1, <5>2
      <4> QED
        BY <4>1, Zenon
    <3>3. F(x) = G(k)
      BY <1>3, <3>2, Zenon
    <3> HIDE DEF F, G
    <3>4. F(x) \o << >> = F(x)
      BY <2>2
    <3> QED
      BY <2>2, <3>1, <3>3, <3>4, Zenon
  <2> QED
    BY <2>3, <2>4, Zenon
<1>4. T = {}
  <2>1. ASSUME T # {}
        PROVE  FALSE
    <3>1. T \subseteq Nat
      <4>1. 0..n \subseteq Nat
        OBVIOUS
      <4> QED
        BY <4>1, Zenon
    <3>2. PICK y \in T : \A x \in T : y <= x
      <4> HIDE DEF T
      <4> QED
        BY <2>1, <3>1, LeastNat, Zenon
    <3>3. y \in 0..n /\ ~Same(y) /\ y # 0
      BY <1>2, <3>2, Zenon
    <3>4. y - 1 \in 0..n /\ y = (y - 1) + 1 /\ ~(y <= y - 1)
      BY <3>3
    <3>5. Same(y - 1)
      <4>1. y - 1 \notin T
        BY <3>2, <3>4, Zenon
      <4> QED
        BY <3>4, <4>1, Zenon
    <3> HIDE DEF Same
    <3> QED
      BY <1>3, <3>3, <3>4, <3>5, Zenon
  <2> QED
    BY <2>1, Zenon
<1>5. Upto(m, n)
  <2>1. \A j \in 1..m : j <= m /\ at[j] <= n
    BY <1>0
  <2> QED
    BY <2>1, Zenon
<1>6. n \in 0..n /\ m \in 0..m
  OBVIOUS
<1>7. F(n) = G(m)
  BY <1>4, <1>5, <1>6, Zenon
<1> QED
  BY <1>7, Zenon

=============================================================================
