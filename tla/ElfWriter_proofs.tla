-------------------------- MODULE ElfWriter_proofs --------------------------
(***************************************************************************)
(* Theorems of ElfWriter, for every value of its constants.                *)
(***************************************************************************)
EXTENDS ElfWriter, Elf_proofs

----------------------------------------------------------------------------
(* SumFunction, by its recursive function over the subsets of the domain *)

Pick(s) == CHOOSE x \in s : TRUE

Sums(g, f, D) ==
    g = [s \in D |-> IF s = {} THEN 0 ELSE f[Pick(s)] + g[s \ {Pick(s)}]]

LEMMA PickSmaller ==
  ASSUME NEW s, IsFiniteSet(s), s # {}
  PROVE  /\ Pick(s) \in s /\ s = (s \ {Pick(s)}) \cup {Pick(s)}
         /\ Pick(s) \notin s \ {Pick(s)}
         /\ IsFiniteSet(s \ {Pick(s)})
         /\ Cardinality(s) \in Nat
         /\ Cardinality(s \ {Pick(s)}) \in Nat
         /\ Cardinality(s) = Cardinality(s \ {Pick(s)}) + 1
<1>1. Pick(s) \in s
  BY DEF Pick
<1>2. /\ IsFiniteSet(s \ {Pick(s)}) /\ Cardinality(s \ {Pick(s)}) = Cardinality(s) - 1
  BY <1>1, FS_RemoveElement
<1>3. Cardinality(s) \in Nat /\ Cardinality(s \ {Pick(s)}) \in Nat
  BY <1>2, FS_CardinalityType
<1> QED BY <1>1, <1>2, <1>3

(* Such a function exists for the subsets of at most n elements: it is      *)
(* extended from those of at most n - 1.                                    *)
LEMMA SumsExist ==
  ASSUME NEW f, NEW S, IsFiniteSet(S)
  PROVE  \E g : Sums(g, f, SUBSET S)
<1> DEFINE D(n) == {s \in SUBSET S : Cardinality(s) <= n}
           E(n) == \E g : Sums(g, f, D(n))
           T == {n \in Nat : ~E(n)}
<1>1. \A s \in SUBSET S : IsFiniteSet(s) /\ Cardinality(s) \in Nat
  BY FS_Subset, FS_CardinalityType
<1>2. T = {}
  <2> SUFFICES ASSUME T # {} PROVE FALSE
    OBVIOUS
  <2>1. PICK k \in T : \A i \in T : k <= i
    <3>1. T \subseteq Nat
      OBVIOUS
    <3> QED BY <3>1, LeastNat
  <2>2. k \in Nat /\ ~E(k)
    OBVIOUS
  <2>3. k # 0
    <3>1. \A s \in D(0) : s = {}
      <4>1. SUFFICES ASSUME NEW s \in SUBSET S, s # {}
                     PROVE  ~(Cardinality(s) <= 0)
        OBVIOUS
      <4>2. IsFiniteSet(s)
        BY <1>1
      <4>3. /\ Cardinality(s) = Cardinality(s \ {Pick(s)}) + 1
            /\ Cardinality(s \ {Pick(s)}) \in Nat
        BY <4>1, <4>2, PickSmaller
      <4> QED BY <4>3
    <3>2. Sums([s \in D(0) |-> 0], f, D(0))
      <4> HIDE DEF D
      <4> QED BY <3>1, Zenon DEF Sums
    <3> QED BY <2>2, <3>2
  <2>4. PICK g : Sums(g, f, D(k - 1))
    <3> HIDE DEF D
    <3>1. k - 1 \in Nat /\ k - 1 \notin T
      <4> HIDE DEF E
      <4> QED BY <2>1, <2>2, <2>3
    <3>2. \A n \in Nat : n \notin T => E(n)
      OBVIOUS
    <3>3. E(k - 1)
      <4> HIDE DEF E, T
      <4> QED BY <3>1, <3>2
    <3> QED BY <3>3
  <2> DEFINE h == [s \in D(k) |-> IF s = {} THEN 0 ELSE f[Pick(s)] + g[s \ {Pick(s)}]]
  <2>5. \A s \in D(k - 1) : g[s] = IF s = {} THEN 0 ELSE f[Pick(s)] + g[s \ {Pick(s)}]
    <3> HIDE DEF D
    <3> QED BY <2>4, Zenon DEF Sums
  <2>6. \A s \in D(k - 1) : s \in D(k) /\ h[s] = g[s]
    <3>1. \A s \in D(k - 1) : s \in D(k)
      BY <1>1, <2>2
    <3>2. \A s \in D(k) : h[s] = IF s = {} THEN 0 ELSE f[Pick(s)] + g[s \ {Pick(s)}]
      OBVIOUS
    <3> HIDE DEF D, h
    <3> QED BY <2>5, <3>1, <3>2, Zenon
  <2>7. \A s \in D(k) : s # {} => s \ {Pick(s)} \in D(k - 1)
    <3>1. SUFFICES ASSUME NEW s \in SUBSET S, Cardinality(s) <= k, s # {}
                   PROVE  Cardinality(s \ {Pick(s)}) <= k - 1
      OBVIOUS
    <3> QED BY <1>1, <2>2, <3>1, PickSmaller
  <2>8. h = [s \in D(k) |-> IF s = {} THEN 0 ELSE f[Pick(s)] + h[s \ {Pick(s)}]]
    <3>1. \A s \in D(k) : (IF s = {} THEN 0 ELSE f[Pick(s)] + g[s \ {Pick(s)}])
                            = (IF s = {} THEN 0 ELSE f[Pick(s)] + h[s \ {Pick(s)}])
      <4> HIDE DEF D, h
      <4> QED BY <2>6, <2>7, Zenon
    <3>2. h = [s \in D(k) |-> IF s = {} THEN 0 ELSE f[Pick(s)] + g[s \ {Pick(s)}]]
      OBVIOUS
    <3> HIDE DEF D, h
    <3> QED BY <3>1, <3>2, Zenon
  <2> HIDE DEF D, h
  <2>9. Sums(h, f, D(k))
    BY <2>8, Zenon DEF Sums
  <2> QED BY <2>2, <2>9
<1>3. D(Cardinality(S)) = SUBSET S /\ Cardinality(S) \in Nat
  <2>1. \A s \in SUBSET S : Cardinality(s) <= Cardinality(S)
    BY FS_Subset
  <2> QED BY <2>1, FS_CardinalityType
<1> QED BY <1>2, <1>3

LEMMA SumFunctionIs ==
  ASSUME NEW f, IsFiniteSet(DOMAIN f)
  PROVE  \E g : Sums(g, f, SUBSET DOMAIN f) /\ SumFunction(f) = g[DOMAIN f]
<1> DEFINE g == CHOOSE h : Sums(h, f, SUBSET DOMAIN f)
<1>1. SumFunction(f) = g[DOMAIN f]
  BY DEF SumFunction, SumFunctionOnSet, FoldFunctionOnSet, MapThenFoldSet, Sums, Pick
<1>2. Sums(g, f, SUBSET DOMAIN f)
  BY SumsExist
<1> QED BY <1>1, <1>2

LEMMA SumsAt ==
  ASSUME NEW f, NEW D, NEW g, Sums(g, f, D), NEW s \in D
  PROVE  g[s] = IF s = {} THEN 0 ELSE f[Pick(s)] + g[s \ {Pick(s)}]
BY Zenon DEF Sums

LEMMA SumsNat ==
  ASSUME NEW f, NEW g, NEW S, IsFiniteSet(S), Sums(g, f, SUBSET S),
         \A x \in S : f[x] \in Nat
  PROVE  \A s \in SUBSET S : g[s] \in Nat
<1> DEFINE B == {s \in SUBSET S : g[s] \notin Nat}
<1>1. CASE B # {}
  <2>1. PICK s \in B : IsFiniteSet(s) /\ \A t \in SUBSET s : t # s => t \notin B
    <3>1. B \subseteq SUBSET S
      OBVIOUS
    <3> HIDE DEF B
    <3> QED BY <1>1, <3>1, LeastSubset
  <2>2. s \in SUBSET S /\ g[s] \notin Nat
    OBVIOUS
  <2>3. g[s] = IF s = {} THEN 0 ELSE f[Pick(s)] + g[s \ {Pick(s)}]
    BY <2>2, SumsAt
  <2>4. s # {} => Pick(s) \in s
    BY <2>1, PickSmaller
  <2>5. s # {} => g[s \ {Pick(s)}] \in Nat
    <3>1. s # {} => s \ {Pick(s)} \in SUBSET s /\ s \ {Pick(s)} # s
      BY <2>4
    <3> QED BY <2>1, <2>2, <3>1
  <2> QED BY <2>2, <2>3, <2>4, <2>5
<1> QED BY <1>1

(* The order does not matter: any element of a set can be taken first.       *)
Additive(g, f, S) ==
    \A s \in SUBSET S : \A x \in S \ s : g[s \cup {x}] = g[s] + f[x]

LEMMA SumsAdd ==
  ASSUME NEW f, NEW g, NEW S, IsFiniteSet(S), Sums(g, f, SUBSET S),
         \A x \in S : f[x] \in Nat
  PROVE  Additive(g, f, S)
<1> DEFINE Adds(s) == \A x \in S \ s : g[s \cup {x}] = g[s] + f[x]
           B == {s \in SUBSET S : ~Adds(s)}
<1>1. CASE B # {}
  <2>1. PICK s \in B : IsFiniteSet(s) /\ \A t \in SUBSET s : t # s => t \notin B
    <3>1. B \subseteq SUBSET S
      OBVIOUS
    <3> HIDE DEF B
    <3> QED BY <1>1, <3>1, LeastSubset
  <2>2. PICK x \in S \ s : g[s \cup {x}] # g[s] + f[x]
    OBVIOUS
  <2>3. PICK u : u = s \cup {x}
    OBVIOUS
  <2>4. PICK c : c = Pick(u)
    OBVIOUS
  <2>5. IsFiniteSet(u) /\ u # {} /\ u \in SUBSET S /\ s \in SUBSET S
    BY <2>1, <2>3, FS_Subset
  <2>6. c \in u /\ g[u] = f[c] + g[u \ {c}]
    BY <2>4, <2>5, PickSmaller, SumsAt
  <2>7. \A t \in SUBSET S : g[t] \in Nat
    BY SumsNat
  <2>8. c = x
    <3>1. SUFFICES ASSUME c # x PROVE FALSE
      OBVIOUS
    <3>2. c \in s /\ c \in S /\ x \in S
      BY <2>3, <2>5, <2>6, <3>1
    <3>3. PICK t : t = s \ {c}
      OBVIOUS
    <3>4. /\ t \in SUBSET s /\ t # s /\ t \in SUBSET S /\ x \in S \ t /\ c \in S \ t
          /\ t \cup {c} = s /\ u \ {c} = t \cup {x}
      BY <2>2, <2>3, <2>5, <3>1, <3>2, <3>3
    <3>5. Adds(t)
      BY <2>1, <3>4
    <3>6. g[t \cup {x}] = g[t] + f[x] /\ g[t \cup {c}] = g[t] + f[c]
      BY <3>4, <3>5
    <3>7. g[t] \in Nat /\ f[x] \in Nat /\ f[c] \in Nat
      BY <2>7, <3>2, <3>4
    <3>8. g[u] = f[c] + (g[t] + f[x]) /\ g[s] = g[t] + f[c]
      BY <2>6, <3>4, <3>6
    <3> QED BY <2>2, <2>3, <3>7, <3>8
  <2>9. u \ {c} = s
    BY <2>2, <2>3, <2>8
  <2>10. g[s] \in Nat /\ f[x] \in Nat /\ g[u] = f[x] + g[s]
    BY <2>5, <2>6, <2>7, <2>8, <2>9
  <2>11. FALSE
    BY <2>2, <2>3, <2>10
  <2> QED BY <2>11
<1> QED BY <1>1 DEF Additive

LEMMA SumsSame ==
  ASSUME NEW f, NEW g, NEW S, NEW e, NEW h, NEW R, S \subseteq R, IsFiniteSet(S),
         Sums(g, f, SUBSET S), Sums(h, e, SUBSET R), \A x \in S : e[x] = f[x]
  PROVE  h[S] = g[S]
<1> DEFINE B == {s \in SUBSET S : h[s] # g[s]}
<1>1. CASE B # {}
  <2>1. PICK s \in B : IsFiniteSet(s) /\ \A t \in SUBSET s : t # s => t \notin B
    <3>1. B \subseteq SUBSET S
      OBVIOUS
    <3> HIDE DEF B
    <3> QED BY <1>1, <3>1, LeastSubset
  <2>2. s \in SUBSET S /\ s \in SUBSET R /\ h[s] # g[s]
    OBVIOUS
  <2>3. /\ g[s] = IF s = {} THEN 0 ELSE f[Pick(s)] + g[s \ {Pick(s)}]
        /\ h[s] = IF s = {} THEN 0 ELSE e[Pick(s)] + h[s \ {Pick(s)}]
    BY <2>2, SumsAt
  <2>4. s # {} => Pick(s) \in s
    BY <2>1, PickSmaller
  <2>5. s # {} => g[s \ {Pick(s)}] = h[s \ {Pick(s)}]
    <3>1. s # {} => s \ {Pick(s)} \in SUBSET s /\ s \ {Pick(s)} # s
      BY <2>4
    <3> QED BY <2>1, <2>2, <3>1
  <2> QED BY <2>2, <2>3, <2>4, <2>5
<1> QED BY <1>1

----------------------------------------------------------------------------
(* Sums of sequences *)

IsSeqOfSize(f, n) == DOMAIN f = 1..n /\ \A i \in 1..n : f[i] \in Nat

LEMMA SumType ==
  ASSUME NEW n \in Nat, NEW f, IsSeqOfSize(f, n)
  PROVE  SumFunction(f) \in Nat
<1>1. IsFiniteSet(1..n)
  BY FS_Interval
<1>2. PICK g : Sums(g, f, SUBSET (1..n)) /\ SumFunction(f) = g[1..n]
  BY <1>1, SumFunctionIs DEF IsSeqOfSize
<1> QED BY <1>1, <1>2, SumsNat, SMTT(30) DEF IsSeqOfSize

LEMMA SumEmpty ==
  ASSUME NEW f, DOMAIN f = {}
  PROVE  SumFunction(f) = 0
<1>1. IsFiniteSet(DOMAIN f)
  BY FS_EmptySet
<1>2. PICK g : Sums(g, f, SUBSET DOMAIN f) /\ SumFunction(f) = g[DOMAIN f]
  BY <1>1, SumFunctionIs
<1> QED BY <1>2, SumsAt, ZenonT(40)

(* One more element adds itself.                                             *)
LEMMA SumNext ==
  ASSUME NEW n \in Nat, NEW m \in Nat, m = n + 1, NEW f, NEW h,
         IsSeqOfSize(f, n), IsSeqOfSize(h, m), \A i \in 1..n : h[i] = f[i]
  PROVE  SumFunction(h) = SumFunction(f) + h[m]
<1>1. PICK S : S = 1..n
  OBVIOUS
<1>2. PICK R : R = 1..m
  OBVIOUS
<1>3. S \subseteq R /\ S \in SUBSET R /\ m \in R \ S /\ S \cup {m} = R
  BY <1>1, <1>2
<1>4. IsFiniteSet(S) /\ IsFiniteSet(R)
  BY <1>1, <1>2, FS_Interval
<1>5. /\ DOMAIN f = S /\ DOMAIN h = R /\ \A x \in S : f[x] \in Nat
      /\ \A x \in S : h[x] = f[x]
      /\ \A x \in R : h[x] \in Nat
  BY <1>1, <1>2 DEF IsSeqOfSize
<1>6. PICK g : Sums(g, f, SUBSET S) /\ SumFunction(f) = g[S]
  BY <1>4, <1>5, SumFunctionIs
<1>7. PICK k : Sums(k, h, SUBSET R) /\ SumFunction(h) = k[R]
  BY <1>4, <1>5, SumFunctionIs
<1>8. k[S] = g[S]
  BY <1>3, <1>4, <1>5, <1>6, <1>7, SumsSame
<1>9. Additive(k, h, R)
  BY <1>4, <1>5, <1>7, SumsAdd
<1>10. k[S \cup {m}] = k[S] + h[m]
  BY <1>3, <1>9, Zenon DEF Additive
<1> QED BY <1>3, <1>6, <1>7, <1>8, <1>10

LEMMA SumConstant ==
  ASSUME NEW c \in Nat, NEW n \in Nat
  PROVE  SumFunction([i \in 1..n |-> c]) = c * n
<1> DEFINE F(m) == [i \in 1..m |-> c]
           T == {m \in Nat : SumFunction(F(m)) # c * m}
<1>1. \A m \in Nat : IsSeqOfSize(F(m), m)
  BY DEF IsSeqOfSize
<1>2. CASE T # {}
  <2>1. PICK k \in T : \A m \in T : k <= m
    <3>1. T \subseteq Nat
      OBVIOUS
    <3> HIDE DEF T
    <3> QED BY <1>2, <3>1, LeastNat
  <2>2. k \in Nat /\ SumFunction(F(k)) # c * k
    OBVIOUS
  <2>3. k # 0
    <3>1. DOMAIN F(0) = {}
      OBVIOUS
    <3>2. SumFunction(F(0)) = 0
      BY <3>1, SumEmpty
    <3> QED BY <2>2, <3>2
  <2>4. PICK j \in Nat : k = j + 1
    BY <2>2, <2>3
  <2>5. SumFunction(F(j)) = c * j
    BY <2>1, <2>4
  <2>6. SumFunction(F(k)) = SumFunction(F(j)) + F(k)[k]
    <3>1. \A i \in 1..j : F(k)[i] = F(j)[i]
      BY <2>4
    <3> HIDE DEF F
    <3> QED BY <1>1, <2>2, <2>4, <3>1, SumNext
  <2>7. F(k)[k] = c
    BY <2>2, <2>3
  <2>8. c * k = c * j + c
    BY <2>4
  <2> HIDE DEF F
  <2> QED BY <2>2, <2>5, <2>6, <2>7, <2>8
<1> QED BY <1>2

----------------------------------------------------------------------------
(* The invariant of the writer *)

(* What the headers of a file say of the body of the j-th section, and where *)
(* the body after the j-th begins in a file of n headers.                    *)
OffsetIn(f, j) == Swap(f.shdrs[j + 1].sh_offset)
SizeIn(f, j) == Swap(f.shdrs[j + 1].sh_size)
Start(n) == EhdrSize + ShdrSize * n
EndIn(f, n, j) == IF j = 0 THEN Start(n) ELSE OffsetIn(f, j) + SizeIn(f, j)

FileHeaderFields == {"e_type", "e_shoff", "e_shnum", "e_shstrndx"}
SectionHeader == [sh_name : Int, sh_type : Int, sh_offset : Int, sh_size : Int]
Body == [at : Nat, len : Nat]

(* The bodies are where and as long as the headers say, one after the other, *)
(* behind n headers.                                                         *)
WellFormed(f, n) ==
    /\ f.shdrs \in Seq(SectionHeader) /\ f.bodies \in Seq(Body)
    /\ \A j \in 1..(Len(f.shdrs) - 1) :
         /\ OffsetIn(f, j) >= Start(n)
         /\ SizeIn(f, j) \in Nat
         /\ OffsetIn(f, j) = EndIn(f, n, j - 1)
    /\ Len(f.bodies) < Len(f.shdrs) \/ f.bodies = << >>
    /\ \A i \in 1..Len(f.bodies) :
         f.bodies[i].at = OffsetIn(f, i) /\ f.bodies[i].len = SizeIn(f, i)

(* The first pass has declared the sizes that the second will write, and     *)
(* each pass is where the headers written so far say.                        *)
Progress ==
    /\ wpc = "idle" => WellFormed(file, Len(file.shdrs))
    /\ wpc # "idle" => /\ WellFormed(file, Len(sections) + 1)
                       /\ file.ehdr.e_shoff = Swap(EhdrSize)
    /\ wpc = "null" => /\ file.shdrs = << >> /\ file.bodies = << >>
                       /\ section_offs = Start(Len(sections)) /\ pos = EhdrSize
    /\ wpc = "headers" => /\ Len(file.shdrs) = it /\ file.bodies = << >>
                          /\ section_offs = EndIn(file, Len(sections) + 1, it - 1)
                          /\ pos = Start(it)
    /\ wpc = "bodies" => /\ Len(file.shdrs) = Len(sections) + 1
                         /\ Len(file.bodies) = it - 1
                         /\ pos = EndIn(file, Len(sections) + 1, it - 1)
    /\ wpc \in {"headers", "bodies"} =>
         \A j \in 1..(Len(file.shdrs) - 1) : SizeIn(file, j) = Size(j)

FileShape(f) == f = [ehdr |-> f.ehdr, shdrs |-> f.shdrs, bodies |-> f.bodies]

WriterInv ==
    /\ TypeInv /\ WriterTypeOK /\ Progress
    /\ DOMAIN header = FileHeaderFields /\ FileShape(file)
    /\ wpc # "idle" => writes < MaxWrites

(* Sizes of sections *)

LEMMA StrTabSizeType ==
  ASSUME NEW strs \in Seq(AllStrings)
  PROVE  StrTabSize(strs) \in Nat
<1> DEFINE f == [k \in DOMAIN strs |-> StrSize(strs[k]) + 1]
<1>1. DOMAIN strs = 1..Len(strs) /\ Len(strs) \in Nat
  BY LenProperties
<1>2. \A k \in 1..Len(strs) : strs[k] \in AllStrings
  BY ElementOfSeq
<1>3. IsSeqOfSize(f, Len(strs))
  BY <1>1, <1>2, StrSizeAssumption DEF IsSeqOfSize
<1> HIDE DEF f
<1>4. SumFunction(f) \in Nat
  BY <1>1, <1>3, SumType
<1> QED BY <1>4 DEF StrTabSize, f

LEMMA SectionTypes_ ==
  ASSUME TypeInv, NEW i \in 1..Len(sections)
  PROVE  /\ sections[i].type \in {"STRTAB", "SYMTAB", "REL", "PROGBITS"}
         /\ sections[i] \in ObjectSection
         /\ Len(sections[i].data) \in Nat /\ Len(sections[i].rels) \in Nat
         /\ DOMAIN sections[i].rels = 1..Len(sections[i].rels)
         /\ StringsOf(i) \in Seq(AllStrings)
         /\ Len(SymbolsOf(i)) \in Nat /\ DOMAIN SymbolsOf(i) = 1..Len(SymbolsOf(i))
<1>1. sections[i] \in ObjectSection
  BY ElementOfSeq DEF TypeInv, ObjectTypeOK
<1>2. /\ sections[i].type \in SectionTypes /\ sections[i].data \in Seq(0..255)
      /\ sections[i].rels \in Seq(Reloc)
  BY <1>1 DEF ObjectSection
<1>3. StringsOf(i) \in Seq(AllStrings)
  <2>1. EmptyString \in AllStrings
    BY DEF AllStrings
  <2>2. << EmptyString >> \in Seq(AllStrings)
    BY <2>1
  <2> HIDE DEF EmptyString
  <2> QED BY <2>2 DEF StringsOf, TypeInv, ObjectTypeOK
<1>4. Len(SymbolsOf(i)) \in Nat /\ DOMAIN SymbolsOf(i) = 1..Len(SymbolsOf(i))
  <2>1. << NullSymbol >> \in Seq(Symbol)
    BY DEF NullSymbol, Symbol
  <2>2. SymbolsOf(i) \in Seq(Symbol)
    <3> HIDE DEF NullSymbol
    <3> QED BY <2>1 DEF SymbolsOf, TypeInv, ObjectTypeOK
  <2> QED BY <2>2, LenProperties
<1> QED BY <1>1, <1>2, <1>3, <1>4, LenProperties DEF SectionTypes

LEMMA SizeCases ==
  ASSUME NEW i
  PROVE  /\ sections[i].type = "STRTAB" => Size(i) = StrTabSize(StringsOf(i))
         /\ sections[i].type = "SYMTAB" => Size(i) = SymSize * Len(SymbolsOf(i))
         /\ sections[i].type = "REL" => Size(i) = RelSize * Len(sections[i].rels)
         /\ sections[i].type = "PROGBITS" => Size(i) = Len(sections[i].data)
BY DEF Size

LEMMA SizeType ==
  ASSUME TypeInv, NEW i \in 1..Len(sections)
  PROVE  Size(i) \in Nat
<1>1. StrTabSize(StringsOf(i)) \in Nat
  BY SectionTypes_, StrTabSizeType
<1>2. SymSize * Len(SymbolsOf(i)) \in Nat /\ RelSize * Len(sections[i].rels) \in Nat
  BY SectionTypes_ DEF SymSize, RelSize
<1> QED BY <1>1, <1>2, SectionTypes_, SizeCases

(* write() of a section hands to the stream as many bytes as size() says     *)
(* (elf_writer.cpp:60-84).                                                   *)
LEMMA WrittenIsSize ==
  ASSUME TypeInv, NEW i \in 1..Len(sections)
  PROVE  Written(i) = Size(i)
<1>1. CASE sections[i].type = "STRTAB"
  <2>1. Pieces(i) = [k \in DOMAIN StringsOf(i) |-> StrSize(StringsOf(i)[k]) + 1]
    BY <1>1 DEF Pieces
  <2> QED BY <1>1, <2>1, SizeCases DEF Written, StrTabSize
<1>2. CASE sections[i].type = "SYMTAB"
  <2>1. Pieces(i) = [k \in 1..Len(SymbolsOf(i)) |-> SymSize]
    BY <1>2, SectionTypes_ DEF Pieces
  <2>2. SumFunction([k \in 1..Len(SymbolsOf(i)) |-> SymSize]) = SymSize * Len(SymbolsOf(i))
    BY SectionTypes_, SumConstant DEF SymSize
  <2> QED BY <1>2, <2>1, <2>2, SizeCases DEF Written
<1>3. CASE sections[i].type = "REL"
  <2>1. Pieces(i) = [k \in 1..Len(sections[i].rels) |-> RelSize]
    BY <1>3, SectionTypes_ DEF Pieces
  <2>2. SumFunction([k \in 1..Len(sections[i].rels) |-> RelSize])
          = RelSize * Len(sections[i].rels)
    BY SectionTypes_, SumConstant DEF RelSize
  <2> QED BY <1>3, <2>1, <2>2, SizeCases DEF Written
<1>4. CASE sections[i].type = "PROGBITS"
  <2>1. PICK len \in Nat : len = Len(sections[i].data)
    BY SectionTypes_
  <2>2. Pieces(i) = << len >>
    BY <1>4, <2>1 DEF Pieces
  <2>3. << len >> = [k \in 1..1 |-> len]
    OBVIOUS
  <2>4. SumFunction([k \in 1..1 |-> len]) = len * 1
    BY SumConstant
  <2> QED BY <1>4, <2>1, <2>2, <2>3, <2>4, SizeCases DEF Written
<1> QED BY <1>1, <1>2, <1>3, <1>4, SectionTypes_

(* The size of a section does not depend on its header.                      *)
LEMMA SizesKept ==
  ASSUME TypeInv, UNCHANGED tables, NEW i \in 1..Len(sections),
         sections'[i].type = sections[i].type, sections'[i].data = sections[i].data,
         sections'[i].rels = sections[i].rels
  PROVE  Size(i)' = Size(i)
<1>1. StringsOf(i)' = StringsOf(i) /\ SymbolsOf(i)' = SymbolsOf(i)
  BY DEF StringsOf, SymbolsOf, tables
<1>2. StrTabSize(StringsOf(i))' = StrTabSize(StringsOf(i))
  BY <1>1 DEF StrTabSize
<1> QED BY <1>1, <1>2, SectionTypes_ DEF Size

----------------------------------------------------------------------------
(* The steps of the writer *)

LEMMA WriterInitInv == WriterInit => WriterInv
<1> SUFFICES ASSUME WriterInit PROVE WriterInv
  OBVIOUS
<1>1. TypeInv
  BY InitTypeInv DEF WriterInit
<1>2. Len(sections) \in Nat
  BY <1>1, LenProperties DEF TypeInv, ObjectTypeOK
<1>3. /\ file.shdrs = << >> /\ file.bodies = << >> /\ wpc = "idle" /\ it = 1
      /\ section_offs = 0 /\ sh_name = 0 /\ pos = 0 /\ writes = 0
      /\ header = [e_type |-> ET_REL, e_shoff |-> 0, e_shnum |-> 0, e_shstrndx |-> 0]
  BY DEF WriterInit, NoFile
<1>4. WellFormed(file, Len(file.shdrs))
  <2>1. << >> \in Seq(SectionHeader) /\ << >> \in Seq(Body) /\ Len(<< >>) = 0
    BY EmptySeq
  <2> QED BY <1>3, <2>1 DEF WellFormed
<1>5. DOMAIN header = FileHeaderFields
  BY <1>3 DEF FileHeaderFields
<1>6. \A f \in DOMAIN header : header[f] \in Int
  BY <1>3 DEF ET_REL
<1>7. WriterTypeOK
  BY <1>2, <1>3, <1>6, MaxWritesAssumption, EmptySeq DEF WriterTypeOK
<1>8. FileShape(file)
  BY DEF WriterInit, NoFile, FileShape
<1> QED BY <1>1, <1>3, <1>4, <1>5, <1>7, <1>8 DEF WriterInv, Progress

LEMMA ChangeObjectInv == WriterInv /\ ChangeObject => WriterInv'
<1> SUFFICES ASSUME WriterInv, ChangeObject PROVE WriterInv'
  OBVIOUS
<1>1. TypeInv'
  BY NextTypeInv DEF WriterInv, ChangeObject
<1>2. Len(sections) \in Nat /\ Len(sections') \in Nat /\ Len(sections') >= Len(sections)
  <2>1. Len(sections) \in Nat /\ Len(sections') \in Nat
    BY <1>1, LenProperties DEF WriterInv, TypeInv, ObjectTypeOK
  <2>2. DOMAIN sections = 1..Len(sections)
    BY LenProperties DEF WriterInv, TypeInv, ObjectTypeOK
  <2> QED BY <2>1, <2>2, NamesStay DEF WriterInv, ChangeObject
<1> QED BY <1>1, <1>2 DEF WriterInv, ChangeObject, writerVars, WriterTypeOK, Progress,
                          FileShape

LEMMA WriteFileHeaderInv == WriterInv /\ WriteFileHeader => WriterInv'
<1> SUFFICES ASSUME WriterInv, WriteFileHeader PROVE WriterInv'
  OBVIOUS
<1>1. UNCHANGED <<vars, it, sh_name, writes>>
  BY DEF WriteFileHeader
<1>2. TypeInv' /\ Len(sections) \in Nat /\ Len(sections') = Len(sections)
  BY <1>1, LenProperties DEF WriterInv, TypeInv, ObjectTypeOK, vars, tables
<1>3. /\ file'.shdrs = << >> /\ file'.bodies = << >> /\ file'.ehdr = header'
      /\ wpc' = "null" /\ pos' = EhdrSize /\ section_offs' = Start(Len(sections))
  BY <1>2 DEF WriteFileHeader, NoFile, Start, EhdrSize, ShdrSize
<1>4. /\ header.e_type \in Int /\ ShstrNdx \in Int
  <2>1. header.e_type \in Int
    BY DEF WriterInv, WriterTypeOK, FileHeaderFields
  <2>2. ShstrNdx \in Int
    <3> DEFINE S == {i \in DOMAIN sections : sections[i].sh_type = SHT_STRTAB}
    <3>1. S \subseteq Nat
      BY LenProperties DEF WriterInv, TypeInv, ObjectTypeOK
    <3>2. ShstrNdx = IF S = {} THEN Len(sections) + 1 ELSE Min(S)
      BY DEF ShstrNdx
    <3> HIDE DEF S
    <3>3. S # {} => Min(S) \in S
      BY <3>1, LeastNat DEF Min
    <3> QED BY <1>2, <3>1, <3>2, <3>3
  <2> QED BY <2>1, <2>2
<1>5. /\ DOMAIN header' = FileHeaderFields
      /\ \A f \in DOMAIN header' : header'[f] \in Int
      /\ header'.e_shoff = Swap(EhdrSize)
  <2>1. /\ FileHeader.e_type = header.e_type /\ FileHeader.e_shoff = EhdrSize
        /\ FileHeader.e_shnum = Len(sections) /\ FileHeader.e_shstrndx = ShstrNdx
        /\ DOMAIN FileHeader = FileHeaderFields
    BY DEF FileHeader, FileHeaderFields
  <2>2. header' = [f \in DOMAIN FileHeader |-> Swap(FileHeader[f])]
    BY DEF WriteFileHeader
  <2>3. \A f \in FileHeaderFields : FileHeader[f] \in Int
    BY <1>2, <1>4, <2>1 DEF FileHeaderFields, EhdrSize
  <2> HIDE DEF FileHeader
  <2>4. DOMAIN header' = FileHeaderFields
    BY <2>1, <2>2
  <2>5. \A f \in FileHeaderFields : header'[f] = -FileHeader[f]
    BY <2>1, <2>2 DEF Swap
  <2>6. header'.e_shoff = Swap(EhdrSize)
    BY <2>1, <2>5 DEF FileHeaderFields, Swap
  <2> QED BY <2>3, <2>4, <2>5, <2>6
<1>6. WellFormed(file', Len(sections) + 1)
  <2>1. << >> \in Seq(SectionHeader) /\ << >> \in Seq(Body) /\ Len(<< >>) = 0
    BY EmptySeq
  <2> QED BY <1>3, <2>1 DEF WellFormed
<1>7. WriterTypeOK'
  <2>1. section_offs' \in Nat /\ pos' \in Nat
    BY <1>2, <1>3 DEF Start, EhdrSize, ShdrSize
  <2>2. Len(file'.shdrs) <= Len(sections') + 1
    BY <1>2, <1>3, EmptySeq
  <2> QED BY <1>1, <1>2, <1>3, <1>5, <2>1, <2>2 DEF WriterInv, WriterTypeOK
<1>8. Progress'
  BY <1>2, <1>3, <1>5, <1>6 DEF Progress
<1>9. FileShape(file')
  BY DEF WriteFileHeader, NoFile, FileShape
<1>10. writes < MaxWrites
  BY DEF WriteFileHeader
<1> QED BY <1>1, <1>2, <1>5, <1>7, <1>8, <1>9, <1>10 DEF WriterInv, FileShape

(* What one more section header, and one more body, does to a file.          *)
LEMMA EndType ==
  ASSUME NEW f, NEW n \in Nat, NEW k \in Nat, WellFormed(f, n), k < Len(f.shdrs)
  PROVE  EndIn(f, n, k) \in Nat /\ EndIn(f, n, k) >= Start(n)
<1>1. Start(n) \in Nat /\ Len(f.shdrs) \in Nat
  BY LenProperties DEF Start, EhdrSize, ShdrSize, WellFormed
<1>2. CASE k = 0
  BY <1>1, <1>2 DEF EndIn
<1>3. CASE k # 0
  <2>1. k \in 1..(Len(f.shdrs) - 1) /\ k + 1 \in 1..Len(f.shdrs)
    BY <1>1, <1>3
  <2>2. f.shdrs[k + 1] \in SectionHeader
    BY <2>1, ElementOfSeq DEF WellFormed
  <2>3. OffsetIn(f, k) \in Int /\ OffsetIn(f, k) >= Start(n) /\ SizeIn(f, k) \in Nat
    <3>1. OffsetIn(f, k) \in Int
      BY <2>2 DEF SectionHeader, OffsetIn, Swap
    <3>2. OffsetIn(f, k) >= Start(n) /\ SizeIn(f, k) \in Nat
      BY <2>1 DEF WellFormed
    <3> QED BY <3>1, <3>2
  <2> QED BY <1>1, <1>3, <2>3 DEF EndIn
<1> QED BY <1>2, <1>3

AddsHeader(f, g, n, k, h) ==
    /\ WellFormed(f, n) /\ Len(f.shdrs) = k /\ k >= 1
    /\ f.bodies = << >> /\ g.bodies = << >> /\ g.shdrs = Append(f.shdrs, h)
    /\ Swap(h.sh_offset) = EndIn(f, n, k - 1) /\ Swap(h.sh_size) \in Nat
AddsBody(f, g, n, k, at, len) ==
    /\ WellFormed(f, n) /\ Len(f.shdrs) = n /\ Len(f.bodies) = k - 1 /\ k >= 1 /\ k < n
    /\ g.shdrs = f.shdrs /\ g.bodies = Append(f.bodies, [at |-> at, len |-> len])
    /\ at = EndIn(f, n, k - 1) /\ len = SizeIn(f, k)

LEMMA HeaderAppended ==
  ASSUME NEW f, NEW g, NEW n \in Nat, NEW h \in SectionHeader, NEW k \in Nat,
         AddsHeader(f, g, n, k, h)
  PROVE  /\ WellFormed(g, n) /\ Len(g.shdrs) = k + 1
         /\ \A j \in 1..(k - 1) : SizeIn(g, j) = SizeIn(f, j)
         /\ SizeIn(g, k) = Swap(h.sh_size)
         /\ EndIn(g, n, k) = EndIn(f, n, k - 1) + Swap(h.sh_size)
<1> USE DEF AddsHeader
<1>1. /\ g.shdrs \in Seq(SectionHeader) /\ Len(g.shdrs) = k + 1 /\ g.shdrs[k + 1] = h
      /\ \A j \in 1..k : g.shdrs[j] = f.shdrs[j]
  BY AppendProperties DEF WellFormed
<1>2. \A j \in 1..(k - 1) : OffsetIn(g, j) = OffsetIn(f, j) /\ SizeIn(g, j) = SizeIn(f, j)
  BY <1>1 DEF OffsetIn, SizeIn
<1>3. OffsetIn(g, k) = Swap(h.sh_offset) /\ SizeIn(g, k) = Swap(h.sh_size)
  BY <1>1 DEF OffsetIn, SizeIn
<1>4. \A j \in 0..(k - 1) : EndIn(g, n, j) = EndIn(f, n, j)
  BY <1>2 DEF EndIn
<1>5. EndIn(f, n, k - 1) >= Start(n)
  <2>1. PICK j \in Nat : j = k - 1
    OBVIOUS
  <2> QED BY <2>1, EndType
<1>6. ASSUME NEW j \in 1..k
      PROVE  /\ OffsetIn(g, j) >= Start(n) /\ SizeIn(g, j) \in Nat
             /\ OffsetIn(g, j) = EndIn(g, n, j - 1)
  <2>1. CASE j = k
    BY <1>3, <1>4, <1>5, <2>1
  <2>2. CASE j # k
    <3>1. j \in 1..(k - 1) /\ j - 1 \in 0..(k - 1)
      BY <2>2
    <3> QED BY <1>2, <1>4, <3>1 DEF WellFormed
  <2> QED BY <2>1, <2>2
<1>7. WellFormed(g, n)
  <2>1. << >> \in Seq(Body) /\ Len(<< >>) = 0
    BY EmptySeq
  <2> QED BY <1>1, <1>6, <2>1 DEF WellFormed
<1> QED BY <1>1, <1>2, <1>3, <1>7 DEF EndIn

LEMMA BodyAppended ==
  ASSUME NEW f, NEW g, NEW n \in Nat, NEW k \in Nat, NEW at, NEW len,
         AddsBody(f, g, n, k, at, len)
  PROVE  /\ WellFormed(g, n) /\ Len(g.bodies) = k
         /\ EndIn(g, n, k) = at + len
<1> USE DEF AddsBody
<1>1. \A j : /\ OffsetIn(g, j) = OffsetIn(f, j) /\ SizeIn(g, j) = SizeIn(f, j)
             /\ EndIn(g, n, j) = EndIn(f, n, j)
  BY DEF OffsetIn, SizeIn, EndIn
<1>2. k \in 1..(n - 1) /\ at = OffsetIn(f, k) /\ len \in Nat
  BY DEF WellFormed
<1>3. at \in Nat
  <2>1. PICK j \in Nat : j = k - 1
    OBVIOUS
  <2> QED BY <2>1, EndType
<1>4. [at |-> at, len |-> len] \in Body
  BY <1>2, <1>3 DEF Body
<1>5. /\ g.bodies \in Seq(Body) /\ Len(g.bodies) = k
      /\ g.bodies[k] = [at |-> at, len |-> len]
      /\ \A j \in 1..(k - 1) : g.bodies[j] = f.bodies[j]
  <2>1. f.bodies \in Seq(Body)
    BY DEF WellFormed
  <2> QED BY <1>4, <2>1, AppendProperties
<1>6. ASSUME NEW i \in 1..k
      PROVE  g.bodies[i].at = OffsetIn(g, i) /\ g.bodies[i].len = SizeIn(g, i)
  <2>1. CASE i = k
    BY <1>1, <1>2, <1>5, <2>1
  <2>2. CASE i # k
    <3>1. i \in 1..(k - 1)
      BY <2>2
    <3> QED BY <1>1, <1>5, <3>1 DEF WellFormed
  <2> QED BY <2>1, <2>2
<1>7. WellFormed(g, n)
  BY <1>1, <1>5, <1>6 DEF WellFormed
<1> QED BY <1>1, <1>2, <1>5, <1>7 DEF EndIn

LEMMA WriteNullHeaderInv == WriterInv /\ WriteNullHeader => WriterInv'
<1> SUFFICES ASSUME WriterInv, WriteNullHeader PROVE WriterInv'
  OBVIOUS
<1>1. UNCHANGED <<vars, header, writes>>
  BY DEF WriteNullHeader, NullHeaderWritten
<1>2. TypeInv' /\ Len(sections) \in Nat /\ Len(sections') = Len(sections)
  BY <1>1, LenProperties DEF WriterInv, TypeInv, ObjectTypeOK, vars, tables
<1>3. /\ wpc = "null" /\ wpc' = "headers" /\ it' = 1 /\ pos' = pos + ShdrSize
      /\ section_offs' = section_offs + ShdrSize /\ sh_name' = 1
      /\ file' = [file EXCEPT !.shdrs = << NullHeader >>]
  BY DEF WriteNullHeader, NullHeaderWritten
<1>4. /\ file.ehdr.e_shoff = Swap(EhdrSize) /\ file.bodies = << >>
      /\ section_offs = Start(Len(sections)) /\ pos = EhdrSize
  BY <1>3 DEF WriterInv, Progress
<1>5. file' = [ehdr |-> file.ehdr, shdrs |-> << NullHeader >>, bodies |-> << >>]
  BY <1>3, <1>4 DEF WriterInv, FileShape
<1>6. << NullHeader >> \in Seq(SectionHeader) /\ Len(<< NullHeader >>) = 1
  BY DEF NullHeader, SectionHeader
<1> HIDE DEF NullHeader
<1>7. WellFormed(file', Len(sections) + 1) /\ Len(file'.shdrs) = 1
  BY <1>5, <1>6, EmptySeq DEF WellFormed
<1>8. /\ section_offs' = EndIn(file', Len(sections) + 1, 0) /\ pos' = Start(1)
      /\ section_offs' \in Nat /\ pos' \in Nat
  BY <1>2, <1>3, <1>4 DEF EndIn, Start, EhdrSize, ShdrSize
<1>9. WriterTypeOK'
  BY <1>1, <1>2, <1>3, <1>5, <1>7, <1>8 DEF WriterInv, WriterTypeOK
<1>10. Progress'
  BY <1>2, <1>3, <1>4, <1>5, <1>7, <1>8 DEF Progress
<1> QED BY <1>1, <1>2, <1>3, <1>5, <1>9, <1>10 DEF WriterInv, FileShape

(* Filling in and swapping a header leaves the section as it is.             *)
LEMMA HeaderSwapped ==
  ASSUME TypeInv, it \in 1..Len(sections), sh_name \in Int, section_offs \in Int,
         sections' = [sections EXCEPT ![it] = SwappedSection(it)],
         UNCHANGED <<tables, curr_section, curr_rel_idx, outcome, defined>>
  PROVE  /\ TypeInv' /\ Len(sections') = Len(sections)
         /\ \A i \in 1..Len(sections) :
              /\ sections'[i].name = sections[i].name
              /\ sections'[i].type = sections[i].type
              /\ sections'[i].data = sections[i].data
              /\ sections'[i].rels = sections[i].rels
              /\ i # it => sections'[i] = sections[i]
         /\ HeaderOf(SwappedSection(it))
              = [sh_name |-> -sh_name, sh_type |-> -sections[it].sh_type,
                 sh_offset |-> -section_offs, sh_size |-> -Size(it)]
         /\ HeaderOf(SwappedSection(it)) \in SectionHeader
<1> DEFINE e == SwappedSection(it)
<1>1. sections[it] \in ObjectSection /\ Size(it) \in Nat
  BY SectionTypes_, SizeType
<1>2. /\ e \in ObjectSection
      /\ e.name = sections[it].name /\ e.type = sections[it].type
      /\ e.data = sections[it].data /\ e.rels = sections[it].rels
      /\ e.sh_name = -sh_name /\ e.sh_type = -sections[it].sh_type
      /\ e.sh_offset = -section_offs /\ e.sh_size = -Size(it)
  <2>1. PICK s \in ObjectSection : s = sections[it]
    BY <1>1
  <2>2. PICK size \in Nat : size = Size(it)
    BY <1>1
  <2>3. e = [s EXCEPT !.sh_name = -sh_name, !.sh_size = -size,
                      !.sh_offset = -section_offs, !.sh_type = -s.sh_type]
    BY <2>1, <2>2 DEF SwappedSection, Swap
  <2> HIDE DEF e
  <2>4. /\ e.name = s.name /\ e.type = s.type /\ e.data = s.data /\ e.rels = s.rels
        /\ e.sh_name = -sh_name /\ e.sh_type = -s.sh_type
        /\ e.sh_offset = -section_offs /\ e.sh_size = -size
    BY <2>3 DEF ObjectSection
  <2>5. /\ s.sh_type \in Int /\ -sh_name \in Int /\ -s.sh_type \in Int
        /\ -section_offs \in Int /\ -size \in Int
    BY DEF ObjectSection
  <2>6. e \in ObjectSection
    BY <2>3, <2>5 DEF ObjectSection
  <2> QED BY <2>1, <2>2, <2>4, <2>6
<1>3. sections[it].sh_type \in Int
  BY <1>1 DEF ObjectSection
<1>4. sections' = [sections EXCEPT ![it] = e]
  OBVIOUS
<1> HIDE DEF e
<1>5. sections' \in Seq(ObjectSection) /\ Len(sections') = Len(sections)
  BY <1>2, <1>4, ExceptSeq DEF TypeInv, ObjectTypeOK
<1>6. \A i \in 1..Len(sections) : sections'[i] = IF i = it THEN e ELSE sections[i]
  BY <1>4, ExceptSeq DEF TypeInv, ObjectTypeOK
<1>7. TypeInv'
  BY <1>5 DEF TypeInv, ObjectTypeOK, tables
<1>8. HeaderOf(e) = [sh_name |-> -sh_name, sh_type |-> -sections[it].sh_type,
                     sh_offset |-> -section_offs, sh_size |-> -Size(it)]
  BY <1>2 DEF HeaderOf
<1>9. HeaderOf(e) \in SectionHeader
  BY <1>1, <1>3, <1>8 DEF SectionHeader
<1> QED BY <1>2, <1>5, <1>6, <1>7, <1>8, <1>9 DEF e

LEMMA WriteSectionHeaderInv == WriterInv /\ WriteSectionHeader => WriterInv'
<1> SUFFICES ASSUME WriterInv, WriteSectionHeader PROVE WriterInv'
  OBVIOUS
<1>1. /\ wpc = "headers" /\ wpc' = "headers" /\ it \in 1..Len(sections) /\ it' = it + 1
      /\ sh_name \in Nat /\ section_offs \in Nat /\ pos \in Nat
      /\ Len(sections) \in Nat /\ TypeInv
      /\ UNCHANGED <<tables, curr_section, curr_rel_idx, outcome, defined, header, writes>>
  BY LenProperties DEF WriteSectionHeader, WriterInv, WriterTypeOK, TypeInv, ObjectTypeOK
<1>2. /\ TypeInv' /\ Len(sections') = Len(sections)
      /\ \A i \in 1..Len(sections) : /\ sections'[i].name = sections[i].name
                                     /\ sections'[i].type = sections[i].type
                                     /\ sections'[i].data = sections[i].data
                                     /\ sections'[i].rels = sections[i].rels
      /\ HeaderOf(SwappedSection(it))
           = [sh_name |-> -sh_name, sh_type |-> -sections[it].sh_type,
              sh_offset |-> -section_offs, sh_size |-> -Size(it)]
      /\ HeaderOf(SwappedSection(it)) \in SectionHeader
  BY <1>1, HeaderSwapped DEF WriteSectionHeader
<1>3. PICK h : h = HeaderOf(SwappedSection(it))
  OBVIOUS
<1>4. /\ file' = [file EXCEPT !.shdrs = Append(@, h)]
      /\ sh_name' = sh_name + StrSize(sections[it].name) + 1
      /\ section_offs' = section_offs + Size(it) /\ pos' = pos + ShdrSize
  BY <1>3 DEF WriteSectionHeader
<1>5. /\ Len(file.shdrs) = it /\ file.bodies = << >>
      /\ file.ehdr.e_shoff = Swap(EhdrSize)
      /\ WellFormed(file, Len(sections) + 1)
      /\ section_offs = EndIn(file, Len(sections) + 1, it - 1) /\ pos = Start(it)
      /\ \A j \in 1..(it - 1) : SizeIn(file, j) = Size(j)
  BY <1>1 DEF WriterInv, Progress
<1>6. file' = [ehdr |-> file.ehdr, shdrs |-> Append(file.shdrs, h), bodies |-> << >>]
  BY <1>4, <1>5 DEF WriterInv, FileShape
<1>7. PICK n \in Nat : n = Len(sections) + 1
  BY <1>1
<1>8. Size(it) \in Nat
  BY <1>1, SizeType
<1>9. Swap(h.sh_offset) = section_offs /\ Swap(h.sh_size) = Size(it)
  BY <1>1, <1>2, <1>3, <1>8 DEF Swap
<1>10. /\ WellFormed(file', n) /\ Len(file'.shdrs) = it + 1
       /\ \A j \in 1..(it - 1) : SizeIn(file', j) = SizeIn(file, j)
       /\ SizeIn(file', it) = Size(it)
       /\ EndIn(file', n, it) = section_offs + Size(it)
  <2>1. PICK k \in Nat : k = it
    BY <1>1
  <2>2. h \in SectionHeader
    BY <1>2, <1>3
  <2>3. PICK g : g = file'
    OBVIOUS
  <2>4. /\ g.bodies = << >> /\ g.shdrs = Append(file.shdrs, h) /\ file.bodies = << >>
        /\ WellFormed(file, n) /\ Len(file.shdrs) = k /\ k >= 1
        /\ Swap(h.sh_offset) = EndIn(file, n, k - 1) /\ Swap(h.sh_size) \in Nat
    BY <1>1, <1>5, <1>6, <1>7, <1>8, <1>9, <2>1, <2>3
  <2>5. /\ WellFormed(g, n) /\ Len(g.shdrs) = k + 1
        /\ \A j \in 1..(k - 1) : SizeIn(g, j) = SizeIn(file, j)
        /\ SizeIn(g, k) = Swap(h.sh_size)
        /\ EndIn(g, n, k) = EndIn(file, n, k - 1) + Swap(h.sh_size)
    <3>1. AddsHeader(file, g, n, k, h)
      BY <2>4 DEF AddsHeader
    <3> QED BY <2>2, <3>1, HeaderAppended
  <2>6. section_offs = EndIn(file, n, k - 1)
    BY <1>9, <2>4
  <2> QED BY <1>9, <2>1, <2>3, <2>5, <2>6
<1>11. \A j \in 1..it : SizeIn(file', j) = Size(j)'
  <2>1. \A j \in 1..Len(sections) : Size(j)' = Size(j)
    BY <1>1, <1>2, SizesKept
  <2>2. \A j \in 1..it : j \in 1..Len(sections) /\ (j \in 1..(it - 1) \/ j = it)
    BY <1>1
  <2> QED BY <1>5, <1>10, <2>1, <2>2
<1>12. pos' = Start(it + 1) /\ pos' \in Nat /\ section_offs' \in Nat
  <2>1. pos' = pos + 40 /\ pos = 52 + 40 * it
    BY <1>4, <1>5 DEF Start, EhdrSize, ShdrSize
  <2>2. Start(it + 1) = 52 + 40 * (it + 1)
    BY DEF Start, EhdrSize, ShdrSize
  <2>3. it \in Nat /\ pos \in Nat /\ section_offs' \in Nat
    BY <1>1, <1>4, <1>8
  <2> QED BY <2>1, <2>2, <2>3
<1>13. sh_name' \in Nat
  <2>1. sections[it].name \in AllStrings
    BY <1>1, SectionTypes_ DEF ObjectSection, AllStrings
  <2> QED BY <1>1, <1>4, <2>1, StrSizeAssumption
<1>14. WriterTypeOK'
  BY <1>1, <1>2, <1>6, <1>10, <1>12, <1>13, SMTT(30) DEF WriterInv, WriterTypeOK
<1>15. Progress'
  <2>1. WellFormed(file', Len(sections') + 1) /\ file'.ehdr.e_shoff = Swap(EhdrSize)
    BY <1>2, <1>5, <1>6, <1>7, <1>10
  <2>2. Len(file'.shdrs) = it' /\ file'.bodies = << >> /\ pos' = Start(it')
    BY <1>1, <1>6, <1>10, <1>12
  <2>3. section_offs' = EndIn(file', Len(sections') + 1, it' - 1)
    <3>1. it' - 1 = it /\ Len(sections') + 1 = n
      BY <1>1, <1>2, <1>7
    <3> QED BY <1>4, <1>10, <3>1
  <2>4. \A j \in 1..(Len(file'.shdrs) - 1) : SizeIn(file', j) = Size(j)'
    <3>1. Len(file'.shdrs) - 1 = it
      BY <1>1, <1>10
    <3> QED BY <1>11, <3>1
  <2> QED BY <1>1, <2>1, <2>2, <2>3, <2>4 DEF Progress
<1> QED BY <1>1, <1>2, <1>6, <1>14, <1>15 DEF WriterInv, FileShape

LEMMA HeadersDoneInv == WriterInv /\ HeadersDone => WriterInv'
<1> SUFFICES ASSUME WriterInv, HeadersDone PROVE WriterInv'
  OBVIOUS
<1>1. /\ wpc = "headers" /\ wpc' = "bodies" /\ it > Len(sections) /\ it' = 1
      /\ UNCHANGED <<vars, section_offs, sh_name, header, file, pos, writes>>
      /\ Len(sections) \in Nat
  BY LenProperties DEF HeadersDone, WriterInv, TypeInv, ObjectTypeOK
<1>2. TypeInv' /\ UNCHANGED <<sections, tables>>
  BY <1>1 DEF WriterInv, TypeInv, ObjectTypeOK, vars, tables
<1>3. /\ it = Len(sections) + 1 /\ Len(file.shdrs) = it /\ file.bodies = << >>
      /\ pos = Start(it) /\ file.ehdr.e_shoff = Swap(EhdrSize)
      /\ WellFormed(file, Len(sections) + 1)
      /\ \A j \in 1..(Len(file.shdrs) - 1) : SizeIn(file, j) = Size(j)
  BY <1>1 DEF WriterInv, WriterTypeOK, Progress
<1>4. pos = EndIn(file, Len(sections) + 1, 0) /\ Len(file.bodies) = 0
  BY <1>3, EmptySeq DEF EndIn
<1>5. \A j \in 1..(Len(file.shdrs) - 1) : Size(j)' = Size(j)
  BY <1>1, <1>2, <1>3, SizesKept DEF WriterInv
<1>6. Progress'
  BY <1>1, <1>2, <1>3, <1>4, <1>5 DEF Progress
<1>7. WriterTypeOK'
  BY <1>1, <1>2 DEF WriterInv, WriterTypeOK
<1> QED BY <1>1, <1>2, <1>6, <1>7 DEF WriterInv, FileShape

LEMMA WriteBodyInv == WriterInv /\ WriteBody => WriterInv'
<1> SUFFICES ASSUME WriterInv, WriteBody PROVE WriterInv'
  OBVIOUS
<1>1. /\ wpc = "bodies" /\ it \in 1..Len(sections) /\ it' = it + 1
      /\ UNCHANGED <<vars, wpc, section_offs, sh_name, header, writes>>
      /\ Len(sections) \in Nat /\ TypeInv /\ pos \in Nat
  BY LenProperties DEF WriteBody, WriterInv, WriterTypeOK, TypeInv, ObjectTypeOK
<1>2. TypeInv' /\ UNCHANGED <<sections, tables>>
  BY <1>1 DEF TypeInv, ObjectTypeOK, vars, tables
<1>3. /\ Len(file.shdrs) = Len(sections) + 1 /\ Len(file.bodies) = it - 1
      /\ pos = EndIn(file, Len(sections) + 1, it - 1)
      /\ file.ehdr.e_shoff = Swap(EhdrSize)
      /\ WellFormed(file, Len(sections) + 1)
      /\ \A j \in 1..Len(sections) : SizeIn(file, j) = Size(j)
  BY <1>1 DEF WriterInv, Progress
<1>4. Written(it) = Size(it) /\ Size(it) \in Nat
  BY <1>1, WrittenIsSize, SizeType
<1>5. /\ file' = [file EXCEPT !.bodies = Append(@, [at |-> pos, len |-> Size(it)])]
      /\ pos' = pos + Size(it)
  BY <1>4 DEF WriteBody
<1>6. file' = [ehdr |-> file.ehdr, shdrs |-> file.shdrs,
               bodies |-> Append(file.bodies, [at |-> pos, len |-> Size(it)])]
  BY <1>5 DEF WriterInv, FileShape
<1>7. PICK n \in Nat : n = Len(sections) + 1
  BY <1>1
<1>8. /\ WellFormed(file', n) /\ Len(file'.bodies) = it
      /\ EndIn(file', n, it) = pos + Size(it)
  <2>1. PICK k \in Nat : k = it
    BY <1>1
  <2>2. PICK at : at = pos
    OBVIOUS
  <2>3. PICK len : len = Size(it)
    OBVIOUS
  <2>6. PICK g : g = file'
    OBVIOUS
  <2>4. /\ WellFormed(file, n) /\ Len(file.shdrs) = n /\ Len(file.bodies) = k - 1
        /\ k >= 1 /\ k < n /\ g.shdrs = file.shdrs
        /\ g.bodies = Append(file.bodies, [at |-> at, len |-> len])
        /\ at = EndIn(file, n, k - 1) /\ len = SizeIn(file, k)
    BY <1>1, <1>3, <1>6, <1>7, <2>1, <2>2, <2>3, <2>6
  <2>5. /\ WellFormed(g, n) /\ Len(g.bodies) = k
        /\ EndIn(g, n, k) = at + len
    <3>1. AddsBody(file, g, n, k, at, len)
      BY <2>4 DEF AddsBody
    <3> QED BY <3>1, BodyAppended
  <2> QED BY <2>1, <2>2, <2>3, <2>5, <2>6
<1>9. \A j \in 1..Len(sections) : SizeIn(file', j) = Size(j)'
  <2>1. \A j \in 1..Len(sections) : Size(j)' = Size(j)
    BY <1>1, <1>2, SizesKept
  <2>2. \A j \in 1..Len(sections) : SizeIn(file', j) = SizeIn(file, j)
    BY <1>6 DEF SizeIn
  <2> QED BY <1>3, <2>1, <2>2
<1>10. Progress'
  <2>1. WellFormed(file', Len(sections') + 1) /\ file'.ehdr.e_shoff = Swap(EhdrSize)
    BY <1>2, <1>3, <1>6, <1>7, <1>8
  <2>2. Len(file'.shdrs) = Len(sections') + 1 /\ Len(file'.bodies) = it' - 1
    BY <1>1, <1>2, <1>3, <1>6, <1>8
  <2>3. pos' = EndIn(file', Len(sections') + 1, it' - 1)
    <3>1. it' - 1 = it /\ Len(sections') + 1 = n
      BY <1>1, <1>2, <1>7
    <3> QED BY <1>5, <1>8, <3>1
  <2>4. \A j \in 1..(Len(file'.shdrs) - 1) : SizeIn(file', j) = Size(j)'
    <3>1. Len(file'.shdrs) - 1 = Len(sections)
      BY <1>1, <1>3, <1>6
    <3> QED BY <1>9, <3>1
  <2> QED BY <1>1, <2>1, <2>2, <2>3, <2>4 DEF Progress
<1>11. WriterTypeOK'
  <2>1. pos' \in Nat
    BY <1>1, <1>4, <1>5
  <2>2. Len(file'.bodies) < Len(file'.shdrs) /\ Len(file'.shdrs) <= Len(sections') + 1
    BY <1>1, <1>2, <1>3, <1>6, <1>8
  <2> QED BY <1>1, <1>2, <2>1, <2>2 DEF WriterInv, WriterTypeOK
<1> QED BY <1>1, <1>2, <1>6, <1>10, <1>11 DEF WriterInv, FileShape

LEMMA WriteDoneInv == WriterInv /\ WriteDone => WriterInv'
<1> SUFFICES ASSUME WriterInv, WriteDone PROVE WriterInv'
  OBVIOUS
<1>1. /\ wpc = "bodies" /\ wpc' = "idle" /\ writes' = writes + 1
      /\ UNCHANGED <<vars, it, section_offs, sh_name, header, file, pos>>
  BY DEF WriteDone
<1>2. TypeInv' /\ UNCHANGED sections
  BY <1>1 DEF WriterInv, TypeInv, ObjectTypeOK, vars, tables
<1>3. writes' \in 0..MaxWrites
  BY <1>1, MaxWritesAssumption DEF WriterInv, WriterTypeOK
<1>4. WellFormed(file, Len(file.shdrs))
  BY <1>1 DEF WriterInv, Progress
<1> QED BY <1>1, <1>2, <1>3, <1>4 DEF WriterInv, WriterTypeOK, Progress, FileShape

LEMMA WriterNextInv == WriterInv /\ [WriterNext]_allVars => WriterInv'
<1>1. WriterInv /\ UNCHANGED allVars => WriterInv'
  <2> SUFFICES ASSUME WriterInv, UNCHANGED allVars PROVE WriterInv'
    OBVIOUS
  <2>1. UNCHANGED <<sections, tables, wpc, it, section_offs, sh_name, header, file, pos,
                    writes>>
    BY DEF allVars, vars, writerVars
  <2>2. TypeInv'
    BY DEF WriterInv, TypeInv, ObjectTypeOK, allVars, vars, tables
  <2>3. WriterTypeOK'
    BY <2>1 DEF WriterInv, WriterTypeOK
  <2>4. \A j \in 1..Len(sections) : Size(j)' = Size(j)
    BY <2>1, SizesKept DEF WriterInv
  <2>5. wpc \in {"headers", "bodies"} =>
          \A j \in 1..(Len(file.shdrs) - 1) : j \in 1..Len(sections)
    <3>1. /\ Len(file.shdrs) <= Len(sections) + 1
          /\ Len(sections) \in Nat /\ Len(file.shdrs) \in Nat
      BY LenProperties DEF WriterInv, WriterTypeOK, TypeInv, ObjectTypeOK, Progress, WellFormed
    <3> QED BY <3>1
  <2>6. Progress'
    BY <2>1, <2>4, <2>5 DEF WriterInv, Progress
  <2> QED BY <2>1, <2>2, <2>3, <2>6 DEF WriterInv, FileShape
<1> QED BY <1>1, ChangeObjectInv, WriteFileHeaderInv, WriteNullHeaderInv,
           WriteSectionHeaderInv, HeadersDoneInv, WriteBodyInv, WriteDoneInv
        DEF WriterNext

LEMMA WriterInvHolds == WriterSpec => []WriterInv
BY WriterInitInv, WriterNextInv, PTL DEF WriterSpec

(* The writer's variables keep their types: its loop stays within the        *)
(* sections, and no more headers and bodies are written than there are       *)
(* sections (elf_writer.cpp:20-84).                                          *)
THEOREM WriterTypeCorrect == WriterSpec => []WriterTypeOK
<1>1. WriterInv => WriterTypeOK
  BY DEF WriterInv
<1> QED BY <1>1, WriterInvHolds, PTL

LEMMA BodiesWhereDeclaredInv == WriterInv => BodiesWhereDeclared
<1> SUFFICES ASSUME WriterInv, NEW i \in DOMAIN file.bodies
             PROVE  /\ file.bodies[i].at = Swap(file.shdrs[i + 1].sh_offset)
                    /\ file.bodies[i].len = Swap(file.shdrs[i + 1].sh_size)
  BY DEF BodiesWhereDeclared
<1>1. \E n : WellFormed(file, n)
  BY DEF WriterInv, Progress
<1>2. DOMAIN file.bodies = 1..Len(file.bodies)
  BY <1>1, LenProperties DEF WellFormed
<1> QED BY <1>1, <1>2 DEF WellFormed, OffsetIn, SizeIn

(* A reader that follows a section header finds the body of that section, in *)
(* every file, also one written after the object has grown                   *)
(* (elf_writer.cpp:50-84).                                                   *)
THEOREM BodiesWhereDeclaredCorrect == WriterSpec => []BodiesWhereDeclared
BY BodiesWhereDeclaredInv, WriterInvHolds, PTL

LEMMA FileLayoutInv == WriterInv => FileLayout
<1> SUFFICES ASSUME WriterInv PROVE FileLayout
  OBVIOUS
<1>1. Len(sections) \in Nat /\ it \in Nat
  BY LenProperties DEF WriterInv, WriterTypeOK, TypeInv, ObjectTypeOK
<1>2. wpc # "idle" => Swap(file.ehdr.e_shoff) = EhdrSize
  BY DEF WriterInv, Progress, Swap, EhdrSize
<1>3. wpc # "idle" => pos >= Start(Len(file.shdrs))
  <2>1. CASE wpc = "null"
    BY <2>1, EmptySeq DEF WriterInv, Progress, Start, EhdrSize, ShdrSize
  <2>2. CASE wpc = "headers"
    BY <1>1, <2>2 DEF WriterInv, Progress, Start, EhdrSize, ShdrSize
  <2>3. CASE wpc = "bodies"
    <3>1. PICK n \in Nat : n = Len(sections) + 1
      BY <1>1
    <3>2. PICK k \in Nat : k = it - 1
      BY <1>1 DEF WriterInv, WriterTypeOK
    <3>3. /\ WellFormed(file, n) /\ Len(file.shdrs) = n /\ k < n
          /\ pos = EndIn(file, n, k)
      BY <1>1, <2>3, <3>1, <3>2 DEF WriterInv, Progress, WriterTypeOK
    <3> QED BY <3>3, EndType
  <2> QED BY <2>1, <2>2, <2>3 DEF WriterInv, WriterTypeOK
<1>4. ASSUME NEW i \in DOMAIN file.bodies
      PROVE  /\ file.bodies[i].at >= EhdrSize + ShdrSize * Len(file.shdrs)
             /\ i > 1 => file.bodies[i].at = file.bodies[i - 1].at + file.bodies[i - 1].len
  <2>1. WellFormed(file, Len(file.shdrs))
    <3>1. wpc \in {"null", "headers"} => DOMAIN file.bodies = {}
      BY DEF WriterInv, Progress
    <3>2. wpc = "idle" \/ wpc = "bodies"
      BY <3>1 DEF WriterInv, WriterTypeOK
    <3> QED BY <3>2 DEF WriterInv, Progress
  <2>2. i \in 1..Len(file.bodies) /\ i \in 1..(Len(file.shdrs) - 1)
    BY <2>1, LenProperties DEF WellFormed
  <2>3. /\ file.bodies[i].at = OffsetIn(file, i)
        /\ OffsetIn(file, i) >= Start(Len(file.shdrs))
        /\ OffsetIn(file, i) = EndIn(file, Len(file.shdrs), i - 1)
    BY <2>1, <2>2 DEF WellFormed
  <2>4. i > 1 => i - 1 \in 1..Len(file.bodies) /\ i - 1 # 0
    BY <2>2
  <2>5. i > 1 => /\ file.bodies[i - 1].at = OffsetIn(file, i - 1)
                 /\ file.bodies[i - 1].len = SizeIn(file, i - 1)
    BY <2>1, <2>4 DEF WellFormed
  <2> QED BY <2>3, <2>4, <2>5 DEF EndIn, Start
<1>5. wpc # "idle" => Swap(file.ehdr.e_shoff) + ShdrSize * Len(file.shdrs) <= pos
  <2>1. Len(file.shdrs) \in Nat /\ pos \in Nat
    BY LenProperties DEF WriterInv, WriterTypeOK, Progress, WellFormed
  <2> QED BY <1>2, <1>3, <2>1 DEF Start, EhdrSize, ShdrSize
<1> QED BY <1>4, <1>5 DEF FileLayout

(* The section header table is where the file header says, and no body       *)
(* overlaps it or another body (elf_writer.cpp:39, 50).                      *)
THEOREM FileLayoutCorrect == WriterSpec => []FileLayout
BY FileLayoutInv, WriterInvHolds, PTL

----------------------------------------------------------------------------
(* The section name table's header *)

(* Until the writer swaps it, the type of the first section's header is what *)
(* the constructor made it; in the first file, e_shstrndx was found by it    *)
(* and the header itself holds it.                                           *)
FirstFile ==
    /\ wpc \in {"idle", "null"} \/ (wpc = "headers" /\ it = 1)
         => sections[1].sh_type = SHT_STRTAB
    /\ wpc # "idle" => file.ehdr.e_shstrndx = Swap(1)
    /\ wpc \in {"headers", "bodies"} /\ Len(file.shdrs) >= 2
         => file.shdrs[2].sh_type = Swap(SHT_STRTAB)

ShstrndxInv == WriterInv /\ (writes = 0 => FirstFile)

LEMMA ShstrNdxIsFirst ==
  ASSUME TypeInv, sections[1].sh_type = SHT_STRTAB
  PROVE  ShstrNdx = 1
<1> DEFINE S == {i \in DOMAIN sections : sections[i].sh_type = SHT_STRTAB}
<1>1. S \subseteq Nat /\ 1 \in S /\ \A i \in S : i >= 1
  BY LenProperties DEF TypeInv, ObjectTypeOK
<1>2. ShstrNdx = IF S = {} THEN Len(sections) + 1 ELSE Min(S)
  BY DEF ShstrNdx
<1> HIDE DEF S
<1>3. Min(S) \in S /\ \A i \in S : Min(S) <= i
  BY <1>1, LeastNat DEF Min
<1> QED BY <1>1, <1>2, <1>3

LEMMA ShstrndxInitInv == WriterInit => ShstrndxInv
<1> SUFFICES ASSUME WriterInit PROVE FirstFile
  BY WriterInitInv DEF ShstrndxInv
<1>1. sections[1].sh_type = SHT_STRTAB
  BY DEF WriterInit, Init, InitialSections, Section
<1> QED BY <1>1 DEF WriterInit, FirstFile

LEMMA ShstrndxNextInv == ShstrndxInv /\ [WriterNext]_allVars => ShstrndxInv'
<1> SUFFICES ASSUME ShstrndxInv, [WriterNext]_allVars, writes' = 0 PROVE FirstFile'
  BY WriterNextInv DEF ShstrndxInv
<1>1. /\ Len(sections) \in Nat /\ Len(sections) >= 8 /\ TypeInv /\ it \in 1..(Len(sections) + 1)
      /\ WriterInv /\ writes \in Nat
  BY LenProperties, MaxWritesAssumption
     DEF ShstrndxInv, WriterInv, WriterTypeOK, TypeInv, ObjectTypeOK
<1>2. CASE ChangeObject
  <2>1. wpc = "idle" /\ writes = 0 /\ wpc' = "idle"
    BY <1>2 DEF ChangeObject, writerVars
  <2>2. sections'[1].sh_type = sections[1].sh_type
    BY <1>1, <1>2, NamesStay DEF ChangeObject
  <2> QED BY <2>1, <2>2 DEF ShstrndxInv, FirstFile
<1>3. CASE WriteFileHeader
  <2>1. wpc = "idle" /\ writes = 0 /\ wpc' = "null" /\ UNCHANGED sections
    BY <1>3 DEF WriteFileHeader, vars
  <2>2. sections[1].sh_type = SHT_STRTAB
    BY <2>1 DEF ShstrndxInv, FirstFile
  <2>3. file'.ehdr = header' /\ header' = [f \in DOMAIN FileHeader |-> Swap(FileHeader[f])]
    BY <1>3 DEF WriteFileHeader, NoFile
  <2>4. "e_shstrndx" \in DOMAIN FileHeader /\ FileHeader.e_shstrndx = 1
    BY <1>1, <2>2, ShstrNdxIsFirst DEF FileHeader
  <2>5. file'.ehdr.e_shstrndx = Swap(1)
    <3> HIDE DEF FileHeader
    <3> QED BY <2>3, <2>4
  <2> QED BY <2>1, <2>2, <2>5 DEF FirstFile
<1>4. CASE WriteNullHeader
  <2>1. /\ wpc = "null" /\ writes = 0 /\ wpc' = "headers" /\ UNCHANGED sections
        /\ file' = [file EXCEPT !.shdrs = << NullHeader >>]
    BY <1>4 DEF WriteNullHeader, NullHeaderWritten, vars
  <2>2. file'.ehdr = file.ehdr /\ Len(file'.shdrs) = 1
    <3> HIDE DEF NullHeader
    <3> QED BY <1>1, <2>1 DEF WriterInv, FileShape
  <2> QED BY <2>1, <2>2 DEF ShstrndxInv, FirstFile
<1>5. CASE WriteSectionHeader
  <2>1. /\ wpc = "headers" /\ wpc' = "headers" /\ writes = 0 /\ it \in 1..Len(sections)
        /\ it' = it + 1 /\ Len(file.shdrs) = it /\ sh_name \in Int /\ section_offs \in Int
        /\ sections' = [sections EXCEPT ![it] = SwappedSection(it)]
        /\ UNCHANGED <<tables, curr_section, curr_rel_idx, outcome, defined>>
        /\ file.shdrs \in Seq(SectionHeader)
    BY <1>1, <1>5 DEF WriteSectionHeader, WriterInv, WriterTypeOK, Progress, WellFormed
  <2>2. PICK h \in SectionHeader : h = HeaderOf(SwappedSection(it))
    BY <1>1, <2>1, HeaderSwapped
  <2>3. h.sh_type = -sections[it].sh_type
    BY <1>1, <2>1, <2>2, HeaderSwapped
  <2>4. file'.ehdr = file.ehdr /\ file'.shdrs = Append(file.shdrs, h)
    BY <1>1, <1>5, <2>2 DEF WriteSectionHeader, WriterInv, FileShape
  <2>5. file'.shdrs[2].sh_type = Swap(SHT_STRTAB)
    <3>1. CASE it = 1
      <4>1. sections[1].sh_type = SHT_STRTAB
        BY <2>1, <3>1 DEF ShstrndxInv, FirstFile
      <4>2. file'.shdrs[2] = h
        BY <2>1, <2>4, <3>1, AppendProperties
      <4> QED BY <2>3, <3>1, <4>1, <4>2 DEF Swap
    <3>2. CASE it # 1
      <4>1. Len(file.shdrs) >= 2
        BY <2>1, <3>2
      <4>2. file.shdrs[2].sh_type = Swap(SHT_STRTAB)
        BY <2>1, <4>1 DEF ShstrndxInv, FirstFile
      <4>3. file'.shdrs[2] = file.shdrs[2]
        BY <2>1, <2>4, <4>1, AppendProperties
      <4> QED BY <4>2, <4>3
    <3> QED BY <3>1, <3>2
  <2>6. it # 0 /\ it' # 1
    BY <2>1
  <2> QED BY <2>1, <2>4, <2>5, <2>6 DEF ShstrndxInv, FirstFile
<1>6. CASE HeadersDone
  <2>1. /\ wpc = "headers" /\ wpc' = "bodies" /\ writes = 0 /\ UNCHANGED file
    BY <1>6 DEF HeadersDone
  <2> QED BY <2>1 DEF ShstrndxInv, FirstFile
<1>7. CASE WriteBody
  <2>1. /\ wpc = "bodies" /\ wpc' = "bodies" /\ writes = 0
        /\ file'.ehdr = file.ehdr /\ file'.shdrs = file.shdrs
    BY <1>1, <1>7 DEF WriteBody, WriterInv, FileShape
  <2> QED BY <2>1 DEF ShstrndxInv, FirstFile
<1>8. CASE WriteDone
  BY <1>1, <1>8 DEF WriteDone
<1>9. CASE UNCHANGED allVars
  BY <1>9 DEF ShstrndxInv, FirstFile, allVars, vars, writerVars
<1> QED BY <1>2, <1>3, <1>4, <1>5, <1>6, <1>7, <1>8, <1>9 DEF WriterNext

LEMMA ShstrndxTrueInv == ShstrndxInv => ShstrndxTrue
<1> SUFFICES ASSUME ShstrndxInv, Complete, writes = 0
             PROVE  /\ Swap(file.ehdr.e_shstrndx) = 1
                    /\ Swap(file.shdrs[2].sh_type) = SHT_STRTAB
  BY DEF ShstrndxTrue, shstrtab_idx
<1>1. wpc = "bodies" /\ Len(file.shdrs) >= 2
  BY LenProperties DEF ShstrndxInv, WriterInv, Progress, Complete, TypeInv, ObjectTypeOK
<1> QED BY <1>1 DEF ShstrndxInv, FirstFile, Swap, SHT_STRTAB

(* In the first file written, the file header leads to the section name      *)
(* table: e_shstrndx counts the null header, and the header it leads to has  *)
(* the type of a string table (elf_writer.cpp:25-26, 40-43).                 *)
THEOREM ShstrndxCorrect == WriterSpec => []ShstrndxTrue
BY ShstrndxTrueInv, ShstrndxInitInv, ShstrndxNextInv, PTL DEF WriterSpec

----------------------------------------------------------------------------
(* Section names in the file *)

(* Each string of a table begins after the terminating byte of the one       *)
(* before it.                                                                *)
LEMMA OffsetFirst ==
  ASSUME NEW strs
  PROVE  Offset(strs, 1) = 0
<1>1. SubSeq(strs, 1, 1 - 1) = << >>
  BY SubSeqEmpty
<1> DEFINE f == [k \in DOMAIN << >> |-> StrSize(<< >>[k]) + 1]
<1>2. DOMAIN f = {}
  OBVIOUS
<1> HIDE DEF f
<1>3. SumFunction(f) = 0
  BY <1>2, SumEmpty
<1> QED BY <1>1, <1>3 DEF Offset, StrTabSize, f

LEMMA OffsetNext ==
  ASSUME NEW strs \in Seq(AllStrings), NEW k \in 1..Len(strs), NEW n \in Nat, n = k + 1
  PROVE  /\ Offset(strs, k) \in Nat
         /\ Offset(strs, n) = Offset(strs, k) + StrSize(strs[k]) + 1
<1>1. \A i \in 1..Len(strs) : strs[i] \in AllStrings /\ StrSize(strs[i]) \in Nat
  BY ElementOfSeq, StrSizeAssumption
<1>2. PICK j \in Nat : j = k - 1
  OBVIOUS
<1>3. Len(strs) \in Nat /\ k \in Nat /\ k = j + 1 /\ k <= Len(strs)
  BY <1>2, LenProperties
<1>4. PICK s : s = SubSeq(strs, 1, j)
  OBVIOUS
<1>5. PICK t : t = SubSeq(strs, 1, k)
  OBVIOUS
<1>6. s \in Seq(AllStrings) /\ Len(s) = j /\ \A i \in 1..j : s[i] = strs[i]
  <2>1. \A i \in 1..j : strs[i] \in AllStrings
    BY <1>1, <1>3
  <2>2. /\ SubSeq(strs, 1, j) \in Seq(AllStrings)
        /\ Len(SubSeq(strs, 1, j)) = IF 1 <= j THEN j - 1 + 1 ELSE 0
        /\ \A i \in 1..(j - 1 + 1) : SubSeq(strs, 1, j)[i] = strs[1 + i - 1]
    BY <2>1, SubSeqProperties
  <2> QED BY <1>4, <2>2
<1>7. t \in Seq(AllStrings) /\ Len(t) = k /\ \A i \in 1..k : t[i] = strs[i]
  <2>1. \A i \in 1..k : strs[i] \in AllStrings
    BY <1>1, <1>3
  <2>2. /\ SubSeq(strs, 1, k) \in Seq(AllStrings)
        /\ Len(SubSeq(strs, 1, k)) = IF 1 <= k THEN k - 1 + 1 ELSE 0
        /\ \A i \in 1..(k - 1 + 1) : SubSeq(strs, 1, k)[i] = strs[1 + i - 1]
    BY <2>1, SubSeqProperties
  <2> QED BY <1>5, <2>2
<1> DEFINE f == [i \in DOMAIN s |-> StrSize(s[i]) + 1]
           h == [i \in DOMAIN t |-> StrSize(t[i]) + 1]
<1>8. IsSeqOfSize(f, j) /\ IsSeqOfSize(h, k) /\ \A i \in 1..j : h[i] = f[i]
  <2>1. DOMAIN s = 1..j /\ DOMAIN t = 1..k
    BY <1>6, <1>7, LenProperties
  <2>2. \A i \in 1..k : StrSize(strs[i]) + 1 \in Nat
    BY <1>1, <1>3
  <2>3. \A i \in 1..j : i \in 1..k
    BY <1>3
  <2>4. DOMAIN f = 1..j /\ \A i \in 1..j : f[i] = StrSize(strs[i]) + 1
    BY <1>6, <2>1
  <2>5. DOMAIN h = 1..k /\ \A i \in 1..k : h[i] = StrSize(strs[i]) + 1
    BY <1>7, <2>1
  <2> HIDE DEF f, h
  <2> QED BY <2>2, <2>3, <2>4, <2>5 DEF IsSeqOfSize
<1>9. h[k] = StrSize(strs[k]) + 1
  BY <1>3, <1>7, LenProperties
<1> HIDE DEF f, h
<1>10. SumFunction(h) = SumFunction(f) + h[k]
  BY <1>3, <1>8, SumNext
<1>11. SumFunction(f) \in Nat
  BY <1>8, SumType
<1>12. Offset(strs, k) = SumFunction(f)
  BY <1>2, <1>4 DEF Offset, StrTabSize, f
<1>13. Offset(strs, n) = SumFunction(h)
  <2>1. n - 1 = k
    BY <1>3
  <2> QED BY <1>5, <2>1 DEF Offset, StrTabSize, h
<1> QED BY <1>1, <1>9, <1>10, <1>11, <1>12, <1>13

NoRel(i) == \A j \in 1..i : sections[j].type # "REL"

(* Up to the first relocation section, the running sh_name is where the      *)
(* name of the next section starts in the table, and the headers written     *)
(* hold it.                                                                  *)
NameIn(f, j) == Swap(f.shdrs[j + 1].sh_name)
NamesProgress ==
    /\ wpc = "headers" /\ NoRel(it - 1) => sh_name = Offset(shstrings, it + 1)
    /\ wpc \in {"headers", "bodies"} =>
         \A j \in 1..(Len(file.shdrs) - 1) :
           NoRel(j) => NameIn(file, j) = Offset(shstrings, j + 1)

FileNamesInv == WriterInv /\ NamesFacts /\ NamesProgress

LEMMA PlaceOfAll ==
  ASSUME NEW i \in Nat, \A j \in 1..i : sections[j].type # "REL"
  PROVE  PlaceIn(sections, i) = i
<1>1. {j \in 1..i : sections[j].type # "REL"} = 1..i
  OBVIOUS
<1>2. Cardinality(1..i) = i
  <2>1. 1 \in Int /\ i \in Int
    OBVIOUS
  <2>2. Cardinality(1..i) = IF 1 > i THEN 0 ELSE i - 1 + 1
    BY <2>1, FS_Interval
  <2> QED BY <2>2
<1> QED BY <1>1, <1>2 DEF PlaceIn

(* A section with no relocation section before it is found in the table at   *)
(* its own place, after the empty string.                                    *)
LEMMA NameAtPlace ==
  ASSUME NamesInv, NEW i \in 1..Len(sections), NoRel(i)
  PROVE  /\ i + 1 \in 1..Len(shstrings) /\ shstrings[i + 1] = sections[i].name
         /\ Len(shstrings) \in Nat /\ i + 1 \in DOMAIN shstrings
<1>1. /\ Len(sections) \in Nat /\ DOMAIN sections = 1..Len(sections)
      /\ Len(shstrings) \in Nat /\ DOMAIN shstrings = 1..Len(shstrings)
  BY LenProperties DEF NamesInv, TypeInv, ObjectTypeOK
<1>2. i \in Nat /\ \A j \in 1..i : sections[j].type # "REL"
  BY <1>1 DEF NoRel
<1>3. PlaceIn(sections, i) = i
  BY <1>2, PlaceOfAll
<1>4. PlaceIn(sections, i) <= PlaceIn(sections, Len(sections))
  BY <1>1, PlaceWithin
<1>5. PlaceIn(sections, Len(sections)) \in Nat
  BY <1>1, PlaceType
<1>6. Len(shstrings) = 1 + PlaceIn(sections, Len(sections))
  BY PlaceIsPlaceIn DEF NamesInv, NamesFacts, SectionNameTable
<1>7. sections[i].type # "REL" /\ i \in DOMAIN sections
  BY <1>1, <1>2
<1>8. shstrings[1 + PlaceIn(sections, i)] = sections[i].name
  BY <1>7, PlaceIsPlaceIn DEF NamesInv, NamesFacts, SectionNameTable, IsRel
<1>9. i + 1 \in 1..Len(shstrings)
  BY <1>1, <1>2, <1>3, <1>4, <1>5, <1>6
<1> QED BY <1>1, <1>2, <1>3, <1>8, <1>9

(* Writing neither renames sections nor changes the table.                   *)
LEMMA NamesWritten ==
  ASSUME WriterInv, NamesFacts, UNCHANGED tables, Len(sections') = Len(sections),
         DOMAIN sections' = DOMAIN sections,
         \A i \in 1..Len(sections) : /\ sections'[i].name = sections[i].name
                                     /\ sections'[i].type = sections[i].type
  PROVE  /\ NamesFacts'
         /\ \A i \in 0..Len(sections) : NoRel(i)' = NoRel(i)
<1>1. NamesInv /\ UNCHANGED shstrings
  BY DEF WriterInv, NamesInv, tables
<1>2. NamesFacts'
  BY <1>1, NamesKept
<1>3. Len(sections) \in Nat
  BY LenProperties DEF WriterInv, TypeInv, ObjectTypeOK
<1> QED BY <1>2, <1>3 DEF NoRel

LEMMA FileNamesNextHeader ==
  FileNamesInv /\ WriteSectionHeader => NamesFacts' /\ NamesProgress'
<1> SUFFICES ASSUME FileNamesInv, WriteSectionHeader
             PROVE  NamesFacts' /\ NamesProgress'
  OBVIOUS
<1>1. /\ WriterInv /\ NamesFacts /\ NamesProgress /\ NamesInv /\ TypeInv
      /\ Len(sections) \in Nat /\ DOMAIN sections = 1..Len(sections)
      /\ shstrings \in Seq(AllStrings)
  BY LenProperties DEF FileNamesInv, WriterInv, NamesInv, TypeInv, ObjectTypeOK
<1>2. /\ wpc = "headers" /\ wpc' = "headers" /\ it \in 1..Len(sections)
      /\ it' = it + 1 /\ Len(file.shdrs) = it /\ sh_name \in Int /\ section_offs \in Int
      /\ sections' = [sections EXCEPT ![it] = SwappedSection(it)]
      /\ UNCHANGED <<tables, curr_section, curr_rel_idx, outcome, defined>>
      /\ UNCHANGED shstrings
      /\ file.shdrs \in Seq(SectionHeader)
      /\ sh_name' = sh_name + StrSize(sections[it].name) + 1
  BY <1>1 DEF WriteSectionHeader, WriterInv, WriterTypeOK, Progress, WellFormed, tables
<1>3. PICK h \in SectionHeader : h = HeaderOf(SwappedSection(it))
  BY <1>1, <1>2, HeaderSwapped
<1>4. h.sh_name = -sh_name
  BY <1>1, <1>2, <1>3, HeaderSwapped
<1>5. /\ Len(sections') = Len(sections) /\ DOMAIN sections' = DOMAIN sections
      /\ \A i \in 1..Len(sections) : /\ sections'[i].name = sections[i].name
                                     /\ sections'[i].type = sections[i].type
  <2>1. TypeInv' /\ Len(sections') = Len(sections)
    BY <1>1, <1>2, HeaderSwapped
  <2>2. DOMAIN sections' = 1..Len(sections')
    BY <2>1, LenProperties DEF TypeInv, ObjectTypeOK
  <2> QED BY <1>1, <1>2, <2>1, <2>2, HeaderSwapped
<1>6. NamesFacts' /\ \A i \in 0..Len(sections) : NoRel(i)' = NoRel(i)
  BY <1>1, <1>2, <1>5, NamesWritten
<1>7. file'.shdrs = Append(file.shdrs, h)
  BY <1>1, <1>3 DEF WriteSectionHeader, WriterInv, FileShape
<1>8. /\ Len(file'.shdrs) = it + 1 /\ file'.shdrs[it + 1] = h
      /\ \A j \in 1..it : file'.shdrs[j] = file.shdrs[j]
  BY <1>2, <1>7, AppendProperties
<1>9. PICK k \in 1..Len(sections) : k = it
  BY <1>2
<1>10. NoRel(k - 1) => sh_name = Offset(shstrings, k + 1)
  BY <1>1, <1>2, <1>9 DEF NamesProgress
<1>11. NoRel(k) => NoRel(k - 1)
  BY <1>1 DEF NoRel
<1>12. NoRel(k) => sh_name' = Offset(shstrings, k + 2)
  <2> SUFFICES ASSUME NoRel(k) PROVE sh_name' = Offset(shstrings, k + 2)
    OBVIOUS
  <2>1. k + 1 \in 1..Len(shstrings) /\ shstrings[k + 1] = sections[k].name
    BY <1>1, NameAtPlace
  <2>2. PICK m \in 1..Len(shstrings) : m = k + 1
    BY <2>1
  <2>3. PICK n \in Nat : n = k + 2
    BY <1>1
  <2>4. n = m + 1
    BY <1>1, <2>2, <2>3
  <2>5. Offset(shstrings, n) = Offset(shstrings, m) + StrSize(shstrings[m]) + 1
    BY <1>1, <2>4, OffsetNext
  <2> QED BY <1>2, <1>9, <1>10, <1>11, <2>1, <2>2, <2>3, <2>5
<1>13. \A j \in 1..k : NoRel(j) => NameIn(file', j) = Offset(shstrings, j + 1)
  <2> SUFFICES ASSUME NEW j \in 1..k, NoRel(j)
               PROVE  NameIn(file', j) = Offset(shstrings, j + 1)
    OBVIOUS
  <2>1. CASE j = k
    BY <1>2, <1>4, <1>8, <1>9, <1>10, <1>11, <2>1 DEF NameIn, Swap
  <2>2. CASE j # k
    <3>1. j \in 1..(k - 1) /\ j + 1 \in 1..k
      BY <1>1, <2>2
    <3>2. NameIn(file, j) = Offset(shstrings, j + 1)
      BY <1>1, <1>2, <1>9, <3>1 DEF NamesProgress
    <3>3. NameIn(file', j) = NameIn(file, j)
      BY <1>8, <1>9, <3>1 DEF NameIn
    <3> QED BY <3>2, <3>3
  <2> QED BY <2>1, <2>2
<1>14. \A j \in 0..k : NoRel(j)' = NoRel(j)
  BY <1>1, <1>6
<1>15. NamesProgress'
  <2>1. it' = k + 1 /\ it' - 1 = k /\ it' + 1 = k + 2 /\ Len(file'.shdrs) - 1 = k
    BY <1>1, <1>2, <1>8, <1>9, SMTT(30)
  <2>2. NoRel(k)' = NoRel(k) /\ \A j \in 1..k : NoRel(j)' = NoRel(j)
    BY <1>1, <1>14
  <2>3. NoRel(it - 1)' => sh_name' = Offset(shstrings', it' + 1)
    <3>1. NoRel(it - 1)' = NoRel(k)'
      BY <2>1 DEF NoRel
    <3> QED BY <1>2, <1>12, <2>1, <2>2, <3>1
  <2>4. \A j \in 1..(Len(file'.shdrs) - 1) :
          NoRel(j)' => NameIn(file', j) = Offset(shstrings', j + 1)
    BY <1>2, <1>13, <2>1, <2>2
  <2> QED BY <1>2, <2>3, <2>4 DEF NamesProgress, Offset, StrTabSize
<1> QED BY <1>6, <1>15

LEMMA FileNamesNext ==
  ASSUME \A s \in NewSections : s.type # "REL",
         \A m, n \in SectionNames : RelName(m) = RelName(n) => m = n
  PROVE  FileNamesInv /\ [WriterNext]_allVars => FileNamesInv'
<1> SUFFICES ASSUME FileNamesInv, [WriterNext]_allVars PROVE NamesFacts' /\ NamesProgress'
  BY WriterNextInv DEF FileNamesInv
<1>1. /\ WriterInv /\ NamesFacts /\ NamesProgress /\ NamesInv /\ TypeInv
      /\ Len(sections) \in Nat /\ DOMAIN sections = 1..Len(sections)
      /\ shstrings \in Seq(AllStrings)
  BY LenProperties DEF FileNamesInv, WriterInv, NamesInv, TypeInv, ObjectTypeOK
<1>2. ASSUME UNCHANGED vars
      PROVE  /\ NamesFacts' /\ UNCHANGED <<sections, shstrings>>
             /\ \A i : NoRel(i)' = NoRel(i)
  <2>1. UNCHANGED <<sections, shstrings, tables>>
    BY <1>2 DEF vars, tables
  <2> QED BY <1>1, <2>1, NamesWritten DEF NoRel
<1>3. CASE ChangeObject
  <2>1. NamesFacts'
    BY <1>1, <1>3, NextNames DEF ChangeObject
  <2>2. wpc' = "idle"
    BY <1>3 DEF ChangeObject, writerVars
  <2> QED BY <2>1, <2>2 DEF NamesProgress
<1>4. CASE WriteFileHeader
  <2>1. UNCHANGED vars /\ wpc' = "null"
    BY <1>4 DEF WriteFileHeader
  <2> QED BY <1>2, <2>1 DEF NamesProgress
<1>5. CASE WriteNullHeader
  <2>1. /\ UNCHANGED vars /\ wpc' = "headers" /\ it' = 1 /\ sh_name' = 1
        /\ file' = [file EXCEPT !.shdrs = << NullHeader >>]
    BY <1>5 DEF WriteNullHeader, NullHeaderWritten
  <2>2. Len(file'.shdrs) = 1
    <3> HIDE DEF NullHeader
    <3> QED BY <1>1, <2>1 DEF WriterInv, FileShape
  <2>3. Offset(shstrings, 2) = 1
    <3>1. shstrings[1] = EmptyString /\ 1 \in 1..Len(shstrings)
      <4>1. Len(shstrings) = 1 + PlaceIn(sections, Len(sections))
        BY <1>1, PlaceIsPlaceIn DEF NamesFacts, SectionNameTable
      <4>2. PlaceIn(sections, Len(sections)) \in Nat
        BY <1>1, PlaceType
      <4> QED BY <1>1, <4>1, <4>2 DEF NamesFacts, SectionNameTable
    <3>2. PICK k \in 1..Len(shstrings) : k = 1
      BY <3>1
    <3>3. PICK n \in Nat : n = 2
      OBVIOUS
    <3>4. Offset(shstrings, n) = Offset(shstrings, k) + StrSize(shstrings[k]) + 1
      BY <1>1, <3>2, <3>3, OffsetNext
    <3> HIDE DEF EmptyString
    <3> QED BY <3>1, <3>2, <3>3, <3>4, OffsetFirst, EmptyStringAssumption
  <2>4. NamesProgress'
    <3>1. sh_name' = Offset(shstrings', it' + 1)
      BY <1>2, <2>1, <2>3
    <3> QED BY <2>1, <2>2, <3>1 DEF NamesProgress, Offset, StrTabSize
  <2> QED BY <1>2, <2>1, <2>4
<1>6. CASE WriteSectionHeader
  BY <1>6, FileNamesNextHeader
<1>7. CASE HeadersDone
  <2>1. UNCHANGED <<vars, file>> /\ wpc = "headers" /\ wpc' = "bodies"
    BY <1>7 DEF HeadersDone
  <2> QED BY <1>1, <1>2, <2>1 DEF NamesProgress, NameIn, Offset, StrTabSize
<1>8. CASE WriteBody
  <2>1. /\ UNCHANGED vars /\ wpc = "bodies" /\ wpc' = "bodies"
        /\ file'.shdrs = file.shdrs
    BY <1>1, <1>8 DEF WriteBody, WriterInv, FileShape
  <2> QED BY <1>1, <1>2, <2>1 DEF NamesProgress, NameIn, Offset, StrTabSize
<1>9. CASE WriteDone
  <2>1. UNCHANGED vars /\ wpc' = "idle"
    BY <1>9 DEF WriteDone
  <2> QED BY <1>2, <2>1 DEF NamesProgress
<1>10. CASE UNCHANGED allVars
  <2>1. UNCHANGED <<vars, file, wpc, it, sh_name>>
    BY <1>10 DEF allVars, writerVars
  <2> QED BY <1>1, <1>2, <2>1 DEF NamesProgress, NameIn, Offset, StrTabSize
<1> QED BY <1>3, <1>4, <1>5, <1>6, <1>7, <1>8, <1>9, <1>10 DEF WriterNext

LEMMA FileNamesInit == WriterInit => FileNamesInv
BY WriterInitInv, InitNames DEF FileNamesInv, WriterInit, NamesProgress

LEMMA NamesResolveInv == FileNamesInv => NamesResolve
<1> SUFFICES ASSUME FileNamesInv, Complete, NEW i \in DOMAIN sections,
                    \A j \in 1..i : sections[j].type # "REL"
             PROVE  StringAt(shstrings, NameIn(file, i), sections[i].name)
  BY DEF NamesResolve, NameIn
<1>1. /\ NamesInv /\ wpc = "bodies" /\ i \in 1..Len(sections) /\ NoRel(i)
      /\ Len(file.shdrs) = Len(sections) + 1 /\ Len(sections) \in Nat
  BY LenProperties
     DEF FileNamesInv, WriterInv, NamesInv, TypeInv, ObjectTypeOK, Complete, Progress, NoRel
<1>2. NameIn(file, i) = Offset(shstrings, i + 1)
  BY <1>1 DEF FileNamesInv, NamesProgress
<1>3. i + 1 \in DOMAIN shstrings /\ shstrings[i + 1] = sections[i].name
  BY <1>1, NameAtPlace
<1> QED BY <1>2, <1>3 DEF StringAt

(* sh_name of every header up to the first relocation section leads to the   *)
(* name of that section, in every file and however the object has grown      *)
(* between them, where relocation sections are only made by add_section's    *)
(* relocatable argument and "rel" tells names apart (elf_writer.cpp:28-29,   *)
(* 58-66).                                                                   *)
THEOREM NamesResolveCorrect ==
  ASSUME \A s \in NewSections : s.type # "REL",
         \A m, n \in SectionNames : RelName(m) = RelName(n) => m = n
  PROVE  WriterSpec => []NamesResolve
<1>1. FileNamesInv /\ [WriterNext]_allVars => FileNamesInv'
  BY FileNamesNext
<1> QED BY <1>1, FileNamesInit, NamesResolveInv, PTL DEF WriterSpec

-----------------------------------------------------------------------------
(* The writer and the abstract object file *)

(* The headers are filled in and swapped, and nothing of what a caller sees *)
(* of the object is different afterwards.                                   *)
LEMMA HeaderRefines ==
  ASSUME WriterInv, ObjectInv, WriteSectionHeader
  PROVE  ObjectInv' /\ UNCHANGED Object!vars
<1>1. /\ TypeInv /\ it \in 1..Len(sections) /\ sh_name \in Int /\ section_offs \in Int
      /\ sections' = [sections EXCEPT ![it] = SwappedSection(it)]
      /\ UNCHANGED <<tables, curr_section, curr_rel_idx, outcome, defined>>
  BY DEF WriteSectionHeader, WriterInv, WriterTypeOK
<1>2. /\ TypeInv' /\ Len(sections') = Len(sections)
      /\ \A i \in 1..Len(sections) : /\ sections'[i].name = sections[i].name
                                     /\ sections'[i].data = sections[i].data
  BY <1>1, HeaderSwapped
<1>3. /\ Len(sections) \in Nat /\ DOMAIN sections = 1..Len(sections)
      /\ DOMAIN sections' = 1..Len(sections')
      /\ curr_section \in 0..(Len(sections) - 1)
  BY <1>1, <1>2, LenProperties DEF TypeInv, ObjectTypeOK
<1>4. \A i \in 0..(Len(sections) - 1) : Nth(sections', i).name = Nth(sections, i).name
  BY <1>2, <1>3 DEF Nth
<1>5. UNCHANGED <<strings, symbols, symbol_names>>
  BY <1>1 DEF tables
<1>6. SymbolTableConsistent' /\ SymbolsBound'
  BY <1>1, <1>2, <1>5
     DEF ObjectInv, SymbolInv, BoundInv, SymbolTableConsistent, SymbolsBound
<1>7. IsFirst(sections', curr_section')
  <2>1. PICK c \in 0..(Len(sections) - 1) : c = curr_section /\ c = curr_section'
    BY <1>1, <1>3
  <2>2. /\ c \in 0..(Len(sections) - 1)
        /\ \A j \in 0..(c - 1) : Nth(sections, j).name # Nth(sections, c).name
    BY <2>1 DEF ObjectInv, IsFirst
  <2>3. \A j \in 0..(c - 1) : Nth(sections', j).name # Nth(sections', c).name
    <3> SUFFICES ASSUME NEW j \in 0..(c - 1)
                 PROVE  Nth(sections', j).name # Nth(sections', c).name
      OBVIOUS
    <3>1. j \in 0..(Len(sections) - 1)
      <4>1. PICK n \in Nat : n = Len(sections)
        BY <1>3
      <4>2. c \in 0..(n - 1)
        BY <2>2, <4>1
      <4>3. j \in 0..(n - 1)
        BY <4>2
      <4> QED
        BY <4>1, <4>3
    <3> QED
      BY <1>4, <2>2, <3>1
  <2> QED
    BY <1>2, <2>1, <2>2, <2>3 DEF IsFirst
<1>8. ObjectInv'
  BY <1>2, <1>6, <1>7 DEF ObjectInv, SymbolInv, BoundInv
<1>9. SectionContent' = SectionContent
  <2>1. ContentIn(sections') = ContentIn(sections)
    BY <1>2, <1>3, ContentKept
  <2> QED
    BY <1>1, <1>2, <2>1, SectionContentIs, SectionContentIsNext
<1>10. SymbolContent' = SymbolContent
  <2>1. SymbolInv /\ SymbolInv'
    BY <1>8 DEF ObjectInv
  <2> QED
    BY <1>1, <1>2, <1>3, <1>5, <2>1, SymbolsUnchanged
<1>11. Nth(sections', curr_section').name = Nth(sections, curr_section).name
  BY <1>1, <1>3, <1>4
<1> QED
  BY <1>8, <1>9, <1>10, <1>11 DEF Object!vars

LEMMA WriterStepRefines ==
  ASSUME MaxSections <= ShndxMod, WriterInv, ObjectInv, [WriterNext]_allVars
  PROVE  ObjectInv' /\ [Object!Next]_Object!vars
<1>1. ASSUME [Next]_vars
      PROVE  ObjectInv' /\ [Object!Next]_Object!vars
  <2>1. ObjectInv'
    BY <1>1, NextObjectInv
  <2> QED
    BY <1>1, <2>1, NextRefines
<1>2. WriteSectionHeader \/ [Next]_vars
  BY DEF WriterNext, ChangeObject, WriteFileHeader, WriteNullHeader, NullHeaderWritten,
         HeadersDone, WriteBody, WriteDone, allVars
<1> QED
  BY <1>1, <1>2, HeaderRefines

(* An object that is written, and written again after it has grown, is for  *)
(* its callers the object it would be without the writer: the bytes of the  *)
(* sections, the symbols and the current section are not the writer's to    *)
(* change, although it keeps its headers in the object (elf_writer.cpp:     *)
(* 33-84).                                                                  *)
THEOREM WriterImplementsObjectFile ==
  ASSUME 8 <= ShndxMod, MaxSections <= ShndxMod
  PROVE  WriterInit /\ [][WriterNext]_allVars => ObjectSpec
<1>1. WriterInv /\ ObjectInv /\ [WriterNext]_allVars
        => ObjectInv' /\ [Object!Next]_Object!vars
  BY WriterStepRefines
<1>2. WriterInit => Init
  BY DEF WriterInit
<1> QED
  BY <1>1, <1>2, WriterInitInv, WriterNextInv, InitObjectInv, InitRefines, PTL
     DEF ObjectSpec, Object!Spec

=============================================================================
