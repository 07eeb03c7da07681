-------------------------- MODULE ElfReader_proofs --------------------------
(***************************************************************************)
(* Theorems of ElfReader, for all files that FilesAssumption allows.       *)
(***************************************************************************)
EXTENDS ElfReader, Lemmas

SectionPlace == [offset : Nat, size : Nat]

(* What is known of a file when a step of read has been taken, and what a   *)
(* file that is refused lacks.                                              *)
HeaderTaken == ElfOf32Bits /\ EHDR <= input.length
TableTaken ==
    /\ HeaderTaken /\ input.order = "host" /\ TableEnd <= input.length
    /\ strhdr = NameTable
FirstTaken ==
    /\ TableTaken /\ Byte(NameTable.offset) = NUL
    /\ pos = NameTable.offset + 1 + i /\ pos <= input.length /\ i <= NameTable.size
Lacking ==
    \/ ~ElfOf32Bits \/ input.order # "host"
    \/ input.length < EHDR \/ input.length < TableEnd
    \/ Section(1) # << NUL >>
    \/ NameTable.offset + NameTable.size >= input.length

(* The inductive invariant: the position is that of the part of the file    *)
(* that is read next.                                                       *)
ReaderInv ==
    /\ input \in Files
    /\ at \in {"header", "table", "names", "char", "done", "refused"}
    /\ pos \in Nat /\ i \in Nat /\ strhdr \in SectionPlace /\ i <= strhdr.size
    /\ \A k \in DOMAIN curr : curr[k] # NUL
    /\ curr \in Seq({Byte(p) : p \in Nat})
    /\ section_names \in Seq(Seq({Byte(p) : p \in Nat}))
    /\ at = "header" => pos = 0 /\ i = 0 /\ curr = << >> /\ section_names = << >>
    /\ at = "table" => /\ HeaderTaken /\ pos = Host32(input.shoff)
                       /\ i = 0 /\ curr = << >> /\ section_names = << >>
    /\ at = "names" => /\ TableTaken /\ pos = NameTable.offset
                       /\ i = 0 /\ curr = << >> /\ section_names = << >>
    /\ at = "char" => FirstTaken
    /\ at = "done" => FirstTaken /\ i = NameTable.size
    /\ at = "refused" => Lacking

LEMMA SwapType ==
  ASSUME NEW x \in Nat
  PROVE  Swap16(x) \in Nat /\ Swap32(x) \in Nat
<1>1. \A y \in Nat : Swap16(y) \in Nat
  BY DEF Swap16
<1>2. x % 65536 \in Nat /\ x \div 65536 \in Nat
  OBVIOUS
<1>3. Swap16(x % 65536) \in Nat /\ Swap16(x \div 65536) \in Nat
  BY <1>1, <1>2
<1> QED BY <1>1, <1>3 DEF Swap32

(* The table of names of a file is a place, and its first byte is the byte  *)
(* there.                                                                   *)
LEMMA FileTypes ==
  ASSUME input \in Files
  PROVE  /\ input.length \in Nat /\ input.base \in Nat /\ input.shoff \in Nat
         /\ input.shnum \in Nat /\ input.shstrndx \in 0..(input.shnum - 1)
         /\ NameTable \in SectionPlace /\ TableEnd \in Nat
         /\ Host32(input.shoff) \in Nat
         /\ Host16(SHDR) * Host16(input.shnum) \in Nat
         /\ input.order = "host" =>
              /\ Host32(input.shoff) = input.shoff
              /\ Host32(input.shoff) + Host16(SHDR) * Host16(input.shnum) = TableEnd
              /\ input.shtab[Host16(input.shstrndx) + 1] = NameTable
         /\ input.order # "host" => input.length < Host16(SHDR) * Host16(input.shnum)
<1>0. PICK f \in Files : f = input
  OBVIOUS
<1>1. /\ f.length \in Nat /\ f.base \in Nat /\ f.shoff \in Nat
      /\ f.shnum \in Nat /\ f.shstrndx \in 0..(f.shnum - 1)
      /\ f.shnum <= Len(f.shtab) /\ f.shtab \in Seq(SectionPlace)
      /\ f.order # "host" => f.length < Swap16(SHDR) * Swap16(f.shnum)
  BY FilesAssumption DEF SectionPlace
<1>2. f.shnum \in Nat /\ f.shtab[f.shstrndx + 1] \in SectionPlace
  <2>1. PICK n \in Nat, k \in Nat, t \in Seq(SectionPlace) :
           n = f.shnum /\ k = f.shstrndx /\ t = f.shtab /\ k < n /\ n <= Len(t)
    BY <1>1
  <2>2. t[k + 1] \in SectionPlace
    BY <2>1
  <2> QED BY <2>1, <2>2
<1>3. SHDR \in Nat /\ SHDR = 40
  BY DEF SHDR
<1>4. Swap16(SHDR) \in Nat /\ Swap16(f.shnum) \in Nat /\ Swap32(f.shoff) \in Nat
  BY <1>1, <1>2, <1>3, SwapType
<1>5. f.shoff + SHDR * f.shnum \in Nat
  BY <1>1, <1>2, <1>3
<1>6. Host16(SHDR) \in Nat /\ Host16(f.shnum) \in Nat /\ Host32(f.shoff) \in Nat
  BY <1>1, <1>2, <1>3, <1>4 DEF Host16, Host32
<1>7. Host16(SHDR) * Host16(f.shnum) \in Nat
  BY <1>6
<1>8. input.order = "host" =>
              /\ Host32(input.shoff) = input.shoff
              /\ Host32(input.shoff) + Host16(SHDR) * Host16(input.shnum) = TableEnd
              /\ input.shtab[Host16(input.shstrndx) + 1] = NameTable
  BY DEF Host16, Host32, TableEnd, NameTable
<1>9. f.order # "host" => f.length < Host16(SHDR) * Host16(f.shnum)
  BY <1>0, <1>1 DEF Host16
<1> QED BY <1>0, <1>1, <1>2, <1>5, <1>6, <1>7, <1>8, <1>9 DEF TableEnd, NameTable

LEMMA FirstByte ==
  ASSUME input \in Files
  PROVE  Section(1) = << NUL >> <=> Byte(NameTable.offset) = NUL
<1>1. PICK o \in Nat : o = NameTable.offset
  BY FileTypes DEF SectionPlace
<1>2. Section(1) = [k \in 1..1 |-> Byte(o + k - 1)]
  BY <1>1 DEF Section
<1>3. Section(1) = << Byte(o) >>
  <2>1. \A k \in 1..1 : Byte(o + k - 1) = Byte(o)
    <3> SUFFICES ASSUME NEW k \in 1..1 PROVE Byte(o + k - 1) = Byte(o)
      OBVIOUS
    <3>1. o + k - 1 = o
      BY <1>1
    <3> QED BY <3>1
  <2>2. Section(1) = [k \in 1..1 |-> Byte(o)]
    BY <1>2, <2>1
  <2> QED BY <2>2
<1> QED BY <1>1, <1>3

LEMMA ReaderInitInv == ReaderInit => ReaderInv
<1> SUFFICES ASSUME ReaderInit PROVE ReaderInv
  OBVIOUS
<1>1. strhdr \in SectionPlace /\ strhdr.size = 0
  BY DEF ReaderInit, SectionPlace
<1> QED BY <1>1 DEF ReaderInit, ReaderInv

LEMMA ReaderNextInv == ReaderInv /\ [ReaderNext]_readerVars => ReaderInv'
<1> SUFFICES ASSUME ReaderInv, [ReaderNext]_readerVars PROVE ReaderInv'
  OBVIOUS
<1>0. input' = input
  BY DEF ReaderNext, ReadHeader, ReadTable, ReadFirst, ReadChar, NamesRead, Refuse,
         readerVars
<1>1. /\ \A p : Byte(p)' = Byte(p)
      /\ NameTable' = NameTable /\ TableEnd' = TableEnd /\ ElfOf32Bits' = ElfOf32Bits
      /\ HeaderTaken' = HeaderTaken
      /\ Section(1)' = Section(1) /\ Host32(input.shoff)' = Host32(input.shoff)
      /\ Lacking' = Lacking
  BY <1>0 DEF Byte, NameTable, TableEnd, ElfOf32Bits, Section, Host32, Lacking, HeaderTaken
<1> DEFINE Bytes == {Byte(p) : p \in Nat}
<1>2. {Byte(p) : p \in Nat}' = Bytes
  BY <1>0 DEF Byte
<1>3. /\ input.length \in Nat /\ NameTable \in SectionPlace /\ TableEnd \in Nat
      /\ NameTable.offset \in Nat /\ NameTable.size \in Nat
  BY FileTypes DEF SectionPlace, ReaderInv
<1>4. /\ input \in Files /\ pos \in Nat /\ i \in Nat
      /\ strhdr \in SectionPlace /\ i <= strhdr.size /\ strhdr.size \in Nat
      /\ \A k \in DOMAIN curr : curr[k] # NUL
      /\ curr \in Seq(Bytes) /\ section_names \in Seq(Seq(Bytes))
  BY DEF ReaderInv, SectionPlace
<1> HIDE DEF Bytes
<1>5. CASE UNCHANGED readerVars
  BY <1>0, <1>1, <1>5 DEF ReaderInv, readerVars, TableTaken, FirstTaken
<1>6. ASSUME Refuse, Lacking PROVE ReaderInv'
  BY <1>0, <1>1, <1>2, <1>4, <1>6 DEF Refuse, ReaderInv
<1>7. CASE ReadHeader
  <2>1. at = "header" /\ pos = 0
    BY <1>7 DEF ReadHeader, ReaderInv
  <2>2. CASE Has(EHDR) /\ Known
    <3>1. HeaderTaken
      BY <2>1, <2>2, <1>3 DEF Has, EHDR, Known, HeaderTaken, ElfOf32Bits
    <3>2. /\ at' = "table" /\ pos' = Host32(input.shoff)
          /\ UNCHANGED <<input, strhdr, i, curr, section_names>>
      BY <1>7, <2>2 DEF ReadHeader, Refuse
    <3>3. pos' \in Nat
      BY <1>4, <3>2, FileTypes
    <3>4. i = 0 /\ curr = << >> /\ section_names = << >>
      BY <2>1 DEF ReaderInv
    <3> QED BY <1>1, <1>2, <1>4, <3>1, <3>2, <3>3, <3>4 DEF ReaderInv
  <2>3. CASE ~(Has(EHDR) /\ Known)
    <3>1. Lacking
      BY <1>3, <2>1, <2>3 DEF Has, EHDR, Known, Lacking, ElfOf32Bits
    <3> QED BY <1>6, <1>7, <2>3, <3>1 DEF ReadHeader
  <2> QED BY <2>2, <2>3
<1>8. CASE ReadTable
  <2>1. /\ at = "table" /\ HeaderTaken /\ pos = Host32(input.shoff)
        /\ i = 0 /\ curr = << >> /\ section_names = << >>
    BY <1>8 DEF ReadTable, ReaderInv
  <2>2. PICK size \in Nat : size = Host16(SHDR) * Host16(input.shnum)
    BY <1>4, FileTypes
  <2>3. CASE Has(size)
    <3>1. pos + size <= input.length
      BY <2>3 DEF Has
    <3>2. input.order = "host"
      BY <1>3, <1>4, <2>2, <3>1, FileTypes, SMTT(30)
    <3>3. TableEnd <= input.length /\ input.shtab[Host16(input.shstrndx) + 1] = NameTable
      BY <1>4, <2>1, <2>2, <3>1, <3>2, FileTypes
    <3>4. /\ at' = "names" /\ strhdr' = NameTable /\ pos' = NameTable.offset
          /\ UNCHANGED <<input, i, curr, section_names>>
      BY <1>8, <2>2, <2>3, <3>3 DEF ReadTable, Refuse
    <3>5. TableTaken'
      BY <1>0, <1>1, <2>1, <3>2, <3>3, <3>4 DEF TableTaken
    <3> QED BY <1>1, <1>2, <1>3, <1>4, <2>1, <3>4, <3>5 DEF ReaderInv
  <2>4. CASE ~Has(size)
    <3>1. Lacking
      <4>1. input.length < pos + size
        BY <1>3, <1>4, <2>4 DEF Has
      <4> QED BY <1>4, <2>1, <2>2, <4>1, FileTypes DEF Lacking
    <3> QED BY <1>6, <1>8, <2>2, <2>4, <3>1 DEF ReadTable
  <2> QED BY <2>3, <2>4
<1>9. CASE ReadFirst
  <2>1. /\ at = "names" /\ TableTaken /\ pos = NameTable.offset
        /\ i = 0 /\ curr = << >> /\ section_names = << >>
    BY <1>9 DEF ReadFirst, ReaderInv
  <2>2. CASE Has(1) /\ Byte(pos) = NUL
    <3>1. /\ at' = "char" /\ pos' = pos + 1
          /\ UNCHANGED <<input, strhdr, i, curr, section_names>>
      BY <1>9, <2>2 DEF ReadFirst, Refuse
    <3>2. FirstTaken'
      <4>1. TableTaken'
        BY <1>0, <1>1, <2>1, <3>1 DEF TableTaken
      <4>2. pos + 1 <= input.length
        BY <2>2 DEF Has
      <4> QED BY <1>0, <1>1, <1>3, <2>1, <2>2, <3>1, <4>1, <4>2 DEF FirstTaken
    <3> QED BY <1>1, <1>2, <1>4, <3>1, <3>2 DEF ReaderInv
  <2>3. CASE ~(Has(1) /\ Byte(pos) = NUL)
    <3>1. Lacking
      BY <1>3, <1>4, <2>1, <2>3, FirstByte DEF Has, Lacking
    <3> QED BY <1>6, <1>9, <2>3, <3>1 DEF ReadFirst
  <2> QED BY <2>2, <2>3
<1>10. CASE ReadChar
  <2>1. at = "char" /\ FirstTaken /\ i < strhdr.size /\ strhdr = NameTable
    BY <1>10 DEF ReadChar, ReaderInv, FirstTaken, TableTaken
  <2>2. pos = NameTable.offset + 1 + i
    BY <2>1 DEF FirstTaken
  <2>3. CASE Has(1)
    <3>1. /\ pos' = pos + 1 /\ i' = i + 1 /\ UNCHANGED <<input, at, strhdr>>
          /\ \/ Byte(pos) = NUL /\ EndName(Append(curr, Byte(pos)))
             \/ /\ Byte(pos) # NUL /\ curr' = Append(curr, Byte(pos))
                /\ UNCHANGED section_names
      BY <1>10, <2>3 DEF ReadChar, Refuse
    <3>2. FirstTaken'
      <4>1. TableTaken'
        BY <1>0, <1>1, <2>1, <3>1 DEF FirstTaken, TableTaken
      <4>2. pos + 1 <= input.length
        BY <2>3 DEF Has
      <4>3. Byte(NameTable.offset)' = NUL
        BY <1>1, <2>1 DEF FirstTaken
      <4>4. i + 1 <= NameTable.size
        BY <1>3, <1>4, <2>1
      <4>5. pos + 1 = NameTable.offset + 1 + (i + 1)
        <5>1. PICK o \in Nat : o = NameTable.offset
          BY <1>3
        <5>2. (o + 1 + i) + 1 = o + 1 + (i + 1)
          BY <1>4
        <5> QED BY <2>2, <5>1, <5>2
      <4> QED BY <1>0, <1>1, <3>1, <4>1, <4>2, <4>3, <4>4, <4>5 DEF FirstTaken
    <3>3. Byte(pos) \in Bytes
      BY <1>4 DEF Bytes
    <3>4. Append(curr, Byte(pos)) \in Seq(Bytes)
      BY <1>4, <3>3, AppendProperties
    <3>5. /\ curr' \in Seq(Bytes) /\ section_names' \in Seq(Seq(Bytes))
          /\ \A k \in DOMAIN curr' : curr'[k] # NUL
      <4>1. CASE Byte(pos) = NUL
        <5>1. curr' = << >> /\ section_names' = Append(section_names, Append(curr, Byte(pos)))
          BY <3>1, <4>1 DEF EndName
        <5>2. section_names' \in Seq(Seq(Bytes))
          BY <1>4, <3>4, <5>1, AppendProperties
        <5> QED BY <5>1, <5>2
      <4>2. CASE Byte(pos) # NUL
        <5>1. curr' = Append(curr, Byte(pos)) /\ section_names' = section_names
          BY <3>1, <4>2
        <5>2. /\ DOMAIN curr = 1..Len(curr) /\ Len(curr) \in Nat
              /\ DOMAIN curr' = 1..(Len(curr) + 1)
              /\ \A k \in 1..Len(curr) : curr'[k] = curr[k]
              /\ curr'[Len(curr) + 1] = Byte(pos)
          BY <1>4, <3>3, <3>4, <5>1, AppendProperties, LenProperties
        <5> QED BY <1>4, <3>4, <4>2, <5>1, <5>2
      <4> QED BY <4>1, <4>2
    <3>6. at' = "char" /\ i' \in Nat /\ i' <= strhdr'.size /\ pos' \in Nat /\ strhdr' \in SectionPlace
      BY <1>4, <2>1, <3>1
    <3> QED BY <1>0, <1>2, <1>4, <3>2, <3>5, <3>6 DEF ReaderInv
  <2>4. CASE ~Has(1)
    <3>1. Lacking
      <4>1. input.length < pos + 1
        BY <1>3, <1>4, <2>4 DEF Has
      <4> QED BY <1>3, <1>4, <2>1, <2>2, <4>1 DEF Lacking
    <3> QED BY <1>6, <1>10, <2>4, <3>1 DEF ReadChar
  <2> QED BY <2>3, <2>4
<1>11. CASE NamesRead
  <2>1. /\ at = "char" /\ FirstTaken /\ i = NameTable.size /\ at' = "done"
        /\ UNCHANGED <<input, pos, strhdr, i, curr, section_names>>
    BY <1>11 DEF NamesRead, ReaderInv, FirstTaken, TableTaken
  <2>2. FirstTaken'
    BY <1>0, <1>1, <2>1 DEF FirstTaken, TableTaken
  <2> QED BY <1>1, <1>2, <1>4, <2>1, <2>2 DEF ReaderInv
<1> QED BY <1>5, <1>7, <1>8, <1>9, <1>10, <1>11 DEF ReaderNext

LEMMA ReaderInvHolds == ReaderSpec => []ReaderInv
<1> QED BY ReaderInitInv, ReaderNextInv, PTL DEF ReaderSpec

(* The reader stays inside the file while it reads names, and begins each   *)
(* of them anew (elf_reader.cpp:96-109).                                    *)
THEOREM ReaderTypeCorrect == ReaderSpec => []ReaderTypeOK
<1>1. ReaderInv => ReaderTypeOK
  BY DEF ReaderInv, ReaderTypeOK, FirstTaken, SectionPlace
<1> QED BY <1>1, ReaderInvHolds, PTL

(* Which files are read and which are refused, for files of any length, any *)
(* number of sections and any name table (elf_reader.cpp:21-100).           *)
THEOREM ReadsExactlyCorrect == ReaderSpec => []ReadsExactly
<1>1. ReaderInv => ReadsExactly
  <2> SUFFICES ASSUME ReaderInv PROVE ReadsExactly
    OBVIOUS
  <2>1. /\ input \in Files /\ input.length \in Nat
        /\ NameTable.offset \in Nat /\ NameTable.size \in Nat
    BY FileTypes DEF ReaderInv, SectionPlace
  <2>2. ASSUME at = "done"
        PROVE  /\ ElfOf32Bits /\ input.order = "host" /\ TableEnd <= input.length
               /\ Section(1) = << NUL >>
               /\ NameTable.offset + NameTable.size < input.length
    <3>1. FirstTaken /\ i = NameTable.size
      BY <2>2 DEF ReaderInv
    <3>2. NameTable.offset + 1 + NameTable.size <= input.length
      BY <3>1 DEF FirstTaken
    <3>3. NameTable.offset + NameTable.size < input.length
      BY <2>1, <3>2
    <3> QED BY <2>1, <3>1, <3>3, FirstByte DEF FirstTaken, TableTaken, HeaderTaken
  <2>3. at = "refused" => Lacking
    BY DEF ReaderInv
  <2> QED BY <2>2, <2>3 DEF ReadsExactly, Lacking
<1> QED BY <1>1, ReaderInvHolds, PTL

-----------------------------------------------------------------------------
(* The names in a table, as the table grows *)

LEMMA NulsType ==
  ASSUME NEW B, NEW t \in Seq(B)
  PROVE  /\ Nuls(t) \in Seq(1..Len(t)) /\ Len(t) \in Nat
         /\ Nuls(<< >>) = << >>
<1>1. Len(t) \in Nat /\ DOMAIN t = 1..Len(t)
  BY LenProperties
<1> DEFINE S == {k \in DOMAIN t : t[k] = NUL}
<1>2. S \subseteq 1..Len(t)
  BY <1>1
<1> HIDE DEF S
<1>3. InOrder(S) \in Seq(S)
  BY <1>1, <1>2, InOrderType
<1>4. InOrder(S) \in Seq(1..Len(t))
  BY <1>2, <1>3, SeqMonotone
<1>5. Nuls(t) = InOrder(S)
  BY DEF Nuls, S
<1>6. Nuls(<< >>) = << >>
  <2>1. {k \in DOMAIN << >> : << >>[k] = NUL} = {}
    OBVIOUS
  <2> QED BY <2>1, InOrderEmpty DEF Nuls
<1> QED BY <1>1, <1>4, <1>5, <1>6

LEMMA NulsAppend ==
  ASSUME NEW B, NEW t \in Seq(B), NEW b \in B
  PROVE  Nuls(Append(t, b)) = IF b = NUL THEN Append(Nuls(t), Len(t) + 1) ELSE Nuls(t)
<1> DEFINE S == {k \in DOMAIN t : t[k] = NUL}
           u == Append(t, b)
           U == {k \in DOMAIN u : u[k] = NUL}
<1>1. PICK n \in Nat : n = Len(t) /\ DOMAIN t = 1..n
  BY LenProperties
<1>2. /\ DOMAIN u = 1..(n + 1) /\ u[n + 1] = b
      /\ \A k \in 1..n : u[k] = t[k]
  BY <1>1, AppendProperties, LenProperties
<1> HIDE DEF u
<1>3. S \subseteq 1..n
  BY <1>1
<1>4. CASE b = NUL
  <2>1. U = S \cup {n + 1}
    <3>1. U \subseteq S \cup {n + 1}
      <4> SUFFICES ASSUME NEW k \in U, k # n + 1 PROVE k \in S
        OBVIOUS
      <4>1. k \in 1..n
        BY <1>2
      <4> QED BY <1>1, <1>2, <4>1
    <3>2. S \cup {n + 1} \subseteq U
      BY <1>1, <1>2, <1>4
    <3> QED BY <3>1, <3>2
  <2>2. PICK x \in Nat : x = n + 1 /\ n < x
    OBVIOUS
  <2> HIDE DEF S, U
  <2>3. InOrder(S \cup {x}) = Append(InOrder(S), x)
    BY <1>3, <2>2, InOrderAdd
  <2>4. Nuls(u) = InOrder(U) /\ Nuls(t) = InOrder(S)
    BY DEF Nuls, S, U
  <2> QED BY <1>1, <1>4, <2>1, <2>2, <2>3, <2>4 DEF u
<1>5. CASE b # NUL
  <2>1. U = S
    <3>1. U \subseteq S
      <4> SUFFICES ASSUME NEW k \in U PROVE k \in S
        OBVIOUS
      <4>1. k \in 1..n
        BY <1>2, <1>5
      <4> QED BY <1>1, <1>2, <4>1
    <3>2. S \subseteq U
      BY <1>1, <1>2
    <3> QED BY <3>1, <3>2
  <2> HIDE DEF S, U
  <2>2. Nuls(u) = InOrder(U) /\ Nuls(t) = InOrder(S)
    BY DEF Nuls, S, U
  <2> QED BY <1>5, <2>1, <2>2 DEF u
<1> QED BY <1>4, <1>5

(* A table that has begun: what follows its last NUL is a name's beginning.  *)
Begun(t) == SubSeq(t, Last(Nuls(t)) + 1, Len(t))

LEMMA NamesAppend ==
  ASSUME NEW B, NEW t \in Seq(B), NEW b \in B, Len(Nuls(t)) >= 1
  PROVE  /\ Len(Nuls(Append(t, b))) >= 1
         /\ Len(NamesIn(t)) = Len(Nuls(t)) - 1
         /\ NamesIn(t) \in Seq(Seq(B)) /\ Begun(t) \in Seq(B)
         /\ b # NUL => /\ NamesIn(Append(t, b)) = NamesIn(t)
                       /\ Begun(Append(t, b)) = Append(Begun(t), b)
         /\ b = NUL => /\ NamesIn(Append(t, b)) = Append(NamesIn(t), Append(Begun(t), b))
                       /\ Begun(Append(t, b)) = << >>
<1>1. PICK n \in Nat, u \in Seq(B), c \in Nat, m \in Seq(1..Len(t)) :
        /\ n = Len(t) /\ m \in Seq(1..n) /\ u = Append(t, b) /\ m = Nuls(t) /\ c = Len(m) /\ 1 <= c
  BY NulsType, LenProperties, AppendProperties
<1>2. /\ Len(u) = n + 1 /\ u[n + 1] = b /\ \A k \in 1..n : u[k] = t[k]
      /\ \A k \in 1..n : t[k] \in B
  BY <1>1, AppendProperties, LenProperties
<1>3. \A k \in 1..c : m[k] \in 1..n
  BY <1>1, LenProperties
<1>4. PICK p \in 1..n : p = m[c] /\ p = Last(Nuls(t))
  BY <1>1, <1>3 DEF Last
<1>5. \A j, k \in Nat : 1 <= j /\ k <= n => SubSeq(u, j, k) = SubSeq(t, j, k) /\ SubSeq(t, j, k) \in Seq(B)
  <2> SUFFICES ASSUME NEW j \in Nat, NEW k \in Nat, 1 <= j, k <= n
               PROVE  SubSeq(u, j, k) = SubSeq(t, j, k) /\ SubSeq(t, j, k) \in Seq(B)
    OBVIOUS
  <2>1. j \in Int /\ k \in Int /\ \A x \in j..k : u[x] = t[x] /\ t[x] \in B
    <3>1. \A x \in j..k : x \in 1..n
      OBVIOUS
    <3> QED BY <1>2, <3>1
  <2> QED BY <2>1, SubSeqSame, SubSeqProperties
<1>6. PICK g \in Seq(B) : g = Begun(t) /\ g = SubSeq(t, p + 1, n) /\ g = SubSeq(u, p + 1, n)
  <2>1. Begun(t) = SubSeq(t, p + 1, n)
    BY <1>1, <1>4 DEF Begun
  <2>2. PICK q \in Nat : q = p + 1 /\ 1 <= q
    BY <1>4
  <2>3. SubSeq(u, q, n) = SubSeq(t, q, n) /\ SubSeq(t, q, n) \in Seq(B)
    <3>1. n <= n /\ n \in Nat
      OBVIOUS
    <3> QED BY <1>5, <2>2, <3>1, Zenon
  <2> QED BY <2>1, <2>2, <2>3
<1>7. SubSeq(u, p + 1, n + 1) = Append(g, b)
  <2>1. PICK q \in Nat, j \in Nat : q = p + 1 /\ j = n + 1 /\ 1 <= q /\ q <= j /\ j <= Len(u)
    BY <1>2, <1>4
  <2>2. SubSeq(u, q, j) = Append(SubSeq(u, q, n), u[j])
    BY <2>1, SubSeqNext, ZenonT(40)
  <2> QED BY <1>2, <1>6, <2>1, <2>2
<1> DEFINE names == [k \in 1..(c - 1) |-> SubSeq(t, m[k] + 1, m[k + 1])]
<1>8. NamesIn(t) = names
  BY <1>1 DEF NamesIn
<1>9. names \in Seq(Seq(B)) /\ Len(names) = c - 1 /\ c - 1 \in Nat
  <2>1. \A k \in 1..(c - 1) : names[k] \in Seq(B)
    <3> SUFFICES ASSUME NEW k \in 1..(c - 1) PROVE SubSeq(t, m[k] + 1, m[k + 1]) \in Seq(B)
      OBVIOUS
    <3>1. k \in 1..c /\ k + 1 \in 1..c
      BY <1>1
    <3>2. m[k] \in 1..n /\ m[k + 1] \in 1..n
      BY <1>3, <3>1
    <3>3. m[k] + 1 \in Nat /\ 1 <= m[k] + 1 /\ m[k + 1] \in Nat /\ m[k + 1] <= n
      BY <3>2, SMTT(30)
    <3> QED BY <1>5, <3>3
  <2>2. c - 1 \in Nat
    BY <1>1
  <2>3. names \in [1..(c - 1) -> Seq(B)]
    BY <2>1
  <2> HIDE DEF names
  <2> QED BY <2>2, <2>3
<1>10. \A k \in 1..(c - 1) : names[k] = SubSeq(u, m[k] + 1, m[k + 1])
  <2> SUFFICES ASSUME NEW k \in 1..(c - 1)
               PROVE  SubSeq(t, m[k] + 1, m[k + 1]) = SubSeq(u, m[k] + 1, m[k + 1])
    OBVIOUS
  <2>1. k \in 1..c /\ k + 1 \in 1..c
    BY <1>1
  <2>2. m[k] \in 1..n /\ m[k + 1] \in 1..n
    BY <1>3, <2>1
  <2>3. m[k] + 1 \in Nat /\ 1 <= m[k] + 1 /\ m[k + 1] \in Nat /\ m[k + 1] <= n
    BY <2>2, SMTT(30)
  <2> QED BY <1>5, <2>3
<1>11. CASE b # NUL
  <2>1. Nuls(u) = m
    BY <1>1, <1>11, NulsAppend
  <2>2. NamesIn(u) = [k \in 1..(c - 1) |-> SubSeq(u, m[k] + 1, m[k + 1])]
    BY <1>1, <2>1 DEF NamesIn
  <2>3. NamesIn(u) = names
    BY <1>10, <2>2
  <2>4. Begun(u) = Append(g, b)
    BY <1>1, <1>2, <1>4, <1>7, <2>1 DEF Begun
  <2> HIDE DEF names
  <2> QED BY <1>1, <1>6, <1>8, <1>9, <1>11, <2>1, <2>3, <2>4
<1>12. CASE b = NUL
  <2>1. PICK v : v = Nuls(u) /\ v = Append(m, n + 1)
    BY <1>1, <1>12, NulsAppend
  <2>2. Len(v) = c + 1 /\ v[c + 1] = n + 1 /\ \A k \in 1..c : v[k] = m[k]
    <3>1. m \in Seq(1..(n + 1)) /\ n + 1 \in 1..(n + 1)
      BY <1>1
    <3> QED BY <1>1, <2>1, <3>1, AppendProperties
  <2>3. NamesIn(u) = [k \in 1..c |-> SubSeq(u, v[k] + 1, v[k + 1])]
    <3>1. NamesIn(u) = [k \in 1..(Len(v) - 1) |-> SubSeq(u, v[k] + 1, v[k + 1])]
      BY <2>1 DEF NamesIn
    <3>2. Len(v) - 1 = c
      BY <2>2
    <3> QED BY <3>1, <3>2
  <2>4. \A k \in 1..c : SubSeq(u, v[k] + 1, v[k + 1])
                          = IF k \in 1..(c - 1) THEN names[k] ELSE Append(g, b)
    <3> SUFFICES ASSUME NEW k \in 1..c
                 PROVE  SubSeq(u, v[k] + 1, v[k + 1])
                          = IF k \in 1..(c - 1) THEN names[k] ELSE Append(g, b)
      OBVIOUS
    <3>1. CASE k \in 1..(c - 1)
      <4>1. v[k] = m[k] /\ v[k + 1] = m[k + 1]
        <5>1. k + 1 \in 1..c
          BY <3>1
        <5> QED BY <2>2, <5>1
      <4>2. names[k] = SubSeq(u, m[k] + 1, m[k + 1])
        BY <1>10, <3>1
      <4> HIDE DEF names
      <4> QED BY <3>1, <4>1, <4>2
    <3>2. CASE k \notin 1..(c - 1)
      <4>1. k = c
        BY <3>2
      <4>2. v[k] = p /\ v[k + 1] = n + 1
        BY <1>4, <2>2, <4>1
      <4> QED BY <1>7, <3>2, <4>2
    <3> QED BY <3>1, <3>2
  <2>5. PICK d \in Nat : d = c - 1 /\ c = d + 1
    BY <1>9
  <2>6. names = [k \in 1..d |-> names[k]]
    BY <2>5
  <2>7. Append(names, Append(g, b))
          = [k \in 1..(d + 1) |-> IF k \in 1..d THEN names[k] ELSE Append(g, b)]
    <3>1. PICK e : e = Append(g, b)
      OBVIOUS
    <3> HIDE DEF names
    <3>2. PICK s : s = names /\ s = [k \in 1..d |-> s[k]]
      BY <2>6
    <3>3. Append(s, e) = [k \in 1..(d + 1) |-> IF k \in 1..d THEN s[k] ELSE e]
      BY <3>2, AppendIs
    <3> QED BY <3>1, <3>2, <3>3
  <2>8. NamesIn(u) = Append(names, Append(g, b))
    <3> HIDE DEF names
    <3>1. NamesIn(u) = [k \in 1..c |-> IF k \in 1..(c - 1) THEN names[k] ELSE Append(g, b)]
      BY <2>3, <2>4, Zenon
    <3> QED BY <2>5, <2>7, <3>1
  <2>9. Begun(u) = << >>
    <3>1. Begun(u) = SubSeq(u, (n + 1) + 1, n + 1)
      BY <1>2, <2>1, <2>2 DEF Begun, Last
    <3>2. PICK a \in Int, z \in Int : a = (n + 1) + 1 /\ z = n + 1 /\ z < a
      OBVIOUS
    <3> QED BY <3>1, <3>2, SubSeqEmpty
  <2> HIDE DEF names
  <2> QED BY <1>1, <1>6, <1>8, <1>9, <1>12, <2>1, <2>2, <2>8, <2>9
<1> QED BY <1>11, <1>12

(* What one byte more adds to the names of a table.                         *)
LEMMA TableNames ==
  ASSUME NEW B, NEW t \in Seq(B), NEW b \in B
  PROVE  LET names == NamesIn(t)
             all == NamesIn(Append(t, b))
         IN /\ IsPrefix(names, all) /\ Len(all) <= Len(names) + 1
            /\ Len(t) > 0 /\ Last(t) = NUL =>
                 SubSeq(all, Len(names) + 1, Len(all)) \in {<< >>, <<<< NUL >>>>}
<1>1. PICK names, all : names = NamesIn(t) /\ all = NamesIn(Append(t, b))
  OBVIOUS
<1>2. CASE Len(Nuls(t)) >= 1
  <2>1. names \in Seq(Seq(B)) /\ Begun(t) \in Seq(B)
    BY <1>1, <1>2, NamesAppend
  <2>2. PICK S : S = Seq(B)
    OBVIOUS
  <2>3. PICK e \in S : e = Append(Begun(t), b)
    BY <2>1, <2>2, AppendProperties
  <2>4. PICK k \in Nat : k = Len(names)
    BY <2>1, <2>2, LenProperties
  <2>5. PICK j \in Nat : j = k + 1
    OBVIOUS
  <2>6. /\ b # NUL => all = names
        /\ b = NUL => all = Append(names, e)
    BY <1>1, <1>2, <2>3, NamesAppend, ZenonT(40)
  <2>7. /\ Len(all) = IF b = NUL THEN j ELSE k
        /\ \A x \in 1..k : all[x] = names[x]
        /\ b = NUL => all[j] = e
    <3>1. names \in Seq(S)
      BY <2>1, <2>2
    <3>2. /\ Len(Append(names, e)) = k + 1
          /\ \A x \in 1..k : Append(names, e)[x] = names[x]
          /\ Append(names, e)[k + 1] = e
      BY <2>4, <3>1, AppendProperties
    <3> QED BY <2>4, <2>5, <2>6, <3>2
  <2>8. IsPrefix(names, all) /\ Len(all) <= k + 1
    <3>1. 1 \in Int /\ k \in Int /\ \A x \in 1..k : names[x] = all[x]
      BY <2>7
    <3>2. SubSeq(names, 1, k) = SubSeq(all, 1, k)
      BY <3>1, SubSeqSame
    <3> QED BY <2>4, <2>5, <2>7, <3>2 DEF IsPrefix
  <2>9. ASSUME Len(t) > 0, Last(t) = NUL
        PROVE  SubSeq(all, k + 1, Len(all)) \in {<< >>, <<<< NUL >>>>}
    <3>1. CASE b # NUL
      <4>1. SubSeq(all, j, k) = << >>
        <5>1. j \in Int /\ k \in Int /\ k < j
          BY <2>5
        <5> QED BY <5>1, SubSeqEmpty
      <4> QED BY <2>5, <2>7, <3>1, <4>1
    <3>2. CASE b = NUL
      <4>1. PICK s \in Seq(B), n \in Nat : t = Append(s, NUL) /\ n = Len(s) /\ Len(t) = n + 1
        <5>1. t # << >>
          BY <2>9
        <5>2. PICK s \in Seq(B), c \in B : t = Append(s, c)
          BY <5>1, SequenceEmptyOrAppend
        <5>3. c = NUL /\ Len(s) \in Nat /\ Len(t) = Len(s) + 1
          BY <2>9, <5>2, AppendProperties, LenProperties DEF Last
        <5> QED BY <5>2, <5>3
      <4>2. Last(Nuls(t)) = n + 1
        <5>1. NUL \in B
          BY <4>1, AppendProperties, LenProperties, <3>2
        <5>2. Nuls(t) = Append(Nuls(s), n + 1)
          BY <4>1, <5>1, NulsAppend
        <5>3. Nuls(s) \in Seq(1..n)
          BY <4>1, NulsType
        <5>4. Nuls(s) \in Seq(1..(n + 1)) /\ n + 1 \in 1..(n + 1)
          BY <5>3
        <5> QED BY <5>2, <5>4, AppendProperties DEF Last
      <4>3. Begun(t) = << >>
        <5>1. PICK x \in Int, y \in Int : x = n + 1 /\ y = x + 1 /\ x < y
          BY <4>1
        <5>2. SubSeq(t, y, x) = << >>
          BY <5>1, SubSeqEmpty
        <5> QED BY <4>1, <4>2, <5>1, <5>2 DEF Begun
      <4>4. e = << NUL >>
        BY <2>3, <3>2, <4>3
      <4>5. SubSeq(all, j, j) = << all[j] >>
        BY <2>5, SubSeqOne
      <4> QED BY <2>5, <2>7, <3>2, <4>4, <4>5
    <3> QED BY <3>1, <3>2
  <2> QED BY <1>1, <2>4, <2>8, <2>9
<1>3. CASE ~(Len(Nuls(t)) >= 1)
  <2>1. PICK m : m = Nuls(t) /\ m = << >>
    BY <1>3, NulsType, LenProperties
  <2>2. names = << >>
    <3>1. Len(m) - 1 = -1
      BY <2>1
    <3>2. NamesIn(t) = [k \in 1..(-1) |-> SubSeq(t, m[k] + 1, m[k + 1])]
      BY <2>1, <3>1 DEF NamesIn
    <3> QED BY <1>1, <3>2
  <2>3. all = << >>
    <3>1. PICK u : u = Nuls(Append(t, b)) /\ (u = << >> \/ u = << Len(t) + 1 >>)
      <4>1. Nuls(Append(t, b)) = IF b = NUL THEN Append(m, Len(t) + 1) ELSE m
        BY <2>1, NulsAppend
      <4> QED BY <2>1, <4>1
    <3>2. PICK d \in {0, -1} : Len(u) - 1 = d
      BY <3>1
    <3>3. NamesIn(Append(t, b)) = [k \in 1..d |-> SubSeq(Append(t, b), u[k] + 1, u[k + 1])]
      BY <3>1, <3>2 DEF NamesIn
    <3> QED BY <1>1, <3>2, <3>3
  <2>4. IsPrefix(<< >>, << >>) /\ SubSeq(<< >>, 1, 0) = << >>
    BY SubSeqEmpty DEF IsPrefix
  <2> QED BY <1>1, <2>2, <2>3, <2>4
<1> QED BY <1>2, <1>3

Bytes == {Byte(p) : p \in Nat}

LEMMA SectionNext ==
  ASSUME input \in Files, NEW n \in Nat, NEW m \in Nat, m = n + 1
  PROVE  /\ Section(n) \in Seq(Bytes) /\ Len(Section(n)) = n
         /\ Byte(NameTable.offset + n) \in Bytes
         /\ Section(m) = Append(Section(n), Byte(NameTable.offset + n))
<1>1. PICK o \in Nat : o = NameTable.offset
  BY FileTypes DEF SectionPlace
<1>2. \A k \in 1..m : o + k - 1 \in Nat
  BY <1>1
<1>3. \A k \in 1..m : Byte(o + k - 1) \in Bytes
  BY <1>2 DEF Bytes
<1> DEFINE s == [k \in 1..n |-> Byte(o + k - 1)]
           t == [k \in 1..m |-> Byte(o + k - 1)]
<1>4. Section(n) = s /\ Section(m) = t
  BY <1>1 DEF Section
<1>5. s \in [1..n -> Bytes]
  BY <1>3
<1>6. s \in Seq(Bytes) /\ Len(s) = n
  <2> HIDE DEF s
  <2> QED BY <1>5
<1>7. t = Append(s, Byte(o + n))
  <2>1. s = [k \in 1..n |-> s[k]]
    OBVIOUS
  <2>2. \A k \in 1..m : Byte(o + k - 1) = IF k \in 1..n THEN s[k] ELSE Byte(o + n)
    <3> SUFFICES ASSUME NEW k \in 1..m
                 PROVE  Byte(o + k - 1) = IF k \in 1..n THEN s[k] ELSE Byte(o + n)
      OBVIOUS
    <3>1. CASE k \in 1..n
      BY <3>1
    <3>2. CASE k \notin 1..n
      <4>1. o + k - 1 = o + n
        BY <1>1, <3>2
      <4>2. Byte(o + k - 1) = Byte(o + n)
        BY <4>1
      <4> HIDE DEF s
      <4> QED BY <3>2, <4>2
    <3> QED BY <3>1, <3>2
  <2>3. PICK e : e = Byte(o + n)
    OBVIOUS
  <2>4. PICK r : r = s
    OBVIOUS
  <2>5. Append(r, e) = [k \in 1..(n + 1) |-> IF k \in 1..n THEN r[k] ELSE e]
    <3> HIDE DEF s
    <3>1. r = [k \in 1..n |-> r[k]]
      BY <2>1, <2>4
    <3> QED BY <3>1, AppendIs
  <2>6. t = [k \in 1..m |-> IF k \in 1..n THEN r[k] ELSE e]
    <3> HIDE DEF s
    <3> QED BY <2>2, <2>3, <2>4, Zenon
  <2> HIDE DEF s, t
  <2> QED BY <2>3, <2>4, <2>5, <2>6
<1>8. Byte(o + n) \in Bytes
  BY <1>1 DEF Bytes
<1> HIDE DEF s, t
<1> QED BY <1>1, <1>4, <1>6, <1>7, <1>8

(* Every byte taken keeps this: the names ended so far are those of the part *)
(* of the table that is read, and the rest of that part is in curr.          *)
NamesInv ==
    at \in {"char", "done"} =>
      /\ Len(Nuls(Section(i + 1))) >= 1
      /\ section_names = NamesIn(Section(i + 1))
      /\ curr = Begun(Section(i + 1))

LEMMA NamesNextInv ==
  ReaderInv /\ NamesInv /\ [ReaderNext]_readerVars => NamesInv'
<1> SUFFICES ASSUME ReaderInv, NamesInv, [ReaderNext]_readerVars PROVE NamesInv'
  OBVIOUS
<1>0. input' = input
  BY DEF ReaderNext, ReadHeader, ReadTable, ReadFirst, ReadChar, NamesRead, Refuse,
         readerVars
<1> SUFFICES ASSUME (at \in {"char", "done"})'
             PROVE  /\ Len(Nuls(Section(i' + 1))) >= 1
                    /\ section_names' = NamesIn(Section(i' + 1))
                    /\ curr' = Begun(Section(i' + 1))
  <2>1. Section(i + 1)' = Section(i' + 1)
    BY <1>0 DEF Section, NameTable, Byte
  <2> QED BY <2>1 DEF NamesInv, NamesIn, Nuls, Begun
<1>1. input \in Files /\ i \in Nat
  BY DEF ReaderInv
<1>2. CASE ReadFirst
  <2>1. /\ i = 0 /\ curr = << >> /\ section_names = << >>
        /\ i' = 0 /\ curr' = << >> /\ section_names' = << >>
        /\ Byte(NameTable.offset) = NUL
    BY <1>2 DEF ReadFirst, Refuse, ReaderInv
  <2>2. Section(1) = << NUL >>
    BY <1>1, <2>1, FirstByte
  <2>3. Nuls(<< NUL >>) = << 1 >>
    <3>1. << NUL >> = Append(<< >>, NUL) /\ << >> \in Seq({NUL})
      OBVIOUS
    <3>2. Nuls(Append(<< >>, NUL)) = Append(Nuls(<< >>), Len(<< >>) + 1)
      BY <3>1, NulsAppend
    <3>3. Nuls(<< >>) = << >>
      BY <3>1, NulsType
    <3> QED BY <3>1, <3>2, <3>3
  <2>4. Len(Nuls(<< NUL >>)) = 1 /\ NamesIn(<< NUL >>) = << >>
    <3>1. PICK m : m = Nuls(<< NUL >>) /\ Len(m) = 1 /\ Len(m) - 1 = 0
      BY <2>3
    <3>2. NamesIn(<< NUL >>) = [k \in 1..0 |-> SubSeq(<< NUL >>, m[k] + 1, m[k + 1])]
      BY <3>1 DEF NamesIn
    <3> QED BY <3>1, <3>2
  <2>5. Begun(<< NUL >>) = << >>
    <3>1. Last(Nuls(<< NUL >>)) = 1
      BY <2>3 DEF Last
    <3>2. Len(<< NUL >>) = 1
      OBVIOUS
    <3>3. SubSeq(<< NUL >>, 2, 1) = << >>
      BY SubSeqEmpty
    <3> QED BY <3>1, <3>2, <3>3 DEF Begun
  <2>6. i' + 1 = 1
    BY <2>1
  <2> QED BY <2>1, <2>2, <2>4, <2>5, <2>6
<1>3. CASE ReadChar
  <2>1. at = "char" /\ FirstTaken
    BY <1>3 DEF ReadChar, ReaderInv
  <2>2. /\ i' = i + 1
        /\ \/ Byte(pos) = NUL /\ EndName(Append(curr, Byte(pos)))
           \/ /\ Byte(pos) # NUL /\ curr' = Append(curr, Byte(pos))
              /\ UNCHANGED section_names
    BY <1>3 DEF ReadChar, Refuse
  <2>3. PICK n \in Nat, m \in Nat : n = i + 1 /\ m = n + 1 /\ m = i' + 1
    BY <1>1, <2>2
  <2>4. NameTable.offset + n = pos
    <3>1. PICK o \in Nat : o = NameTable.offset
      BY <1>1, FileTypes DEF SectionPlace
    <3>2. o + 1 + i = o + n
      BY <1>1, <2>3, <3>1
    <3> QED BY <2>1, <3>1, <3>2 DEF FirstTaken
  <2>5. PICK t, b : t = Section(n) /\ b = Byte(pos) /\ t \in Seq(Bytes) /\ b \in Bytes
                    /\ Section(m) = Append(t, b)
    <3>1. m = n + 1
      BY <2>3
    <3>2. /\ Section(n) \in Seq(Bytes) /\ Byte(NameTable.offset + n) \in Bytes
          /\ Section(m) = Append(Section(n), Byte(NameTable.offset + n))
      BY <1>1, <3>1, SectionNext, Zenon
    <3>3. Byte(NameTable.offset + n) = Byte(pos)
      BY <2>4
    <3> QED BY <3>2, <3>3
  <2>6. Len(Nuls(t)) >= 1 /\ section_names = NamesIn(t) /\ curr = Begun(t)
    BY <2>1, <2>3, <2>5 DEF NamesInv
  <2>7. /\ Len(Nuls(Append(t, b))) >= 1
        /\ b # NUL => /\ NamesIn(Append(t, b)) = NamesIn(t)
                      /\ Begun(Append(t, b)) = Append(Begun(t), b)
        /\ b = NUL => /\ NamesIn(Append(t, b)) = Append(NamesIn(t), Append(Begun(t), b))
                      /\ Begun(Append(t, b)) = << >>
    <3>1. PICK B : B = Bytes
      OBVIOUS
    <3>2. t \in Seq(B) /\ b \in B
      BY <2>5, <3>1
    <3> QED BY <2>6, <3>2, NamesAppend, Zenon
  <2>8. CASE b = NUL
    <3>1. section_names' = Append(section_names, Append(curr, b)) /\ curr' = << >>
      BY <2>2, <2>5, <2>8 DEF EndName
    <3> QED BY <2>3, <2>5, <2>6, <2>7, <2>8, <3>1
  <2>9. CASE b # NUL
    <3>1. section_names' = section_names /\ curr' = Append(curr, b)
      BY <2>2, <2>5, <2>9
    <3> QED BY <2>3, <2>5, <2>6, <2>7, <2>9, <3>1
  <2> QED BY <2>8, <2>9
<1>4. CASE NamesRead
  BY <1>4 DEF NamesRead, NamesInv
<1>5. CASE UNCHANGED readerVars
  BY <1>5 DEF readerVars, NamesInv
<1>6. CASE ReadHeader \/ ReadTable
  BY <1>6 DEF ReadHeader, ReadTable, Refuse
<1> QED BY <1>2, <1>3, <1>4, <1>5, <1>6 DEF ReaderNext

(* The names read are those of the table, with what the byte after it adds, *)
(* for a table of any length (elf_reader.cpp:88-110).                       *)
THEOREM NamesOfTableCorrect == ReaderSpec => []NamesOfTable
<1>1. ReaderInit => NamesInv
  BY DEF ReaderInit, NamesInv
<1>2. ReaderInv /\ NamesInv => NamesOfTable
  <2> SUFFICES ASSUME ReaderInv, NamesInv, at = "done" PROVE NamesOfTable
    BY DEF NamesOfTable
  <2>1. input \in Files /\ i = NameTable.size
    BY DEF ReaderInv
  <2>2. PICK n \in Nat, m \in Nat : n = i /\ m = n + 1
    BY DEF ReaderInv
  <2>3. PICK t, b : /\ t = Section(n) /\ t \in Seq(Bytes) /\ Len(t) = n /\ b \in Bytes
                    /\ Section(m) = Append(t, b)
    BY <2>1, <2>2, SectionNext
  <2>4. section_names = NamesIn(Append(t, b))
    BY <2>2, <2>3 DEF NamesInv
  <2>5. PICK B : B = Bytes
    OBVIOUS
  <2>6. t \in Seq(B) /\ b \in B
    BY <2>3, <2>5
  <2>7. /\ IsPrefix(NamesIn(t), section_names)
        /\ Len(section_names) <= Len(NamesIn(t)) + 1
        /\ Len(t) > 0 /\ Last(t) = NUL =>
             SubSeq(section_names, Len(NamesIn(t)) + 1, Len(section_names))
               \in {<< >>, <<<< NUL >>>>}
    BY <2>4, <2>6, TableNames, Zenon
  <2>8. NameTable.size + 1 = m /\ NameTable.size = n
    BY <2>1, <2>2
  <2>9. t = Section(NameTable.size) /\ Append(t, b) = Section(NameTable.size + 1)
    BY <2>3, <2>8
  <2>10. Len(t) = NameTable.size
    BY <2>3, <2>8
  <2> QED BY <2>4, <2>7, <2>9, <2>10 DEF NamesOfTable
<1> QED BY <1>1, <1>2, NamesNextInv, ReaderInitInv, ReaderNextInv, PTL DEF ReaderSpec

=============================================================================
