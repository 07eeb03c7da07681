----------------------------- MODULE ElfReader -----------------------------
(***************************************************************************)
(* ELFReader::read of src/src/elf_reader.cpp on a file somebody wrote: the *)
(* file header, the table of section headers, the table of their names.    *)
(* It takes the fields in the byte order of the host, whatever the file's. *)
(*                                                                         *)
(* A file is a record: its length, the fields of its header that are read, *)
(* the offset and size of each section as its header has them, and the     *)
(* bytes of the name table and what follows it, from the offset base.  A   *)
(* byte is NUL or a letter; bytes of the rest count as NUL.                *)
(***************************************************************************)
EXTENDS Integers, SequencesExt, FiniteSetsExt, Ranks

CONSTANTS
    Files  \* [length, ident, class, order, shoff, shnum, shstrndx, shtab, base, bytes]

EHDR == 52  \* sizeof(Elf32_Ehdr)
SHDR == 40  \* sizeof(Elf32_Shdr)
NUL == "NUL"

Swap16(x) == (x % 256) * 256 + x \div 256
Swap32(x) == Swap16(x % 65536) * 65536 + Swap16(x \div 65536)

(* The name table is one of the sections.  A file of the other byte order   *)
(* is shorter than the table its header announces when it is read in the    *)
(* wrong order, which has more than ten thousand bytes for every section.   *)
ASSUME FilesAssumption ==
    \A f \in Files :
       /\ f.length \in Nat /\ f.base \in Nat /\ f.shoff \in Nat
       /\ f.shnum \in Nat /\ f.shstrndx \in 0..(f.shnum - 1)
       /\ f.shnum <= Len(f.shtab) /\ f.shtab \in Seq([offset : Nat, size : Nat])
       /\ f.order # "host" => f.length < Swap16(SHDR) * Swap16(f.shnum)

VARIABLES
    input,         \* the file
    at,            \* what read does next; "done" or "refused" once it is over
    pos,           \* the position in the file
    strhdr,        \* the section header of the name table
    i,             \* characters taken in the loop over the names
    curr,          \* the name that is being read
    section_names  \* the names read

readerVars == <<input, at, pos, strhdr, i, curr, section_names>>

----------------------------------------------------------------------------

Host32(x) == IF input.order = "host" THEN x ELSE Swap32(x)
Host16(x) == IF input.order = "host" THEN x ELSE Swap16(x)

Byte(p) ==
    LET k == p - input.base + 1
    IN IF k \in DOMAIN input.bytes THEN input.bytes[k] ELSE NUL

Has(n) == pos + n <= input.length
Refuse ==
    /\ at' = "refused"
    /\ UNCHANGED <<input, pos, strhdr, i, curr, section_names>>

ReaderInit ==
    /\ input \in Files /\ at = "header" /\ pos = 0
    /\ strhdr = [offset |-> 0, size |-> 0] /\ i = 0
    /\ curr = << >> /\ section_names = << >>

(* Faulty variant of Known: the class is not looked at.                     *)
KnownOfAnyClass == input.ident = "elf"

Known == input.ident = "elf" /\ input.class = 32

ReadHeader ==
    /\ at = "header"
    /\ \/ Has(EHDR) /\ Known /\ at' = "table" /\ pos' = Host32(input.shoff)
          /\ UNCHANGED <<input, strhdr, i, curr, section_names>>
       \/ ~(Has(EHDR) /\ Known) /\ Refuse

(* A seek past the end of the file fails at once or in the read after it.   *)
(* e_shentsize is SHDR, in the file's byte order.                           *)
ReadTable ==
    LET size == Host16(SHDR) * Host16(input.shnum) IN
    /\ at = "table"
    /\ \/ Has(size) /\ at' = "names"
          /\ strhdr' = input.shtab[Host16(input.shstrndx) + 1]
          /\ pos' = strhdr'.offset
          /\ UNCHANGED <<input, i, curr, section_names>>
       \/ ~Has(size) /\ Refuse

ReadFirst ==
    /\ at = "names"
    /\ \/ Has(1) /\ Byte(pos) = NUL /\ at' = "char" /\ pos' = pos + 1
          /\ UNCHANGED <<input, strhdr, i, curr, section_names>>
       \/ ~(Has(1) /\ Byte(pos) = NUL) /\ Refuse

(* Faulty variant of EndName: the next name goes on where this one ends.    *)
EndNameOnly(name) == section_names' = Append(section_names, name) /\ curr' = name

EndName(name) == section_names' = Append(section_names, name) /\ curr' = << >>

(* sh_size more after the first byte. *)
ReadChar ==
    LET name == Append(curr, Byte(pos)) IN
    /\ at = "char" /\ i < strhdr.size
    /\ \/ /\ Has(1) /\ pos' = pos + 1 /\ i' = i + 1
          /\ \/ Byte(pos) = NUL /\ EndName(name)
             \/ Byte(pos) # NUL /\ curr' = name /\ UNCHANGED section_names
          /\ UNCHANGED <<input, at, strhdr>>
       \/ ~Has(1) /\ Refuse

(* Faulty variant of NamesRead: none but a table of no names is over.       *)
NamesNeverRead ==
    /\ at = "char" /\ i > strhdr.size /\ at' = "done"
    /\ UNCHANGED <<input, pos, strhdr, i, curr, section_names>>

NamesRead ==
    /\ at = "char" /\ i = strhdr.size /\ at' = "done"
    /\ UNCHANGED <<input, pos, strhdr, i, curr, section_names>>

ReaderNext == ReadHeader \/ ReadTable \/ ReadFirst \/ ReadChar \/ NamesRead

(* A loop of one thread. *)
ReaderSpec == ReaderInit /\ [][ReaderNext]_readerVars /\ WF_readerVars(ReaderNext)

----------------------------------------------------------------------------
(* The file as who wrote it sees it *)

ElfOf32Bits == input.ident = "elf" /\ input.class = 32
NameTable == input.shtab[input.shstrndx + 1]
TableEnd == input.shoff + SHDR * input.shnum
Section(n) == [k \in 1..n |-> Byte(NameTable.offset + k - 1)]

(* The names in a table: what lies between two NULs, its own included.      *)
Nuls(table) == InOrder({k \in DOMAIN table : table[k] = NUL})
NamesIn(table) ==
    [k \in 1..(Len(Nuls(table)) - 1) |->
       SubSeq(table, Nuls(table)[k] + 1, Nuls(table)[k + 1])]

ReaderTypeOK ==
    /\ at \in {"header", "table", "names", "char", "done", "refused"}
    /\ i \in 0..strhdr.size
    /\ at = "char" => pos <= input.length
    /\ \A k \in DOMAIN curr : curr[k] # NUL

(* A file is read exactly if it is an ELF file of 32 bits in the host's     *)
(* byte order, its table is all there, a NUL stands where its names begin,  *)
(* and a byte follows that table: the same table at the end of a file is    *)
(* refused, and so is every file of the other byte order                    *)
(* (elf_reader.cpp:21-100).                                                 *)
ReadsExactly ==
    /\ at = "done" => /\ ElfOf32Bits /\ input.order = "host" /\ TableEnd <= input.length
                      /\ Section(1) = << NUL >>
                      /\ NameTable.offset + NameTable.size < input.length
    /\ at = "refused" => \/ ~ElfOf32Bits \/ input.order # "host"
                         \/ input.length < EHDR \/ input.length < TableEnd
                         \/ Section(1) # << NUL >>
                         \/ NameTable.offset + NameTable.size >= input.length

(* The names read are those of the table, in its order, and those that the  *)
(* byte after the table adds: none, or an empty one if that byte is a NUL   *)
(* and the table is terminated (elf_reader.cpp:88-110).                     *)
NamesOfTable ==
    at = "done" =>
      LET names == NamesIn(Section(NameTable.size)) IN
      /\ section_names = NamesIn(Section(NameTable.size + 1))
      /\ IsPrefix(names, section_names)
      /\ Len(section_names) <= Len(names) + 1
      /\ NameTable.size > 0 /\ Last(Section(NameTable.size)) = NUL =>
           SubSeq(section_names, Len(names) + 1, Len(section_names))
             \in {<< >>, <<<< NUL >>>>}

(* Whatever the file, the reader comes back (elf_reader.cpp:14-115).        *)
ReadReturns == <>(at \in {"done", "refused"})
=============================================================================
