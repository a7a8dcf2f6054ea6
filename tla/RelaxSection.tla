---------------------------- MODULE RelaxSection ----------------------------
(***************************************************************************)
(* Linker relaxation of a microMIPS code section,                          *)
(* _bfd_mips_elf_relax_section and mips_elf_relax_delete_bytes.            *)
(*                                                                         *)
(* The relocations of the section are visited in order.  Each may show     *)
(* that an instruction has a shorter form or is not needed; the bytes are  *)
(* deleted at once, which moves the code, relocations and labels behind    *)
(* them while later relocations are still to be judged.  The linker calls  *)
(* again as long as a pass deleted something.                              *)
(*                                                                         *)
(* An instruction is known by its place in the original code and has an    *)
(* opcode; contents lists halfwords.  Left out: registers (the two         *)
(* relocations of an address name one register, which a jump between them  *)
(* does not touch), addends, the ISA bit of code addresses, and halves of  *)
(* instructions that happen to look like jumps, for which the code is more *)
(* careful than it need be.                                                *)
(***************************************************************************)
EXTENDS Integers, Sequences, FiniteSetsExt

CONSTANTS
  Labels,   \* symbols defined in the section
  Data,     \* symbols with fixed addresses elsewhere
  Address,  \* Data -> Nat
  Start,    \* the address of the section
  Reach,    \* type of relocation -> how far its signed value reaches, 2^(bits - 1)
  Sections  \* the sections considered: see Section

Op16 == {"insn16", "nop", "jr16", "b16", "beqz16", "move16"}

Op32 == {"insn", "nop32", "move32", "lui", "addiu", "load", "addiupc",
         "beq", "beqz", "b", "bzc", "jal", "jals"}

Types == {"HI16", "LO16", "PC16", "26", "NONE", "HI0_LO16", "PC23", "PC10", "PC7"}

Syms == Labels \cup Data

\* An instruction as assembled; without a relocation its type is "NONE".
Insn == [op : Op16 \cup Op32, type : Types, sym : Syms]

\* Code and, for each label, the number of the instruction that it marks.
IsSection(s) ==
  /\ s.code \in Seq(Insn)
  /\ s.label \in [Labels -> 1..(Len(s.code) + 1)]

ASSUME SectionsAssumption == \A s \in Sections : IsSection(s)
ASSUME AddressAssumption == Address \in [Data -> Nat] /\ Start \in Nat
ASSUME ReachAssumption ==
  Reach \in [{"HI0_LO16", "PC23", "PC10", "PC7"} -> Nat \ {0, 1}]

VARIABLES
  section,  \* the section as assembled; never changes
  op,       \* instruction -> its opcode now
  contents, \* halfwords: <<instruction, 1 or 2>>
  relocs,   \* [type, offset, sym, insn]
  value,    \* Labels -> offset
  irel,     \* the number of the relocation that comes next
  again,    \* *again of this pass
  pc

vars == <<section, op, contents, relocs, value, irel, again, pc>>

-----------------------------------------------------------------------------
Size(o) == IF o \in Op16 THEN 2 ELSE 4

\* The halfwords before the n-th instruction.
Begin(code, n) == n - 1 + Cardinality({j \in 1..(n - 1) : Size(code[j].op) = 4})

Halves(code) ==
  [k \in 1..Begin(code, Len(code) + 1) |->
     LET n == CHOOSE n \in 1..Len(code) : Begin(code, n) < k /\ k <= Begin(code, n + 1)
     IN <<n, k - Begin(code, n)>>]

\* The instructions with a relocation, and the k-th of them.
Relocated(code) == {n \in 1..Len(code) : code[n].type # "NONE"}

Nth(code, k) ==
  CHOOSE n \in Relocated(code) : Cardinality({m \in Relocated(code) : m <= n}) = k

RelocsOf(code) ==
  [k \in 1..Cardinality(Relocated(code)) |->
     LET n == Nth(code, k) IN
     [type |-> code[n].type, sym |-> code[n].sym, insn |-> n, offset |-> 2 * Begin(code, n)]]

Init ==
  /\ section \in Sections
  /\ op = [n \in 1..Len(section.code) |-> section.code[n].op]
  /\ contents = Halves(section.code)
  /\ relocs = RelocsOf(section.code)
  /\ value = [l \in Labels |-> 2 * Begin(section.code, section.label[l])]
  /\ irel = 1 /\ again = FALSE /\ pc = "walk"

SectionSize == 2 * Len(contents)

\* The instruction at an offset, and its opcode; what starts in the middle of an
\* instruction, or outside the section, is none that is looked for.
InsnAt(offset) ==
  IF offset \in 0..(SectionSize - 2) THEN contents[(offset \div 2) + 1][1] ELSE 0

OpAt(offset) ==
  IF offset \in 0..(SectionSize - 2) /\ contents[(offset \div 2) + 1][2] = 1
  THEN op[InsnAt(offset)] ELSE "none"

\* IS_BITSIZE
FitsSigned(v, reach) == v \in -reach..(reach - 1)

SymVal(s) == IF s \in Labels THEN Start + value[s] ELSE Address[s]

PcRel(r) == SymVal(r.sym) - Start - r.offset

-----------------------------------------------------------------------------
(***************************************************************************)
(* mips_elf_relax_delete_bytes.                                            *)
(***************************************************************************)

\* Mutant: what is at the hole itself moves too.
Shifted_AtHole(offset, addr, count) == IF offset >= addr THEN offset - count ELSE offset

Shifted(offset, addr, count) == IF offset > addr THEN offset - count ELSE offset

DeleteBytes(addr, count, rels) ==
  /\ contents' = [k \in 1..(Len(contents) - count \div 2) |->
                    IF 2 * k <= addr THEN contents[k] ELSE contents[k + count \div 2]]
  /\ relocs' = [k \in DOMAIN rels |->
                  [rels[k] EXCEPT !.offset = Shifted(@, addr, count)]]
  /\ value' = [l \in Labels |-> Shifted(value[l], addr, count)]
  /\ again' = TRUE
  /\ irel' = irel + 1
  /\ UNCHANGED <<section, pc>>

-----------------------------------------------------------------------------
(***************************************************************************)
(* LUI: the address fits the second instruction alone.                     *)
(***************************************************************************)

Slot16 == {"jr16", "b16", "beqz16"}

Slot32 == {"beq", "beqz", "b", "jal", "jals"}

\* Mutant: only 16-bit jumps are looked for.
InDelaySlot_Of16(offset) == OpAt(offset - 2) \in Slot16

\* check_br16_dslot and check_br32_dslot of what comes before.
InDelaySlot(offset) ==
  \/ OpAt(offset - 2) \in Slot16
  \/ OpAt(offset - 4) \in Slot32

\* The pair is adjacent or has a jump with a delay slot between.
Adjacent(hi, lo) ==
  \/ lo.offset = hi.offset + 4
  \/ lo.offset = hi.offset + 6 /\ OpAt(hi.offset + 4) \in {"b16", "jr16", "beqz16"}
  \/ lo.offset = hi.offset + 8 /\ OpAt(hi.offset + 4) \in {"beq", "beqz", "b", "jal"}

IsLo(k, s) == relocs[k].type = "LO16" /\ relocs[k].sym = s

IsPair(k) ==
  LET r == relocs[k] IN
  /\ k > 1 => ~(relocs[k - 1].type = "HI16" /\ relocs[k - 1].sym = r.sym)
  /\ k < Len(relocs) /\ IsLo(k + 1, r.sym)

\* Rounded up for the two bits that the instruction masks, after the LUI is gone.
LoDistance(k) ==
  LET d == PcRel(relocs[k]) - (relocs[k + 1].offset - relocs[k].offset) + 3
  IN (d \div 4) * 4 + 4

\* The new type of the LO16, "none" when there is no shorter form.
LoForm(k) ==
  LET r == relocs[k] IN
  IF FitsSigned(SymVal(r.sym), Reach["HI0_LO16"]) THEN "HI0_LO16"
  ELSE IF /\ SymVal(r.sym) % 4 = 0
          /\ FitsSigned(LoDistance(k), Reach["PC23"])
          /\ OpAt(relocs[k + 1].offset) = "addiu"
       THEN "PC23" ELSE "none"

CanDropLui(k) ==
  /\ relocs[k].type = "HI16" /\ OpAt(relocs[k].offset) = "lui"
  /\ IsPair(k)
  /\ ~InDelaySlot(relocs[k].offset)
  /\ Adjacent(relocs[k], relocs[k + 1])
  /\ LoForm(k) # "none"

\* "Or if the second next reloc is a LO16 against this symbol too": the code
\* looks at irel[2] when there is none, and sees what is behind the array.
ReadsBeyond(k) == k + 2 > Len(relocs)

DropLui ==
  LET r == relocs[irel] IN
  /\ CanDropLui(irel)
  /\ op' = IF LoForm(irel) = "PC23"
           THEN [op EXCEPT ![InsnAt(relocs[irel + 1].offset)] = "addiupc"] ELSE op
  /\ DeleteBytes(r.offset, 4,
       [relocs EXCEPT ![irel].type = "NONE", ![irel + 1].type = LoForm(irel)])

-----------------------------------------------------------------------------
(***************************************************************************)
(* Branches and jumps.                                                     *)
(***************************************************************************)

CanCompact(r) ==
  /\ r.type = "PC16" /\ r.offset + 5 < SectionSize
  /\ OpAt(r.offset) \in {"beqz", "b"} /\ OpAt(r.offset + 4) = "nop"

\* BEQZ and BNEZ with an empty delay slot: the form without one.
CompactBranch ==
  LET r == relocs[irel] IN
  /\ CanCompact(r)
  /\ op' = [op EXCEPT ![InsnAt(r.offset)] = "bzc"]
  /\ DeleteBytes(r.offset + 4, 2, relocs)

\* Mutant: the distance is taken from the branch.
ReachesShort_Branch(r, type) == FitsSigned(PcRel(r), Reach[type])

\* The distance is from the instruction after the short one.
ReachesShort(r, type) == FitsSigned(PcRel(r) - 2, Reach[type])

\* Type and opcode of the 16-bit form of a branch, if there is one.
ShortForms(r) ==
  IF r.type # "PC16" \/ CanCompact(r) THEN {}
  ELSE IF OpAt(r.offset) = "b" /\ ReachesShort(r, "PC10") THEN {<<"PC10", "b16">>}
  ELSE IF OpAt(r.offset) = "beqz" /\ ReachesShort(r, "PC7") THEN {<<"PC7", "beqz16">>}
  ELSE {}

\* Mutant: the bytes after the branch are deleted.
ShortenBranch_After ==
  LET r == relocs[irel] IN
  \E form \in ShortForms(r) :
    /\ op' = [op EXCEPT ![InsnAt(r.offset)] = form[2]]
    /\ DeleteBytes(r.offset + 4, 2, [relocs EXCEPT ![irel].type = form[1]])

ShortenBranch ==
  LET r == relocs[irel] IN
  \E form \in ShortForms(r) :
    /\ op' = [op EXCEPT ![InsnAt(r.offset)] = form[2]]
    /\ DeleteBytes(r.offset + 2, 2, [relocs EXCEPT ![irel].type = form[1]])

CanShortenSlot(r) ==
  /\ r.type = "26" /\ r.sym \in Labels /\ r.offset + 7 < SectionSize
  /\ OpAt(r.offset) = "jal" /\ OpAt(r.offset + 4) \in {"nop32", "move32"}

\* JAL becomes JALS, whose delay slot is 16 bits wide.
ShortenSlot ==
  LET r == relocs[irel]
      slot == InsnAt(r.offset + 4)
  IN
  /\ CanShortenSlot(r)
  /\ op' = [op EXCEPT ![InsnAt(r.offset)] = "jals",
                      ![slot] = IF @ = "nop32" THEN "nop" ELSE "move16"]
  /\ DeleteBytes(r.offset + 6, 2, relocs)

Relaxable(k) ==
  \/ CanDropLui(k) \/ CanCompact(relocs[k])
  \/ ShortForms(relocs[k]) # {} \/ CanShortenSlot(relocs[k])

\* Nothing to gain, or what was read beyond the array looked like a LO16.
Keep ==
  /\ Relaxable(irel) => relocs[irel].type = "HI16" /\ ReadsBeyond(irel)
  /\ irel' = irel + 1
  /\ UNCHANGED <<section, op, contents, relocs, value, again, pc>>

Relax ==
  /\ pc = "walk" /\ irel <= Len(relocs)
  /\ DropLui \/ CompactBranch \/ ShortenBranch \/ ShortenSlot \/ Keep

\* The linker calls again after a pass that deleted something.
EndPass ==
  /\ pc = "walk" /\ irel > Len(relocs)
  /\ IF again THEN irel' = 1 /\ UNCHANGED pc ELSE pc' = "done" /\ UNCHANGED irel
  /\ again' = FALSE
  /\ UNCHANGED <<section, op, contents, relocs, value>>

Next == Relax \/ EndPass

Spec == Init /\ [][Next]_vars

-----------------------------------------------------------------------------
Present(n) == \E k \in DOMAIN contents : contents[k][1] = n

\* The section still decodes: every instruction that is left is whole, of the
\* size of its opcode, and in its old order.
TypeOK ==
  /\ pc \in {"walk", "done"} /\ again \in BOOLEAN
  /\ irel \in 1..(Len(relocs) + 1)
  /\ op \in [1..Len(section.code) -> Op16 \cup Op32]
  /\ \A k \in DOMAIN relocs : relocs[k].type \in Types /\ relocs[k].sym \in Syms
  /\ \A k \in DOMAIN contents :
       LET n == contents[k][1] h == contents[k][2]
           nextIs2 == k < Len(contents) /\ contents[k + 1] = <<n, 2>>
       IN IF h = 1
          THEN /\ nextIs2 <=> Size(op[n]) = 4
               /\ k > 1 => contents[k - 1][1] < n
          ELSE k > 1 /\ contents[k - 1] = <<n, 1>>

\* The offset of the n-th instruction of the original code, in halves.
OffsetIn(halves, n) == 2 * Cardinality({k \in 1..Len(halves) : halves[k][1] < n})

\* After each deletion every relocation is at its instruction and every label
\* before the instruction that it marked, or the next that is left.
LabelsFollow ==
  /\ \A k \in DOMAIN relocs :
       relocs[k].offset = OffsetIn(contents, relocs[k].insn)
  /\ \A l \in Labels : value[l] = OffsetIn(contents, section.label[l])

\* A jump keeps the instruction in its delay slot, which has the width that the
\* jump asks for.
DelaySlotsKept ==
  \A n \in 1..(Len(section.code) - 1) :
    op[n] \in Slot16 \cup Slot32 =>
      /\ Present(n + 1)
      /\ op[n] = "jal" => Size(op[n + 1]) = 4
      /\ op[n] = "jals" => Size(op[n + 1]) = 2

\* The HI16 that a LO16 belongs to: the last one before it against its symbol.
HiOf(k) ==
  LET his == {j \in 1..(k - 1) : /\ section.code[relocs[j].insn].type = "HI16"
                                 /\ relocs[j].sym = relocs[k].sym}
  IN IF his = {} THEN 0 ELSE Max(his)

\* An instruction that takes the low half of an address can do without the LUI
\* if the LUI is gone: "Or if the second next reloc is a LO16 against this
\* symbol too" (elfxx-mips.c:12600).
AddressesKept ==
  \A k \in DOMAIN relocs :
    section.code[relocs[k].insn].type = "LO16" =>
      LET r == relocs[k]
          pcBase == ((Start + r.offset) \div 4) * 4
      IN /\ r.type = "LO16" /\ HiOf(k) # 0 => Present(relocs[HiOf(k)].insn)
         /\ r.type = "HI0_LO16" => FitsSigned(SymVal(r.sym), Reach["HI0_LO16"])
         /\ r.type = "PC23" =>
              /\ op[r.insn] = "addiupc"
              /\ SymVal(r.sym) % 4 = 0
              /\ FitsSigned(SymVal(r.sym) - pcBase, Reach["PC23"])

\* The code still does what it did: jumps execute their delay slots and every
\* address is computed in full.
MeaningKept == DelaySlotsKept /\ AddressesKept

\* A branch that was shortened reaches its label from wherever both have moved
\* since, so that no overflow is reported when the section is relocated.
BranchesReach ==
  \A k \in DOMAIN relocs : relocs[k].type \in {"PC10", "PC7"} =>
    FitsSigned(PcRel(relocs[k]) - 2, Reach[relocs[k].type])

-----------------------------------------------------------------------------
(***************************************************************************)
(* What the theorems about MeaningKept and BranchesReach take of sections. *)
(***************************************************************************)
\* Relocations are on the instructions they are for.  No branch is in the delay
\* slot of a JAL, which has the width that the JAL asks for.
Assembled(s) ==
  \A n \in 1..Len(s.code) :
    LET i == s.code[n] IN
    /\ i.type \in {"HI16", "LO16", "PC16", "26", "NONE"}
    /\ i.type = "HI16" => i.op = "lui"
    /\ i.type = "LO16" => i.op \in {"addiu", "load"}
    /\ n < Len(s.code) =>
         /\ i.op = "jal" => s.code[n + 1].op \in Op32 \ {"b", "beqz"}
         /\ i.op = "jals" => s.code[n + 1].op \in Op16

\* Branches are to labels, or to what lies before the section, and so do the
\* addresses that ADDIUPC may be chosen for: nothing moves away from the code.
NothingBehind(s) ==
  \A n \in 1..Len(s.code) :
    LET i == s.code[n] IN
    /\ i.type = "PC16" => i.sym \in Labels \/ Address[i.sym] <= Start
    /\ i.type = "LO16" /\ i.op = "addiu" => i.sym \notin Labels /\ Address[i.sym] <= Start

\* Between two LO16s against one symbol there is another HI16.
OwnHi(s) ==
  LET rs == RelocsOf(s.code)
      Against(k, type, sym) == rs[k].type = type /\ rs[k].sym = sym
  IN \A j, k \in DOMAIN rs :
       j < k /\ Against(j, "LO16", rs[k].sym) /\ Against(k, "LO16", rs[k].sym) =>
         \E h \in (j + 1)..(k - 1) : Against(h, "HI16", rs[k].sym)
=============================================================================
