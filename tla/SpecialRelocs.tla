--------------------------- MODULE SpecialRelocs ---------------------------
(***************************************************************************)
(* How the linker applies relocations to a section when the output is not  *)
(* the MIPS ELF format of its inputs, which is how OpenISA programs are    *)
(* linked (ac_link.ld asks for elf32-little).  The sections are processed  *)
(* in order, and each relocation is handed to the special function of its  *)
(* howto: one installs the field at once, one saves a high part on the     *)
(* global list mips_hi16_list, and one drains that list and then installs. *)
(*                                                                         *)
(* A field is the number it holds; where its bits lie in the instruction   *)
(* is abstracted.  Widths are spans: an instruction pair carries HiSpan    *)
(* times LoSpan addresses in the OpenISA encoding (18 and 14 bits in the   *)
(* source) and HalfSpan squared in the MIPS one (16 and 16).               *)
(***************************************************************************)
EXTENDS Integers, Sequences, FiniteSetsExt

CONSTANTS
    LoSpan,      \* values of an OpenISA low field        (2^14 in the source)
    HiSpan,      \* values of an OpenISA high field       (2^18)
    HalfSpan,    \* values of a 16-bit field              (2^16)
    CallSpan,    \* values of an OpenISA jump field       (2^20)
    BranchSpan,  \* values of an OpenISA branch field     (2^14)
    Links        \* the links to consider: see TypeOK for what each one holds

WordSize == 4

\* The two encodings cover the same addresses, the OpenISA low field is the
\* shorter one, and a jump or branch field divides the address space.
ASSUME SpansAssumption ==
    /\ {LoSpan, HiSpan, HalfSpan, CallSpan, BranchSpan} \subseteq Nat \ {0}
    /\ LoSpan * HiSpan = HalfSpan * HalfSpan /\ LoSpan <= HalfSpan
    /\ (LoSpan * HiSpan) % (WordSize * CallSpan) = 0
    /\ (LoSpan * HiSpan) % (WordSize * BranchSpan) = 0

AddressSpan == LoSpan * HiSpan

VARIABLES
    link,            \* the input: sections, bases, symbol values, local symbols
    section,         \* the input section being relocated
    next,            \* the relocation of it to apply next
    field,           \* the field at each site, as relocated so far
    mips_hi16_list,  \* the sites saved for a later low part
    installed,       \* history: the symbols a site was relocated with, in order
    reported         \* history: the sites an overflow was reported for

vars == <<link, section, next, field, mips_hi16_list, installed, reported>>

-----------------------------------------------------------------------------
(* The howto table *)

\* A row: the value is divided by unit (the rightshift) and added to a field of
\* span values; signed says that an overflow is looked for.
Row(unit, span, signed, pcrel, special) ==
    [unit |-> unit, span |-> span, signed |-> signed,
     pc_relative |-> pcrel, special_function |-> special]

\* Mutant: the MIPS shift of 16 kept for the high part.
HighRow_MipsShift == Row(HalfSpan, HiSpan, FALSE, FALSE, "generic")

HighRow == Row(LoSpan, HiSpan, FALSE, FALSE, "generic")

elf_mips_howto_table_rel ==
    [R_MIPS_HI16    |-> HighRow,
     R_MIPS_LO16    |-> Row(1, LoSpan, FALSE, FALSE, "generic"),
     R_MIPS_26      |-> Row(WordSize, CallSpan, FALSE, FALSE, "generic"),
     R_MIPS_PC16    |-> Row(WordSize, BranchSpan, TRUE, TRUE, "generic"),
     R_MIPS_GOT16   |-> Row(1, HalfSpan, TRUE, FALSE, "got16")]

elf_mips16_howto_table_rel ==
    [R_MIPS16_HI16  |-> Row(HalfSpan, HalfSpan, FALSE, FALSE, "hi16"),
     R_MIPS16_LO16  |-> Row(1, HalfSpan, FALSE, FALSE, "lo16"),
     R_MIPS16_GOT16 |-> Row(1, HalfSpan, FALSE, FALSE, "got16")]

Types == DOMAIN elf_mips_howto_table_rel \union DOMAIN elf_mips16_howto_table_rel

Howto == [type \in Types |->
             IF type \in DOMAIN elf_mips_howto_table_rel
             THEN elf_mips_howto_table_rel[type] ELSE elf_mips16_howto_table_rel[type]]

\* The howto a saved high part is installed with.
HighHowto(type) ==
    CASE type = "R_MIPS_GOT16"   -> Howto["R_MIPS_HI16"]
      [] type = "R_MIPS16_GOT16" -> Howto["R_MIPS16_HI16"]
      [] OTHER                   -> Howto[type]

-----------------------------------------------------------------------------
(* Installing one field *)

Signed(n, span) == LET m == n % span IN IF 2 * m < span THEN m ELSE m - span

Fits(n, span) == 2 * n < span /\ -span <= 2 * n

\* Mutant: the sum is not masked to the field.
RelocateContents_Unmasked(howto, word, val) == word + (val \div howto.unit)

\* The addition in place.  What lies above the field in the word is kept.
RelocateContents(howto, word, val) ==
    LET old == word % howto.span
    IN  (word - old) + ((old + (val \div howto.unit)) % howto.span)

\* Mutant: only the value is checked, not its sum with the addend.
Overflows_ValueOnly(howto, word, val) ==
    howto.signed /\ ~ Fits(Signed(val, AddressSpan) \div howto.unit, howto.span)

\* The overflow check that goes with it: the value and the sum must both fit.
Overflows(howto, word, val) ==
    LET a == Signed(val, AddressSpan) \div howto.unit
        b == Signed(word, howto.span)
    IN  howto.signed /\ ~ (Fits(a, howto.span) /\ Fits(a + b, howto.span))

Sites(l) == UNION {{<<s, i>> : i \in DOMAIN l.sections[s]} : s \in DOMAIN l.sections}

RelocAt(site) == link.sections[site[1]][site[2]]

Address(site) == link.base[site[1]] + WordSize * (site[2] - 1)

\* The final adjustment of a field: the symbol's address, less the place's own
\* when the howto is pc-relative.
Adjustment(site, howto, sym) ==
    link.value[sym] - IF howto.pc_relative THEN Address(site) ELSE 0

Generic(site, howto, sym) ==
    RelocateContents(howto, field[site], Adjustment(site, howto, sym))

GenericOverflows(site, howto, sym) ==
    Overflows(howto, field[site], Adjustment(site, howto, sym))

Reloc(l) == [type : Types, sym : DOMAIN l.value, field : 0 .. AddressSpan - 1]

\* A field of the input holds an addend of its width.  Instructions lie at
\* multiples of their size, and a branch goes to one.
ASSUME LinksAssumption ==
    \A l \in Links :
       /\ l.sections \in Seq(Seq(Reloc(l))) /\ l.sections # <<>>
       /\ \A s \in DOMAIN l.sections : l.base[s] \in Nat /\ l.base[s] % WordSize = 0
       /\ \A v \in DOMAIN l.value : l.value[v] \in 0 .. AddressSpan - 1
       /\ \A s \in DOMAIN l.sections : \A i \in DOMAIN l.sections[s] :
             LET r == l.sections[s][i] IN
             /\ r.field < Howto[r.type].span
             /\ Howto[r.type].pc_relative => l.value[r.sym] % WordSize = 0

-----------------------------------------------------------------------------
(* Applying the relocations of the sections in turn *)

Init ==
    /\ link \in Links
    /\ section = 1
    /\ next = 1
    /\ field = [s \in Sites(link) |-> RelocAt(s).field]
    /\ mips_hi16_list = {}
    /\ installed = [s \in Sites(link) |-> <<>>]
    /\ reported = {}

Here == <<section, next>>

HasReloc == next <= Len(link.sections[section])

\* What is done with the relocation at a site.  A GOT relocation is an ordinary
\* one when its symbol is global.
Treatment(site) ==
    LET r == RelocAt(site)
        special == Howto[r.type].special_function
    IN  IF special = "got16"
        THEN IF r.sym \in link.locals THEN "hi16" ELSE "generic"
        ELSE special

\* generic_reloc: install the field at once.
ApplyGeneric ==
    /\ HasReloc
    /\ Treatment(Here) = "generic"
    /\ LET r == RelocAt(Here)
           howto == Howto[r.type]
       IN  /\ field' = [field EXCEPT ![Here] = Generic(Here, howto, r.sym)]
           /\ installed' = [installed EXCEPT ![Here] = Append(@, r.sym)]
           /\ reported' = IF GenericOverflows(Here, howto, r.sym)
                          THEN reported \union {Here} ELSE reported
    /\ next' = next + 1
    /\ UNCHANGED <<link, section, mips_hi16_list>>

\* hi16_reloc, and got16_reloc against a local symbol: save it for later.
SaveHigh ==
    /\ HasReloc
    /\ Treatment(Here) = "hi16"
    /\ mips_hi16_list' = mips_hi16_list \union {Here}
    /\ next' = next + 1
    /\ UNCHANGED <<link, section, field, installed, reported>>

\* Mutant: the low part leaves the list linked.
ListAfterLow_Linked == mips_hi16_list

\* The list once the low part has been through it.
ListAfterLow == {}

\* lo16_reloc: every saved high part is installed with the symbol of this low
\* part, then the low part itself.  The low field it reads (vallo) goes unused.
\* No howto of the sites it touches reports an overflow.
ApplyLow ==
    /\ HasReloc
    /\ Treatment(Here) = "lo16"
    /\ LET r == RelocAt(Here)
           touched == mips_hi16_list \union {Here}
           howto(s) == IF s = Here THEN Howto[r.type] ELSE HighHowto(RelocAt(s).type)
       IN  /\ field' = [s \in DOMAIN field |->
                          IF s \in touched THEN Generic(s, howto(s), r.sym) ELSE field[s]]
           /\ installed' = [s \in DOMAIN installed |->
                          IF s \in touched THEN Append(installed[s], r.sym)
                                           ELSE installed[s]]
    /\ mips_hi16_list' = ListAfterLow
    /\ next' = next + 1
    /\ UNCHANGED <<link, section, reported>>

\* The section's contents go to the output, and the list stays as it is.
NextSection ==
    /\ ~ HasReloc
    /\ section < Len(link.sections)
    /\ section' = section + 1
    /\ next' = 1
    /\ UNCHANGED <<link, field, mips_hi16_list, installed, reported>>

Next == ApplyGeneric \/ SaveHigh \/ ApplyLow \/ NextSection

Spec == Init /\ [][Next]_vars

-----------------------------------------------------------------------------
(* Properties *)

Past(s) == s[1] < section \/ (s[1] = section /\ s[2] < next)

\* A site is done once it was reached and is not waiting for a low part.
Done(s) == Past(s) /\ s \notin mips_hi16_list

AddendField(s) == RelocAt(s).field

\* l is the first relocation of type low after h in its section.
FirstAfter(h, l, low) ==
    LET after == {i \in h[2] + 1 .. Len(link.sections[h[1]]) :
                     RelocAt(<<h[1], i>>).type = low}
    IN  l[1] = h[1] /\ after # {} /\ l[2] = Min(after)

\* A high part and the low part the assembler paired with it: the next one,
\* against the same symbol.
Pair(h, l, highs, low) ==
    /\ RelocAt(h).type \in highs
    /\ FirstAfter(h, l, low)
    /\ RelocAt(h).sym = RelocAt(l).sym

OpenIsaPair(h, l) == Pair(h, l, {"R_MIPS_HI16"}, "R_MIPS_LO16")

Mips16Pair(h, l) == Pair(h, l, {"R_MIPS16_HI16", "R_MIPS16_GOT16"}, "R_MIPS16_LO16")

LowSpan(l) == Howto[RelocAt(l).type].span

\* What a pair builds, and the symbol plus the addend that the pair held.
PairValue(h, l) == field[h] * LowSpan(l) + field[l]

PairTarget(h, l) ==
    (link.value[RelocAt(h).sym] + AddendField(h) * LowSpan(l) + AddendField(l)) % AddressSpan

\* What the sum of the low parts has above the low field.
Carry(symbol, addend, span) ==
    LET low == (symbol % span) + addend IN low - (low % span)

\* A link is a sequence of sections of relocations against symbols with final
\* addresses; a field holds what its howto allows, the list only sites that
\* have been reached, and installed only symbols of the link.
TypeOK ==
    /\ link \in Links
    /\ section \in DOMAIN link.sections
    /\ next \in 1 .. Len(link.sections[section]) + 1
    /\ \A s \in Sites(link) :
          /\ field[s] \in 0 .. AddressSpan - 1
          /\ Done(s) => field[s] < HighHowto(RelocAt(s).type).span
          /\ \A i \in DOMAIN installed[s] : installed[s][i] \in DOMAIN link.value
    /\ mips_hi16_list \subseteq Sites(link)
    /\ reported \subseteq Sites(link)

\* What the two instructions of a pair build together (R_MIPS_HI16 with its shift
\* of 14 and R_MIPS_LO16 with its 14 bits, or a saved MIPS16 high part and the low
\* part that installs it) is the symbol plus the addend they held, except that a
\* carry out of the low parts is lost: nothing else is, whatever is relocated or
\* saved around them.
PairLosesOnlyTheCarry ==
    \A h, l \in Sites(link) :
       /\ OpenIsaPair(h, l) \/ (Mips16Pair(h, l) /\ Treatment(h) = "hi16")
       /\ Done(h) /\ Done(l)
       => PairValue(h, l) =
             (PairTarget(h, l) - Carry(link.value[RelocAt(l).sym], AddendField(l), LowSpan(l)))
                % AddressSpan

\* An R_MIPS_PC16 branch whose overflow was not reported goes to the symbol
\* plus its addend from where it stands (complain_overflow_signed on a field of
\* 14 bits at bit 12).
BranchReaches ==
    \A s \in Sites(link) :
       RelocAt(s).type = "R_MIPS_PC16" /\ Done(s) /\ s \notin reported =>
          (Address(s) + WordSize * Signed(field[s], BranchSpan)) % AddressSpan
             = (link.value[RelocAt(s).sym]
                   + WordSize * Signed(AddendField(s), BranchSpan)) % AddressSpan

\* Every field is adjusted exactly once and with its own symbol: a field that is
\* installed at once, and a saved high part when the next low part, if it is its
\* partner, has drained mips_hi16_list.  So it stays, whatever an earlier section
\* left on that list (a static variable that outlives sections and input files).
InstalledOnceForOwnSymbol ==
    \A s \in Sites(link) :
       \/ /\ Treatment(s) = "hi16"
          /\ \A l \in Sites(link) :
                Past(l) /\ Pair(s, l, Types, "R_MIPS16_LO16") =>
                   installed[s] = <<RelocAt(s).sym>>
       \/ /\ Treatment(s) # "hi16"
          /\ Past(s) => installed[s] = <<RelocAt(s).sym>>
=============================================================================
