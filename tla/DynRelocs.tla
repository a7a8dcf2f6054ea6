----------------------------- MODULE DynRelocs -----------------------------
(***************************************************************************)
(* Dynamic relocations, PLT entries, lazy-binding stubs and copy           *)
(* relocations of one dynamic link.                                        *)
(*                                                                         *)
(* The linker decides three times, in different functions and from         *)
(* different flags, what becomes of a reference.  check_relocs scans the   *)
(* relocations of each input as it is read and summarises them in flags of *)
(* the symbol; adjust_dynamic_symbol and size_dynamic_sections turn the    *)
(* flags into room in the output; relocate_section and                     *)
(* finish_dynamic_symbol, much later, look at the relocations and flags    *)
(* again and fill the room.  Between the scans a symbol may turn out to be *)
(* another name of a second one (copy_indirect_symbol).                    *)
(*                                                                         *)
(* Left out: VxWorks and SGI, TLS symbols (MultiGot), MIPS16 and la25      *)
(* stubs (JumpStubs), symbols without a name, and garbage collection.      *)
(* Only functions are called; a weak alias names data, as the generic      *)
(* linker looks for aliases of data only.                                  *)
(***************************************************************************)
EXTENDS Integers, FiniteSets, Functions

CONSTANTS
  Syms,           \* global symbols
  Local,          \* stands for any local symbol
  Links,          \* the links considered: see Link
  MaxRelocs,      \* bound: relocations scanned
  SectionDynsyms, \* section symbols the dynamic symbol table may need
  MaxIndex        \* greatest index that a normal stub can load (0xffff)

(***************************************************************************)
(* What is fixed about a symbol once all inputs are read.  "weak" is a     *)
(* weak definition in a regular object.                                    *)
(***************************************************************************)
Kind == [def : {"regular", "weak", "dynamic", "undef", "undefweak"},
         vis : {"default", "protected", "hidden"}, func : BOOLEAN]

(***************************************************************************)
(* The options of a link and its symbols.  indirect[h] # h if h turns out  *)
(* to be another name of indirect[h]; weakdef[h] # h if h is a weak alias  *)
(* of the real definition weakdef[h] in the same shared library.           *)
(***************************************************************************)
Link == [shared : BOOLEAN, executable : BOOLEAN, use_plts : BOOLEAN,
         nocopyreloc : BOOLEAN, kind : [Syms -> Kind],
         indirect : [Syms -> Syms], weakdef : [Syms -> Syms]]

ASSUME LinkAssumption == \A l \in Links : l \in Link /\ (l.shared \/ l.executable)

\* A definition in a library is passed over when the symbol is not visible.
ASSUME LibraryAssumption ==
  \A l \in Links : \A h \in Syms :
    l.kind[h].def = "dynamic" => l.kind[h].vis = "default"

\* Chains of names are followed to their end; hidden names are left alone.
ASSUME IndirectAssumption ==
  \A l \in Links : \A h \in Syms :
    LET dir == l.indirect[h] IN
    dir # h => /\ l.indirect[dir] = dir
               /\ l.kind[h].vis # "hidden"
               /\ l.kind[h].func => l.kind[dir].func

\* An alias and its real definition are data of a library.
ASSUME AliasAssumption ==
  \A l \in Links : \A h \in Syms :
    l.weakdef[h] # h =>
      \A d \in {h, l.weakdef[h]} :
        /\ l.weakdef[d] = l.weakdef[h]
        /\ l.indirect[d] = d
        /\ l.kind[d].def = "dynamic" /\ ~l.kind[d].func

\* The linker proper allows PLTs and copy relocations in executables only.
ASSUME PltAssumption == \A l \in Links : l.use_plts => ~l.shared

ASSUME BoundsAssumption ==
  /\ IsFiniteSet(Syms) /\ Local \notin Syms
  /\ MaxRelocs \in Nat /\ SectionDynsyms \in Nat /\ MaxIndex \in Nat

\* Input sections: text of non-PIC and of PIC objects, data, debugging
\* information, and notes, which are neither loaded nor debugging information.
InputSections == {"text", "pic_text", "data", "debug", "notes"}

Alloc(sec) == sec \in {"text", "pic_text", "data"}
ReadOnly(sec) == sec \in {"text", "pic_text"}
Debugging(sec) == sec = "debug"
PicObject(sec) == sec = "pic_text"

(***************************************************************************)
(* Relocations by what the scan does with them: R_MIPS_32 and _64 ("word"),*)
(* R_MIPS_HI16 and others that need the address ("hi16"), branches within  *)
(* a section ("pc16"), GOT loads for calls and for addresses.              *)
(***************************************************************************)
Types == {"word", "hi16", "pc16", "call16", "got16", "jalr"}

Ref == [type : Types, sec : InputSections, sym : Syms \cup {Local}]

VARIABLES
  pc,              \* the step of the link that comes next
  link,            \* the link; never changes
  refs,            \* Ref -> how many have been scanned
  forwarded,       \* symbols that have become indirect
  sym,             \* Syms -> struct mips_elf_link_hash_entry
  reserved,        \* relocations that .rel.dyn has room for
  textrel,         \* DF_TEXTREL in info->flags
  texttag,         \* .dynamic has a DT_TEXTREL entry
  plts,            \* entries in .plt
  lazy_stub_count, \* htab->lazy_stub_count
  big_stubs,       \* function_stub_size is MIPS_FUNCTION_STUB_BIG_SIZE
  sstubs,          \* size of .MIPS.stubs, in stubs
  dynsymcount,     \* elf_hash_table->dynsymcount
  todo,            \* what the current traversal has not visited
  output,          \* relocations written to .rel.dyn
  written          \* the PLT entries and stubs that were written

vars == <<pc, link, refs, forwarded, sym, reserved, textrel, texttag, plts,
          lazy_stub_count, big_stubs, sstubs, dynsymcount, todo, output, written>>

-----------------------------------------------------------------------------
(***************************************************************************)
(* Symbols.                                                                *)
(***************************************************************************)
NoOffset == -1  \* MINUS_ONE, an offset or index that is not set

\* global_got_area, from the most to the least demanding.
Areas == <<"NORMAL", "RELOC_ONLY", "NONE">>

Rank(area) == CHOOSE i \in 1..3 : Areas[i] = area

HighestArea(a, b) == IF Rank(a) <= Rank(b) THEN a ELSE b

\* Where the value of a symbol lies before the link changes it.
OwnSection(kind) ==
  CASE kind.def \in {"regular", "weak"} -> "input"
    [] kind.def = "dynamic" -> "library"
    [] OTHER -> "none"

DefRegular(h) == link.kind[h].def \in {"regular", "weak"}
DefDynamic(h) == link.kind[h].def = "dynamic"
Hidden(h) == link.kind[h].vis = "hidden"

\* The generic linker enters the symbols that a shared object exports or needs
\* and those that a shared library defines; hidden ones never.
DynamicFromStart(l, h) ==
  /\ l.kind[h].vis # "hidden"
  /\ l.shared \/ l.kind[h].def = "dynamic"

NewEntry(l, h) ==
  [possibly_dynamic_relocs |-> 0, readonly_reloc |-> FALSE,
   has_static_relocs |-> FALSE, no_fn_stub |-> FALSE,
   got_only_for_calls |-> TRUE, global_got_area |-> "NONE",
   needs_plt |-> FALSE, pointer_equality_needed |-> FALSE, func |-> l.kind[h].func,
   needs_lazy_stub |-> FALSE, needs_copy |-> FALSE, plt |-> NoOffset,
   dynindx |-> IF DynamicFromStart(l, h) THEN 0 ELSE NoOffset,
   section |-> OwnSection(l.kind[h])]

\* SYMBOL_REFERENCES_LOCAL and, for calls, SYMBOL_CALLS_LOCAL.
BindsLocally(h, s, forCalls) ==
  \/ Hidden(h)
  \/ /\ DefRegular(h)
     /\ \/ s.dynindx = NoOffset
        \/ link.executable
        \/ link.kind[h].vis = "protected" /\ (s.func => forCalls)

\* The symbol that a reference to h is for.
Target(h) == IF h \in forwarded THEN link.indirect[h] ELSE h

Proper == Syms \ forwarded

\* Enter symbol h with entry s into the dynamic symbol table.
Recorded(h, s) ==
  IF s.dynindx = NoOffset /\ ~Hidden(h) THEN [s EXCEPT !.dynindx = 0] ELSE s

NewDynsyms(old, new) ==
  Cardinality({h \in Syms : old[h].dynindx = NoOffset /\ new[h].dynindx # NoOffset})

-----------------------------------------------------------------------------
(***************************************************************************)
(* check_relocs for one relocation.                                        *)
(***************************************************************************)
\* The relocation can be left to the dynamic linker.
CanMakeDynamic(r) ==
  /\ r.type = "word"
  /\ Alloc(r.sec)
  /\ \/ link.shared
     \/ /\ r.sym # Local
        /\ ~(~link.nocopyreloc /\ ~PicObject(r.sec) /\ ReadOnly(r.sec))

\* The static linker has to know the value.
NeedsValue(r) ==
  r.type = "hi16" \/ (r.type = "word" /\ ~CanMakeDynamic(r) /\ ~Debugging(r.sec))

IsStatic(r) == NeedsValue(r) \/ r.type = "pc16"

\* The entry s of symbol h after a reference to it.
Scanned(h, s, r) ==
  LET got == r.type \in {"call16", "got16"}
      e == IF got THEN Recorded(h, s) ELSE s
  IN  [e EXCEPT
         !.pointer_equality_needed = @ \/ NeedsValue(r),
         !.has_static_relocs = @ \/ IsStatic(r),
         !.got_only_for_calls = @ /\ r.type # "got16",
         !.global_got_area = IF got THEN "NORMAL" ELSE @,
         !.needs_plt = @ \/ r.type = "call16",
         !.func = @ \/ r.type = "call16",
         !.possibly_dynamic_relocs = @ + IF CanMakeDynamic(r) THEN 1 ELSE 0,
         !.readonly_reloc = @ \/ (CanMakeDynamic(r) /\ ReadOnly(r.sec)),
         !.no_fn_stub = @ \/ r.type \notin {"call16", "jalr"}]

ScannedRelocs == SumFunctionOnSet(refs, DOMAIN refs)

CheckReloc(r) ==
  /\ pc = "scan"
  /\ ScannedRelocs < MaxRelocs
  /\ refs' = [refs EXCEPT ![r] = @ + 1]
  /\ IF link.shared /\ r.type = "hi16"
     THEN pc' = "failed" /\ UNCHANGED <<sym, dynsymcount, reserved, textrel>>
     ELSE /\ pc' = pc
          /\ IF r.sym = Local
             THEN /\ reserved' = reserved + (IF CanMakeDynamic(r) THEN 1 ELSE 0)
                  /\ textrel' = (textrel \/ (CanMakeDynamic(r) /\ ReadOnly(r.sec)))
                  /\ UNCHANGED <<sym, dynsymcount>>
             ELSE LET h == Target(r.sym) IN
                  /\ sym' = [sym EXCEPT ![h] = Scanned(h, @, r)]
                  /\ dynsymcount' = dynsymcount + NewDynsyms(sym, sym')
                  /\ UNCHANGED <<reserved, textrel>>
  /\ UNCHANGED <<link, forwarded, texttag, plts, lazy_stub_count, big_stubs,
                 sstubs, todo, output, written>>

-----------------------------------------------------------------------------
(***************************************************************************)
(* copy_indirect_symbol, for one other name or for several.  The generic   *)
(* linker copies its own flags first.                                      *)
(***************************************************************************)
CopyGenericFlags(dir, names) ==
  [dir EXCEPT
     !.needs_plt = @ \/ \E n \in names : n.needs_plt,
     !.pointer_equality_needed = @ \/ \E n \in names : n.pointer_equality_needed]

\* Called for weak aliases as well.
CopyForAlias(dir, names) ==
  [CopyGenericFlags(dir, names) EXCEPT
     !.has_static_relocs = @ \/ \E n \in names : n.has_static_relocs]

\* Mutants of CopyForIndirect: no_fn_stub, readonly_reloc is forgotten.
CopyForIndirect_NoFnStub(dir, ind) ==
  [CopyForAlias(dir, {ind}) EXCEPT
     !.possibly_dynamic_relocs = @ + ind.possibly_dynamic_relocs,
     !.readonly_reloc = @ \/ ind.readonly_reloc,
     !.global_got_area = HighestArea(@, ind.global_got_area),
     !.dynindx = IF ind.dynindx # NoOffset THEN ind.dynindx ELSE @]

CopyForIndirect_NoReadOnly(dir, ind) ==
  [CopyForAlias(dir, {ind}) EXCEPT
     !.possibly_dynamic_relocs = @ + ind.possibly_dynamic_relocs,
     !.no_fn_stub = @ \/ ind.no_fn_stub,
     !.global_got_area = HighestArea(@, ind.global_got_area),
     !.dynindx = IF ind.dynindx # NoOffset THEN ind.dynindx ELSE @]

CopyForIndirect(dir, ind) ==
  [CopyForAlias(dir, {ind}) EXCEPT
     !.possibly_dynamic_relocs = @ + ind.possibly_dynamic_relocs,
     !.readonly_reloc = @ \/ ind.readonly_reloc,
     !.no_fn_stub = @ \/ ind.no_fn_stub,
     !.global_got_area = HighestArea(@, ind.global_got_area),
     !.dynindx = IF ind.dynindx # NoOffset THEN ind.dynindx ELSE @]

\* A library that is read now shows that h is another name of a second symbol.
BecomeIndirect(h) ==
  /\ pc = "scan"
  /\ link.indirect[h] # h
  /\ h \notin forwarded
  /\ forwarded' = forwarded \cup {h}
  /\ sym' = [sym EXCEPT
               ![link.indirect[h]] = CopyForIndirect(@, sym[h]),
               ![h].global_got_area = "NONE",
               ![h].dynindx = NoOffset]
  /\ UNCHANGED <<pc, link, refs, reserved, textrel, texttag, plts,
                 lazy_stub_count, big_stubs, sstubs, dynsymcount, todo, output,
                 written>>

\* All inputs are read; the generic linker copies the flags of weak aliases and
\* takes hidden undefined symbols for local ones.
EndScan ==
  /\ pc = "scan"
  /\ pc' = "adjust"
  /\ \A h \in Syms : link.indirect[h] # h => h \in forwarded
  /\ sym' = [h \in Syms |->
       LET aliases == {a \in Syms \ {h} : link.weakdef[a] = h} IN
       [CopyForAlias(sym[h], {sym[a] : a \in aliases}) EXCEPT
          !.needs_plt = @ /\ ~(Hidden(h) /\ ~DefRegular(h))]]
  /\ todo' = Proper
  /\ UNCHANGED <<link, refs, forwarded, reserved, textrel, texttag, plts,
                 lazy_stub_count, big_stubs, sstubs, dynsymcount, output, written>>

-----------------------------------------------------------------------------
(***************************************************************************)
(* adjust_dynamic_symbol: one action for each way through it.              *)
(***************************************************************************)
Adjusting(h) ==
  /\ pc = "adjust"
  /\ h \in todo
  /\ link.weakdef[h] \notin todo \ {h}
  /\ todo' = todo \ {h}
  /\ UNCHANGED <<link, refs, forwarded, textrel, texttag, big_stubs, sstubs,
                 dynsymcount, output, written>>

OnlyCalled(h) == sym[h].needs_plt /\ ~sym[h].no_fn_stub

WantsStub(h) == OnlyCalled(h) /\ ~DefRegular(h)

WantsPlt(h) ==
  /\ ~OnlyCalled(h)
  /\ sym[h].func /\ sym[h].has_static_relocs
  /\ link.use_plts
  /\ ~BindsLocally(h, sym[h], TRUE)
  /\ ~(link.kind[h].vis # "default" /\ link.kind[h].def = "undefweak")

\* The function is called for these symbols only.
IsAdjusted(h) == sym[h].needs_plt \/ DefDynamic(h)

LazyStub(h) ==
  /\ Adjusting(h)
  /\ IsAdjusted(h) /\ WantsStub(h)
  /\ sym' = [sym EXCEPT ![h].needs_lazy_stub = TRUE]
  /\ lazy_stub_count' = lazy_stub_count + 1
  /\ UNCHANGED <<pc, plts, reserved>>

PltEntry(h) ==
  /\ Adjusting(h)
  /\ IsAdjusted(h) /\ ~WantsStub(h) /\ WantsPlt(h)
  /\ sym' = [sym EXCEPT ![h].plt = plts,
                        ![h].section = IF DefRegular(h) THEN @ ELSE "plt",
                        ![h].possibly_dynamic_relocs = 0]
  /\ plts' = plts + 1
  /\ UNCHANGED <<pc, lazy_stub_count, reserved>>

WeakAlias(h) ==
  /\ Adjusting(h)
  /\ IsAdjusted(h) /\ ~WantsStub(h) /\ ~WantsPlt(h)
  /\ link.weakdef[h] # h
  /\ sym' = [sym EXCEPT ![h].section = sym[link.weakdef[h]].section]
  /\ UNCHANGED <<pc, lazy_stub_count, plts, reserved>>

\* Neither a stub nor a PLT entry nor the value of another symbol.
IsPlain(h) ==
  IsAdjusted(h) /\ ~WantsStub(h) /\ ~WantsPlt(h) /\ link.weakdef[h] = h

WantsCopy(h) == ~DefRegular(h) /\ sym[h].has_static_relocs

NothingToAdjust(h) ==
  /\ Adjusting(h)
  /\ IsAdjusted(h) => IsPlain(h) /\ ~WantsCopy(h)
  /\ UNCHANGED <<pc, sym, lazy_stub_count, plts, reserved>>

\* "non-dynamic relocations refer to dynamic symbol"
RefuseStatic(h) ==
  /\ Adjusting(h)
  /\ IsPlain(h) /\ WantsCopy(h)
  /\ ~link.use_plts \/ link.shared
  /\ pc' = "failed"
  /\ UNCHANGED <<sym, lazy_stub_count, plts, reserved>>

CopyReloc(h) ==
  /\ Adjusting(h)
  /\ IsPlain(h) /\ WantsCopy(h)
  /\ link.use_plts /\ ~link.shared
  /\ reserved' = reserved + 1
  /\ sym' = [sym EXCEPT ![h].needs_copy = TRUE,
                        ![h].possibly_dynamic_relocs = 0,
                        ![h].section = "dynbss"]
  /\ UNCHANGED <<pc, lazy_stub_count, plts>>

-----------------------------------------------------------------------------
(***************************************************************************)
(* size_dynamic_sections.                                                  *)
(***************************************************************************)
\* allocate_dynrelocs copies the relocations against h.
CopiesRelocs(h) ==
  /\ sym[h].possibly_dynamic_relocs # 0
  /\ link.kind[h].def = "weak" \/ ~DefRegular(h) \/ link.shared
  /\ ~(link.kind[h].def = "undefweak" /\ link.kind[h].vis # "default")

\* Mutant of Copied: GOT entries for calls stay what they are.
Copied_ForCalls(h, s) ==
  [Recorded(h, s) EXCEPT !.global_got_area = HighestArea(@, "RELOC_ONLY")]

\* The psABI wants a GOT entry for every symbol that relocations refer to.
Copied(h, s) ==
  [(IF link.kind[h].def = "undefweak" THEN Recorded(h, s) ELSE s) EXCEPT
     !.global_got_area = HighestArea(@, "RELOC_ONLY"),
     !.got_only_for_calls = FALSE]

AllocateDynrelocs ==
  /\ pc = "adjust"
  /\ todo = {}
  /\ pc' = "estimate"
  /\ LET copied == {h \in Proper : CopiesRelocs(h)} IN
     /\ sym' = [h \in Syms |-> IF h \in copied THEN Copied(h, sym[h]) ELSE sym[h]]
     /\ reserved' = reserved +
          SumFunctionOnSet([h \in Syms |-> sym[h].possibly_dynamic_relocs], copied)
     /\ textrel' = (textrel \/ \E h \in copied : sym[h].readonly_reloc)
  /\ dynsymcount' = dynsymcount + NewDynsyms(sym, sym')
  /\ UNCHANGED <<link, refs, forwarded, texttag, plts, lazy_stub_count, big_stubs,
                 sstubs, todo, output, written>>

\* Mutant of WorstDynsyms: section symbols are not counted.
WorstDynsyms_NoSections == dynsymcount

\* count_section_dynsyms: a shared object may need section symbols.
WorstDynsyms == dynsymcount + (IF link.shared THEN SectionDynsyms ELSE 0)

EstimateStubSize ==
  /\ pc = "estimate"
  /\ pc' = "lay_out"
  /\ IF lazy_stub_count = 0
     THEN UNCHANGED <<lazy_stub_count, big_stubs, sstubs>>
     ELSE /\ lazy_stub_count' = lazy_stub_count + 1
          /\ big_stubs' = (WorstDynsyms > MaxIndex + 1)
          /\ sstubs' = lazy_stub_count'
  /\ UNCHANGED <<link, refs, forwarded, sym, reserved, textrel, texttag, plts,
                 dynsymcount, todo, output, written>>

\* mips_elf_lay_out_got: the final area of each symbol (mips_elf_count_got_
\* symbols); symbols of secondary GOTs lose their stubs (MultiGot).
LayOutGot ==
  /\ pc = "lay_out"
  /\ pc' = "stubs"
  /\ \E lost \in SUBSET {h \in Proper : sym[h].needs_lazy_stub} :
       /\ sym' = [h \in Syms |->
            [sym[h] EXCEPT
               !.global_got_area =
                 IF \/ sym[h].dynindx = NoOffset
                    \/ BindsLocally(h, sym[h], sym[h].got_only_for_calls)
                 THEN "NONE" ELSE @,
               !.needs_lazy_stub = @ /\ h \notin lost]]
       /\ lazy_stub_count' = lazy_stub_count - Cardinality(lost)
  /\ UNCHANGED <<link, refs, forwarded, reserved, textrel, texttag, plts,
                 big_stubs, sstubs, dynsymcount, todo, output, written>>

Orders(S) == {f \in [S -> 1..Cardinality(S)] : \A a, b \in S : f[a] = f[b] => a = b}

\* mips_elf_lay_out_lazy_stubs, and the DT_TEXTREL entry, which is made now or
\* never.
LayOutStubs ==
  /\ pc = "stubs"
  /\ pc' = "sort"
  /\ LET stubs == {h \in Proper : sym[h].needs_lazy_stub} IN
     /\ \E pos \in Orders(stubs) :
          sym' = [h \in Syms |->
                    IF h \in stubs
                    THEN [sym[h] EXCEPT !.plt = pos[h] - 1, !.section = "stubs"]
                    ELSE sym[h]]
     /\ sstubs' = IF lazy_stub_count = 0 THEN sstubs ELSE Cardinality(stubs) + 1
  /\ texttag' = textrel
  /\ textrel' = FALSE
  /\ UNCHANGED <<link, refs, forwarded, reserved, plts, lazy_stub_count,
                 big_stubs, dynsymcount, todo, output, written>>

\* The generic linker counts again, now with the section symbols that are
\* really needed, and mips_elf_sort_hash_table gives the symbols their indices.
SortDynsyms ==
  /\ pc = "sort"
  /\ pc' = "relocate"
  /\ LET dynamic == {h \in Proper : sym[h].dynindx # NoOffset} IN
     \E sections \in 0..(IF link.shared THEN SectionDynsyms ELSE 0) :
       /\ dynsymcount' = 1 + sections + Cardinality(dynamic)
       /\ \E pos \in Orders(dynamic) :
            /\ \A a, b \in dynamic :
                 Rank(sym[a].global_got_area) > Rank(sym[b].global_got_area)
                   /\ sym[a].global_got_area = "NONE" => pos[a] < pos[b]
            /\ sym' = [h \in Syms |->
                         IF h \in dynamic
                         THEN [sym[h] EXCEPT !.dynindx = sections + pos[h]]
                         ELSE sym[h]]
  /\ todo' = {r.sec : r \in {q \in DOMAIN refs : refs[q] > 0}}
  /\ UNCHANGED <<link, refs, forwarded, reserved, textrel, texttag, plts,
                 lazy_stub_count, big_stubs, sstubs, output, written>>

-----------------------------------------------------------------------------
(***************************************************************************)
(* relocate_section and finish_dynamic_symbol.                             *)
(***************************************************************************)
\* Mutants of Emits: references from read-only sections are resolved statically;
\* whether the symbol has a PLT entry or a copy is not asked.
Emits_Writable(r) ==
  /\ r.type = "word" /\ Alloc(r.sec) /\ (link.shared \/ ~ReadOnly(r.sec))
  /\ IF r.sym = Local THEN link.shared
     ELSE LET h == Target(r.sym) IN
          /\ link.shared \/ (DefDynamic(h) /\ ~sym[h].has_static_relocs)
          /\ ~(link.kind[h].def = "undefweak" /\ link.kind[h].vis # "default")

Emits_Anyway(r) ==
  /\ r.type = "word" /\ Alloc(r.sec)
  /\ IF r.sym = Local THEN link.shared
     ELSE LET h == Target(r.sym) IN
          /\ link.shared \/ DefDynamic(h)
          /\ ~(link.kind[h].def = "undefweak" /\ link.kind[h].vis # "default")

\* calculate_relocation writes a dynamic relocation for r.
Emits(r) ==
  /\ r.type = "word" /\ Alloc(r.sec)
  /\ IF r.sym = Local THEN link.shared
     ELSE LET h == Target(r.sym) IN
          /\ link.shared \/ (DefDynamic(h) /\ ~sym[h].has_static_relocs)
          /\ ~(link.kind[h].def = "undefweak" /\ link.kind[h].vis # "default")

RelocateSection(sec) ==
  /\ pc = "relocate"
  /\ sec \in todo
  /\ todo' = todo \ {sec}
  /\ LET emitted == {r \in DOMAIN refs : refs[r] > 0 /\ r.sec = sec /\ Emits(r)} IN
     /\ output' = output + SumFunctionOnSet(refs, emitted)
     /\ textrel' = (textrel \/ (ReadOnly(sec) /\ emitted # {}))
  /\ UNCHANGED <<pc, link, refs, forwarded, sym, reserved, texttag, plts,
                 lazy_stub_count, big_stubs, sstubs, dynsymcount, written>>

EndRelocate ==
  /\ pc = "relocate"
  /\ todo = {}
  /\ pc' = "finish"
  /\ todo' = {h \in Proper : sym[h].dynindx # NoOffset}
  /\ UNCHANGED <<link, refs, forwarded, sym, reserved, textrel, texttag, plts,
                 lazy_stub_count, big_stubs, sstubs, dynsymcount, output, written>>

\* What was written for symbol h, and whether its entry in the dynamic symbol
\* table keeps the address.
Entry(part, h, exported) ==
  [part |-> part, offset |-> sym[h].plt, sym |-> h, exported |-> exported]

\* Mutant of EntriesOf: whether there is an entry at all is not asked.
EntriesOf_Unasked(h) ==
  IF sym[h].no_fn_stub
  THEN {Entry("plt", h, sym[h].pointer_equality_needed)}
  ELSE {Entry("stubs", h, TRUE)}

EntriesOf(h) ==
  IF sym[h].plt = NoOffset THEN {}
  ELSE IF sym[h].no_fn_stub
  THEN {Entry("plt", h, sym[h].pointer_equality_needed)}
  ELSE {Entry("stubs", h, TRUE)}

FinishSymbol(h) ==
  /\ pc = "finish"
  /\ h \in todo
  /\ todo' = todo \ {h}
  /\ written' = written \cup EntriesOf(h)
  /\ output' = output + (IF sym[h].needs_copy THEN 1 ELSE 0)
  /\ UNCHANGED <<pc, link, refs, forwarded, sym, reserved, textrel, texttag,
                 plts, lazy_stub_count, big_stubs, sstubs, dynsymcount>>

\* finish_dynamic_sections deletes a DT_TEXTREL entry that nothing needs.
FinishSections ==
  /\ pc = "finish"
  /\ todo = {}
  /\ pc' = "finished"
  /\ texttag' = (texttag /\ textrel)
  /\ UNCHANGED <<link, refs, forwarded, sym, reserved, textrel, plts,
                 lazy_stub_count, big_stubs, sstubs, dynsymcount, todo, output,
                 written>>

-----------------------------------------------------------------------------
\* Data is not called; only word references to local symbols matter here.
ScannableRefs(l) ==
  {r \in Ref :
     /\ r.sec = "data" => r.type = "word"
     /\ r.sec \in {"pic_text", "debug", "notes"} => r.type = "word"
     /\ r.sym = Local => r.type = "word"
     /\ r.sym \in Syms /\ ~l.kind[r.sym].func => r.type \in {"word", "hi16", "got16"}}

Init ==
  /\ pc = "scan"
  /\ link \in Links
  /\ refs = [r \in ScannableRefs(link) |-> 0]
  /\ forwarded = {}
  /\ sym = [h \in Syms |-> NewEntry(link, h)]
  /\ reserved = 0
  /\ textrel = FALSE /\ texttag = FALSE
  /\ plts = 0
  /\ lazy_stub_count = 0
  /\ big_stubs = FALSE
  /\ sstubs = 0
  /\ dynsymcount = 1 + Cardinality({h \in Syms : DynamicFromStart(link, h)})
  /\ todo = {}
  /\ output = 0
  /\ written = {}

Adjust(h) ==
  \/ LazyStub(h)
  \/ PltEntry(h)
  \/ WeakAlias(h)
  \/ NothingToAdjust(h)
  \/ RefuseStatic(h)
  \/ CopyReloc(h)

Next ==
  \/ \E r \in DOMAIN refs : CheckReloc(r)
  \/ \E h \in Syms : BecomeIndirect(h)
  \/ EndScan
  \/ \E h \in Syms : Adjust(h)
  \/ AllocateDynrelocs
  \/ EstimateStubSize
  \/ LayOutGot
  \/ LayOutStubs
  \/ SortDynsyms
  \/ \E sec \in InputSections : RelocateSection(sec)
  \/ EndRelocate
  \/ \E h \in Syms : FinishSymbol(h)
  \/ FinishSections

Spec == Init /\ [][Next]_vars

-----------------------------------------------------------------------------
(***************************************************************************)
(* Properties.                                                             *)
(***************************************************************************)
SymEntry ==
  [possibly_dynamic_relocs : 0..MaxRelocs, readonly_reloc : BOOLEAN,
   has_static_relocs : BOOLEAN, no_fn_stub : BOOLEAN,
   got_only_for_calls : BOOLEAN, global_got_area : {"NORMAL", "RELOC_ONLY", "NONE"},
   needs_plt : BOOLEAN, pointer_equality_needed : BOOLEAN, func : BOOLEAN,
   needs_lazy_stub : BOOLEAN, needs_copy : BOOLEAN, plt : Nat \cup {NoOffset},
   dynindx : Nat \cup {NoOffset},
   section : {"input", "library", "none", "plt", "stubs", "dynbss"}]

\* Type correctness.
TypeOK ==
  /\ pc \in {"scan", "adjust", "estimate", "lay_out", "stubs", "sort", "relocate",
             "finish", "finished", "failed"}
  /\ link \in Link
  /\ refs \in [ScannableRefs(link) -> 0..MaxRelocs]
  /\ forwarded \subseteq Syms
  /\ sym \in [Syms -> SymEntry]
  /\ {reserved, plts, lazy_stub_count, sstubs, dynsymcount, output} \subseteq Nat
  /\ {textrel, texttag, big_stubs} \subseteq BOOLEAN
  /\ todo \subseteq Syms \/ todo \subseteq InputSections
  /\ written \subseteq [part : {"plt", "stubs"}, offset : Nat, sym : Syms,
                        exported : BOOLEAN]

WasScanned(r) == refs[r] > 0

LaidOut == pc \in {"relocate", "finish", "finished"}

\* BFD_ASSERT (sreloc->reloc_count * MIPS_ELF_REL_SIZE < sreloc->size): what the
\* scan and the adjustment of symbols reserve covers what relocate_section and
\* finish_dynamic_symbol write; in a shared object, exactly.
RoomForRelocs ==
  /\ output <= reserved
  /\ pc = "finished" /\ link.shared => output = reserved

\* No reference is resolved to an address inside a shared library, which is not
\* known: whatever is not left to the dynamic linker finds a PLT entry, a stub
\* or a copy of the symbol in the output.
ResolvedInOutput ==
  LaidOut => \A r \in DOMAIN refs :
    WasScanned(r) /\ r.sym # Local /\ (IsStatic(r) \/ (r.type = "word" /\ Alloc(r.sec))) =>
      Emits(r) \/ sym[Target(r.sym)].section # "library"

\* Function pointers compare equal: when the executable uses the address of a
\* PLT entry as the address of the function, by whatever name, the dynamic
\* symbol shows that address to the libraries.
OneAddress ==
  \A w \in written : w.part = "plt" =>
    ((\E r \in DOMAIN refs :
        WasScanned(r) /\ r.sym # Local /\ NeedsValue(r) /\ Target(r.sym) = w.sym)
       => w.exported)

\* finish_dynamic_symbol tells PLT entries from stubs by no_fn_stub, which
\* adjust_dynamic_symbol did not store as its decision: it writes every entry
\* that was allocated, where it was allocated, with an address that is shown
\* where it has to be, and its assertions hold.
WrittenAsAllocated ==
  /\ OneAddress
  /\ \A w \in written :
       /\ w.part = "plt" <=> ~sym[w.sym].needs_lazy_stub
       /\ w.part = "plt" => link.use_plts /\ ~DefRegular(w.sym) /\ w.offset < plts
       /\ w.part = "stubs" => w.offset < sstubs - 1
  /\ LaidOut => sstubs = lazy_stub_count
  /\ pc = "finished" =>
       /\ {w.offset : w \in {w \in written : w.part = "plt"}} = 0..(plts - 1)
       /\ {w.offset : w \in {w \in written : w.part = "stubs"}} = 0..(sstubs - 2)
       /\ \A h \in Proper : sym[h].needs_copy => sym[h].dynindx # NoOffset

\* BFD_ASSERT (h->global_got_area != GGA_NONE): a symbol that a dynamic
\* relocation names has kept its global GOT entry, although the symbols that
\* bind locally, for calls or for all references, have been taken out.
GotAreaKept ==
  LaidOut => \A r \in DOMAIN refs :
    WasScanned(r) /\ r.sym # Local /\ Emits(r) =>
      LET h == Target(r.sym) IN
      BindsLocally(h, sym[h], FALSE) \/ sym[h].global_got_area # "NONE"

\* The size of stubs is fixed before the dynamic symbols are counted for the
\* last time; each stub can nevertheless load the index of its symbol.
StubsLoadIndex ==
  LaidOut => \A h \in Proper :
    sym[h].section = "stubs" => big_stubs \/ sym[h].dynindx <= MaxIndex

\* A relocation of a read-only section is announced to the dynamic linker: the
\* DT_TEXTREL entry had to be made before any relocation was written.
TextRelTagged == LaidOut /\ textrel => texttag
=============================================================================
