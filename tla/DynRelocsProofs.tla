-------------------------- MODULE DynRelocsProofs --------------------------
(***************************************************************************)
(* Proofs about DynRelocs, for every set of symbols and of links and every *)
(* bound on the relocations: .rel.dyn has room for what is written to it,  *)
(* nothing is resolved into a library, PLT entries and stubs are written   *)
(* as they were allocated, dynamic relocations find their GOT entries,     *)
(* stubs reach their symbols, and DT_TEXTREL is there when it is needed.   *)
(*                                                                         *)
(* The inductive invariant has three layers.  TypeInv says that the        *)
(* counters of an entry are sums over the relocations scanned.  SymInv     *)
(* says what flags recall of the relocations, and what was decided about   *)
(* each symbol from the flags.  RoomInv, TextInv, IndexInv, AreaInv and    *)
(* WrittenInv say, each from the first two, what has been reserved and     *)
(* what has been written.                                                  *)
(***************************************************************************)
EXTENDS DynRelocs, SumTheorems, TLAPS

-----------------------------------------------------------------------------
(***************************************************************************)
(* The invariant.  Types, names and the counters first.                    *)
(***************************************************************************)
\* The names that the inputs have shown to be names of other symbols.
Names ==
  /\ link \in Links
  /\ \A h \in forwarded : link.indirect[h] # h
  /\ pc \notin {"scan", "failed"} => \A h \in Syms : link.indirect[h] # h => h \in forwarded

\* The references to h that can become dynamic relocations, by whatever name.
DynamicRefs(h) ==
  {r \in DOMAIN refs : r.sym # Local /\ CanMakeDynamic(r) /\ Target(r.sym) = h}

\* A PLT entry or a copy has taken the place of the relocations against h.
Replaced(h) ==
  /\ pc # "scan" /\ ~link.shared
  /\ sym[h].possibly_dynamic_relocs = 0 /\ sym[h].has_static_relocs

\* The entry of h counts its references.
Counted(h) ==
  sym[h].possibly_dynamic_relocs = SumFunctionOnSet(refs, DynamicRefs(h))

\* What the entry of a symbol counts is what has been scanned.
Counts ==
  /\ ScannedRelocs <= MaxRelocs
  /\ pc # "failed" => \A h \in Proper : Counted(h) \/ Replaced(h)

\* The symbols that have a lazy-binding stub.
Stubs == {h \in Syms : sym[h].needs_lazy_stub}

\* lazy_stub_count and the size of .MIPS.stubs count the stubs; the size of the
\* section has room for one more, at its end.
StubCount ==
  /\ pc \in {"scan", "adjust", "estimate"} =>
       lazy_stub_count = Cardinality(Stubs) /\ sstubs = 0
  /\ pc = "lay_out" =>
       /\ sstubs = lazy_stub_count
       /\ lazy_stub_count = IF Stubs = {} THEN 0 ELSE Cardinality(Stubs) + 1
  /\ pc = "stubs" =>
       \/ lazy_stub_count = Cardinality(Stubs) + 1
       \/ lazy_stub_count = 0 /\ Stubs = {} /\ sstubs = 0
  /\ pc \in {"sort", "relocate", "finish", "finished"} =>
       /\ sstubs = lazy_stub_count
       /\ sstubs = Cardinality(Stubs) + 1 \/ (sstubs = 0 /\ Stubs = {})
  /\ pc = "scan" => Stubs = {}
  /\ pc = "adjust" => todo \subseteq Proper /\ todo \cap Stubs = {}
  /\ \A h \in Stubs : h \in Proper

\* Types, names and counters together.
TypeInv == TypeOK /\ Names /\ Counts /\ StubCount

-----------------------------------------------------------------------------
(***************************************************************************)
(* What the scan has recorded, and what became of each symbol.             *)
(***************************************************************************)
\* The entry e recalls the reference r.
Recalls(e, r) ==
  /\ IsStatic(r) => e.has_static_relocs
  /\ NeedsValue(r) => e.pointer_equality_needed
  /\ CanMakeDynamic(r) /\ ReadOnly(r.sec) => e.readonly_reloc

Flags ==
  \A r \in DOMAIN refs :
    WasScanned(r) /\ r.sym # Local => Recalls(sym[Target(r.sym)], r)

\* Only functions are called; a symbol whose address is needed is not only
\* called; what the dynamic linker has to know is in the dynamic symbol table.
EntryOK(h) ==
  LET e == sym[h] IN
  /\ e.needs_plt \/ e.func => link.kind[h].func
  /\ e.has_static_relocs /\ (pc = "scan" \/ link.kind[h].func) => e.no_fn_stub
  /\ h \in Proper /\ (DynamicFromStart(link, h) \/ (e.needs_plt /\ ~Hidden(h))) =>
       e.dynindx # NoOffset
  /\ pc # "scan" =>
       /\ e.needs_plt /\ Hidden(h) => DefRegular(h)
       /\ link.weakdef[h] # h /\ e.has_static_relocs =>
            sym[link.weakdef[h]].has_static_relocs

\* adjust_dynamic_symbol has not changed h.
Untouched(h) ==
  /\ sym[h].plt = NoOffset
  /\ ~sym[h].needs_lazy_stub /\ ~sym[h].needs_copy
  /\ sym[h].section = OwnSection(link.kind[h])

\* adjust_dynamic_symbol has yet to visit h.
Pending(h) == pc = "scan" \/ (pc = "adjust" /\ h \in todo)

\* What was decided about h fits what its entry says, now and later.
Disposed(h) ==
  LET e == sym[h] IN
  /\ Pending(h) \/ h \in forwarded => Untouched(h)
  /\ e.needs_lazy_stub => ~e.no_fn_stub /\ e.needs_plt /\ ~DefRegular(h)
  /\ e.plt # NoOffset /\ ~e.needs_lazy_stub =>
       e.no_fn_stub /\ link.use_plts /\ ~DefRegular(h) /\ e.dynindx # NoOffset
  /\ e.needs_copy => e.dynindx # NoOffset /\ ~link.shared
  /\ e.section = "library" => DefDynamic(h)
  /\ e.section = "stubs" =>
       e.needs_lazy_stub /\ pc \in {"sort", "relocate", "finish", "finished"}
  /\ e.needs_lazy_stub /\ pc \in {"adjust", "estimate", "lay_out", "stubs"} =>
       e.plt = NoOffset
  /\ h \in Proper /\ ~Pending(h) /\ e.has_static_relocs => e.section # "library"

\* The symbols that have a PLT entry, and where entries lie.
PltSyms == {h \in Syms : sym[h].plt # NoOffset /\ ~sym[h].needs_lazy_stub}

Offsets(S) == {sym[h].plt : h \in S}

\* All decisions together; PLT entries and stubs are numbered without gaps.
Disposition ==
  /\ pc = "adjust" => todo \subseteq Proper
  /\ \A h \in Syms : Disposed(h)
  /\ Offsets(PltSyms) = 0..(plts - 1)
  /\ pc \in {"sort", "relocate", "finish", "finished"} =>
       Offsets(Stubs) = 0..(Cardinality(Stubs) - 1)

\* All entries together.
Entries == \A h \in Syms : EntryOK(h)

\* The symbols, unless the link was refused.
SymInv == pc # "failed" => Flags /\ Entries /\ Disposition

-----------------------------------------------------------------------------
(***************************************************************************)
(* Room and what fills it.                                                 *)
(***************************************************************************)
\* The relocations against local symbols and against others that are reserved.
LocalRefs == {r \in DOMAIN refs : r.sym = Local /\ CanMakeDynamic(r)}

CopiedRefs ==
  {r \in DOMAIN refs :
     /\ r.sym # Local /\ CanMakeDynamic(r)
     /\ Target(r.sym) \in Proper /\ CopiesRelocs(Target(r.sym))}

\* The symbols with a copy relocation.
Copies == {h \in Syms : sym[h].needs_copy}

\* The relocations of the sections that relocate_section has done.
Emitted == {r \in DOMAIN refs : refs[r] > 0 /\ r.sec \notin todo /\ Emits(r)}

\* What has been reserved, and what has been written.
RoomInv ==
  /\ pc \in {"scan", "adjust", "estimate", "lay_out", "stubs", "sort", "failed"} =>
       output = 0 /\ written = {}
  /\ pc \in {"scan", "adjust"} =>
       reserved = SumFunctionOnSet(refs, LocalRefs) + Cardinality(Copies)
  /\ pc \in {"estimate", "lay_out", "stubs", "sort", "relocate", "finish", "finished"} =>
       reserved = SumFunctionOnSet(refs, LocalRefs) + SumFunctionOnSet(refs, CopiedRefs)
                    + Cardinality(Copies)
  /\ pc = "relocate" => output = SumFunctionOnSet(refs, Emitted)
  /\ pc \in {"finish", "finished"} =>
       output = SumFunctionOnSet(refs, {r \in DOMAIN refs : refs[r] > 0 /\ Emits(r)})
                  + Cardinality(Copies \ todo)

\* Relocations of read-only sections: against local symbols, against others.
LocalText == \E r \in LocalRefs : WasScanned(r) /\ ReadOnly(r.sec)

GlobalText == \E h \in Proper : CopiesRelocs(h) /\ sym[h].readonly_reloc

\* Relocations of read-only sections are announced.
TextInv ==
  /\ pc \in {"scan", "adjust", "estimate", "lay_out", "stubs"} /\ LocalText => textrel
  /\ pc \in {"estimate", "lay_out", "stubs"} /\ GlobalText => textrel
  /\ pc \in {"sort", "relocate", "finish"} /\ (LocalText \/ GlobalText) => texttag
  /\ pc \in {"sort", "relocate", "finish", "finished"} /\ textrel => texttag

\* The symbols in the dynamic symbol table.
DynamicSyms == {h \in Syms : sym[h].dynindx # NoOffset}

\* Dynamic symbols are counted before they have indices.
IndexInv ==
  /\ pc \in {"scan", "adjust", "estimate", "lay_out", "stubs", "sort"} =>
       dynsymcount >= 1 + Cardinality(DynamicSyms)
  /\ pc \in {"lay_out", "stubs", "sort"} /\ Stubs # {} =>
       big_stubs \/ WorstDynsyms <= MaxIndex + 1
  /\ StubsLoadIndex

\* What has relocations keeps its GOT entry unless it binds locally.
AreaInv ==
  \A h \in Proper :
    CopiesRelocs(h) =>
      /\ pc \in {"estimate", "lay_out"} =>
           /\ sym[h].global_got_area # "NONE" /\ ~sym[h].got_only_for_calls
           /\ sym[h].dynindx = NoOffset => Hidden(h) \/ DefRegular(h)
                                           \/ (~link.shared /\ ~DefDynamic(h))
      /\ pc \in {"stubs", "sort", "relocate", "finish", "finished"} =>
           \/ BindsLocally(h, sym[h], FALSE) \/ sym[h].global_got_area # "NONE"
           \/ (~link.shared /\ ~DefDynamic(h))

\* What has been written for the symbols that finish_dynamic_symbol has visited.
WrittenInv ==
  /\ pc = "finish" => todo \subseteq Proper \cap DynamicSyms
  /\ \A w \in written : w.sym \in Syms /\ w \in EntriesOf(w.sym)
  /\ pc \in {"finish", "finished"} =>
       \A h \in (Proper \cap DynamicSyms) \ todo : EntriesOf(h) \subseteq written
  /\ pc = "finished" => todo = {}
\* Recording a symbol touches its index only.
LEMMA RecordedEntry ==
  ASSUME NEW h \in Syms, NEW e \in SymEntry
  PROVE  /\ Recorded(h, e) \in SymEntry
         /\ \E i \in Nat \cup {NoOffset} : Recorded(h, e) = [e EXCEPT !.dynindx = i]
         /\ Recorded(h, e).dynindx = IF e.dynindx = NoOffset /\ ~Hidden(h) THEN 0 ELSE e.dynindx
BY DEF Recorded, SymEntry, NoOffset

\* What check_relocs leaves in the entry of the symbol that a relocation refers to.
LEMMA ScannedEntry ==
  ASSUME NEW h \in Syms, NEW e \in SymEntry, NEW r \in Ref,
         e.possibly_dynamic_relocs + 1 \in 0..MaxRelocs
  PROVE  LET s == Scanned(h, e, r) IN
         /\ s \in SymEntry
         /\ s.possibly_dynamic_relocs =
              e.possibly_dynamic_relocs + (IF CanMakeDynamic(r) THEN 1 ELSE 0)
         /\ s.readonly_reloc = (e.readonly_reloc \/ (CanMakeDynamic(r) /\ ReadOnly(r.sec)))
         /\ s.has_static_relocs = (e.has_static_relocs \/ IsStatic(r))
         /\ s.no_fn_stub = (e.no_fn_stub \/ r.type \notin {"call16", "jalr"})
         /\ s.needs_plt = (e.needs_plt \/ r.type = "call16")
         /\ s.func = (e.func \/ r.type = "call16")
         /\ s.pointer_equality_needed = (e.pointer_equality_needed \/ NeedsValue(r))
         /\ s.needs_lazy_stub = e.needs_lazy_stub
         /\ s.needs_copy = e.needs_copy
         /\ s.plt = e.plt
         /\ s.section = e.section
         /\ s.dynindx = IF r.type \in {"call16", "got16"} THEN Recorded(h, e).dynindx ELSE e.dynindx
<1> DEFINE got == r.type \in {"call16", "got16"}
           d == IF got THEN Recorded(h, e) ELSE e
<1>1. PICK i \in Nat \cup {NoOffset} : d = [e EXCEPT !.dynindx = i]
  BY RecordedEntry DEF SymEntry
<1>2. d.dynindx = i /\ d \in SymEntry
  BY <1>1, RecordedEntry DEF SymEntry
<1>3. /\ d.possibly_dynamic_relocs = e.possibly_dynamic_relocs
      /\ d.readonly_reloc = e.readonly_reloc
      /\ d.has_static_relocs = e.has_static_relocs
      /\ d.no_fn_stub = e.no_fn_stub
      /\ d.needs_plt = e.needs_plt
      /\ d.func = e.func
      /\ d.pointer_equality_needed = e.pointer_equality_needed
      /\ d.needs_lazy_stub = e.needs_lazy_stub
      /\ d.needs_copy = e.needs_copy
      /\ d.plt = e.plt
      /\ d.section = e.section
  BY <1>1 DEF SymEntry
<1> DEFINE ptr == d.pointer_equality_needed \/ NeedsValue(r)
           static == d.has_static_relocs \/ IsStatic(r)
           calls == d.got_only_for_calls /\ r.type # "got16"
           area == IF got THEN "NORMAL" ELSE d.global_got_area
           plt == d.needs_plt \/ r.type = "call16"
           func == d.func \/ r.type = "call16"
           n == d.possibly_dynamic_relocs + IF CanMakeDynamic(r) THEN 1 ELSE 0
           ro == d.readonly_reloc \/ (CanMakeDynamic(r) /\ ReadOnly(r.sec))
           nostub == d.no_fn_stub \/ r.type \notin {"call16", "jalr"}
<1>4. /\ ptr \in BOOLEAN /\ static \in BOOLEAN /\ calls \in BOOLEAN
      /\ plt \in BOOLEAN /\ func \in BOOLEAN /\ ro \in BOOLEAN /\ nostub \in BOOLEAN
      /\ n \in 0..MaxRelocs /\ area \in {"NORMAL", "RELOC_ONLY", "NONE"}
  <2>1. d.possibly_dynamic_relocs \in 0..MaxRelocs
        /\ d.possibly_dynamic_relocs + 1 \in 0..MaxRelocs
        /\ d.global_got_area \in {"NORMAL", "RELOC_ONLY", "NONE"}
    BY <1>2, <1>3 DEF SymEntry
  <2>2. QED
    BY <2>1
<1>5. Scanned(h, e, r) =
        [d EXCEPT !.pointer_equality_needed = ptr, !.has_static_relocs = static,
           !.got_only_for_calls = calls, !.global_got_area = area,
           !.needs_plt = plt, !.func = func, !.possibly_dynamic_relocs = n,
           !.readonly_reloc = ro, !.no_fn_stub = nostub]
  BY DEF Scanned
<1>6. /\ n = e.possibly_dynamic_relocs + (IF CanMakeDynamic(r) THEN 1 ELSE 0)
      /\ ro = (e.readonly_reloc \/ (CanMakeDynamic(r) /\ ReadOnly(r.sec)))
      /\ static = (e.has_static_relocs \/ IsStatic(r))
      /\ nostub = (e.no_fn_stub \/ r.type \notin {"call16", "jalr"})
      /\ plt = (e.needs_plt \/ r.type = "call16")
      /\ func = (e.func \/ r.type = "call16")
      /\ ptr = (e.pointer_equality_needed \/ NeedsValue(r))
  BY <1>3
<1>7. d.dynindx = IF got THEN Recorded(h, e).dynindx ELSE e.dynindx
  OBVIOUS
<1> HIDE DEF d, ptr, static, calls, area, plt, func, n, ro, nostub
<1>8. Scanned(h, e, r) \in SymEntry
  <2> DEFINE u == [d EXCEPT !.pointer_equality_needed = ptr, !.has_static_relocs = static,
           !.got_only_for_calls = calls, !.global_got_area = area]
  <2>1. u \in SymEntry
    BY <1>2, <1>4, ZenonT(40) DEF SymEntry
  <2> HIDE DEF u
  <2>2. [u EXCEPT !.needs_plt = plt, !.func = func, !.possibly_dynamic_relocs = n,
           !.readonly_reloc = ro, !.no_fn_stub = nostub] \in SymEntry
    BY <2>1, <1>4 DEF SymEntry
  <2>3. QED
    BY <1>5, <2>2 DEF u
<1> DEFINE s == Scanned(h, e, r)
<1>9. /\ s.possibly_dynamic_relocs = n /\ s.readonly_reloc = ro
      /\ s.has_static_relocs = static /\ s.no_fn_stub = nostub
      /\ s.needs_plt = plt /\ s.func = func /\ s.pointer_equality_needed = ptr
      /\ s.needs_lazy_stub = d.needs_lazy_stub /\ s.needs_copy = d.needs_copy
      /\ s.plt = d.plt /\ s.dynindx = d.dynindx /\ s.section = d.section
  BY <1>2, <1>5 DEF SymEntry
<1> HIDE DEF s
<1>10. QED
  BY <1>3, <1>6, <1>7, <1>8, <1>9 DEF s
\* What an entry takes over from its other names.
LEMMA AliasEntry ==
  ASSUME NEW e \in SymEntry, NEW names \in SUBSET SymEntry
  PROVE  LET s == CopyForAlias(e, names) IN
         /\ s \in SymEntry
         /\ s.needs_plt = (e.needs_plt \/ \E n \in names : n.needs_plt)
         /\ s.pointer_equality_needed =
              (e.pointer_equality_needed \/ \E n \in names : n.pointer_equality_needed)
         /\ s.has_static_relocs =
              (e.has_static_relocs \/ \E n \in names : n.has_static_relocs)
         /\ s.possibly_dynamic_relocs = e.possibly_dynamic_relocs
         /\ s.readonly_reloc = e.readonly_reloc
         /\ s.no_fn_stub = e.no_fn_stub
         /\ s.func = e.func
         /\ s.needs_lazy_stub = e.needs_lazy_stub
         /\ s.needs_copy = e.needs_copy
         /\ s.plt = e.plt
         /\ s.section = e.section
         /\ s.dynindx = e.dynindx
         /\ s.global_got_area = e.global_got_area
<1> DEFINE plt == e.needs_plt \/ \E n \in names : n.needs_plt
           ptr == e.pointer_equality_needed \/ \E n \in names : n.pointer_equality_needed
           static == e.has_static_relocs \/ \E n \in names : n.has_static_relocs
           g == [e EXCEPT !.needs_plt = plt, !.pointer_equality_needed = ptr]
           s == CopyForAlias(e, names)
<1>1. plt \in BOOLEAN /\ ptr \in BOOLEAN /\ static \in BOOLEAN
  OBVIOUS
<1>2. CopyGenericFlags(e, names) = g
  BY DEF CopyGenericFlags
<1> HIDE DEF plt, ptr, static
<1>3. /\ g \in SymEntry
      /\ g.has_static_relocs = e.has_static_relocs
  BY <1>1 DEF SymEntry
<1>4. CopyForAlias(e, names) = [g EXCEPT !.has_static_relocs = static]
  BY <1>2, <1>3 DEF CopyForAlias, static
<1>5. s = [e EXCEPT !.needs_plt = plt, !.pointer_equality_needed = ptr,
                    !.has_static_relocs = static]
  BY <1>4
<1> HIDE DEF g, s
<1>6. s \in SymEntry
  BY <1>1, <1>5, ZenonT(40) DEF SymEntry
<1>7. /\ s.needs_plt = plt /\ s.pointer_equality_needed = ptr /\ s.has_static_relocs = static
      /\ s.possibly_dynamic_relocs = e.possibly_dynamic_relocs
      /\ s.readonly_reloc = e.readonly_reloc
      /\ s.no_fn_stub = e.no_fn_stub /\ s.func = e.func
      /\ s.needs_lazy_stub = e.needs_lazy_stub /\ s.needs_copy = e.needs_copy
      /\ s.plt = e.plt /\ s.section = e.section /\ s.dynindx = e.dynindx
      /\ s.global_got_area = e.global_got_area
  BY <1>5 DEF SymEntry
<1>8. QED
  BY <1>6, <1>7 DEF s, plt, ptr, static

\* What mips_elf_copy_indirect_symbol leaves in the entry of the second name.
LEMMA IndirectEntry ==
  ASSUME NEW e \in SymEntry, NEW i \in SymEntry,
         e.possibly_dynamic_relocs + i.possibly_dynamic_relocs \in 0..MaxRelocs
  PROVE  LET s == CopyForIndirect(e, i) IN
         /\ s \in SymEntry
         /\ s.needs_plt = (e.needs_plt \/ i.needs_plt)
         /\ s.pointer_equality_needed =
              (e.pointer_equality_needed \/ i.pointer_equality_needed)
         /\ s.has_static_relocs = (e.has_static_relocs \/ i.has_static_relocs)
         /\ s.possibly_dynamic_relocs =
              e.possibly_dynamic_relocs + i.possibly_dynamic_relocs
         /\ s.readonly_reloc = (e.readonly_reloc \/ i.readonly_reloc)
         /\ s.no_fn_stub = (e.no_fn_stub \/ i.no_fn_stub)
         /\ s.func = e.func
         /\ s.needs_lazy_stub = e.needs_lazy_stub
         /\ s.needs_copy = e.needs_copy
         /\ s.plt = e.plt
         /\ s.section = e.section
         /\ s.dynindx = IF i.dynindx # NoOffset THEN i.dynindx ELSE e.dynindx
<1> DEFINE a == CopyForAlias(e, {i})
           n == e.possibly_dynamic_relocs + i.possibly_dynamic_relocs
           ro == e.readonly_reloc \/ i.readonly_reloc
           nostub == e.no_fn_stub \/ i.no_fn_stub
           area == HighestArea(e.global_got_area, i.global_got_area)
           d == IF i.dynindx # NoOffset THEN i.dynindx ELSE e.dynindx
           s == CopyForIndirect(e, i)
<1>1. /\ a \in SymEntry
      /\ a.needs_plt = (e.needs_plt \/ i.needs_plt)
      /\ a.pointer_equality_needed = (e.pointer_equality_needed \/ i.pointer_equality_needed)
      /\ a.has_static_relocs = (e.has_static_relocs \/ i.has_static_relocs)
      /\ a.possibly_dynamic_relocs = e.possibly_dynamic_relocs
      /\ a.readonly_reloc = e.readonly_reloc
      /\ a.no_fn_stub = e.no_fn_stub
      /\ a.func = e.func
      /\ a.needs_lazy_stub = e.needs_lazy_stub
      /\ a.needs_copy = e.needs_copy
      /\ a.plt = e.plt
      /\ a.section = e.section
      /\ a.dynindx = e.dynindx
      /\ a.global_got_area = e.global_got_area
  BY AliasEntry
<1>2. s = [a EXCEPT !.possibly_dynamic_relocs = a.possibly_dynamic_relocs + i.possibly_dynamic_relocs,
                    !.readonly_reloc = a.readonly_reloc \/ i.readonly_reloc,
                    !.no_fn_stub = a.no_fn_stub \/ i.no_fn_stub,
                    !.global_got_area = HighestArea(a.global_got_area, i.global_got_area),
                    !.dynindx = IF i.dynindx # NoOffset THEN i.dynindx ELSE a.dynindx]
  BY DEF CopyForIndirect
<1> HIDE DEF a, s
<1>3. s = [a EXCEPT !.possibly_dynamic_relocs = n, !.readonly_reloc = ro,
                    !.no_fn_stub = nostub, !.global_got_area = area, !.dynindx = d]
  BY <1>1, <1>2
<1>4. /\ n \in 0..MaxRelocs /\ ro \in BOOLEAN /\ nostub \in BOOLEAN
      /\ area \in {"NORMAL", "RELOC_ONLY", "NONE"} /\ d \in Nat \cup {NoOffset}
  BY DEF HighestArea, SymEntry
<1> HIDE DEF n, ro, nostub, area, d
<1>5. s \in SymEntry
  <2> DEFINE u == [a EXCEPT !.possibly_dynamic_relocs = n, !.readonly_reloc = ro,
                            !.no_fn_stub = nostub]
  <2>1. u \in SymEntry
    BY <1>1, <1>4 DEF SymEntry
  <2> HIDE DEF u
  <2>2. [u EXCEPT !.global_got_area = area, !.dynindx = d] \in SymEntry
    BY <1>4, <2>1 DEF SymEntry
  <2>3. QED
    BY <1>3, <2>2 DEF u
<1>6. /\ s.possibly_dynamic_relocs = n /\ s.readonly_reloc = ro /\ s.no_fn_stub = nostub
      /\ s.dynindx = d /\ s.needs_plt = a.needs_plt
      /\ s.pointer_equality_needed = a.pointer_equality_needed
      /\ s.has_static_relocs = a.has_static_relocs
      /\ s.func = a.func /\ s.needs_lazy_stub = a.needs_lazy_stub
      /\ s.needs_copy = a.needs_copy /\ s.plt = a.plt /\ s.section = a.section
  BY <1>1, <1>3 DEF SymEntry
<1>7. QED
  BY <1>1, <1>5, <1>6 DEF s, n, ro, nostub, d

\* Areas that a symbol may move to.
LEMMA AreaOrder ==
  \A a \in {"NORMAL", "RELOC_ONLY", "NONE"} :
    HighestArea(a, "RELOC_ONLY") \in {"NORMAL", "RELOC_ONLY"}
<1>1. Rank("NORMAL") = 1 /\ Rank("RELOC_ONLY") = 2 /\ Rank("NONE") = 3
  BY DEF Rank, Areas
<1>2. QED
  BY <1>1 DEF HighestArea

-----------------------------------------------------------------------------
(***************************************************************************)
(* Sums over the scanned references.                                       *)
(***************************************************************************)
\* There are finitely many references.
LEMMA RefFinite == IsFiniteSet(Ref)
<1> DEFINE D == (Types \X InputSections) \X (Syms \cup {Local})
           b == [t \in D |-> [type |-> t[1][1], sec |-> t[1][2], sym |-> t[2]]]
<1>1. IsFiniteSet(Types)
  <2>1. IsFiniteSet({"word"} \cup {"hi16"})
    BY FS_Singleton, FS_AddElement
  <2>2. IsFiniteSet({"word", "hi16"} \cup {"pc16"})
    BY <2>1, FS_AddElement
  <2>3. IsFiniteSet({"word", "hi16", "pc16"} \cup {"call16"})
    BY <2>2, FS_AddElement
  <2>4. IsFiniteSet({"word", "hi16", "pc16", "call16"} \cup {"got16"})
    BY <2>3, FS_AddElement
  <2>5. IsFiniteSet({"word", "hi16", "pc16", "call16", "got16"} \cup {"jalr"})
    BY <2>4, FS_AddElement
  <2>6. QED
    BY <2>5 DEF Types
<1>2. IsFiniteSet(InputSections)
  <2>1. IsFiniteSet({"text"} \cup {"pic_text"})
    BY FS_Singleton, FS_AddElement
  <2>2. IsFiniteSet({"text", "pic_text"} \cup {"data"})
    BY <2>1, FS_AddElement
  <2>3. IsFiniteSet({"text", "pic_text", "data"} \cup {"debug"})
    BY <2>2, FS_AddElement
  <2>4. IsFiniteSet({"text", "pic_text", "data", "debug"} \cup {"notes"})
    BY <2>3, FS_AddElement
  <2>5. QED
    BY <2>4 DEF InputSections
<1>3. IsFiniteSet(Types \X InputSections)
  BY <1>1, <1>2, FS_Product
<1>4. IsFiniteSet(Syms \cup {Local})
  BY FS_AddElement, BoundsAssumption
<1>5. IsFiniteSet(D)
  BY <1>3, <1>4, FS_Product
<1>6. ASSUME NEW r \in Ref
      PROVE  \E t \in D : b[t] = r
  <2> DEFINE t == <<<<r.type, r.sec>>, r.sym>>
  <2>1. t \in D /\ b[t] = r
    BY DEF Ref
  <2>2. QED
    BY <2>1
<1> HIDE DEF b, D
<1>7. Ref \subseteq {b[t] : t \in D}
  BY <1>6
<1>8. IsFiniteSet({b[t] : t \in D})
  BY <1>5, ImageFinite
<1>9. QED
  BY <1>7, <1>8, FS_Subset

\* What the type invariant says of the references and of the symbols.
LEMMA RefType ==
  ASSUME TypeOK
  PROVE  /\ IsFiniteSet(DOMAIN refs)
         /\ DOMAIN refs = ScannableRefs(link)
         /\ \A r \in DOMAIN refs :
              /\ r \in Ref /\ refs[r] \in Nat
              /\ r.sym # Local => r.sym \in Syms
<1>1. /\ DOMAIN refs = ScannableRefs(link)
      /\ \A r \in DOMAIN refs : refs[r] \in 0..MaxRelocs
  BY DEF TypeOK
<1>2. \A r \in DOMAIN refs : r \in Ref
  BY <1>1 DEF ScannableRefs
<1>3. IsFiniteSet(DOMAIN refs)
  BY <1>2, RefFinite, FS_Subset
<1>4. \A r \in Ref : r.sym # Local => r.sym \in Syms
  BY DEF Ref
<1>5. QED
  BY <1>1, <1>2, <1>3, <1>4, BoundsAssumption

\* What has been scanned of a set of references is a number, and no more than
\* what has been scanned.
LEMMA RefSum ==
  ASSUME TypeOK, NEW S \in SUBSET DOMAIN refs
  PROVE  /\ SumFunctionOnSet(refs, S) \in Nat
         /\ SumFunctionOnSet(refs, S) <= ScannedRelocs
         /\ IsFiniteSet(S)
<1>1. IsFiniteSet(DOMAIN refs) /\ IsFiniteSet(S)
  BY RefType, FS_Subset
<1>2. \A r \in DOMAIN refs : refs[r] \in Nat
  BY RefType
<1>3. QED
  BY <1>1, <1>2, SumNat, SumSubset DEF ScannedRelocs

\* One more reference.
LEMMA RefSumNext ==
  ASSUME TypeOK, NEW S \in SUBSET DOMAIN refs, NEW r \in DOMAIN refs,
         refs' = [refs EXCEPT ![r] = @ + 1]
  PROVE  SumFunctionOnSet(refs', S) = SumFunctionOnSet(refs, S) + IF r \in S THEN 1 ELSE 0
<1>1. IsFiniteSet(S)
  BY RefSum
<1>2. \A q \in S : refs[q] \in Int /\ refs'[q] \in Int
  BY RefType
<1>3. CASE r \in S
  <2>1. \A q \in S \ {r} : refs[q] = refs'[q]
    BY RefType
  <2>2. refs'[r] - refs[r] = 1
    BY RefType
  <2> DEFINE g == refs'
  <2>3. /\ \A q \in S : refs[q] \in Int /\ g[q] \in Int
        /\ \A q \in S \ {r} : refs[q] = g[q]
    BY <1>2, <2>1
  <2> HIDE DEF g
  <2>4. SumFunctionOnSet(g, S) = SumFunctionOnSet(refs, S) + (g[r] - refs[r])
    BY <1>1, <1>3, <2>3, SumChange
  <2>5. SumFunctionOnSet(refs, S) \in Nat
    BY RefSum
  <2>6. QED
    BY <1>3, <2>2, <2>4, <2>5 DEF g
<1>4. CASE r \notin S
  <2>1. \A q \in S : refs[q] = refs'[q]
    BY <1>4, RefType
  <2>2. SumFunctionOnSet(refs, S) = SumFunctionOnSet(refs', S)
    BY <1>1, <1>2, <2>1, SumSame
  <2>3. SumFunctionOnSet(refs, S) \in Nat
    BY RefSum
  <2>4. QED
    BY <1>4, <2>2, <2>3
<1>5. QED
  BY <1>3, <1>4

\* The references that a relocation is made for are only for one symbol.
LEMMA ProperTarget ==
  ASSUME TypeOK, Names, NEW h \in Syms
  PROVE  /\ Target(h) \in Syms
         /\ Target(h) \in Proper
<1>1. link \in Link /\ link \in Links
  BY DEF TypeOK, Names
<1>2. link.indirect[h] \in Syms
  BY <1>1 DEF Link
<1>3. CASE h \in forwarded
  <2>1. link.indirect[h] # h
    BY <1>3 DEF Names
  <2>2. link.indirect[link.indirect[h]] = link.indirect[h]
    BY <1>1, <2>1, IndirectAssumption
  <2>3. link.indirect[h] \notin forwarded
    BY <2>2 DEF Names
  <2>4. QED
    BY <1>2, <1>3, <2>3 DEF Target, Proper
<1>4. QED
  BY <1>3 DEF Target, Proper

-----------------------------------------------------------------------------
(***************************************************************************)
(* Types and counters.                                                     *)
(***************************************************************************)
LEMMA SymsFinite ==
  ASSUME NEW S \in SUBSET Syms
  PROVE  IsFiniteSet(S) /\ Cardinality(S) \in Nat
BY FS_Subset, FS_CardinalityType, BoundsAssumption

\* Counting goes on when entries are changed elsewhere.
LEMMA CountsFrame ==
  ASSUME TypeOK, Counts, pc # "failed",
         UNCHANGED <<link, refs, forwarded>>,
         pc = "scan" \/ pc' # "scan",
         \A h \in Proper :
           /\ sym'[h].possibly_dynamic_relocs = sym[h].possibly_dynamic_relocs
           /\ sym[h].has_static_relocs => sym'[h].has_static_relocs
  PROVE  Counts'
<1>1. ScannedRelocs' = ScannedRelocs /\ Proper' = Proper
  BY DEF ScannedRelocs, Proper
<1>2. ASSUME NEW h \in Syms
      PROVE  DynamicRefs(h)' = DynamicRefs(h)
  BY DEF DynamicRefs, CanMakeDynamic, Target
<1>3. ASSUME NEW h \in Proper
      PROVE  (Counted(h) \/ Replaced(h))'
  <2>1. h \in Syms
    BY DEF Proper
  <2>2. CASE Counted(h)
    BY <1>2, <2>1, <2>2 DEF Counted
  <2>3. CASE Replaced(h)
    BY <2>3 DEF Replaced
  <2>4. QED
    BY <2>2, <2>3 DEF Counts
<1>4. QED
  BY <1>1, <1>3 DEF Counts

\* The types hold at the start, when nothing has been scanned.
LEMMA TypeInit == Init => TypeInv
<1> SUFFICES ASSUME Init PROVE TypeInv
  OBVIOUS
<1> USE DEF Init
<1>1. link \in Links /\ link \in Link
  BY LinkAssumption
<1>2. ASSUME NEW h \in Syms
      PROVE  NewEntry(link, h) \in SymEntry
  BY <1>1, BoundsAssumption DEF NewEntry, SymEntry, OwnSection, Link, Kind
<1>3. {h \in Syms : DynamicFromStart(link, h)} \subseteq Syms
  OBVIOUS
<1>4. dynsymcount \in Nat
  BY <1>3, SymsFinite
<1>5. TypeOK
  <2>1. refs \in [ScannableRefs(link) -> 0..MaxRelocs]
    BY BoundsAssumption
  <2>2. sym \in [Syms -> SymEntry]
    BY <1>2
  <2>3. /\ pc = "scan" /\ forwarded = {} /\ todo = {} /\ written = {}
        /\ reserved = 0 /\ plts = 0 /\ lazy_stub_count = 0 /\ sstubs = 0 /\ output = 0
        /\ textrel = FALSE /\ texttag = FALSE /\ big_stubs = FALSE
    OBVIOUS
  <2> HIDE DEF Init
  <2>4. {reserved, plts, lazy_stub_count, sstubs, dynsymcount, output} \subseteq Nat
    BY <1>4, <2>3
  <2>5. {textrel, texttag, big_stubs} \subseteq BOOLEAN
    BY <2>3
  <2>6. /\ todo \subseteq Syms /\ forwarded \subseteq Syms
        /\ written \subseteq [part : {"plt", "stubs"}, offset : Nat, sym : Syms,
                              exported : BOOLEAN]
    BY <2>3
  <2>7. QED
    BY <1>1, <2>1, <2>2, <2>3, <2>4, <2>5, <2>6 DEF TypeOK
<1>6. ASSUME NEW S \in SUBSET DOMAIN refs
      PROVE  SumFunctionOnSet(refs, S) = 0
  <2>1. IsFiniteSet(S)
    BY <1>5, RefSum
  <2>2. \A r \in S : refs[r] = 0
    OBVIOUS
  <2>3. QED
    BY <2>1, <2>2, SumZero
<1>7. Counts
  <2>1. ScannedRelocs = 0
    BY <1>6 DEF ScannedRelocs
  <2>2. ASSUME NEW h \in Proper
        PROVE  Counted(h)
    BY <1>6 DEF Counted, DynamicRefs, NewEntry, Proper
  <2>3. QED
    BY <2>1, <2>2, BoundsAssumption DEF Counts
<1>8. Stubs = {}
  BY DEF Stubs, NewEntry
<1>9. StubCount
  BY <1>8, FS_EmptySet DEF StubCount
<1>10. QED
  BY <1>1, <1>5, <1>7, <1>9 DEF TypeInv, Names

\* check_relocs.
LEMMA CheckRelocType ==
  ASSUME TypeInv, NEW r \in DOMAIN refs, CheckReloc(r)
  PROVE  TypeInv'
<1> USE DEF TypeInv
<1>1. /\ r \in Ref /\ DOMAIN refs = ScannableRefs(link)
      /\ r.sym # Local => r.sym \in Syms /\ Target(r.sym) \in Proper /\ Target(r.sym) \in Syms
  BY RefType, ProperTarget
<1>2. \A S \in SUBSET DOMAIN refs :
        /\ SumFunctionOnSet(refs', S) = SumFunctionOnSet(refs, S) + IF r \in S THEN 1 ELSE 0
        /\ SumFunctionOnSet(refs, S) \in Nat
        /\ SumFunctionOnSet(refs, S) <= ScannedRelocs
  BY RefSumNext, RefSum DEF CheckReloc
<1>3. refs[r] \in 0..(MaxRelocs - 1)
  <2>1. SumFunctionOnSet(refs, {r}) = refs[r]
    <3>1. SumFunctionOnSet(refs, {} \cup {r}) = refs[r] + SumFunctionOnSet(refs, {})
      <4>1. IsFiniteSet({}) /\ r \notin {} /\ \A q \in {} \cup {r} : refs[q] \in Int
        BY FS_EmptySet, RefType
      <4>2. QED
        BY <4>1, SumAdd
    <3>2. QED
      BY <3>1, SumEmpty, RefType
  <2>2. refs[r] <= ScannedRelocs
    BY <1>2, <2>1
  <2>3. QED
    BY <2>2, RefType, BoundsAssumption, RefSum DEF CheckReloc, ScannedRelocs
<1>4. refs' \in [ScannableRefs(link') -> 0..MaxRelocs]
  BY <1>1, <1>3, BoundsAssumption DEF CheckReloc, TypeOK
<1>5. ScannedRelocs' = ScannedRelocs + 1 /\ ScannedRelocs' <= MaxRelocs
  <2>1. DOMAIN refs' = DOMAIN refs
    BY DEF CheckReloc
  <2>2. ScannedRelocs' = ScannedRelocs + 1
    BY <1>2, <2>1 DEF ScannedRelocs
  <2>3. ScannedRelocs \in Nat
    BY RefSum DEF ScannedRelocs
  <2>4. QED
    BY <2>2, <2>3, BoundsAssumption DEF CheckReloc
<1>6. Names'
  BY DEF CheckReloc, Names
<1>7. CASE pc' = "failed"
  <2>1. UNCHANGED <<sym, dynsymcount, reserved, textrel>>
    BY <1>7 DEF CheckReloc
  <2>2. TypeOK'
    BY <1>4, <1>7, <2>1 DEF TypeOK, CheckReloc
  <2>3. StubCount'
    BY <1>7, <2>1 DEF StubCount, CheckReloc, Stubs, Proper
  <2>4. QED
    BY <1>5, <1>6, <1>7, <2>2, <2>3 DEF Counts
<1>8. CASE pc' # "failed" /\ r.sym = Local
  <2>1. /\ UNCHANGED <<sym, dynsymcount>> /\ pc' = pc
        /\ reserved' = reserved + (IF CanMakeDynamic(r) THEN 1 ELSE 0)
        /\ textrel' = (textrel \/ (CanMakeDynamic(r) /\ ReadOnly(r.sec)))
    BY <1>8 DEF CheckReloc
  <2>2. TypeOK'
    BY <1>4, <2>1 DEF TypeOK, CheckReloc
  <2>3. StubCount'
    BY <2>1 DEF StubCount, CheckReloc, Stubs, Proper
  <2>4. ASSUME NEW h \in Proper
        PROVE  Counted(h)'
    <3>1. Counted(h)
      BY DEF Counts, CheckReloc, Replaced
    <3>2. DynamicRefs(h)' = DynamicRefs(h) /\ DynamicRefs(h) \subseteq DOMAIN refs
      BY DEF CheckReloc, DynamicRefs, CanMakeDynamic, Target
    <3>3. r \notin DynamicRefs(h)
      BY <1>8 DEF DynamicRefs
    <3>4. SumFunctionOnSet(refs', DynamicRefs(h)) = SumFunctionOnSet(refs, DynamicRefs(h))
      BY <1>2, <3>2, <3>3
    <3>5. QED
      BY <2>1, <3>1, <3>2, <3>4 DEF Counted
  <2>5. Counts'
    BY <1>5, <2>4 DEF Counts, Proper, CheckReloc
  <2>6. QED
    BY <1>6, <2>2, <2>3, <2>5
<1>9. CASE pc' # "failed" /\ r.sym # Local
  <2> DEFINE t == Target(r.sym)
             s == Scanned(t, sym[t], r)
  <2>1. /\ sym' = [sym EXCEPT ![t] = s] /\ pc' = pc
        /\ dynsymcount' = dynsymcount + NewDynsyms(sym, sym')
        /\ UNCHANGED <<reserved, textrel>>
    BY <1>9 DEF CheckReloc
  <2>2. /\ t \in Syms /\ t \in Proper /\ sym[t] \in SymEntry
        /\ sym[t].possibly_dynamic_relocs = SumFunctionOnSet(refs, DynamicRefs(t))
    BY <1>1, <1>9 DEF TypeOK, CheckReloc, Counts, Counted, Replaced
  <2>3. \A h \in Syms : DynamicRefs(h)' = DynamicRefs(h) /\ DynamicRefs(h) \subseteq DOMAIN refs
    BY DEF CheckReloc, DynamicRefs, CanMakeDynamic, Target
  <2>4. sym[t].possibly_dynamic_relocs + 1 \in 0..MaxRelocs
    <3>1. DynamicRefs(t) \subseteq DOMAIN refs
      BY <2>2, <2>3
    <3>2. SumFunctionOnSet(refs, DynamicRefs(t)) \in Nat
          /\ SumFunctionOnSet(refs, DynamicRefs(t)) <= ScannedRelocs
      BY <3>1, <1>2
    <3>3. ScannedRelocs \in Nat
      BY RefSum DEF ScannedRelocs
    <3>4. QED
      BY <1>5, <2>2, <3>2, <3>3, BoundsAssumption
  <2>5. /\ s \in SymEntry /\ s.needs_lazy_stub = sym[t].needs_lazy_stub
        /\ s.possibly_dynamic_relocs =
             sym[t].possibly_dynamic_relocs + (IF CanMakeDynamic(r) THEN 1 ELSE 0)
    BY <1>1, <2>2, <2>4, ScannedEntry
  <2> HIDE DEF s
  <2>6. sym' \in [Syms -> SymEntry]
    BY <2>1, <2>2, <2>5 DEF TypeOK
  <2>7. dynsymcount' \in Nat
    BY <2>1, SymsFinite DEF NewDynsyms, TypeOK
  <2>8. TypeOK'
    BY <1>4, <2>1, <2>6, <2>7 DEF TypeOK, CheckReloc
  <2>9. Stubs' = Stubs
    BY <2>1, <2>2, <2>5 DEF Stubs, TypeOK
  <2>10. StubCount'
    BY <2>1, <2>9 DEF StubCount, CheckReloc, Proper
  <2>11. ASSUME NEW h \in Proper
         PROVE  Counted(h)'
    <3>1. h \in Syms /\ Counted(h)
      BY DEF Counts, CheckReloc, Replaced, Proper
    <3>2. r \in DynamicRefs(h) <=> h = t /\ CanMakeDynamic(r)
      BY <1>9 DEF DynamicRefs
    <3>3. SumFunctionOnSet(refs', DynamicRefs(h))
            = SumFunctionOnSet(refs, DynamicRefs(h)) + IF r \in DynamicRefs(h) THEN 1 ELSE 0
      BY <1>2, <2>3, <3>1
    <3>4. SumFunctionOnSet(refs, DynamicRefs(h)) \in Nat
      BY <1>2, <2>3, <3>1
    <3>5. sym'[h].possibly_dynamic_relocs = sym[h].possibly_dynamic_relocs
             + IF h = t /\ CanMakeDynamic(r) THEN 1 ELSE 0
      BY <2>1, <2>2, <2>5, <3>1, <3>4 DEF TypeOK, Counted
    <3>6. QED
      BY <2>3, <3>1, <3>2, <3>3, <3>5 DEF Counted
  <2>12. Counts'
    BY <1>5, <2>11 DEF Counts, Proper, CheckReloc
  <2>13. QED
    BY <1>6, <2>8, <2>10, <2>12
<1>10. QED
  BY <1>7, <1>8, <1>9

\* copy_indirect_symbol.
LEMMA BecomeIndirectType ==
  ASSUME TypeInv, NEW h \in Syms, BecomeIndirect(h)
  PROVE  TypeInv'
<1> USE DEF TypeInv
<1> DEFINE t == link.indirect[h]
           s == CopyForIndirect(sym[t], sym[h])
           e == [sym[h] EXCEPT !.global_got_area = "NONE", !.dynindx = NoOffset]
<1>1. /\ link \in Links /\ t \in Syms /\ t # h /\ h \in Proper
      /\ sym[h] \in SymEntry /\ sym[t] \in SymEntry /\ pc = "scan"
  BY DEF BecomeIndirect, TypeOK, Names, Link, Proper
<1>2. t \in Proper /\ t \notin forwarded'
  <2>1. link.indirect[t] = t
    BY <1>1, IndirectAssumption
  <2>2. t \notin forwarded
    BY <2>1 DEF Names
  <2>3. QED
    BY <1>1, <2>2 DEF BecomeIndirect, Proper
<1>3. ASSUME NEW k \in Syms
      PROVE  /\ DynamicRefs(k) \subseteq DOMAIN refs /\ IsFiniteSet(DynamicRefs(k))
             /\ SumFunctionOnSet(refs, DynamicRefs(k)) \in Nat
  BY RefSum DEF DynamicRefs
<1>4. Counted(h) /\ Counted(t)
  BY <1>1, <1>2 DEF Counts, Replaced
<1>5. DynamicRefs(t) \cap DynamicRefs(h) = {}
  BY <1>1 DEF DynamicRefs
<1>6. DynamicRefs(t)' = DynamicRefs(t) \cup DynamicRefs(h)
  <2>1. \A k \in Syms : Target(k)' = IF k = h THEN t ELSE Target(k)
    BY <1>1 DEF BecomeIndirect, Target, Proper
  <2>2. \A r \in DOMAIN refs : CanMakeDynamic(r)' = CanMakeDynamic(r)
    BY DEF BecomeIndirect, CanMakeDynamic
  <2>3. Target(h) = h /\ Target(t) = t
    BY <1>1, <1>2 DEF Target, Proper
  <2>4. refs' = refs /\ t' = t
    BY DEF BecomeIndirect
  <2>5. \A r \in DOMAIN refs : r.sym # Local =>
          (Target(r.sym)' = t <=> Target(r.sym) = t \/ Target(r.sym) = h)
    <3>1. \A k \in Syms : k \in forwarded => Target(k) # h
      BY <1>1, ProperTarget, IndirectAssumption DEF Target, Names
    <3>2. QED
      BY <1>1, <2>1, <2>3, <3>1, RefType DEF Target
  <2>6. QED
    BY <2>2, <2>4, <2>5 DEF DynamicRefs
<1>7. SumFunctionOnSet(refs, DynamicRefs(t) \cup DynamicRefs(h))
        = SumFunctionOnSet(refs, DynamicRefs(t)) + SumFunctionOnSet(refs, DynamicRefs(h))
  <2>1. \A r \in DynamicRefs(t) \cup DynamicRefs(h) : refs[r] \in Int
    BY RefType DEF DynamicRefs
  <2>2. QED
    BY <1>1, <1>3, <1>5, <2>1, SumUnion
<1>8. sym[t].possibly_dynamic_relocs + sym[h].possibly_dynamic_relocs \in 0..MaxRelocs
  <2>1. SumFunctionOnSet(refs, DynamicRefs(t) \cup DynamicRefs(h)) \in Nat
        /\ SumFunctionOnSet(refs, DynamicRefs(t) \cup DynamicRefs(h)) <= ScannedRelocs
    BY <1>1, <1>3, RefSum
  <2>2. ScannedRelocs \in Nat /\ ScannedRelocs <= MaxRelocs
    BY RefSum DEF ScannedRelocs, Counts
  <2>3. QED
    BY <1>4, <1>7, <2>1, <2>2, BoundsAssumption DEF Counted
<1>9. /\ s \in SymEntry /\ s.needs_lazy_stub = sym[t].needs_lazy_stub
      /\ s.possibly_dynamic_relocs
           = sym[t].possibly_dynamic_relocs + sym[h].possibly_dynamic_relocs
  BY <1>1, <1>8, IndirectEntry
<1>10. e \in SymEntry /\ e.needs_lazy_stub = sym[h].needs_lazy_stub
  BY <1>1 DEF SymEntry
<1>11. sym' = [sym EXCEPT ![t] = s, ![h] = e]
  BY <1>1 DEF BecomeIndirect, TypeOK
<1> HIDE DEF s, e
<1>12. sym' \in [Syms -> SymEntry]
  BY <1>1, <1>9, <1>10, <1>11 DEF TypeOK
<1>13. forwarded' = forwarded \cup {h}
       /\ UNCHANGED <<pc, link, refs, reserved, textrel, texttag, plts, lazy_stub_count,
                      big_stubs, sstubs, dynsymcount, todo, output, written>>
  BY DEF BecomeIndirect
<1>14. TypeOK'
  BY <1>12, <1>13 DEF TypeOK
<1>15. Names'
  BY <1>1, <1>13 DEF Names
<1>16. Stubs' = {}
  BY <1>1, <1>9, <1>10, <1>11 DEF StubCount, Stubs, TypeOK
<1>17. StubCount'
  BY <1>1, <1>13, <1>16 DEF StubCount
<1>18. ASSUME NEW k \in Syms, k \notin forwarded'
       PROVE  Counted(k)'
  <2>1. CASE k = t
    BY <1>1, <1>4, <1>6, <1>7, <1>9, <1>11, <1>13, <2>1 DEF Counted, TypeOK
  <2>2. CASE k # t
    <3>1. k # h /\ k \in Proper
      BY <1>13, <1>18 DEF Proper
    <3>2. Counted(k)
      BY <1>1, <3>1 DEF Counts, Replaced
    <3>3. DynamicRefs(k)' = DynamicRefs(k)
      BY <1>1, <1>2, <2>2, <3>1 DEF DynamicRefs, BecomeIndirect, CanMakeDynamic, Target, Proper
    <3>4. QED
      BY <1>11, <1>13, <2>2, <3>1, <3>2, <3>3 DEF Counted, TypeOK
  <2>3. QED
    BY <2>1, <2>2
<1>19. Counts'
  BY <1>13, <1>18 DEF Counts, ScannedRelocs, Proper
<1>20. QED
  BY <1>14, <1>15, <1>17, <1>19

\* What the generic linker makes of an entry at the end of the scan.
AtEnd(h) ==
  [CopyForAlias(sym[h], {sym[a] : a \in {a \in Syms \ {h} : link.weakdef[a] = h}}) EXCEPT
     !.needs_plt = @ /\ ~(Hidden(h) /\ ~DefRegular(h))]

\* What the end of the scan leaves of the entry of a symbol and of its aliases.
LEMMA AtEndEntry ==
  ASSUME TypeOK, NEW h \in Syms
  PROVE  /\ AtEnd(h) \in SymEntry
         /\ AtEnd(h).possibly_dynamic_relocs = sym[h].possibly_dynamic_relocs
         /\ AtEnd(h).readonly_reloc = sym[h].readonly_reloc
         /\ AtEnd(h).no_fn_stub = sym[h].no_fn_stub
         /\ AtEnd(h).func = sym[h].func
         /\ AtEnd(h).needs_lazy_stub = sym[h].needs_lazy_stub
         /\ AtEnd(h).needs_copy = sym[h].needs_copy
         /\ AtEnd(h).plt = sym[h].plt
         /\ AtEnd(h).section = sym[h].section
         /\ AtEnd(h).dynindx = sym[h].dynindx
         /\ sym[h].pointer_equality_needed => AtEnd(h).pointer_equality_needed
         /\ AtEnd(h).has_static_relocs <=>
              sym[h].has_static_relocs
                \/ \E a \in Syms \ {h} : link.weakdef[a] = h /\ sym[a].has_static_relocs
         /\ AtEnd(h).needs_plt <=>
              /\ \/ sym[h].needs_plt
                 \/ \E a \in Syms \ {h} : link.weakdef[a] = h /\ sym[a].needs_plt
              /\ Hidden(h) => DefRegular(h)
<1> DEFINE names == {sym[a] : a \in {a \in Syms \ {h} : link.weakdef[a] = h}}
           c == CopyForAlias(sym[h], names)
           plt == c.needs_plt /\ ~(Hidden(h) /\ ~DefRegular(h))
<1>1. sym[h] \in SymEntry /\ names \in SUBSET SymEntry
  BY DEF TypeOK
<1>2. \A x : x \in names <=> \E a \in Syms \ {h} : link.weakdef[a] = h /\ x = sym[a]
  OBVIOUS
<1> HIDE DEF names
<1>3. /\ c \in SymEntry
      /\ c.needs_plt = (sym[h].needs_plt \/ \E n \in names : n.needs_plt)
      /\ c.pointer_equality_needed =
           (sym[h].pointer_equality_needed \/ \E n \in names : n.pointer_equality_needed)
      /\ c.has_static_relocs =
           (sym[h].has_static_relocs \/ \E n \in names : n.has_static_relocs)
      /\ c.possibly_dynamic_relocs = sym[h].possibly_dynamic_relocs
      /\ c.readonly_reloc = sym[h].readonly_reloc
      /\ c.no_fn_stub = sym[h].no_fn_stub
      /\ c.func = sym[h].func
      /\ c.needs_lazy_stub = sym[h].needs_lazy_stub
      /\ c.needs_copy = sym[h].needs_copy
      /\ c.plt = sym[h].plt
      /\ c.section = sym[h].section
      /\ c.dynindx = sym[h].dynindx
  BY <1>1, AliasEntry
<1>4. (\E n \in names : n.has_static_relocs) <=>
        \E a \in Syms \ {h} : link.weakdef[a] = h /\ sym[a].has_static_relocs
  BY <1>2
<1>5. (\E n \in names : n.needs_plt) <=>
        \E a \in Syms \ {h} : link.weakdef[a] = h /\ sym[a].needs_plt
  BY <1>2
<1>6. AtEnd(h) = [c EXCEPT !.needs_plt = plt]
  BY DEF AtEnd, names
<1>7. plt \in BOOLEAN /\ (plt <=> c.needs_plt /\ (Hidden(h) => DefRegular(h)))
  OBVIOUS
<1> DEFINE s == AtEnd(h)
<1> HIDE DEF c, plt, s
<1>8. s = [c EXCEPT !.needs_plt = plt]
  BY <1>6 DEF s
<1>9. /\ s \in SymEntry /\ s.needs_plt = plt
      /\ s.pointer_equality_needed = c.pointer_equality_needed
      /\ s.has_static_relocs = c.has_static_relocs
      /\ s.possibly_dynamic_relocs = c.possibly_dynamic_relocs
      /\ s.readonly_reloc = c.readonly_reloc
      /\ s.no_fn_stub = c.no_fn_stub /\ s.func = c.func
      /\ s.needs_lazy_stub = c.needs_lazy_stub /\ s.needs_copy = c.needs_copy
      /\ s.plt = c.plt /\ s.section = c.section /\ s.dynindx = c.dynindx
  BY <1>3, <1>7, <1>8 DEF SymEntry
<1>10. QED
  BY <1>3, <1>4, <1>5, <1>7, <1>9 DEF s

\* The end of the scan.
LEMMA EndScanType ==
  ASSUME TypeInv, EndScan
  PROVE  TypeInv'
<1> USE DEF TypeInv
<1>1. sym' = [h \in Syms |-> AtEnd(h)]
  BY DEF EndScan, AtEnd
<1>2. sym' \in [Syms -> SymEntry]
  BY <1>1, AtEndEntry
<1>3. /\ pc = "scan" /\ pc' = "adjust" /\ todo' = Proper
      /\ \A h \in Syms : link.indirect[h] # h => h \in forwarded
      /\ UNCHANGED <<link, refs, forwarded, reserved, textrel, texttag, plts,
                     lazy_stub_count, big_stubs, sstubs, dynsymcount, output, written>>
  BY DEF EndScan
<1>4. TypeOK'
  BY <1>2, <1>3 DEF TypeOK, Proper
<1>5. Names'
  BY <1>3 DEF Names
<1>6. Stubs' = {} /\ Stubs = {}
  BY <1>1, <1>3, AtEndEntry DEF StubCount, Stubs
<1>7. StubCount'
  BY <1>3, <1>6 DEF StubCount, Proper
<1>8. Counts'
  <2>1. \A h \in Proper :
          /\ sym'[h].possibly_dynamic_relocs = sym[h].possibly_dynamic_relocs
          /\ sym[h].has_static_relocs => sym'[h].has_static_relocs
    BY <1>1, AtEndEntry DEF Proper
  <2>2. QED
    BY <1>3, <2>1, CountsFrame
<1>9. QED
  BY <1>4, <1>5, <1>7, <1>8

\* Any way through adjust_dynamic_symbol that leaves the stubs alone.
LEMMA NoStubType ==
  ASSUME TypeInv, NEW h \in Syms, Adjusting(h),
         pc' \in {pc, "failed"}, lazy_stub_count' = lazy_stub_count,
         plts' \in Nat, reserved' \in Nat,
         NEW e \in SymEntry, sym' = [sym EXCEPT ![h] = e],
         e.needs_lazy_stub = sym[h].needs_lazy_stub,
         \/ /\ e.possibly_dynamic_relocs = sym[h].possibly_dynamic_relocs
            /\ e.has_static_relocs = sym[h].has_static_relocs
         \/ /\ e.possibly_dynamic_relocs = 0 /\ e.has_static_relocs
            /\ ~link.shared
  PROVE  TypeInv'
<1> USE DEF TypeInv
<1>1. /\ pc = "adjust" /\ h \in todo /\ todo' = todo \ {h}
      /\ UNCHANGED <<link, refs, forwarded, textrel, texttag, big_stubs, sstubs,
                     dynsymcount, output, written>>
  BY DEF Adjusting
<1>2. sym' \in [Syms -> SymEntry]
  BY DEF TypeOK
<1>3. /\ todo' \subseteq Syms
      /\ {reserved', plts', lazy_stub_count', sstubs', dynsymcount', output'} \subseteq Nat
  BY <1>1 DEF TypeOK, StubCount, Proper
<1>4. TypeOK'
  BY <1>1, <1>2, <1>3 DEF TypeOK
<1>5. Names'
  BY <1>1 DEF Names
<1>6. Stubs' = Stubs
  BY DEF Stubs, TypeOK
<1>7. StubCount'
  BY <1>1, <1>6 DEF StubCount, Proper
<1>8. ASSUME NEW k \in Proper
      PROVE  (Counted(k) \/ Replaced(k))'
  <2>1. k \in Syms /\ (Counted(k) \/ Replaced(k))
    BY <1>1 DEF Counts, Proper
  <2>2. DynamicRefs(k)' = DynamicRefs(k)
    BY <1>1 DEF DynamicRefs, CanMakeDynamic, Target
  <2>3. sym'[k] = IF k = h THEN e ELSE sym[k]
    BY <2>1 DEF TypeOK
  <2>4. CASE sym'[k].possibly_dynamic_relocs = sym[k].possibly_dynamic_relocs
             /\ sym'[k].has_static_relocs = sym[k].has_static_relocs
    BY <1>1, <2>1, <2>2, <2>4 DEF Counted, Replaced
  <2>5. CASE ~(sym'[k].possibly_dynamic_relocs = sym[k].possibly_dynamic_relocs
             /\ sym'[k].has_static_relocs = sym[k].has_static_relocs)
    <3>1. sym'[k].possibly_dynamic_relocs = 0 /\ sym'[k].has_static_relocs /\ ~link.shared
      BY <2>3, <2>5
    <3>2. QED
      BY <1>1, <3>1 DEF Replaced
  <2>6. QED
    BY <2>4, <2>5
<1>9. Counts'
  BY <1>1, <1>8 DEF Counts, ScannedRelocs, Proper
<1>10. QED
  BY <1>4, <1>5, <1>7, <1>9

\* A stub is counted when its symbol is flagged.
LEMMA LazyStubType ==
  ASSUME TypeInv, NEW h \in Syms, LazyStub(h)
  PROVE  TypeInv'
<1> USE DEF TypeInv
<1> DEFINE e == [sym[h] EXCEPT !.needs_lazy_stub = TRUE]
<1>1. /\ pc = "adjust" /\ pc' = pc /\ h \in todo /\ todo' = todo \ {h}
      /\ lazy_stub_count' = lazy_stub_count + 1
      /\ UNCHANGED <<link, refs, forwarded, textrel, texttag, big_stubs, sstubs,
                     dynsymcount, output, written, plts, reserved>>
  BY DEF LazyStub, Adjusting
<1>2. sym[h] \in SymEntry
  BY DEF TypeOK
<1>3. /\ e \in SymEntry /\ e.needs_lazy_stub
      /\ e.possibly_dynamic_relocs = sym[h].possibly_dynamic_relocs
      /\ e.has_static_relocs = sym[h].has_static_relocs
  BY <1>2 DEF SymEntry
<1>4. sym' = [sym EXCEPT ![h] = e]
  BY DEF LazyStub
<1> HIDE DEF e
<1>5. sym' \in [Syms -> SymEntry]
  BY <1>3, <1>4 DEF TypeOK
<1>6. lazy_stub_count \in Nat /\ todo \subseteq Syms
  BY <1>1 DEF TypeOK, StubCount, Proper
<1>7. TypeOK'
  BY <1>1, <1>5, <1>6 DEF TypeOK
<1>8. Names'
  BY <1>1 DEF Names
<1>9. Stubs' = Stubs \cup {h} /\ h \notin Stubs
  BY <1>1, <1>3, <1>4 DEF Stubs, TypeOK, StubCount
<1>10. Cardinality(Stubs \cup {h}) = Cardinality(Stubs) + 1
  <2>1. IsFiniteSet(Stubs)
    BY SymsFinite DEF Stubs
  <2>2. QED
    BY <1>9, <2>1, FS_AddElement
<1>11. StubCount'
  BY <1>1, <1>9, <1>10 DEF StubCount, Proper
<1>12. Counts'
  <2>1. \A k \in Proper :
          /\ sym'[k].possibly_dynamic_relocs = sym[k].possibly_dynamic_relocs
          /\ sym[k].has_static_relocs => sym'[k].has_static_relocs
    BY <1>3, <1>4 DEF TypeOK, Proper
  <2>2. QED
    BY <1>1, <2>1, CountsFrame
<1>13. QED
  BY <1>7, <1>8, <1>11, <1>12

\* A PLT entry takes the place of the relocations against its symbol.
LEMMA PltEntryType ==
  ASSUME TypeInv, NEW h \in Syms, PltEntry(h)
  PROVE  TypeInv'
<1> DEFINE sec == IF DefRegular(h) THEN sym[h].section ELSE "plt"
           e == [sym[h] EXCEPT !.plt = plts, !.section = sec,
                               !.possibly_dynamic_relocs = 0]
<1>1. sym[h] \in SymEntry /\ plts \in Nat /\ reserved \in Nat
  BY DEF TypeInv, TypeOK
<1>2. sec \in {"input", "library", "none", "plt", "stubs", "dynbss"}
  BY <1>1 DEF SymEntry
<1>3. sym' = [sym EXCEPT ![h] = e]
  BY DEF PltEntry, TypeInv, TypeOK
<1> HIDE DEF sec
<1>4. /\ e \in SymEntry
      /\ e.needs_lazy_stub = sym[h].needs_lazy_stub
      /\ e.has_static_relocs = sym[h].has_static_relocs
      /\ e.possibly_dynamic_relocs = 0
  <2>1. 0 \in 0..MaxRelocs
    BY BoundsAssumption
  <2>2. QED
    BY <1>1, <1>2, <2>1 DEF SymEntry
<1> HIDE DEF e
<1>5. sym[h].has_static_relocs /\ ~link.shared
  BY PltAssumption DEF PltEntry, WantsPlt, TypeInv, Names
<1>6. /\ Adjusting(h) /\ pc' = pc /\ lazy_stub_count' = lazy_stub_count
      /\ plts' \in Nat /\ reserved' \in Nat
  BY <1>1 DEF PltEntry
<1>7. QED
  BY <1>3, <1>4, <1>5, <1>6, NoStubType

\* A weak alias only takes the section of its definition.
LEMMA WeakAliasType ==
  ASSUME TypeInv, NEW h \in Syms, WeakAlias(h)
  PROVE  TypeInv'
<1> DEFINE sec == sym[link.weakdef[h]].section
           e == [sym[h] EXCEPT !.section = sec]
<1>1. /\ sym[h] \in SymEntry /\ plts \in Nat /\ reserved \in Nat
      /\ sym[link.weakdef[h]] \in SymEntry
  BY DEF TypeInv, TypeOK, Link
<1>2. sec \in {"input", "library", "none", "plt", "stubs", "dynbss"}
  BY <1>1 DEF SymEntry
<1>3. sym' = [sym EXCEPT ![h] = e]
  BY DEF WeakAlias, TypeInv, TypeOK
<1> HIDE DEF sec
<1>4. /\ e \in SymEntry
      /\ e.needs_lazy_stub = sym[h].needs_lazy_stub
      /\ e.has_static_relocs = sym[h].has_static_relocs
      /\ e.possibly_dynamic_relocs = sym[h].possibly_dynamic_relocs
  BY <1>1, <1>2 DEF SymEntry
<1> HIDE DEF e
<1>5. /\ Adjusting(h) /\ pc' = pc /\ lazy_stub_count' = lazy_stub_count
      /\ plts' \in Nat /\ reserved' \in Nat
  BY <1>1 DEF WeakAlias
<1>6. QED
  BY <1>3, <1>4, <1>5, NoStubType

\* A symbol that is left alone, or refused, changes no count.
LEMMA NothingToAdjustType ==
  ASSUME TypeInv, NEW h \in Syms, NothingToAdjust(h) \/ RefuseStatic(h)
  PROVE  TypeInv'
<1>1. sym[h] \in SymEntry /\ plts \in Nat /\ reserved \in Nat
  BY DEF TypeInv, TypeOK
<1>2. sym' = [sym EXCEPT ![h] = sym[h]]
  BY DEF NothingToAdjust, RefuseStatic, TypeInv, TypeOK
<1>3. /\ Adjusting(h) /\ pc' \in {pc, "failed"} /\ lazy_stub_count' = lazy_stub_count
      /\ plts' \in Nat /\ reserved' \in Nat
  BY <1>1 DEF NothingToAdjust, RefuseStatic
<1>4. QED
  BY <1>1, <1>2, <1>3, NoStubType

\* A copy takes the place of the relocations against its symbol.
LEMMA CopyRelocType ==
  ASSUME TypeInv, NEW h \in Syms, CopyReloc(h)
  PROVE  TypeInv'
<1> DEFINE e == [sym[h] EXCEPT !.needs_copy = TRUE, !.possibly_dynamic_relocs = 0,
                               !.section = "dynbss"]
<1>1. sym[h] \in SymEntry /\ plts \in Nat /\ reserved \in Nat
  BY DEF TypeInv, TypeOK
<1>2. sym' = [sym EXCEPT ![h] = e]
  BY DEF CopyReloc, TypeInv, TypeOK
<1>3. /\ e \in SymEntry
      /\ e.needs_lazy_stub = sym[h].needs_lazy_stub
      /\ e.has_static_relocs = sym[h].has_static_relocs
      /\ e.possibly_dynamic_relocs = 0
  <2>1. 0 \in 0..MaxRelocs
    BY BoundsAssumption
  <2>2. QED
    BY <1>1, <2>1 DEF SymEntry
<1> HIDE DEF e
<1>4. sym[h].has_static_relocs /\ ~link.shared
  BY DEF CopyReloc, WantsCopy
<1>5. /\ Adjusting(h) /\ pc' = pc /\ lazy_stub_count' = lazy_stub_count
      /\ plts' \in Nat /\ reserved' \in Nat
  BY <1>1 DEF CopyReloc
<1>6. QED
  BY <1>2, <1>3, <1>4, <1>5, NoStubType

\* allocate_dynrelocs.
LEMMA CopiedEntry ==
  ASSUME NEW h \in Syms, NEW e \in SymEntry
  PROVE  LET s == Copied(h, e) IN
         /\ s \in SymEntry
         /\ s.possibly_dynamic_relocs = e.possibly_dynamic_relocs
         /\ s.readonly_reloc = e.readonly_reloc
         /\ s.has_static_relocs = e.has_static_relocs
         /\ s.pointer_equality_needed = e.pointer_equality_needed
         /\ s.no_fn_stub = e.no_fn_stub
         /\ s.needs_plt = e.needs_plt
         /\ s.func = e.func
         /\ s.needs_lazy_stub = e.needs_lazy_stub
         /\ s.needs_copy = e.needs_copy
         /\ s.plt = e.plt
         /\ s.section = e.section
         /\ s.got_only_for_calls = FALSE
         /\ s.global_got_area # "NONE"
         /\ s.dynindx = IF link.kind[h].def = "undefweak" THEN Recorded(h, e).dynindx
                        ELSE e.dynindx
<1> DEFINE d == IF link.kind[h].def = "undefweak" THEN Recorded(h, e) ELSE e
           area == HighestArea(d.global_got_area, "RELOC_ONLY")
           s == Copied(h, e)
<1>1. PICK i \in Nat \cup {NoOffset} : d = [e EXCEPT !.dynindx = i]
  BY RecordedEntry DEF SymEntry
<1>2. /\ d \in SymEntry /\ d.dynindx = i
      /\ d.possibly_dynamic_relocs = e.possibly_dynamic_relocs
      /\ d.readonly_reloc = e.readonly_reloc
      /\ d.has_static_relocs = e.has_static_relocs
      /\ d.pointer_equality_needed = e.pointer_equality_needed
      /\ d.no_fn_stub = e.no_fn_stub /\ d.needs_plt = e.needs_plt /\ d.func = e.func
      /\ d.needs_lazy_stub = e.needs_lazy_stub /\ d.needs_copy = e.needs_copy
      /\ d.plt = e.plt /\ d.section = e.section
  BY <1>1 DEF SymEntry
<1>3. d.dynindx = IF link.kind[h].def = "undefweak" THEN Recorded(h, e).dynindx
                  ELSE e.dynindx
  OBVIOUS
<1>4. s = [d EXCEPT !.global_got_area = area, !.got_only_for_calls = FALSE]
  BY DEF Copied
<1> HIDE DEF d, s
<1>5. area \in {"NORMAL", "RELOC_ONLY"}
  BY <1>2, AreaOrder DEF SymEntry
<1> HIDE DEF area
<1>6. /\ s \in SymEntry
      /\ s.global_got_area = area /\ s.got_only_for_calls = FALSE
      /\ s.possibly_dynamic_relocs = d.possibly_dynamic_relocs
      /\ s.readonly_reloc = d.readonly_reloc
      /\ s.has_static_relocs = d.has_static_relocs
      /\ s.pointer_equality_needed = d.pointer_equality_needed
      /\ s.no_fn_stub = d.no_fn_stub /\ s.needs_plt = d.needs_plt /\ s.func = d.func
      /\ s.needs_lazy_stub = d.needs_lazy_stub /\ s.needs_copy = d.needs_copy
      /\ s.plt = d.plt /\ s.section = d.section /\ s.dynindx = d.dynindx
  BY <1>2, <1>4, <1>5 DEF SymEntry
<1>7. QED
  BY <1>2, <1>3, <1>5, <1>6 DEF s

\* The symbols with relocations of their own.
CopiedSyms == {h \in Proper : CopiesRelocs(h)}

\* What allocate_dynrelocs adds up.
RelocsOf == [h \in Syms |-> sym[h].possibly_dynamic_relocs]

\* allocate_dynrelocs keeps the types; it reserves a sum of numbers.
LEMMA AllocateType ==
  ASSUME TypeInv, AllocateDynrelocs
  PROVE  TypeInv'
<1> USE DEF TypeInv
<1>1. /\ pc = "adjust" /\ pc' = "estimate" /\ todo = {}
      /\ sym' = [h \in Syms |-> IF h \in CopiedSyms THEN Copied(h, sym[h]) ELSE sym[h]]
      /\ reserved' = reserved + SumFunctionOnSet(RelocsOf, CopiedSyms)
      /\ textrel' = (textrel \/ \E h \in CopiedSyms : sym[h].readonly_reloc)
      /\ dynsymcount' = dynsymcount + NewDynsyms(sym, sym')
      /\ UNCHANGED <<link, refs, forwarded, texttag, plts, lazy_stub_count, big_stubs,
                     sstubs, todo, output, written>>
  BY DEF AllocateDynrelocs, CopiedSyms, RelocsOf
<1>2. ASSUME NEW h \in Syms
      PROVE  /\ sym'[h] \in SymEntry
             /\ sym'[h].possibly_dynamic_relocs = sym[h].possibly_dynamic_relocs
             /\ sym'[h].has_static_relocs = sym[h].has_static_relocs
             /\ sym'[h].needs_lazy_stub = sym[h].needs_lazy_stub
  BY <1>1, CopiedEntry DEF TypeOK
<1>3. sym' \in [Syms -> SymEntry]
  BY <1>1, <1>2
<1>4. SumFunctionOnSet(RelocsOf, CopiedSyms) \in Nat
  <2>1. IsFiniteSet(CopiedSyms)
    BY SymsFinite DEF CopiedSyms, Proper
  <2>2. \A h \in CopiedSyms : RelocsOf[h] \in Nat
    BY BoundsAssumption DEF CopiedSyms, Proper, RelocsOf, TypeOK, SymEntry
  <2>3. QED
    BY <2>1, <2>2, SumNat
<1>5. reserved' \in Nat /\ dynsymcount' \in Nat /\ textrel' \in BOOLEAN
  <2>1. NewDynsyms(sym, sym') \in Nat
    BY SymsFinite DEF NewDynsyms
  <2>2. textrel' \in BOOLEAN
    BY <1>1 DEF TypeOK
  <2>3. reserved \in Nat /\ dynsymcount \in Nat
    BY DEF TypeOK
  <2>4. QED
    BY <1>1, <1>4, <2>1, <2>2, <2>3
<1>6. TypeOK'
  BY <1>1, <1>3, <1>5 DEF TypeOK
<1>7. Names'
  BY <1>1 DEF Names
<1>8. Stubs' = Stubs
  BY <1>2 DEF Stubs
<1>9. StubCount'
  BY <1>1, <1>8 DEF StubCount, Proper
<1>10. Counts'
  BY <1>1, <1>2, CountsFrame DEF Proper
<1>11. QED
  BY <1>6, <1>7, <1>9, <1>10

\* The steps of size_dynamic_sections that follow: the entries change, but what
\* they count does not.
LEMMA LayOutCounts ==
  ASSUME TypeInv, pc # "failed", pc # "scan", pc' # "scan",
         UNCHANGED <<link, refs, forwarded>>,
         \A h \in Syms :
           /\ sym'[h].possibly_dynamic_relocs = sym[h].possibly_dynamic_relocs
           /\ sym'[h].has_static_relocs = sym[h].has_static_relocs
  PROVE  Names' /\ Counts'
<1>1. Names'
  BY DEF Names, TypeInv
<1>2. Counts'
  BY CountsFrame DEF TypeInv, Proper
<1>3. QED
  BY <1>1, <1>2

\* mips_elf_estimate_stub_size keeps the types and counts one stub more.
LEMMA EstimateType ==
  ASSUME TypeInv, EstimateStubSize
  PROVE  TypeInv'
<1> USE DEF TypeInv
<1>1. /\ pc = "estimate" /\ pc' = "lay_out"
      /\ UNCHANGED <<link, refs, forwarded, sym, reserved, textrel, texttag, plts,
                     dynsymcount, todo, output, written>>
  BY DEF EstimateStubSize
<1>2. lazy_stub_count \in Nat /\ IsFiniteSet(Stubs)
  BY SymsFinite DEF TypeOK, Stubs
<1>3. Stubs' = Stubs /\ (lazy_stub_count = 0 <=> Stubs = {})
  BY <1>1, <1>2, FS_EmptySet DEF StubCount, Stubs
<1>4. CASE lazy_stub_count = 0
  <2>1. UNCHANGED <<lazy_stub_count, big_stubs, sstubs>>
    BY <1>4 DEF EstimateStubSize
  <2>2. TypeOK'
    BY <1>1, <2>1 DEF TypeOK
  <2>3. StubCount'
    BY <1>1, <1>3, <1>4, <2>1 DEF StubCount, Proper
  <2>4. QED
    BY <1>1, <2>2, <2>3, LayOutCounts
<1>5. CASE lazy_stub_count # 0
  <2>1. /\ lazy_stub_count' = lazy_stub_count + 1
        /\ big_stubs' = (WorstDynsyms > MaxIndex + 1)
        /\ sstubs' = lazy_stub_count'
    BY <1>5 DEF EstimateStubSize
  <2>2. lazy_stub_count' \in Nat /\ sstubs' \in Nat /\ big_stubs' \in BOOLEAN
    BY <1>2, <2>1
  <2>3. TypeOK'
    BY <1>1, <2>2 DEF TypeOK
  <2>4. StubCount'
    BY <1>1, <1>3, <1>5, <2>1 DEF StubCount, Proper
  <2>5. QED
    BY <1>1, <2>3, <2>4, LayOutCounts
<1>6. QED
  BY <1>4, <1>5

\* The final area of symbol h, and whether it keeps its stub when the symbols in
\* lost have lost theirs.
FinalArea(h) ==
  IF \/ sym[h].dynindx = NoOffset
     \/ BindsLocally(h, sym[h], sym[h].got_only_for_calls)
  THEN "NONE" ELSE sym[h].global_got_area

KeepsStub(h, lost) == sym[h].needs_lazy_stub /\ h \notin lost

\* mips_elf_lay_out_got changes areas and takes stubs away, and nothing else.
LEMMA LayOutGotEffect ==
  ASSUME TypeOK, LayOutGot
  PROVE  \E lost \in SUBSET {h \in Proper : sym[h].needs_lazy_stub} :
           /\ lazy_stub_count' = lazy_stub_count - Cardinality(lost)
           /\ sym' \in [Syms -> SymEntry]
           /\ \A h \in Syms :
             /\ sym'[h].possibly_dynamic_relocs = sym[h].possibly_dynamic_relocs
             /\ sym'[h].readonly_reloc = sym[h].readonly_reloc
             /\ sym'[h].has_static_relocs = sym[h].has_static_relocs
             /\ sym'[h].pointer_equality_needed = sym[h].pointer_equality_needed
             /\ sym'[h].no_fn_stub = sym[h].no_fn_stub
             /\ sym'[h].needs_plt = sym[h].needs_plt
             /\ sym'[h].func = sym[h].func
             /\ sym'[h].needs_copy = sym[h].needs_copy
             /\ sym'[h].plt = sym[h].plt
             /\ sym'[h].section = sym[h].section
             /\ sym'[h].dynindx = sym[h].dynindx
             /\ sym'[h].global_got_area = FinalArea(h)
             /\ sym'[h].needs_lazy_stub <=> sym[h].needs_lazy_stub /\ h \notin lost
<1>1. PICK lost \in SUBSET {h \in Proper : sym[h].needs_lazy_stub} :
        /\ sym' = [h \in Syms |->
             [sym[h] EXCEPT !.global_got_area = FinalArea(h),
                            !.needs_lazy_stub = KeepsStub(h, lost)]]
        /\ lazy_stub_count' = lazy_stub_count - Cardinality(lost)
  BY Zenon DEF LayOutGot, FinalArea, KeepsStub
<1>2. ASSUME NEW h \in Syms
      PROVE  /\ sym'[h] \in SymEntry
             /\ sym'[h].possibly_dynamic_relocs = sym[h].possibly_dynamic_relocs
             /\ sym'[h].readonly_reloc = sym[h].readonly_reloc
             /\ sym'[h].has_static_relocs = sym[h].has_static_relocs
             /\ sym'[h].pointer_equality_needed = sym[h].pointer_equality_needed
             /\ sym'[h].no_fn_stub = sym[h].no_fn_stub
             /\ sym'[h].needs_plt = sym[h].needs_plt
             /\ sym'[h].func = sym[h].func
             /\ sym'[h].needs_copy = sym[h].needs_copy
             /\ sym'[h].plt = sym[h].plt
             /\ sym'[h].section = sym[h].section
             /\ sym'[h].dynindx = sym[h].dynindx
             /\ sym'[h].global_got_area = FinalArea(h)
             /\ sym'[h].needs_lazy_stub <=> sym[h].needs_lazy_stub /\ h \notin lost
  <2>1. sym[h] \in SymEntry
    BY DEF TypeOK
  <2>2. FinalArea(h) \in {"NORMAL", "RELOC_ONLY", "NONE"} /\ KeepsStub(h, lost) \in BOOLEAN
    BY <2>1 DEF FinalArea, KeepsStub, SymEntry
  <2> DEFINE e == sym'[h]
  <2>3. e = [sym[h] EXCEPT !.global_got_area = FinalArea(h),
                           !.needs_lazy_stub = KeepsStub(h, lost)]
    BY <1>1
  <2> HIDE DEF e
  <2>4. /\ e \in SymEntry
        /\ e.possibly_dynamic_relocs = sym[h].possibly_dynamic_relocs
        /\ e.readonly_reloc = sym[h].readonly_reloc
        /\ e.has_static_relocs = sym[h].has_static_relocs
        /\ e.pointer_equality_needed = sym[h].pointer_equality_needed
        /\ e.no_fn_stub = sym[h].no_fn_stub /\ e.needs_plt = sym[h].needs_plt
        /\ e.func = sym[h].func /\ e.needs_copy = sym[h].needs_copy
        /\ e.plt = sym[h].plt /\ e.section = sym[h].section
        /\ e.dynindx = sym[h].dynindx
        /\ e.global_got_area = FinalArea(h)
        /\ e.needs_lazy_stub = KeepsStub(h, lost)
    BY <2>1, <2>2, <2>3 DEF SymEntry
  <2>5. QED
    BY <2>4 DEF e, KeepsStub
<1>3. sym' \in [Syms -> SymEntry]
  BY <1>1, <1>2
<1>4. QED
  BY <1>1, <1>2, <1>3

\* The count of stubs stays right when secondary GOTs take stubs away.
LEMMA LayOutGotType ==
  ASSUME TypeInv, LayOutGot
  PROVE  TypeInv'
<1> USE DEF TypeInv
<1>1. PICK lost \in SUBSET {h \in Proper : sym[h].needs_lazy_stub} :
        /\ lazy_stub_count' = lazy_stub_count - Cardinality(lost)
        /\ sym' \in [Syms -> SymEntry]
        /\ \A h \in Syms :
             /\ sym'[h].possibly_dynamic_relocs = sym[h].possibly_dynamic_relocs
             /\ sym'[h].has_static_relocs = sym[h].has_static_relocs
             /\ sym'[h].needs_lazy_stub <=> sym[h].needs_lazy_stub /\ h \notin lost
  BY LayOutGotEffect
<1>2. /\ pc = "lay_out" /\ pc' = "stubs"
      /\ UNCHANGED <<link, refs, forwarded, reserved, textrel, texttag, plts,
                     big_stubs, sstubs, dynsymcount, todo, output, written>>
  BY DEF LayOutGot
<1>5. /\ IsFiniteSet(Stubs) /\ lost \in SUBSET Stubs /\ Stubs' = Stubs \ lost
      /\ Cardinality(Stubs) \in Nat
  BY <1>1, SymsFinite DEF Stubs, Proper
<1>6. /\ Cardinality(Stubs') = Cardinality(Stubs) - Cardinality(lost)
      /\ Cardinality(Stubs') \in Nat /\ Cardinality(lost) \in Nat
      /\ Stubs = {} => Cardinality(lost) = 0
  <2>1. Stubs \cap lost = lost
    BY <1>5
  <2>2. Cardinality(Stubs \ lost) = Cardinality(Stubs) - Cardinality(lost)
    BY <1>5, <2>1, FS_Difference
  <2>3. IsFiniteSet(lost) /\ IsFiniteSet(Stubs \ lost)
    BY <1>5, FS_Subset
  <2>4. Cardinality(lost) \in Nat /\ Cardinality(Stubs \ lost) \in Nat
    BY <2>3, FS_CardinalityType
  <2>5. QED
    BY <1>5, <2>2, <2>4, FS_EmptySet
<1>7. StubCount'
  <2>1. Proper' = Proper
    BY <1>2 DEF Proper
  <2>2. \A h \in Stubs' : h \in Proper
    BY <1>5 DEF StubCount
  <2>3. CASE Stubs = {}
    <3>1. lazy_stub_count = 0 /\ sstubs = 0
      BY <1>2, <2>3 DEF StubCount
    <3>2. lazy_stub_count' = 0 /\ sstubs' = 0 /\ Stubs' = {}
      BY <1>1, <1>2, <1>5, <1>6, <2>3, <3>1
    <3>3. QED
      BY <1>2, <2>1, <3>2 DEF StubCount
  <2>4. CASE Stubs # {}
    <3>1. lazy_stub_count = Cardinality(Stubs) + 1
      BY <1>2, <2>4 DEF StubCount
    <3>2. lazy_stub_count' = Cardinality(Stubs') + 1
      <4>1. lazy_stub_count' = lazy_stub_count - Cardinality(lost)
        BY <1>1
      <4>2. Cardinality(Stubs) \in Nat
        BY <1>5
      <4> DEFINE new == Cardinality(Stubs')
      <4>3. new = Cardinality(Stubs) - Cardinality(lost) /\ Cardinality(lost) \in Nat
        BY <1>6
      <4> HIDE DEF new
      <4>4. lazy_stub_count' = new + 1
        BY <3>1, <4>1, <4>2, <4>3
      <4>5. QED
        BY <4>4 DEF new
    <3>3. QED
      BY <1>2, <2>1, <2>2, <3>2 DEF StubCount
  <2>5. QED
    BY <2>3, <2>4
<1>8. lazy_stub_count' \in Nat
  BY <1>2, <1>6, <1>7 DEF StubCount
<1>9. TypeOK'
  BY <1>1, <1>2, <1>8 DEF TypeOK
<1>10. QED
  BY <1>1, <1>2, <1>7, <1>9, LayOutCounts

\* Where a member comes in an order.
LEMMA OrderedIn ==
  ASSUME NEW S, NEW pos \in Orders(S), NEW h \in S
  PROVE  pos[h] \in 1..Cardinality(S)
BY DEF Orders

\* The symbols that mips_elf_lay_out_lazy_stubs visits.
LazyStubs == {h \in Proper : sym[h].needs_lazy_stub}

\* Each stub gets a place in .MIPS.stubs, in some order.
LEMMA LayOutStubsEffect ==
  ASSUME TypeOK, LayOutStubs
  PROVE  \E pos \in Orders(LazyStubs) :
           /\ sym' \in [Syms -> SymEntry]
           /\ \A h \in Syms :
                /\ sym'[h].possibly_dynamic_relocs = sym[h].possibly_dynamic_relocs
                /\ sym'[h].readonly_reloc = sym[h].readonly_reloc
                /\ sym'[h].has_static_relocs = sym[h].has_static_relocs
                /\ sym'[h].pointer_equality_needed = sym[h].pointer_equality_needed
                /\ sym'[h].no_fn_stub = sym[h].no_fn_stub
                /\ sym'[h].got_only_for_calls = sym[h].got_only_for_calls
                /\ sym'[h].needs_plt = sym[h].needs_plt
                /\ sym'[h].func = sym[h].func
                /\ sym'[h].needs_lazy_stub = sym[h].needs_lazy_stub
                /\ sym'[h].needs_copy = sym[h].needs_copy
                /\ sym'[h].dynindx = sym[h].dynindx
                /\ sym'[h].global_got_area = sym[h].global_got_area
                /\ sym'[h].plt = IF h \in LazyStubs THEN pos[h] - 1 ELSE sym[h].plt
                /\ sym'[h].section = IF h \in LazyStubs THEN "stubs" ELSE sym[h].section
<1>1. PICK pos \in Orders(LazyStubs) :
        sym' = [h \in Syms |->
                  IF h \in LazyStubs
                  THEN [sym[h] EXCEPT !.plt = pos[h] - 1, !.section = "stubs"]
                  ELSE sym[h]]
  BY Zenon DEF LayOutStubs, LazyStubs
<1>2. ASSUME NEW h \in Syms
      PROVE  /\ sym'[h] \in SymEntry
             /\ sym'[h].possibly_dynamic_relocs = sym[h].possibly_dynamic_relocs
             /\ sym'[h].readonly_reloc = sym[h].readonly_reloc
             /\ sym'[h].has_static_relocs = sym[h].has_static_relocs
             /\ sym'[h].pointer_equality_needed = sym[h].pointer_equality_needed
             /\ sym'[h].no_fn_stub = sym[h].no_fn_stub
             /\ sym'[h].got_only_for_calls = sym[h].got_only_for_calls
             /\ sym'[h].needs_plt = sym[h].needs_plt
             /\ sym'[h].func = sym[h].func
             /\ sym'[h].needs_lazy_stub = sym[h].needs_lazy_stub
             /\ sym'[h].needs_copy = sym[h].needs_copy
             /\ sym'[h].dynindx = sym[h].dynindx
             /\ sym'[h].global_got_area = sym[h].global_got_area
             /\ sym'[h].plt = IF h \in LazyStubs THEN pos[h] - 1 ELSE sym[h].plt
             /\ sym'[h].section = IF h \in LazyStubs THEN "stubs" ELSE sym[h].section
  <2>1. sym[h] \in SymEntry
    BY DEF TypeOK
  <2>2. CASE h \in LazyStubs
    <3> DEFINE e == sym'[h]
               n == pos[h] - 1
    <3>1. e = [sym[h] EXCEPT !.plt = n, !.section = "stubs"]
      BY <1>1, <2>2
    <3>2. n \in Nat
      <4>1. Cardinality(LazyStubs) \in Nat
        BY SymsFinite DEF LazyStubs, Proper
      <4>2. pos[h] \in 1..Cardinality(LazyStubs)
        BY <2>2, OrderedIn
      <4>3. QED
        BY <4>1, <4>2
    <3> HIDE DEF e, n
    <3>3. /\ e \in SymEntry /\ e.plt = n /\ e.section = "stubs"
          /\ e.possibly_dynamic_relocs = sym[h].possibly_dynamic_relocs
          /\ e.readonly_reloc = sym[h].readonly_reloc
          /\ e.has_static_relocs = sym[h].has_static_relocs
          /\ e.pointer_equality_needed = sym[h].pointer_equality_needed
          /\ e.no_fn_stub = sym[h].no_fn_stub
          /\ e.got_only_for_calls = sym[h].got_only_for_calls
          /\ e.needs_plt = sym[h].needs_plt
          /\ e.func = sym[h].func
          /\ e.needs_lazy_stub = sym[h].needs_lazy_stub
          /\ e.needs_copy = sym[h].needs_copy
          /\ e.dynindx = sym[h].dynindx
          /\ e.global_got_area = sym[h].global_got_area
      BY <2>1, <3>1, <3>2 DEF SymEntry
    <3>4. QED
      BY <2>2, <3>3 DEF e, n
  <2>3. CASE h \notin LazyStubs
    BY <1>1, <2>1, <2>3
  <2>4. QED
    BY <2>2, <2>3
<1>3. sym' \in [Syms -> SymEntry]
  BY <1>1, <1>2
<1>4. QED
  BY <1>2, <1>3

\* mips_elf_lay_out_lazy_stubs keeps the types; the section has room for all stubs.
LEMMA LayOutStubsType ==
  ASSUME TypeInv, LayOutStubs
  PROVE  TypeInv'
<1> USE DEF TypeInv
<1>1. /\ sym' \in [Syms -> SymEntry]
      /\ \A h \in Syms :
           /\ sym'[h].possibly_dynamic_relocs = sym[h].possibly_dynamic_relocs
           /\ sym'[h].has_static_relocs = sym[h].has_static_relocs
           /\ sym'[h].needs_lazy_stub = sym[h].needs_lazy_stub
  BY LayOutStubsEffect
<1>2. /\ pc = "stubs" /\ pc' = "sort"
      /\ sstubs' = (IF lazy_stub_count = 0 THEN sstubs ELSE Cardinality(LazyStubs) + 1)
      /\ texttag' = textrel /\ textrel' = FALSE
      /\ UNCHANGED <<link, refs, forwarded, reserved, plts, lazy_stub_count,
                     big_stubs, dynsymcount, todo, output, written>>
  BY DEF LayOutStubs, LazyStubs
<1>3. Stubs' = Stubs /\ LazyStubs = Stubs /\ Cardinality(Stubs) \in Nat
  BY <1>1, SymsFinite DEF Stubs, LazyStubs, StubCount, Proper
<1>4. sstubs' \in Nat /\ texttag' \in BOOLEAN /\ textrel' \in BOOLEAN
  <2>1. sstubs \in Nat /\ textrel \in BOOLEAN
    BY DEF TypeOK
  <2>2. Cardinality(LazyStubs) \in Nat
    BY <1>3
  <2>3. sstubs' \in Nat
    BY <1>2, <2>1, <2>2
  <2>4. QED
    BY <1>2, <2>1, <2>3
<1>5. TypeOK'
  BY <1>1, <1>2, <1>4 DEF TypeOK
<1>6. StubCount'
  BY <1>2, <1>3 DEF StubCount, Proper
<1>7. QED
  BY <1>1, <1>2, <1>5, <1>6, LayOutCounts

\* The symbols that mips_elf_sort_hash_table sorts.
ProperDynamic == {h \in Proper : sym[h].dynindx # NoOffset}

\* mips_elf_sort_hash_table gives the dynamic symbols indices, and changes nothing else.
LEMMA SortEffect ==
  ASSUME TypeOK, SortDynsyms
  PROVE  \E sections \in 0..(IF link.shared THEN SectionDynsyms ELSE 0) :
         \E pos \in Orders(ProperDynamic) :
           /\ dynsymcount' = 1 + sections + Cardinality(ProperDynamic)
           /\ sym' \in [Syms -> SymEntry]
           /\ \A h \in Syms :
                /\ sym'[h].possibly_dynamic_relocs = sym[h].possibly_dynamic_relocs
                /\ sym'[h].readonly_reloc = sym[h].readonly_reloc
                /\ sym'[h].has_static_relocs = sym[h].has_static_relocs
                /\ sym'[h].pointer_equality_needed = sym[h].pointer_equality_needed
                /\ sym'[h].no_fn_stub = sym[h].no_fn_stub
                /\ sym'[h].got_only_for_calls = sym[h].got_only_for_calls
                /\ sym'[h].needs_plt = sym[h].needs_plt
                /\ sym'[h].func = sym[h].func
                /\ sym'[h].needs_lazy_stub = sym[h].needs_lazy_stub
                /\ sym'[h].needs_copy = sym[h].needs_copy
                /\ sym'[h].plt = sym[h].plt
                /\ sym'[h].section = sym[h].section
                /\ sym'[h].global_got_area = sym[h].global_got_area
                /\ sym'[h].dynindx = IF h \in ProperDynamic THEN sections + pos[h]
                                    ELSE sym[h].dynindx
<1>1. PICK sections \in 0..(IF link.shared THEN SectionDynsyms ELSE 0) :
        /\ dynsymcount' = 1 + sections + Cardinality(ProperDynamic)
        /\ \E pos \in Orders(ProperDynamic) :
             sym' = [h \in Syms |->
                       IF h \in ProperDynamic
                       THEN [sym[h] EXCEPT !.dynindx = sections + pos[h]]
                       ELSE sym[h]]
  BY Zenon DEF SortDynsyms, ProperDynamic
<1>2. PICK pos \in Orders(ProperDynamic) :
             sym' = [h \in Syms |->
                       IF h \in ProperDynamic
                       THEN [sym[h] EXCEPT !.dynindx = sections + pos[h]]
                       ELSE sym[h]]
  BY <1>1
<1>3. sections \in Nat
  BY BoundsAssumption
<1>4. ASSUME NEW h \in Syms
      PROVE  /\ sym'[h] \in SymEntry
             /\ sym'[h].possibly_dynamic_relocs = sym[h].possibly_dynamic_relocs
             /\ sym'[h].readonly_reloc = sym[h].readonly_reloc
             /\ sym'[h].has_static_relocs = sym[h].has_static_relocs
             /\ sym'[h].pointer_equality_needed = sym[h].pointer_equality_needed
             /\ sym'[h].no_fn_stub = sym[h].no_fn_stub
             /\ sym'[h].got_only_for_calls = sym[h].got_only_for_calls
             /\ sym'[h].needs_plt = sym[h].needs_plt
             /\ sym'[h].func = sym[h].func
             /\ sym'[h].needs_lazy_stub = sym[h].needs_lazy_stub
             /\ sym'[h].needs_copy = sym[h].needs_copy
             /\ sym'[h].plt = sym[h].plt
             /\ sym'[h].section = sym[h].section
             /\ sym'[h].global_got_area = sym[h].global_got_area
             /\ sym'[h].dynindx = IF h \in ProperDynamic THEN sections + pos[h]
                                 ELSE sym[h].dynindx
  <2>1. sym[h] \in SymEntry
    BY DEF TypeOK
  <2>2. CASE h \in ProperDynamic
    <3> DEFINE e == sym'[h]
               n == sections + pos[h]
    <3>1. e = [sym[h] EXCEPT !.dynindx = n]
      BY <1>2, <2>2
    <3>2. n \in Nat
      <4>1. Cardinality(ProperDynamic) \in Nat
        BY SymsFinite DEF ProperDynamic, Proper
      <4>2. pos[h] \in 1..Cardinality(ProperDynamic)
        BY <2>2, OrderedIn
      <4>3. QED
        BY <1>3, <4>1, <4>2
    <3> HIDE DEF e, n
    <3>3. /\ e \in SymEntry /\ e.dynindx = n
          /\ e.possibly_dynamic_relocs = sym[h].possibly_dynamic_relocs
          /\ e.readonly_reloc = sym[h].readonly_reloc
          /\ e.has_static_relocs = sym[h].has_static_relocs
          /\ e.pointer_equality_needed = sym[h].pointer_equality_needed
          /\ e.no_fn_stub = sym[h].no_fn_stub
          /\ e.got_only_for_calls = sym[h].got_only_for_calls
          /\ e.needs_plt = sym[h].needs_plt
          /\ e.func = sym[h].func
          /\ e.needs_lazy_stub = sym[h].needs_lazy_stub
          /\ e.needs_copy = sym[h].needs_copy
          /\ e.plt = sym[h].plt
          /\ e.section = sym[h].section
          /\ e.global_got_area = sym[h].global_got_area
      BY <2>1, <3>1, <3>2 DEF SymEntry
    <3>4. QED
      BY <2>2, <3>3 DEF e, n
  <2>3. CASE h \notin ProperDynamic
    BY <1>2, <2>1, <2>3
  <2>4. QED
    BY <2>2, <2>3
<1>5. sym' \in [Syms -> SymEntry]
  BY <1>2, <1>4
<1>6. QED
  BY <1>1, <1>4, <1>5

\* The indices are numbers.
LEMMA SortType ==
  ASSUME TypeInv, SortDynsyms
  PROVE  TypeInv'
<1> USE DEF TypeInv
<1>1. PICK sections \in 0..(IF link.shared THEN SectionDynsyms ELSE 0) :
        /\ dynsymcount' = 1 + sections + Cardinality(ProperDynamic)
        /\ sym' \in [Syms -> SymEntry]
        /\ \A h \in Syms :
             /\ sym'[h].possibly_dynamic_relocs = sym[h].possibly_dynamic_relocs
             /\ sym'[h].has_static_relocs = sym[h].has_static_relocs
             /\ sym'[h].needs_lazy_stub = sym[h].needs_lazy_stub
  BY SortEffect
<1>2. /\ pc = "sort" /\ pc' = "relocate"
      /\ todo' = {r.sec : r \in {q \in DOMAIN refs : refs[q] > 0}}
      /\ UNCHANGED <<link, refs, forwarded, reserved, textrel, texttag, plts,
                     lazy_stub_count, big_stubs, sstubs, output, written>>
  BY DEF SortDynsyms
<1>3. todo' \subseteq InputSections
  <2>1. \A r \in DOMAIN refs : r.sec \in InputSections
    BY RefType DEF Ref
  <2>2. QED
    BY <1>2, <2>1
<1>4. dynsymcount' \in Nat
  <2>1. sections \in Nat /\ Cardinality(ProperDynamic) \in Nat
    BY BoundsAssumption, SymsFinite DEF ProperDynamic, Proper
  <2>2. QED
    BY <1>1, <2>1
<1>5. TypeOK'
  BY <1>1, <1>2, <1>3, <1>4 DEF TypeOK
<1>6. Stubs' = Stubs
  BY <1>1 DEF Stubs
<1>7. StubCount'
  BY <1>2, <1>6 DEF StubCount, Proper
<1>8. QED
  BY <1>1, <1>2, <1>5, <1>7, LayOutCounts

\* The steps that write the output leave the symbols alone.
LEMMA OutputType ==
  ASSUME TypeInv,
         \/ \E sec \in InputSections : RelocateSection(sec)
         \/ EndRelocate
         \/ \E h \in Syms : FinishSymbol(h)
         \/ FinishSections
  PROVE  TypeInv'
<1> USE DEF TypeInv
<1>1. /\ pc \in {"relocate", "finish"} /\ pc' \in {"relocate", "finish", "finished"}
      /\ UNCHANGED <<link, refs, forwarded, sym, reserved, plts, lazy_stub_count,
                     big_stubs, sstubs, dynsymcount>>
  BY DEF RelocateSection, EndRelocate, FinishSymbol, FinishSections
<1>2. StubCount'
  BY <1>1 DEF StubCount, Stubs, Proper
<1>3. Names' /\ Counts'
  BY <1>1, LayOutCounts
<1>4. CASE \E sec \in InputSections : RelocateSection(sec)
  <2>1. PICK sec \in InputSections : RelocateSection(sec)
    BY <1>4
  <2> DEFINE emitted == {r \in DOMAIN refs : refs[r] > 0 /\ r.sec = sec /\ Emits(r)}
  <2>2. /\ todo' = todo \ {sec}
        /\ output' = output + SumFunctionOnSet(refs, emitted)
        /\ textrel' = (textrel \/ (ReadOnly(sec) /\ emitted # {}))
        /\ UNCHANGED <<texttag, written>>
    BY <2>1 DEF RelocateSection
  <2>3. output' \in Nat
    BY <2>2, RefSum DEF TypeOK
  <2>4. TypeOK'
    BY <1>1, <2>2, <2>3 DEF TypeOK
  <2>5. QED
    BY <1>2, <1>3, <2>4
<1>5. CASE EndRelocate
  <2>1. TypeOK'
    BY <1>1, <1>5 DEF TypeOK, EndRelocate, Proper
  <2>2. QED
    BY <1>2, <1>3, <2>1
<1>6. CASE \E h \in Syms : FinishSymbol(h)
  <2>1. PICK h \in Syms : FinishSymbol(h)
    BY <1>6
  <2>2. sym[h] \in SymEntry
    BY DEF TypeOK
  <2>3. EntriesOf(h) \subseteq [part : {"plt", "stubs"}, offset : Nat, sym : Syms,
                               exported : BOOLEAN]
    <3>1. /\ sym[h].plt = NoOffset \/ sym[h].plt \in Nat
          /\ sym[h].pointer_equality_needed \in BOOLEAN
      BY <2>2 DEF SymEntry
    <3>2. CASE sym[h].plt = NoOffset
      BY <3>2 DEF EntriesOf
    <3>3. CASE sym[h].plt # NoOffset
      <4>1. EntriesOf(h) \in {{Entry("plt", h, sym[h].pointer_equality_needed)},
                              {Entry("stubs", h, TRUE)}}
        BY <3>3 DEF EntriesOf
      <4>2. \A x \in BOOLEAN, p \in {"plt", "stubs"} :
              Entry(p, h, x) \in [part : {"plt", "stubs"}, offset : Nat, sym : Syms,
                                 exported : BOOLEAN]
        BY <3>1, <3>3 DEF Entry
      <4>3. QED
        BY <3>1, <4>1, <4>2
    <3>4. QED
      BY <3>2, <3>3
  <2>4. output' \in Nat
    BY <2>1 DEF FinishSymbol, TypeOK
  <2>5. TypeOK'
    BY <1>1, <2>1, <2>3, <2>4 DEF TypeOK, FinishSymbol
  <2>6. QED
    BY <1>2, <1>3, <2>5
<1>7. CASE FinishSections
  <2>1. TypeOK'
    BY <1>1, <1>7 DEF TypeOK, FinishSections
  <2>2. QED
    BY <1>2, <1>3, <2>1
<1>8. QED
  BY <1>4, <1>5, <1>6, <1>7

\* Every step keeps the types and the counters.
LEMMA TypeNext == TypeInv /\ [Next]_vars => TypeInv'
<1> SUFFICES ASSUME TypeInv, [Next]_vars PROVE TypeInv'
  OBVIOUS
<1>1. CASE \E r \in DOMAIN refs : CheckReloc(r)
  BY <1>1, CheckRelocType
<1>2. CASE \E h \in Syms : BecomeIndirect(h)
  BY <1>2, BecomeIndirectType
<1>3. CASE \E h \in Syms : Adjust(h)
  BY <1>3, LazyStubType, PltEntryType, WeakAliasType, NothingToAdjustType, CopyRelocType
     DEF Adjust
<1>4. CASE UNCHANGED vars
  <2>1. UNCHANGED <<pc, link, refs, forwarded, sym, reserved, textrel, texttag, plts,
                    lazy_stub_count, big_stubs, sstubs, dynsymcount, todo, output, written>>
    BY <1>4 DEF vars
  <2>2. TypeOK'
    BY <2>1 DEF TypeInv, TypeOK
  <2>3. Names' /\ StubCount'
    BY <2>1 DEF TypeInv, Names, StubCount, Stubs, Proper
  <2>4. Counts'
    <3>1. CASE pc = "failed"
      BY <2>1, <3>1 DEF TypeInv, Counts, ScannedRelocs
    <3>2. CASE pc # "failed"
      BY <2>1, <3>2, CountsFrame DEF TypeInv
    <3>3. QED
      BY <3>1, <3>2
  <2>5. QED
    BY <2>2, <2>3, <2>4 DEF TypeInv
<1>5. QED
  BY <1>1, <1>2, <1>3, <1>4, EndScanType, AllocateType, EstimateType, LayOutGotType,
     LayOutStubsType, SortType, OutputType
     DEF Next

\* Every reachable state is well typed: no counter of relocations, PLT entries,
\* stubs or dynamic symbols ever becomes negative or loses count.
THEOREM TypeInvariance == Spec => []TypeInv
<1>1. Init => TypeInv
  BY TypeInit
<1>2. TypeInv /\ [Next]_vars => TypeInv'
  BY TypeNext
<1>3. QED
  BY <1>1, <1>2, PTL DEF Spec

\* Type correctness.
THEOREM TypeCorrect == Spec => []TypeOK
<1>1. TypeInv => TypeOK
  BY DEF TypeInv
<1>2. QED
  BY <1>1, TypeInvariance, PTL

-----------------------------------------------------------------------------
(***************************************************************************)
(* What adjust_dynamic_symbol does to entries.                             *)
(***************************************************************************)
LEMMA LazyStubEffect ==
  ASSUME TypeInv, NEW h \in Syms, LazyStub(h)
  PROVE  /\ \A k \in Syms \ {h} : sym'[k] = sym[k]
         /\ sym'[h].possibly_dynamic_relocs = sym[h].possibly_dynamic_relocs
         /\ sym'[h].readonly_reloc = sym[h].readonly_reloc
         /\ sym'[h].has_static_relocs = sym[h].has_static_relocs
         /\ sym'[h].pointer_equality_needed = sym[h].pointer_equality_needed
         /\ sym'[h].no_fn_stub = sym[h].no_fn_stub
         /\ sym'[h].got_only_for_calls = sym[h].got_only_for_calls
         /\ sym'[h].needs_plt = sym[h].needs_plt
         /\ sym'[h].func = sym[h].func
         /\ sym'[h].needs_copy = sym[h].needs_copy
         /\ sym'[h].plt = sym[h].plt
         /\ sym'[h].section = sym[h].section
         /\ sym'[h].dynindx = sym[h].dynindx
         /\ sym'[h].global_got_area = sym[h].global_got_area
         /\ sym'[h].needs_lazy_stub = TRUE
<1> DEFINE e == [sym[h] EXCEPT !.needs_lazy_stub = TRUE]
<1>1. sym[h] \in SymEntry /\ sym \in [Syms -> SymEntry]
  BY DEF TypeInv, TypeOK
<1>2. sym' = [sym EXCEPT ![h] = e]
  BY <1>1 DEF LazyStub
<1>3. sym'[h] = e /\ \A k \in Syms \ {h} : sym'[k] = sym[k]
  BY <1>1, <1>2
<1>4. /\ e.possibly_dynamic_relocs = sym[h].possibly_dynamic_relocs
      /\ e.readonly_reloc = sym[h].readonly_reloc
      /\ e.has_static_relocs = sym[h].has_static_relocs
      /\ e.pointer_equality_needed = sym[h].pointer_equality_needed
      /\ e.no_fn_stub = sym[h].no_fn_stub
      /\ e.got_only_for_calls = sym[h].got_only_for_calls
      /\ e.needs_plt = sym[h].needs_plt
      /\ e.func = sym[h].func
      /\ e.needs_copy = sym[h].needs_copy
      /\ e.plt = sym[h].plt
      /\ e.section = sym[h].section
      /\ e.dynindx = sym[h].dynindx
      /\ e.global_got_area = sym[h].global_got_area
      /\ e.needs_lazy_stub = TRUE
  BY <1>1 DEF SymEntry
<1> HIDE DEF e
<1>5. QED
  BY <1>3, <1>4

\* The PLT entry of h is the next one; the relocations against h are forgotten.
LEMMA PltEntryEffect ==
  ASSUME TypeInv, NEW h \in Syms, PltEntry(h)
  PROVE  /\ \A k \in Syms \ {h} : sym'[k] = sym[k]
         /\ sym'[h].readonly_reloc = sym[h].readonly_reloc
         /\ sym'[h].has_static_relocs = sym[h].has_static_relocs
         /\ sym'[h].pointer_equality_needed = sym[h].pointer_equality_needed
         /\ sym'[h].no_fn_stub = sym[h].no_fn_stub
         /\ sym'[h].got_only_for_calls = sym[h].got_only_for_calls
         /\ sym'[h].needs_plt = sym[h].needs_plt
         /\ sym'[h].func = sym[h].func
         /\ sym'[h].needs_lazy_stub = sym[h].needs_lazy_stub
         /\ sym'[h].needs_copy = sym[h].needs_copy
         /\ sym'[h].dynindx = sym[h].dynindx
         /\ sym'[h].global_got_area = sym[h].global_got_area
         /\ sym'[h].plt = plts
         /\ sym'[h].section = IF DefRegular(h) THEN sym[h].section ELSE "plt"
         /\ sym'[h].possibly_dynamic_relocs = 0
<1> DEFINE sec == IF DefRegular(h) THEN sym[h].section ELSE "plt"
           e == [sym[h] EXCEPT !.plt = plts, !.section = sec, !.possibly_dynamic_relocs = 0]
<1>1. sym[h] \in SymEntry /\ sym \in [Syms -> SymEntry]
  BY DEF TypeInv, TypeOK
<1>2. sym' = [sym EXCEPT ![h] = e]
  BY <1>1 DEF PltEntry
<1>3. sym'[h] = e /\ \A k \in Syms \ {h} : sym'[k] = sym[k]
  BY <1>1, <1>2
<1> HIDE DEF sec
<1>4. /\ e.readonly_reloc = sym[h].readonly_reloc
      /\ e.has_static_relocs = sym[h].has_static_relocs
      /\ e.pointer_equality_needed = sym[h].pointer_equality_needed
      /\ e.no_fn_stub = sym[h].no_fn_stub
      /\ e.got_only_for_calls = sym[h].got_only_for_calls
      /\ e.needs_plt = sym[h].needs_plt
      /\ e.func = sym[h].func
      /\ e.needs_lazy_stub = sym[h].needs_lazy_stub
      /\ e.needs_copy = sym[h].needs_copy
      /\ e.dynindx = sym[h].dynindx
      /\ e.global_got_area = sym[h].global_got_area
      /\ e.plt = plts
      /\ e.section = sec
      /\ e.possibly_dynamic_relocs = 0
  BY <1>1 DEF SymEntry
<1> HIDE DEF e
<1>5. QED
  BY <1>3, <1>4 DEF sec

\* A weak alias lies where its definition lies.
LEMMA WeakAliasEffect ==
  ASSUME TypeInv, NEW h \in Syms, WeakAlias(h)
  PROVE  /\ \A k \in Syms \ {h} : sym'[k] = sym[k]
         /\ sym'[h].possibly_dynamic_relocs = sym[h].possibly_dynamic_relocs
         /\ sym'[h].readonly_reloc = sym[h].readonly_reloc
         /\ sym'[h].has_static_relocs = sym[h].has_static_relocs
         /\ sym'[h].pointer_equality_needed = sym[h].pointer_equality_needed
         /\ sym'[h].no_fn_stub = sym[h].no_fn_stub
         /\ sym'[h].got_only_for_calls = sym[h].got_only_for_calls
         /\ sym'[h].needs_plt = sym[h].needs_plt
         /\ sym'[h].func = sym[h].func
         /\ sym'[h].needs_lazy_stub = sym[h].needs_lazy_stub
         /\ sym'[h].needs_copy = sym[h].needs_copy
         /\ sym'[h].plt = sym[h].plt
         /\ sym'[h].dynindx = sym[h].dynindx
         /\ sym'[h].global_got_area = sym[h].global_got_area
         /\ sym'[h].section = sym[link.weakdef[h]].section
<1> DEFINE sec == sym[link.weakdef[h]].section
           e == [sym[h] EXCEPT !.section = sec]
<1>1. sym[h] \in SymEntry /\ sym \in [Syms -> SymEntry]
  BY DEF TypeInv, TypeOK
<1>2. sym' = [sym EXCEPT ![h] = e]
  BY <1>1 DEF WeakAlias
<1>3. sym'[h] = e /\ \A k \in Syms \ {h} : sym'[k] = sym[k]
  BY <1>1, <1>2
<1> HIDE DEF sec
<1>4. /\ e.possibly_dynamic_relocs = sym[h].possibly_dynamic_relocs
      /\ e.readonly_reloc = sym[h].readonly_reloc
      /\ e.has_static_relocs = sym[h].has_static_relocs
      /\ e.pointer_equality_needed = sym[h].pointer_equality_needed
      /\ e.no_fn_stub = sym[h].no_fn_stub
      /\ e.got_only_for_calls = sym[h].got_only_for_calls
      /\ e.needs_plt = sym[h].needs_plt
      /\ e.func = sym[h].func
      /\ e.needs_lazy_stub = sym[h].needs_lazy_stub
      /\ e.needs_copy = sym[h].needs_copy
      /\ e.plt = sym[h].plt
      /\ e.dynindx = sym[h].dynindx
      /\ e.global_got_area = sym[h].global_got_area
      /\ e.section = sec
  BY <1>1 DEF SymEntry
<1> HIDE DEF e
<1>5. QED
  BY <1>3, <1>4 DEF sec

\* h is copied to .dynbss; the relocations against h are forgotten.
LEMMA CopyRelocEffect ==
  ASSUME TypeInv, NEW h \in Syms, CopyReloc(h)
  PROVE  /\ \A k \in Syms \ {h} : sym'[k] = sym[k]
         /\ sym'[h].readonly_reloc = sym[h].readonly_reloc
         /\ sym'[h].has_static_relocs = sym[h].has_static_relocs
         /\ sym'[h].pointer_equality_needed = sym[h].pointer_equality_needed
         /\ sym'[h].no_fn_stub = sym[h].no_fn_stub
         /\ sym'[h].got_only_for_calls = sym[h].got_only_for_calls
         /\ sym'[h].needs_plt = sym[h].needs_plt
         /\ sym'[h].func = sym[h].func
         /\ sym'[h].needs_lazy_stub = sym[h].needs_lazy_stub
         /\ sym'[h].plt = sym[h].plt
         /\ sym'[h].dynindx = sym[h].dynindx
         /\ sym'[h].global_got_area = sym[h].global_got_area
         /\ sym'[h].needs_copy = TRUE
         /\ sym'[h].possibly_dynamic_relocs = 0
         /\ sym'[h].section = "dynbss"
<1> DEFINE e == [sym[h] EXCEPT !.needs_copy = TRUE, !.possibly_dynamic_relocs = 0, !.section = "dynbss"]
<1>1. sym[h] \in SymEntry /\ sym \in [Syms -> SymEntry]
  BY DEF TypeInv, TypeOK
<1>2. sym' = [sym EXCEPT ![h] = e]
  BY <1>1 DEF CopyReloc
<1>3. sym'[h] = e /\ \A k \in Syms \ {h} : sym'[k] = sym[k]
  BY <1>1, <1>2
<1>4. /\ e.readonly_reloc = sym[h].readonly_reloc
      /\ e.has_static_relocs = sym[h].has_static_relocs
      /\ e.pointer_equality_needed = sym[h].pointer_equality_needed
      /\ e.no_fn_stub = sym[h].no_fn_stub
      /\ e.got_only_for_calls = sym[h].got_only_for_calls
      /\ e.needs_plt = sym[h].needs_plt
      /\ e.func = sym[h].func
      /\ e.needs_lazy_stub = sym[h].needs_lazy_stub
      /\ e.plt = sym[h].plt
      /\ e.dynindx = sym[h].dynindx
      /\ e.global_got_area = sym[h].global_got_area
      /\ e.needs_copy = TRUE
      /\ e.possibly_dynamic_relocs = 0
      /\ e.section = "dynbss"
  BY <1>1 DEF SymEntry
<1> HIDE DEF e
<1>5. QED
  BY <1>3, <1>4

\* There is room in the counter of the symbol that the next reference is for.
LEMMA ScannedRoom ==
  ASSUME TypeInv, NEW r \in DOMAIN refs, CheckReloc(r), r.sym # Local
  PROVE  sym[Target(r.sym)].possibly_dynamic_relocs + 1 \in 0..MaxRelocs
<1> USE DEF TypeInv
<1> DEFINE t == Target(r.sym)
<1>1. t \in Syms /\ t \in Proper
  BY RefType, ProperTarget
<1>2. sym[t].possibly_dynamic_relocs = SumFunctionOnSet(refs, DynamicRefs(t))
  BY <1>1 DEF CheckReloc, Counts, Counted, Replaced
<1>3. DynamicRefs(t) \subseteq DOMAIN refs
  BY DEF DynamicRefs
<1>4. /\ SumFunctionOnSet(refs, DynamicRefs(t)) \in Nat
      /\ SumFunctionOnSet(refs, DynamicRefs(t)) <= ScannedRelocs
      /\ ScannedRelocs \in Nat
  BY <1>3, RefSum DEF ScannedRelocs
<1>5. ScannedRelocs < MaxRelocs
  BY DEF CheckReloc
<1>6. QED
  BY <1>2, <1>4, <1>5, BoundsAssumption

\* What copy_indirect_symbol does to the entry of the other name h and to that
\* of the symbol h is a name of.
LEMMA BecomeIndirectEffect ==
  ASSUME TypeInv, NEW h \in Syms, BecomeIndirect(h)
  PROVE  LET t == link.indirect[h] IN
         /\ t \in Proper /\ t \in Proper'
         /\ \A k \in Syms \ {h, t} : sym'[k] = sym[k]
         /\ \A k \in Syms :
              /\ sym[k].has_static_relocs => sym'[k].has_static_relocs
              /\ sym[k].pointer_equality_needed => sym'[k].pointer_equality_needed
              /\ sym[k].readonly_reloc => sym'[k].readonly_reloc
              /\ sym'[k].func = sym[k].func
              /\ sym'[k].needs_lazy_stub = sym[k].needs_lazy_stub
              /\ sym'[k].needs_copy = sym[k].needs_copy
              /\ sym'[k].plt = sym[k].plt
              /\ sym'[k].section = sym[k].section
         /\ sym'[h].needs_plt = sym[h].needs_plt
         /\ sym'[h].has_static_relocs = sym[h].has_static_relocs
         /\ sym'[h].no_fn_stub = sym[h].no_fn_stub
         /\ sym'[h].dynindx = NoOffset
         /\ sym'[t].needs_plt = (sym[t].needs_plt \/ sym[h].needs_plt)
         /\ sym'[t].pointer_equality_needed =
              (sym[t].pointer_equality_needed \/ sym[h].pointer_equality_needed)
         /\ sym'[t].has_static_relocs = (sym[t].has_static_relocs \/ sym[h].has_static_relocs)
         /\ sym'[t].readonly_reloc = (sym[t].readonly_reloc \/ sym[h].readonly_reloc)
         /\ sym'[t].no_fn_stub = (sym[t].no_fn_stub \/ sym[h].no_fn_stub)
         /\ sym'[t].dynindx = IF sym[h].dynindx # NoOffset THEN sym[h].dynindx
                              ELSE sym[t].dynindx
<1> USE DEF TypeInv
<1> DEFINE t == link.indirect[h]
           s == CopyForIndirect(sym[t], sym[h])
           e == [sym[h] EXCEPT !.global_got_area = "NONE", !.dynindx = NoOffset]
<1>1. /\ link \in Links /\ t \in Syms /\ t # h /\ h \in Proper
      /\ sym[h] \in SymEntry /\ sym[t] \in SymEntry /\ pc = "scan"
  BY DEF BecomeIndirect, TypeOK, Names, Link, Proper
<1>2. t \in Proper /\ t \in Proper'
  <2>1. link.indirect[t] = t
    BY <1>1, IndirectAssumption
  <2>2. t \notin forwarded
    BY <2>1 DEF Names
  <2>3. QED
    BY <1>1, <2>2 DEF BecomeIndirect, Proper
<1>3. sym' = [sym EXCEPT ![t] = s, ![h] = e]
  BY <1>1 DEF BecomeIndirect, TypeOK
<1>4. sym[t].possibly_dynamic_relocs + sym[h].possibly_dynamic_relocs \in 0..MaxRelocs
  <2>1. Counted(h) /\ Counted(t)
    BY <1>1, <1>2 DEF Counts, Replaced
  <2>2. /\ DynamicRefs(t) \cap DynamicRefs(h) = {}
        /\ DynamicRefs(t) \subseteq DOMAIN refs /\ DynamicRefs(h) \subseteq DOMAIN refs
    BY <1>1 DEF DynamicRefs
  <2>3. /\ IsFiniteSet(DynamicRefs(t)) /\ IsFiniteSet(DynamicRefs(h))
        /\ SumFunctionOnSet(refs, DynamicRefs(t)) \in Nat
        /\ SumFunctionOnSet(refs, DynamicRefs(h)) \in Nat
        /\ SumFunctionOnSet(refs, DynamicRefs(t) \cup DynamicRefs(h)) <= ScannedRelocs
        /\ ScannedRelocs \in Nat
    BY <2>2, RefSum DEF ScannedRelocs
  <2>4. \A r \in DynamicRefs(t) \cup DynamicRefs(h) : refs[r] \in Int
    BY <2>2, RefType
  <2>5. SumFunctionOnSet(refs, DynamicRefs(t) \cup DynamicRefs(h))
          = SumFunctionOnSet(refs, DynamicRefs(t)) + SumFunctionOnSet(refs, DynamicRefs(h))
    BY <2>2, <2>3, <2>4, SumUnion
  <2>6. ScannedRelocs <= MaxRelocs
    BY DEF Counts
  <2>7. QED
    BY <2>1, <2>3, <2>5, <2>6, BoundsAssumption DEF Counted
<1>5. /\ s.needs_plt = (sym[t].needs_plt \/ sym[h].needs_plt)
      /\ s.pointer_equality_needed =
           (sym[t].pointer_equality_needed \/ sym[h].pointer_equality_needed)
      /\ s.has_static_relocs = (sym[t].has_static_relocs \/ sym[h].has_static_relocs)
      /\ s.readonly_reloc = (sym[t].readonly_reloc \/ sym[h].readonly_reloc)
      /\ s.no_fn_stub = (sym[t].no_fn_stub \/ sym[h].no_fn_stub)
      /\ s.func = sym[t].func
      /\ s.needs_lazy_stub = sym[t].needs_lazy_stub
      /\ s.needs_copy = sym[t].needs_copy
      /\ s.plt = sym[t].plt
      /\ s.section = sym[t].section
      /\ s.dynindx = IF sym[h].dynindx # NoOffset THEN sym[h].dynindx ELSE sym[t].dynindx
  BY <1>1, <1>4, IndirectEntry
<1>6. /\ e.needs_plt = sym[h].needs_plt
      /\ e.pointer_equality_needed = sym[h].pointer_equality_needed
      /\ e.has_static_relocs = sym[h].has_static_relocs
      /\ e.readonly_reloc = sym[h].readonly_reloc
      /\ e.no_fn_stub = sym[h].no_fn_stub
      /\ e.func = sym[h].func
      /\ e.needs_lazy_stub = sym[h].needs_lazy_stub
      /\ e.needs_copy = sym[h].needs_copy
      /\ e.plt = sym[h].plt
      /\ e.section = sym[h].section
      /\ e.dynindx = NoOffset
  BY <1>1 DEF SymEntry
<1> HIDE DEF s, e
<1>7. sym'[t] = s /\ sym'[h] = e /\ \A k \in Syms \ {h, t} : sym'[k] = sym[k]
  BY <1>1, <1>3 DEF TypeOK
<1>8. QED
  BY <1>1, <1>2, <1>5, <1>6, <1>7

\* What check_relocs leaves alone.
LEMMA CheckRelocEffect ==
  ASSUME TypeInv, NEW r \in DOMAIN refs, CheckReloc(r)
  PROVE  \A h \in Syms :
           /\ sym'[h].needs_lazy_stub = sym[h].needs_lazy_stub
           /\ sym'[h].needs_copy = sym[h].needs_copy
           /\ sym'[h].plt = sym[h].plt
           /\ sym'[h].section = sym[h].section
<1>1. CASE sym' = sym
  BY <1>1
<1>2. CASE sym' # sym
  <2> DEFINE t == Target(r.sym)
             s == Scanned(t, sym[t], r)
  <2>1. r.sym # Local /\ sym' = [sym EXCEPT ![t] = s]
    BY <1>2 DEF CheckReloc
  <2>2. r \in Ref /\ t \in Syms /\ sym[t] \in SymEntry
    BY <2>1, RefType, ProperTarget DEF TypeInv, TypeOK
  <2>3. sym[t].possibly_dynamic_relocs + 1 \in 0..MaxRelocs
    BY <2>1, ScannedRoom
  <2>4. /\ s.needs_lazy_stub = sym[t].needs_lazy_stub
        /\ s.needs_copy = sym[t].needs_copy
        /\ s.plt = sym[t].plt /\ s.section = sym[t].section
    BY <2>2, <2>3, ScannedEntry
  <2> HIDE DEF s, t
  <2>5. QED
    BY <2>1, <2>2, <2>4 DEF TypeInv, TypeOK
<1>3. QED
  BY <1>1, <1>2
-----------------------------------------------------------------------------
(***************************************************************************)
(* What the scan has recorded is not forgotten.                            *)
(***************************************************************************)
\* Flags that are never cleared keep recalling the references.
LEMMA FlagsFrame ==
  ASSUME TypeOK, Names, Flags, UNCHANGED <<link, refs, forwarded>>,
         \A h \in Syms :
           /\ sym[h].has_static_relocs => sym'[h].has_static_relocs
           /\ sym[h].pointer_equality_needed => sym'[h].pointer_equality_needed
           /\ sym[h].readonly_reloc => sym'[h].readonly_reloc
  PROVE  Flags'
<1> SUFFICES ASSUME NEW r \in DOMAIN refs, refs[r] > 0, r.sym # Local
             PROVE  Recalls(sym[Target(r.sym)], r)'
  BY DEF Flags, WasScanned
<1>1. Target(r.sym) \in Syms
  BY RefType, ProperTarget
<1>2. Recalls(sym[Target(r.sym)], r)
  BY DEF Flags, WasScanned
<1>3. Target(r.sym)' = Target(r.sym)
  BY DEF Target
<1>4. QED
  BY <1>1, <1>2, <1>3 DEF Recalls, IsStatic, NeedsValue, CanMakeDynamic

\* A scanned relocation is recalled by the entry of its symbol.
LEMMA CheckRelocFlags ==
  ASSUME TypeInv, TypeInv', Flags, NEW r \in DOMAIN refs, CheckReloc(r), pc' # "failed"
  PROVE  Flags'
<1> USE DEF TypeInv
<1>1. /\ refs' = [refs EXCEPT ![r] = @ + 1] /\ DOMAIN refs' = DOMAIN refs
      /\ UNCHANGED <<pc, link, forwarded>>
  BY DEF CheckReloc
<1>2. /\ r \in Ref /\ \A q \in DOMAIN refs : q \in Ref /\ refs[q] \in Nat
      /\ \A q \in DOMAIN refs : q.sym # Local => q.sym \in Syms /\ Target(q.sym) \in Syms
  BY RefType, ProperTarget
<1>3. \A h \in Syms :
        /\ sym[h].has_static_relocs => sym'[h].has_static_relocs
        /\ sym[h].pointer_equality_needed => sym'[h].pointer_equality_needed
        /\ sym[h].readonly_reloc => sym'[h].readonly_reloc
        /\ r.sym # Local /\ h = Target(r.sym) => Recalls(sym'[h], r)
  <2>1. CASE r.sym = Local
    BY <1>1, <2>1 DEF CheckReloc
  <2>2. CASE r.sym # Local
    <3> DEFINE t == Target(r.sym)
               s == Scanned(t, sym[t], r)
    <3>1. sym' = [sym EXCEPT ![t] = s]
      BY <2>2 DEF CheckReloc
    <3>2. t \in Syms /\ sym[t] \in SymEntry
      BY <1>2, <2>2 DEF TypeOK
    <3>3. /\ sym[t].possibly_dynamic_relocs + 1 \in 0..MaxRelocs
      BY <1>1, <1>2, <2>2, ScannedRoom
    <3>4. /\ s.readonly_reloc = (sym[t].readonly_reloc \/ (CanMakeDynamic(r) /\ ReadOnly(r.sec)))
          /\ s.has_static_relocs = (sym[t].has_static_relocs \/ IsStatic(r))
          /\ s.pointer_equality_needed = (sym[t].pointer_equality_needed \/ NeedsValue(r))
      BY <1>2, <3>2, <3>3, ScannedEntry
    <3> HIDE DEF s
    <3>5. sym'[t] = s /\ \A h \in Syms \ {t} : sym'[h] = sym[h]
      BY <3>1, <3>2 DEF TypeOK
    <3>6. Recalls(s, r)
      BY <3>4 DEF Recalls
    <3>7. QED
      BY <3>4, <3>5, <3>6
  <2>3. QED
    BY <2>1, <2>2
<1>4. ASSUME NEW q \in DOMAIN refs, q.sym # Local, refs[q] > 0 \/ q = r
      PROVE  Recalls(sym'[Target(q.sym)], q)
  <2>1. CASE q = r
    BY <1>2, <1>3, <1>4, <2>1
  <2>2. CASE q # r
    <3>1. Recalls(sym[Target(q.sym)], q)
      BY <1>4, <2>2 DEF Flags, WasScanned
    <3>2. QED
      BY <1>2, <1>3, <1>4, <3>1 DEF Recalls
  <2>3. QED
    BY <2>1, <2>2
<1>5. ASSUME NEW q \in DOMAIN refs, refs'[q] > 0
      PROVE  refs[q] > 0 \/ q = r
  BY <1>1, <1>2, <1>5
<1>6. \A q \in DOMAIN refs : Recalls(sym'[Target(q.sym)], q) =>
                                Recalls(sym[Target(q.sym)], q)'
  BY <1>1 DEF Recalls, IsStatic, NeedsValue, CanMakeDynamic, Target
<1>7. QED
  BY <1>1, <1>4, <1>5, <1>6 DEF Flags, WasScanned

\* The second name recalls the relocations that were scanned for the first one:
\* CopyForIndirect forgets no flag.
LEMMA BecomeIndirectFlags ==
  ASSUME TypeInv, Flags, NEW h \in Syms, BecomeIndirect(h)
  PROVE  Flags'
<1> USE DEF TypeInv
<1> DEFINE t == link.indirect[h]
<1>1. /\ link \in Links /\ t \in Syms /\ t # h /\ h \in Proper
      /\ forwarded' = forwarded \cup {h} /\ UNCHANGED <<pc, link, refs>>
  BY DEF BecomeIndirect, TypeOK, Names, Link, Proper
<1>2. /\ \A k \in Syms :
           /\ sym[k].has_static_relocs => sym'[k].has_static_relocs
           /\ sym[k].pointer_equality_needed => sym'[k].pointer_equality_needed
           /\ sym[k].readonly_reloc => sym'[k].readonly_reloc
      /\ sym[h].has_static_relocs => sym'[t].has_static_relocs
      /\ sym[h].pointer_equality_needed => sym'[t].pointer_equality_needed
      /\ sym[h].readonly_reloc => sym'[t].readonly_reloc
  BY <1>1, BecomeIndirectEffect
<1>3. ASSUME NEW r \in DOMAIN refs, refs[r] > 0, r.sym # Local
      PROVE  Recalls(sym[Target(r.sym)], r)'
  <2>1. Target(r.sym) \in Syms /\ Recalls(sym[Target(r.sym)], r)
    BY <1>3, RefType, ProperTarget DEF Flags, WasScanned
  <2>2. Target(r.sym)' = Target(r.sym) \/ (Target(r.sym) = h /\ Target(r.sym)' = t)
    BY <1>1, <1>3 DEF Target, Proper
  <2>3. Recalls(sym'[Target(r.sym)'], r)
    BY <1>2, <2>1, <2>2 DEF Recalls
  <2>4. QED
    BY <1>1, <2>3 DEF Recalls, IsStatic, NeedsValue, CanMakeDynamic
<1>4. QED
  BY <1>1, <1>3 DEF Flags, WasScanned

-----------------------------------------------------------------------------
(***************************************************************************)
(* The flags of one entry agree with each other.                           *)
(***************************************************************************)
\* After the scan no flag is set or cleared.
LEMMA EntriesFrame ==
  ASSUME TypeOK, Entries, UNCHANGED <<link, forwarded>>, pc # "scan", pc' # "scan",
         \A h \in Syms :
           /\ sym'[h].needs_plt = sym[h].needs_plt
           /\ sym'[h].func = sym[h].func
           /\ sym'[h].has_static_relocs = sym[h].has_static_relocs
           /\ sym'[h].no_fn_stub = sym[h].no_fn_stub
           /\ sym[h].dynindx # NoOffset => sym'[h].dynindx # NoOffset
  PROVE  Entries'
<1> SUFFICES ASSUME NEW h \in Syms
             PROVE  EntryOK(h)'
  BY DEF Entries
<1>1. EntryOK(h)
  BY DEF Entries
<1>2. link.weakdef[h] \in Syms
  BY DEF TypeOK, Link
<1>3. QED
  BY <1>1, <1>2 DEF EntryOK, Proper, DynamicFromStart, Hidden, DefRegular

\* Calls are to functions, and a called symbol enters the dynamic symbol table.
LEMMA CheckRelocEntries ==
  ASSUME TypeInv, Entries, NEW r \in DOMAIN refs, CheckReloc(r), pc' # "failed"
  PROVE  Entries'
<1> USE DEF TypeInv
<1>1. pc = "scan" /\ pc' = "scan" /\ UNCHANGED <<link, forwarded>>
  BY DEF CheckReloc
<1>2. CASE r.sym = Local
  <2>1. sym' = sym
    BY <1>2 DEF CheckReloc
  <2>2. QED
    BY <1>1, <2>1 DEF Entries, EntryOK, Proper, DynamicFromStart, Hidden, DefRegular
<1>3. CASE r.sym # Local
  <2> DEFINE t == Target(r.sym)
             s == Scanned(t, sym[t], r)
  <2>1. r \in Ref /\ r.sym \in Syms /\ t \in Syms /\ sym[t] \in SymEntry /\ r \in ScannableRefs(link)
    BY <1>3, RefType, ProperTarget DEF TypeOK
  <2>2. sym' = [sym EXCEPT ![t] = s]
    BY <1>3 DEF CheckReloc
  <2>3. sym[t].possibly_dynamic_relocs + 1 \in 0..MaxRelocs
    BY <1>3, ScannedRoom
  <2>4. /\ s.has_static_relocs = (sym[t].has_static_relocs \/ IsStatic(r))
        /\ s.no_fn_stub = (sym[t].no_fn_stub \/ r.type \notin {"call16", "jalr"})
        /\ s.needs_plt = (sym[t].needs_plt \/ r.type = "call16")
        /\ s.func = (sym[t].func \/ r.type = "call16")
        /\ s.dynindx = IF r.type \in {"call16", "got16"} THEN Recorded(t, sym[t]).dynindx
                       ELSE sym[t].dynindx
    BY <2>1, <2>3, ScannedEntry
  <2>5. Recorded(t, sym[t]).dynindx
          = IF sym[t].dynindx = NoOffset /\ ~Hidden(t) THEN 0 ELSE sym[t].dynindx
    BY <2>1, RecordedEntry
  <2> HIDE DEF s
  <2>6. sym'[t] = s /\ \A h \in Syms \ {t} : sym'[h] = sym[h]
    BY <2>1, <2>2 DEF TypeOK
  <2>7. r.type = "call16" => link.kind[t].func
    <3>1. r.type = "call16" => link.kind[r.sym].func
      BY <2>1 DEF ScannableRefs
    <3>2. link.kind[r.sym].func => link.kind[t].func
      BY <2>1, IndirectAssumption DEF Target, Names
    <3>3. QED
      BY <3>1, <3>2
  <2>8. EntryOK(t)
    BY <2>1 DEF Entries
  <2>9. sym'[t].needs_plt \/ sym'[t].func => link.kind[t].func
    BY <2>4, <2>6, <2>7, <2>8 DEF EntryOK
  <2>10. sym'[t].has_static_relocs => sym'[t].no_fn_stub
    BY <1>1, <2>4, <2>6, <2>8 DEF EntryOK, IsStatic, NeedsValue
  <2>11. t \in Proper /\ (DynamicFromStart(link, t) \/ (sym'[t].needs_plt /\ ~Hidden(t)))
           => sym'[t].dynindx # NoOffset
    <3>1. CASE r.type = "call16"
      BY <2>4, <2>5, <2>6, <2>8, <3>1 DEF EntryOK, NoOffset
    <3>2. CASE r.type # "call16"
      BY <2>4, <2>5, <2>6, <2>8, <3>2 DEF EntryOK, NoOffset
    <3>3. QED
      BY <3>1, <3>2
  <2> HIDE DEF t
  <2>12. ASSUME NEW h \in Syms \ {t}
         PROVE  EntryOK(h)'
    BY <1>1, <2>6 DEF Entries, EntryOK, Proper, DynamicFromStart, Hidden, DefRegular
  <2>13. \A h \in Syms : EntryOK(h)'
    <3> SUFFICES ASSUME NEW h \in Syms PROVE EntryOK(h)'
      OBVIOUS
    <3>1. CASE h # t
      BY <2>12, <3>1
    <3>2. CASE h = t
      BY <1>1, <2>9, <2>10, <2>11, <3>2 DEF EntryOK, Proper, DynamicFromStart, Hidden
    <3>3. QED
      BY <3>1, <3>2
  <2>14. QED
    BY <2>13 DEF Entries
<1>4. QED
  BY <1>2, <1>3

\* A second name is called, and is dynamic, if the first one was.
LEMMA BecomeIndirectEntries ==
  ASSUME TypeInv, Entries, NEW h \in Syms, BecomeIndirect(h)
  PROVE  Entries'
<1> USE DEF TypeInv
<1> DEFINE t == link.indirect[h]
<1>1. /\ link \in Links /\ t \in Syms /\ t # h /\ h \in Proper /\ pc = "scan"
      /\ forwarded' = forwarded \cup {h} /\ UNCHANGED <<pc, link>>
      /\ ~Hidden(h) /\ (link.kind[h].func => link.kind[t].func)
  BY IndirectAssumption DEF BecomeIndirect, TypeOK, Names, Link, Proper, Hidden
<1>2. /\ t \in Proper
      /\ \A k \in Syms \ {h, t} : sym'[k] = sym[k]
      /\ \A k \in Syms : sym'[k].func = sym[k].func
      /\ sym'[h].needs_plt = sym[h].needs_plt
      /\ sym'[h].has_static_relocs = sym[h].has_static_relocs
      /\ sym'[h].no_fn_stub = sym[h].no_fn_stub
      /\ sym'[t].needs_plt = (sym[t].needs_plt \/ sym[h].needs_plt)
      /\ sym'[t].has_static_relocs = (sym[t].has_static_relocs \/ sym[h].has_static_relocs)
      /\ sym'[t].no_fn_stub = (sym[t].no_fn_stub \/ sym[h].no_fn_stub)
      /\ sym'[t].dynindx = IF sym[h].dynindx # NoOffset THEN sym[h].dynindx
                           ELSE sym[t].dynindx
  BY BecomeIndirectEffect
<1>3. EntryOK(h) /\ EntryOK(t)
  BY <1>1 DEF Entries
<1>4. h \notin Proper'
  BY <1>1 DEF Proper
<1> HIDE DEF t
<1>5. ASSUME NEW k \in Syms
      PROVE  EntryOK(k)'
  <2>1. CASE k = h
    BY <1>1, <1>2, <1>3, <1>4, <2>1 DEF EntryOK
  <2>2. CASE k = t
    <3>1. sym'[t].needs_plt \/ sym'[t].func => link.kind[t].func
      BY <1>1, <1>2, <1>3 DEF EntryOK
    <3>2. sym'[t].has_static_relocs => sym'[t].no_fn_stub
      BY <1>1, <1>2, <1>3 DEF EntryOK
    <3>3. DynamicFromStart(link, t) \/ (sym'[t].needs_plt /\ ~Hidden(t))
            => sym'[t].dynindx # NoOffset
      BY <1>1, <1>2, <1>3 DEF EntryOK
    <3>4. QED
      BY <1>1, <2>2, <3>1, <3>2, <3>3 DEF EntryOK, DynamicFromStart, Hidden
  <2>3. CASE k # h /\ k # t
    BY <1>1, <1>2, <2>3 DEF Entries, EntryOK, Proper, DynamicFromStart, Hidden, DefRegular
  <2>4. QED
    BY <2>1, <2>2, <2>3
<1>6. QED
  BY <1>5 DEF Entries

\* Aliases name data; a definition needs its address if an alias does.
LEMMA EndScanEntries ==
  ASSUME TypeInv, Entries, EndScan
  PROVE  Entries'
<1> USE DEF TypeInv
<1>1. /\ pc = "scan" /\ pc' = "adjust" /\ UNCHANGED <<link, forwarded>>
      /\ link \in Links /\ sym' = [h \in Syms |-> AtEnd(h)]
  BY DEF EndScan, AtEnd, Names
<1>2. ASSUME NEW h \in Syms
      PROVE  EntryOK(h)'
  <2>1. /\ sym'[h].no_fn_stub = sym[h].no_fn_stub
        /\ sym'[h].func = sym[h].func
        /\ sym'[h].dynindx = sym[h].dynindx
        /\ sym'[h].has_static_relocs <=>
             sym[h].has_static_relocs
               \/ \E a \in Syms \ {h} : link.weakdef[a] = h /\ sym[a].has_static_relocs
        /\ sym'[h].needs_plt <=>
             /\ \/ sym[h].needs_plt
                \/ \E a \in Syms \ {h} : link.weakdef[a] = h /\ sym[a].needs_plt
             /\ Hidden(h) => DefRegular(h)
    BY <1>1, AtEndEntry
  <2>2. EntryOK(h)
    BY DEF Entries
  <2>3. \A a \in Syms \ {h} : link.weakdef[a] = h =>
          /\ ~link.kind[h].func /\ ~link.kind[a].func /\ link.weakdef[h] = h
    BY <1>1, AliasAssumption
  <2>4. sym'[h].needs_plt => sym[h].needs_plt
    BY <2>1, <2>3 DEF Entries, EntryOK
  <2>5. sym'[h].has_static_relocs /\ (link.kind[h].func \/ link.weakdef[h] # h)
          => sym[h].has_static_relocs
    BY <2>1, <2>3
  <2>6. sym'[h].needs_plt \/ sym'[h].func => link.kind[h].func
    BY <2>1, <2>2, <2>4 DEF EntryOK
  <2>7. sym'[h].has_static_relocs /\ link.kind[h].func => sym'[h].no_fn_stub
    BY <1>1, <2>1, <2>2, <2>5 DEF EntryOK
  <2>8. h \in Proper /\ (DynamicFromStart(link, h) \/ (sym'[h].needs_plt /\ ~Hidden(h)))
          => sym'[h].dynindx # NoOffset
    BY <2>1, <2>2, <2>4 DEF EntryOK
  <2>9. sym'[h].needs_plt /\ Hidden(h) => DefRegular(h)
    BY <2>1
  <2>10. link.weakdef[h] # h /\ sym'[h].has_static_relocs
           => sym'[link.weakdef[h]].has_static_relocs
    <3> SUFFICES ASSUME link.weakdef[h] # h, sym[h].has_static_relocs
                 PROVE  AtEnd(link.weakdef[h]).has_static_relocs
      BY <1>1, <2>5 DEF TypeOK, Link
    <3>1. link.weakdef[h] \in Syms /\ h \in Syms \ {link.weakdef[h]}
      BY DEF TypeOK, Link
    <3>2. QED
      BY <3>1, AtEndEntry
  <2>11. QED
    BY <1>1, <2>6, <2>7, <2>8, <2>9, <2>10
       DEF EntryOK, Proper, DynamicFromStart, Hidden, DefRegular
<1>3. QED
  BY <1>2 DEF Entries

-----------------------------------------------------------------------------
(***************************************************************************)
(* What became of each symbol.                                             *)
(***************************************************************************)
\* Stubs have been laid out.
Late == pc \in {"sort", "relocate", "finish", "finished"}

\* A symbol that nothing was decided for.
LEMMA UntouchedDisposed ==
  ASSUME NEW h \in Syms, Untouched(h)', (Pending(h) \/ h \in forwarded)'
  PROVE  Disposed(h)'
BY DEF Untouched, Disposed, OwnSection, DefDynamic, DefRegular, Proper

\* A symbol that a step leaves alone.
LEMMA DisposedFrame ==
  ASSUME NEW h \in Syms, Disposed(h), UNCHANGED <<link, forwarded>>,
         Pending(h)' <=> Pending(h),
         Late <=> Late',
         sym'[h].needs_lazy_stub = sym[h].needs_lazy_stub,
         sym'[h].no_fn_stub = sym[h].no_fn_stub,
         sym'[h].has_static_relocs = sym[h].has_static_relocs,
         sym'[h].needs_plt = sym[h].needs_plt,
         sym'[h].needs_copy = sym[h].needs_copy,
         sym'[h].plt = sym[h].plt,
         sym'[h].section = sym[h].section,
         sym[h].dynindx # NoOffset => sym'[h].dynindx # NoOffset,
         pc # "failed", pc # "scan", pc' # "failed", pc' # "scan", TypeOK, TypeOK'
  PROVE  Disposed(h)'
<1>1. DefRegular(h)' = DefRegular(h) /\ DefDynamic(h)' = DefDynamic(h)
      /\ OwnSection(link.kind[h])' = OwnSection(link.kind[h])
      /\ (h \in Proper)' = (h \in Proper) /\ (h \in forwarded)' = (h \in forwarded)
  BY DEF DefRegular, DefDynamic, Proper, OwnSection
<1>2. Untouched(h)' = Untouched(h)
  BY <1>1 DEF Untouched
<1>3. /\ pc \in {"adjust", "estimate", "lay_out", "stubs"} <=> ~Late
      /\ pc' \in {"adjust", "estimate", "lay_out", "stubs"} <=> ~Late'
  BY DEF Late, TypeOK
<1>4. Late' <=> pc' \in {"sort", "relocate", "finish", "finished"}
  BY DEF Late
<1>5. QED
  BY <1>1, <1>2, <1>3, <1>4 DEF Disposed, Late

\* The offsets of PLT entries when no entry is made or moved.
LEMMA OffsetsFrame ==
  ASSUME Offsets(PltSyms) = 0..(plts - 1), plts' = plts,
         \A h \in Syms :
           /\ h \in PltSyms' <=> h \in PltSyms
           /\ h \in PltSyms => sym'[h].plt = sym[h].plt
  PROVE  Offsets(PltSyms)' = 0..(plts' - 1)
<1>1. PltSyms' = PltSyms
  BY DEF PltSyms
<1>2. Offsets(PltSyms)' = Offsets(PltSyms)
  <2>1. Offsets(PltSyms)' = {sym'[h].plt : h \in PltSyms'}
    BY DEF Offsets
  <2>2. Offsets(PltSyms) = {sym[h].plt : h \in PltSyms}
    BY DEF Offsets
  <2>3. \A h \in PltSyms : sym'[h].plt = sym[h].plt
    BY DEF PltSyms
  <2>4. QED
    BY <1>1, <2>1, <2>2, <2>3
<1>3. QED
  BY <1>2

\* The steps of the scan.
LEMMA ScanDisposition ==
  ASSUME TypeInv, Disposition, pc = "scan", pc' \in {"scan", "adjust"},
         UNCHANGED <<link, plts>>, pc' = "adjust" => todo' = Proper',
         \A h \in Syms :
           /\ sym'[h].needs_lazy_stub = sym[h].needs_lazy_stub
           /\ sym'[h].needs_copy = sym[h].needs_copy
           /\ sym'[h].plt = sym[h].plt
           /\ sym'[h].section = sym[h].section
  PROVE  Disposition'
<1>1. ASSUME NEW h \in Syms
      PROVE  /\ Untouched(h) /\ Untouched(h)'
             /\ Disposed(h)'
  <2>1. Untouched(h)
    BY DEF Disposition, Disposed, Pending
  <2>2. Untouched(h)'
    BY <2>1 DEF Untouched, OwnSection
  <2>3. (Pending(h) \/ h \in forwarded)'
    BY DEF Pending, Proper
  <2>4. QED
    BY <2>1, <2>2, <2>3, UntouchedDisposed
<1>2. Offsets(PltSyms)' = 0..(plts' - 1)
  <2>1. Offsets(PltSyms) = 0..(plts - 1)
    BY DEF Disposition
  <2>2. QED
    BY <1>1, <2>1, OffsetsFrame DEF PltSyms, Untouched
<1>3. QED
  BY <1>1, <1>2 DEF Disposition

\* The symbols that adjust_dynamic_symbol is not called for now.
LEMMA AdjustDisposition ==
  ASSUME TypeInv, TypeInv', Disposition, NEW h \in Syms, Adjusting(h), pc' = pc,
         \A k \in Syms \ {h} : sym'[k] = sym[k],
         Disposed(h)',
         Offsets(PltSyms)' = 0..(plts' - 1)
  PROVE  Disposition'
<1>1. /\ pc = "adjust" /\ todo' = todo \ {h} /\ UNCHANGED <<link, forwarded>>
      /\ todo \subseteq Proper /\ Proper' = Proper
  BY DEF Adjusting, Disposition, Proper
<1>2. ASSUME NEW k \in Syms \ {h}
      PROVE  Disposed(k)'
  <2>1. Disposed(k) /\ (Pending(k)' <=> Pending(k))
    BY <1>1 DEF Disposition, Pending
  <2>2. QED
    BY <1>1, <2>1, DisposedFrame DEF TypeInv, Late
<1>3. \A k \in Syms : Disposed(k)'
  <2> SUFFICES ASSUME NEW k \in Syms PROVE Disposed(k)'
    OBVIOUS
  <2>1. CASE k = h
    BY <2>1
  <2>2. CASE k # h
    BY <1>2, <2>2
  <2>3. QED
    BY <2>1, <2>2
<1>4. QED
  BY <1>1, <1>3 DEF Disposition

\* Only a symbol that is called and never addressed gets a stub.
LEMMA LazyStubDisposition ==
  ASSUME TypeInv, TypeInv', Entries, Disposition, NEW h \in Syms, LazyStub(h)
  PROVE  Disposition'
<1>1. /\ \A k \in Syms \ {h} : sym'[k] = sym[k]
      /\ sym'[h].has_static_relocs = sym[h].has_static_relocs
      /\ sym'[h].no_fn_stub = sym[h].no_fn_stub
      /\ sym'[h].needs_plt = sym[h].needs_plt
      /\ sym'[h].needs_copy = sym[h].needs_copy
      /\ sym'[h].plt = sym[h].plt
      /\ sym'[h].section = sym[h].section
      /\ sym'[h].needs_lazy_stub = TRUE
  BY LazyStubEffect
<1>2. /\ Adjusting(h) /\ pc' = pc /\ plts' = plts /\ pc = "adjust" /\ h \in todo
      /\ todo' = todo \ {h} /\ UNCHANGED <<link, forwarded>>
      /\ sym[h].needs_plt /\ ~sym[h].no_fn_stub /\ ~DefRegular(h)
  BY DEF LazyStub, Adjusting, WantsStub, OnlyCalled
<1>3. h \in Proper /\ h \notin forwarded /\ Untouched(h)
  BY <1>2 DEF Disposition, Disposed, Pending, Proper
<1>4. ~sym[h].has_static_relocs
  BY <1>2 DEF Entries, EntryOK
<1>5. Disposed(h)'
  BY <1>1, <1>2, <1>3, <1>4
     DEF Disposed, Untouched, Pending, DefRegular, DefDynamic, OwnSection
<1>6. Offsets(PltSyms)' = 0..(plts' - 1)
  <2>1. \A k \in Syms : /\ k \in PltSyms' <=> k \in PltSyms
                        /\ k \in PltSyms => sym'[k].plt = sym[k].plt
    BY <1>1, <1>3 DEF PltSyms, Untouched
  <2>2. QED
    BY <1>2, <2>1, OffsetsFrame DEF Disposition
<1>7. QED
  BY <1>1, <1>2, <1>5, <1>6, AdjustDisposition

\* PLT entries are numbered without gaps.
LEMMA PltEntryDisposition ==
  ASSUME TypeInv, TypeInv', Entries, Disposition, NEW h \in Syms, PltEntry(h)
  PROVE  Disposition'
<1>1. /\ \A k \in Syms \ {h} : sym'[k] = sym[k]
      /\ sym'[h].has_static_relocs = sym[h].has_static_relocs
      /\ sym'[h].no_fn_stub = sym[h].no_fn_stub
      /\ sym'[h].needs_lazy_stub = sym[h].needs_lazy_stub
      /\ sym'[h].needs_copy = sym[h].needs_copy
      /\ sym'[h].dynindx = sym[h].dynindx
      /\ sym'[h].plt = plts
      /\ sym'[h].section = IF DefRegular(h) THEN sym[h].section ELSE "plt"
  BY PltEntryEffect
<1>2. /\ Adjusting(h) /\ pc' = pc /\ plts' = plts + 1 /\ pc = "adjust" /\ h \in todo
      /\ todo' = todo \ {h} /\ UNCHANGED <<link, forwarded>>
      /\ sym[h].func /\ sym[h].has_static_relocs /\ link.use_plts
      /\ ~BindsLocally(h, sym[h], TRUE) /\ IsAdjusted(h)
  BY DEF PltEntry, Adjusting, WantsPlt
<1>3. h \in Proper /\ h \notin forwarded /\ Untouched(h)
  BY <1>2 DEF Disposition, Disposed, Pending, Proper
<1>4. ~Hidden(h) /\ ~DefRegular(h)
  <2>1. link.executable
    BY <1>2, LinkAssumption, PltAssumption DEF TypeInv, Names
  <2>2. QED
    BY <1>2, <2>1 DEF BindsLocally
<1>5. sym[h].no_fn_stub /\ sym[h].dynindx # NoOffset
  BY <1>2, <1>3, <1>4
     DEF Entries, EntryOK, IsAdjusted, DynamicFromStart, Hidden, DefDynamic
<1>6. Disposed(h)'
  BY <1>1, <1>2, <1>3, <1>4, <1>5
     DEF Disposed, Untouched, Pending, DefRegular, DefDynamic, OwnSection
<1>7. Offsets(PltSyms)' = 0..(plts' - 1)
  <2>1. plts \in Nat /\ plts # NoOffset
    BY DEF TypeInv, TypeOK, NoOffset
  <2>2. PltSyms' = PltSyms \cup {h} /\ h \notin PltSyms
    BY <1>1, <1>3, <2>1 DEF PltSyms, Untouched
  <2>3. Offsets(PltSyms)' = {sym'[k].plt : k \in PltSyms'}
    BY DEF Offsets
  <2>4. Offsets(PltSyms) = {sym[k].plt : k \in PltSyms} /\ Offsets(PltSyms) = 0..(plts - 1)
    BY DEF Offsets, Disposition
  <2>5. \A k \in PltSyms : sym'[k].plt = sym[k].plt
    BY <1>1, <2>2 DEF PltSyms
  <2> DEFINE new == Offsets(PltSyms)'
             before == PltSyms
  <2>6. new = {sym'[k].plt : k \in before \cup {h}}
    BY <2>2, <2>3
  <2>7. {sym[k].plt : k \in before} = 0..(plts - 1)
    BY <2>4
  <2>8. \A k \in before : sym'[k].plt = sym[k].plt
    BY <2>5
  <2>9. 0..(plts - 1) \cup {plts} = 0..(plts + 1 - 1)
    BY <2>1
  <2> HIDE DEF new, before
  <2>10. new = {sym[k].plt : k \in before} \cup {plts}
    BY <1>1, <2>6, <2>8
  <2>11. new = 0..(plts' - 1)
    BY <1>2, <2>7, <2>9, <2>10
  <2>12. QED
    BY <2>11 DEF new
<1>8. QED
  BY <1>1, <1>2, <1>6, <1>7, AdjustDisposition

\* An alias is visited after its definition: it does not end up in the library
\* when its address is needed.
LEMMA WeakAliasDisposition ==
  ASSUME TypeInv, TypeInv', Entries, Disposition, NEW h \in Syms, WeakAlias(h)
  PROVE  Disposition'
<1> DEFINE w == link.weakdef[h]
<1>1. /\ \A k \in Syms \ {h} : sym'[k] = sym[k]
      /\ sym'[h].has_static_relocs = sym[h].has_static_relocs
      /\ sym'[h].no_fn_stub = sym[h].no_fn_stub
      /\ sym'[h].needs_lazy_stub = sym[h].needs_lazy_stub
      /\ sym'[h].needs_copy = sym[h].needs_copy
      /\ sym'[h].plt = sym[h].plt
      /\ sym'[h].section = sym[w].section
  BY WeakAliasEffect
<1>2. /\ Adjusting(h) /\ pc' = pc /\ plts' = plts /\ pc = "adjust" /\ h \in todo
      /\ todo' = todo \ {h} /\ UNCHANGED <<link, forwarded>>
      /\ w # h /\ w \notin todo /\ link \in Links /\ w \in Syms
  BY DEF WeakAlias, Adjusting, TypeInv, Names, TypeOK, Link
<1>3. h \in Proper /\ h \notin forwarded /\ Untouched(h)
  BY <1>2 DEF Disposition, Disposed, Pending, Proper
<1>4. DefDynamic(h) /\ w \in Proper
  BY <1>2, AliasAssumption DEF TypeInv, Names, Proper, DefDynamic
<1>5. /\ sym[w].section # "stubs"
      /\ sym[h].has_static_relocs => sym[w].section # "library"
  <2>1. Disposed(w) /\ ~Pending(w)
    BY <1>2 DEF Disposition, Pending
  <2>2. sym[h].has_static_relocs => sym[w].has_static_relocs
    BY <1>2 DEF Entries, EntryOK
  <2>3. QED
    BY <1>2, <1>4, <2>1, <2>2 DEF Disposed
<1> HIDE DEF w
<1>6. Disposed(h)'
  BY <1>1, <1>2, <1>3, <1>4, <1>5 DEF Disposed, Untouched, Pending, DefDynamic
<1>7. Offsets(PltSyms)' = 0..(plts' - 1)
  <2>1. \A k \in Syms : /\ k \in PltSyms' <=> k \in PltSyms
                        /\ k \in PltSyms => sym'[k].plt = sym[k].plt
    BY <1>1, <1>3 DEF PltSyms, Untouched
  <2>2. QED
    BY <1>2, <2>1, OffsetsFrame DEF Disposition
<1>8. QED
  BY <1>1, <1>2, <1>6, <1>7, AdjustDisposition

\* A symbol that is left alone has no static relocation if a library defines it.
LEMMA NothingToAdjustDisposition ==
  ASSUME TypeInv, TypeInv', Disposition, NEW h \in Syms, NothingToAdjust(h)
  PROVE  Disposition'
<1>1. /\ Adjusting(h) /\ pc' = pc /\ plts' = plts /\ pc = "adjust" /\ h \in todo
      /\ todo' = todo \ {h} /\ UNCHANGED <<link, forwarded, sym>>
      /\ IsAdjusted(h) => ~WantsCopy(h)
  BY DEF NothingToAdjust, Adjusting
<1>2. h \in Proper /\ h \notin forwarded /\ Untouched(h) /\ Disposed(h)
  BY <1>1 DEF Disposition, Disposed, Pending, Proper
<1>3. sym[h].has_static_relocs => sym[h].section # "library"
  <2>1. DefDynamic(h) => ~sym[h].has_static_relocs
    BY <1>1 DEF IsAdjusted, WantsCopy, DefRegular, DefDynamic
  <2>2. QED
    BY <1>2, <2>1 DEF Disposed
<1>4. Disposed(h)'
  BY <1>1, <1>2, <1>3 DEF Disposed, Untouched, Pending, DefDynamic
<1>5. Offsets(PltSyms)' = 0..(plts' - 1)
  BY <1>1, OffsetsFrame DEF Disposition, PltSyms
<1>6. QED
  BY <1>1, <1>4, <1>5, AdjustDisposition

\* Data of a library whose address is needed moves to .dynbss.
LEMMA CopyRelocDisposition ==
  ASSUME TypeInv, TypeInv', Entries, Disposition, NEW h \in Syms, CopyReloc(h)
  PROVE  Disposition'
<1>1. /\ \A k \in Syms \ {h} : sym'[k] = sym[k]
      /\ sym'[h].no_fn_stub = sym[h].no_fn_stub
      /\ sym'[h].needs_lazy_stub = sym[h].needs_lazy_stub
      /\ sym'[h].plt = sym[h].plt
      /\ sym'[h].dynindx = sym[h].dynindx
      /\ sym'[h].section = "dynbss"
  BY CopyRelocEffect
<1>2. /\ Adjusting(h) /\ pc' = pc /\ plts' = plts /\ pc = "adjust" /\ h \in todo
      /\ todo' = todo \ {h} /\ UNCHANGED <<link, forwarded>>
      /\ IsAdjusted(h) /\ ~DefRegular(h) /\ ~link.shared /\ link \in Links
  BY DEF CopyReloc, Adjusting, IsPlain, WantsCopy, TypeInv, Names
<1>3. h \in Proper /\ h \notin forwarded /\ Untouched(h)
  BY <1>2 DEF Disposition, Disposed, Pending, Proper
<1>4. sym[h].dynindx # NoOffset
  <2>1. CASE DefDynamic(h)
    <3>1. link.kind[h].vis # "hidden"
      BY <1>2, <2>1, LibraryAssumption DEF DefDynamic
    <3>2. QED
      BY <1>3, <2>1, <3>1 DEF Entries, EntryOK, DynamicFromStart, DefDynamic
  <2>2. CASE ~DefDynamic(h)
    BY <1>2, <1>3, <2>2 DEF Entries, EntryOK, IsAdjusted
  <2>3. QED
    BY <2>1, <2>2
<1>5. Disposed(h)'
  BY <1>1, <1>2, <1>3, <1>4 DEF Disposed, Untouched, Pending
<1>6. Offsets(PltSyms)' = 0..(plts' - 1)
  <2>1. \A k \in Syms : /\ k \in PltSyms' <=> k \in PltSyms
                        /\ k \in PltSyms => sym'[k].plt = sym[k].plt
    BY <1>1, <1>3 DEF PltSyms, Untouched
  <2>2. QED
    BY <1>2, <2>1, OffsetsFrame DEF Disposition
<1>7. QED
  BY <1>1, <1>2, <1>5, <1>6, AdjustDisposition

\* After adjust_dynamic_symbol: a step that leaves the decisions alone.
LEMMA DecidedDisposition ==
  ASSUME TypeInv, TypeInv', Disposition, UNCHANGED <<link, forwarded, plts>>,
         pc \notin {"scan", "failed"}, pc' \notin {"scan", "adjust", "failed"},
         pc = "adjust" => todo = {}, Late <=> Late',
         \A h \in Syms :
           /\ sym'[h].needs_lazy_stub = sym[h].needs_lazy_stub
           /\ sym'[h].no_fn_stub = sym[h].no_fn_stub
           /\ sym'[h].has_static_relocs = sym[h].has_static_relocs
           /\ sym'[h].needs_plt = sym[h].needs_plt
           /\ sym'[h].needs_copy = sym[h].needs_copy
           /\ sym'[h].plt = sym[h].plt
           /\ sym'[h].section = sym[h].section
           /\ sym[h].dynindx # NoOffset => sym'[h].dynindx # NoOffset
  PROVE  Disposition'
<1>1. ASSUME NEW h \in Syms
      PROVE  Disposed(h)'
  <2>1. Disposed(h) /\ ~Pending(h) /\ ~Pending(h)'
    BY DEF Disposition, Pending
  <2>2. QED
    BY <2>1, DisposedFrame DEF TypeInv
<1>2. Offsets(PltSyms)' = 0..(plts' - 1)
  BY OffsetsFrame DEF Disposition, PltSyms
<1>3. Late' => Offsets(Stubs)' = 0..(Cardinality(Stubs') - 1)
  <2>1. Stubs' = Stubs
    BY DEF Stubs
  <2>2. Offsets(Stubs)' = Offsets(Stubs)
    <3>1. Offsets(Stubs)' = {sym'[h].plt : h \in Stubs'}
      BY DEF Offsets
    <3>2. Offsets(Stubs) = {sym[h].plt : h \in Stubs}
      BY DEF Offsets
    <3>3. \A h \in Stubs : sym'[h].plt = sym[h].plt
      BY DEF Stubs
    <3>4. QED
      BY <2>1, <3>1, <3>2, <3>3
  <2>3. Late => Offsets(Stubs) = 0..(Cardinality(Stubs) - 1)
    BY DEF Disposition, Late
  <2>4. QED
    BY <2>1, <2>2, <2>3
<1>4. QED
  BY <1>1, <1>2, <1>3 DEF Disposition, Late

\* What allocate_dynrelocs does to an entry.
LEMMA AllocateEffect ==
  ASSUME TypeOK, AllocateDynrelocs, NEW h \in Syms
  PROVE  /\ sym'[h].possibly_dynamic_relocs = sym[h].possibly_dynamic_relocs
         /\ sym'[h].readonly_reloc = sym[h].readonly_reloc
         /\ sym'[h].has_static_relocs = sym[h].has_static_relocs
         /\ sym'[h].pointer_equality_needed = sym[h].pointer_equality_needed
         /\ sym'[h].no_fn_stub = sym[h].no_fn_stub
         /\ sym'[h].needs_plt = sym[h].needs_plt
         /\ sym'[h].func = sym[h].func
         /\ sym'[h].needs_lazy_stub = sym[h].needs_lazy_stub
         /\ sym'[h].needs_copy = sym[h].needs_copy
         /\ sym'[h].plt = sym[h].plt
         /\ sym'[h].section = sym[h].section
         /\ sym[h].dynindx # NoOffset => sym'[h].dynindx # NoOffset
         /\ h \in CopiedSyms =>
              /\ sym'[h].got_only_for_calls = FALSE
              /\ sym'[h].global_got_area # "NONE"
              /\ link.kind[h].def = "undefweak" /\ ~Hidden(h) => sym'[h].dynindx # NoOffset
<1>1. sym' = [k \in Syms |-> IF k \in CopiedSyms THEN Copied(k, sym[k]) ELSE sym[k]]
  BY DEF AllocateDynrelocs, CopiedSyms
<1>2. sym[h] \in SymEntry
  BY DEF TypeOK
<1>3. Recorded(h, sym[h]).dynindx
        = IF sym[h].dynindx = NoOffset /\ ~Hidden(h) THEN 0 ELSE sym[h].dynindx
  BY <1>2, RecordedEntry
<1>4. CASE h \in CopiedSyms
  <2> DEFINE s == Copied(h, sym[h])
  <2>1. sym'[h] = s
    BY <1>1, <1>4
  <2>2. /\ s.possibly_dynamic_relocs = sym[h].possibly_dynamic_relocs
        /\ s.readonly_reloc = sym[h].readonly_reloc
        /\ s.has_static_relocs = sym[h].has_static_relocs
        /\ s.pointer_equality_needed = sym[h].pointer_equality_needed
        /\ s.no_fn_stub = sym[h].no_fn_stub
        /\ s.needs_plt = sym[h].needs_plt
        /\ s.func = sym[h].func
        /\ s.needs_lazy_stub = sym[h].needs_lazy_stub
        /\ s.needs_copy = sym[h].needs_copy
        /\ s.plt = sym[h].plt
        /\ s.section = sym[h].section
        /\ s.got_only_for_calls = FALSE
        /\ s.global_got_area # "NONE"
        /\ s.dynindx = IF link.kind[h].def = "undefweak" THEN Recorded(h, sym[h]).dynindx
                       ELSE sym[h].dynindx
    BY <1>2, CopiedEntry
  <2> HIDE DEF s
  <2>3. /\ sym[h].dynindx # NoOffset => s.dynindx # NoOffset
        /\ link.kind[h].def = "undefweak" /\ ~Hidden(h) => s.dynindx # NoOffset
    BY <1>3, <2>2 DEF NoOffset
  <2>4. QED
    BY <2>1, <2>2, <2>3
<1>5. CASE h \notin CopiedSyms
  BY <1>1, <1>5
<1>6. QED
  BY <1>4, <1>5

\* A symbol that loses its stub had no offset yet.
LEMMA LayOutGotDisposition ==
  ASSUME TypeInv, TypeInv', Disposition, LayOutGot
  PROVE  Disposition'
<1>1. /\ pc = "lay_out" /\ pc' = "stubs" /\ UNCHANGED <<link, forwarded, plts>>
  BY DEF LayOutGot
<1>2. \A h \in Syms :
        /\ sym'[h].has_static_relocs = sym[h].has_static_relocs
        /\ sym'[h].no_fn_stub = sym[h].no_fn_stub
        /\ sym'[h].needs_plt = sym[h].needs_plt
        /\ sym'[h].needs_copy = sym[h].needs_copy
        /\ sym'[h].plt = sym[h].plt
        /\ sym'[h].section = sym[h].section
        /\ sym'[h].dynindx = sym[h].dynindx
        /\ sym'[h].needs_lazy_stub => sym[h].needs_lazy_stub
  BY LayOutGotEffect DEF TypeInv
<1>3. ASSUME NEW h \in Syms
      PROVE  Disposed(h)' /\ (h \in PltSyms' <=> h \in PltSyms)
  <2>1. Disposed(h)
    BY DEF Disposition
  <2>2. sym[h].needs_lazy_stub => sym[h].plt = NoOffset
    BY <1>1, <2>1 DEF Disposed
  <2>3. h \in PltSyms' <=> h \in PltSyms
    BY <1>2, <2>2 DEF PltSyms
  <2>4. Untouched(h) => Untouched(h)'
    BY <1>1, <1>2 DEF Untouched, OwnSection, TypeInv, TypeOK, SymEntry
  <2>5. Disposed(h)'
    BY <1>1, <1>2, <2>1, <2>2, <2>4
       DEF Disposed, Pending, DefRegular, DefDynamic, Proper
  <2>6. QED
    BY <2>3, <2>5
<1>4. Offsets(PltSyms)' = 0..(plts' - 1)
  BY <1>1, <1>2, <1>3, OffsetsFrame DEF Disposition
<1>5. QED
  BY <1>1, <1>3, <1>4 DEF Disposition

\* An order of a finite set uses every number.
LEMMA OrderOnto ==
  ASSUME NEW S, IsFiniteSet(S), NEW pos \in Orders(S)
  PROVE  {pos[x] : x \in S} = 1..Cardinality(S)
<1> DEFINE n == Cardinality(S)
<1>1. n \in Nat
  BY FS_CardinalityType
<1>2. pos \in [S -> 1..n] /\ \A a, b \in S : pos[a] = pos[b] => a = b
  BY DEF Orders
<1>3. IsFiniteSet(1..n) /\ Cardinality(1..n) = n
  <2>1. 1 \in Int /\ n \in Int
    BY <1>1
  <2>2. IsFiniteSet(1..n) /\ Cardinality(1..n) = IF 1 > n THEN 0 ELSE n - 1 + 1
    BY <2>1, FS_Interval
  <2>3. QED
    BY <1>1, <2>2
<1>4. pos \in Injection(S, 1..n)
  BY <1>2 DEF Injection, IsInjective
<1>5. pos \in Surjection(S, 1..n)
  BY <1>3, <1>4, FS_Injection
<1>6. QED
  BY <1>5 DEF Surjection

\* Stubs are numbered without gaps, in any order.
LEMMA LayOutStubsDisposition ==
  ASSUME TypeInv, TypeInv', Disposition, LayOutStubs
  PROVE  Disposition'
<1>1. /\ pc = "stubs" /\ pc' = "sort" /\ UNCHANGED <<link, forwarded, plts>>
  BY DEF LayOutStubs
<1>2. PICK pos \in Orders(LazyStubs) :
        \A h \in Syms :
          /\ sym'[h].has_static_relocs = sym[h].has_static_relocs
          /\ sym'[h].no_fn_stub = sym[h].no_fn_stub
          /\ sym'[h].needs_plt = sym[h].needs_plt
          /\ sym'[h].needs_copy = sym[h].needs_copy
          /\ sym'[h].needs_lazy_stub = sym[h].needs_lazy_stub
          /\ sym'[h].dynindx = sym[h].dynindx
          /\ sym'[h].plt = IF h \in LazyStubs THEN pos[h] - 1 ELSE sym[h].plt
          /\ sym'[h].section = IF h \in LazyStubs THEN "stubs" ELSE sym[h].section
  BY LayOutStubsEffect DEF TypeInv
<1>3. LazyStubs = Stubs /\ Stubs' = Stubs /\ IsFiniteSet(Stubs)
  BY <1>2, SymsFinite DEF LazyStubs, Stubs, TypeInv, StubCount, Proper
<1>4. ASSUME NEW h \in Syms
      PROVE  Disposed(h)' /\ (h \in PltSyms' <=> h \in PltSyms)
                          /\ (h \in PltSyms => sym'[h].plt = sym[h].plt)
  <2>1. Disposed(h)
    BY DEF Disposition
  <2>2. CASE h \in Stubs
    <3>1. sym[h].needs_lazy_stub
      BY <2>2 DEF Stubs
    <3>2. Disposed(h)'
      BY <1>1, <1>2, <1>3, <2>1, <2>2, <3>1
         DEF Disposed, Pending, DefRegular, DefDynamic, Proper, Untouched
    <3>3. QED
      BY <1>2, <3>1, <3>2 DEF PltSyms
  <2>3. CASE h \notin Stubs
    <3>1. ~sym[h].needs_lazy_stub /\ sym'[h].plt = sym[h].plt
          /\ sym'[h].section = sym[h].section
      BY <1>2, <1>3, <2>3 DEF Stubs
    <3>2. Untouched(h) => Untouched(h)'
      BY <1>1, <1>2, <3>1 DEF Untouched, OwnSection
    <3>3. Disposed(h)'
      BY <1>1, <1>2, <2>1, <3>1, <3>2
         DEF Disposed, Pending, DefRegular, DefDynamic, Proper
    <3>4. QED
      BY <1>2, <3>1, <3>3 DEF PltSyms
  <2>4. QED
    BY <2>2, <2>3
<1>5. Offsets(PltSyms)' = 0..(plts' - 1)
  BY <1>1, <1>4, OffsetsFrame DEF Disposition
<1>6. Offsets(Stubs)' = 0..(Cardinality(Stubs') - 1)
  <2> DEFINE S == LazyStubs
             new == Offsets(Stubs)'
             n == Cardinality(S)
  <2>1. new = {sym'[h].plt : h \in Stubs'}
    BY DEF Offsets
  <2>2. \A h \in S : sym'[h].plt = pos[h] - 1
    BY <1>2 DEF LazyStubs, Proper
  <2>3. {pos[h] : h \in S} = 1..n
    BY <1>3, OrderOnto
  <2>4. n \in Nat /\ n = Cardinality(Stubs')
    BY <1>3, FS_CardinalityType
  <2>5. Stubs' = S
    BY <1>3
  <2> HIDE DEF S, new, n
  <2>6. new = {pos[h] - 1 : h \in S}
    BY <2>1, <2>2, <2>5
  <2>7. \A x \in 0..(n - 1) : x \in new
    <3> SUFFICES ASSUME NEW x \in 0..(n - 1) PROVE x \in new
      OBVIOUS
    <3>1. x + 1 \in 1..n
      BY <2>4
    <3>2. PICK h \in S : pos[h] = x + 1
      BY <2>3, <3>1
    <3>3. pos[h] - 1 = x
      BY <3>2
    <3>4. QED
      BY <2>6, <3>3
  <2>8. \A x \in new : x \in 0..(n - 1)
    <3> SUFFICES ASSUME NEW h \in S PROVE pos[h] - 1 \in 0..(n - 1)
      BY <2>6
    <3>1. pos[h] \in 1..n
      BY <2>3
    <3>2. QED
      BY <2>4, <3>1
  <2>9. new = 0..(Cardinality(Stubs') - 1)
    BY <2>4, <2>7, <2>8
  <2>10. QED
    BY <2>9 DEF new
<1>7. QED
  BY <1>1, <1>4, <1>5, <1>6 DEF Disposition

\* The indices that mips_elf_sort_hash_table gives.
LEMMA SortedIndices ==
  ASSUME TypeOK, SortDynsyms, NEW h \in Syms
  PROVE  /\ sym'[h].dynindx # NoOffset <=> sym[h].dynindx # NoOffset
         /\ h \in ProperDynamic => sym'[h].dynindx \in 0..(dynsymcount' - 1)
<1>1. PICK sections \in 0..(IF link.shared THEN SectionDynsyms ELSE 0),
           pos \in Orders(ProperDynamic) :
        /\ dynsymcount' = 1 + sections + Cardinality(ProperDynamic)
        /\ \A k \in Syms :
             sym'[k].dynindx = IF k \in ProperDynamic THEN sections + pos[k]
                               ELSE sym[k].dynindx
  BY SortEffect
<1>2. sections \in Nat /\ Cardinality(ProperDynamic) \in Nat
  BY SymsFinite, BoundsAssumption DEF ProperDynamic, Proper
<1>3. CASE h \in ProperDynamic
  <2>1. pos[h] \in 1..Cardinality(ProperDynamic)
    BY <1>3, OrderedIn
  <2>2. sym'[h].dynindx = sections + pos[h] /\ sym[h].dynindx # NoOffset
    BY <1>1, <1>3 DEF ProperDynamic
  <2>3. QED
    BY <1>1, <1>2, <2>1, <2>2 DEF NoOffset
<1>4. CASE h \notin ProperDynamic
  BY <1>1, <1>4
<1>5. QED
  BY <1>3, <1>4

\* Nothing has been scanned and nothing decided.
LEMMA SymInit == Init => SymInv
<1> SUFFICES ASSUME Init PROVE SymInv
  OBVIOUS
<1>1. /\ pc = "scan" /\ forwarded = {} /\ plts = 0 /\ link \in Links
      /\ refs = [r \in ScannableRefs(link) |-> 0]
      /\ sym = [h \in Syms |-> NewEntry(link, h)]
  BY DEF Init
<1>2. Flags
  BY <1>1 DEF Flags, WasScanned
<1>3. Entries
  <2> SUFFICES ASSUME NEW h \in Syms PROVE EntryOK(h)
    BY DEF Entries
  <2>1. /\ ~sym[h].needs_plt /\ sym[h].func = link.kind[h].func
        /\ ~sym[h].has_static_relocs
        /\ DynamicFromStart(link, h) => sym[h].dynindx = 0
    BY <1>1 DEF NewEntry
  <2>2. QED
    BY <1>1, <2>1 DEF EntryOK, NoOffset
<1>4. ASSUME NEW h \in Syms
      PROVE  Untouched(h) /\ Disposed(h) /\ h \notin PltSyms
  <2>1. Untouched(h)
    BY <1>1 DEF Untouched, NewEntry
  <2>2. QED
    BY <1>1, <2>1 DEF Untouched, Disposed, PltSyms, Pending, OwnSection, DefDynamic
<1>5. Offsets(PltSyms) = 0..(plts - 1)
  <2>1. PltSyms = {}
    BY <1>4 DEF PltSyms
  <2>2. QED
    BY <1>1, <2>1 DEF Offsets
<1>6. QED
  BY <1>1, <1>2, <1>3, <1>4, <1>5 DEF SymInv, Disposition

\* Scanning keeps the invariant.
LEMMA ScanSym ==
  ASSUME TypeInv, TypeInv', SymInv,
         \/ \E r \in DOMAIN refs : CheckReloc(r)
         \/ \E h \in Syms : BecomeIndirect(h)
         \/ EndScan
  PROVE  SymInv'
<1>1. pc = "scan" /\ Flags /\ Entries /\ Disposition
  BY DEF SymInv, CheckReloc, BecomeIndirect, EndScan
<1>2. ASSUME NEW r \in DOMAIN refs, CheckReloc(r), pc' # "failed"
      PROVE  Flags' /\ Entries' /\ Disposition'
  <2>1. Flags' /\ Entries'
    BY <1>1, <1>2, CheckRelocFlags, CheckRelocEntries
  <2>2. pc' = "scan" /\ UNCHANGED <<link, plts>>
    BY <1>2 DEF CheckReloc
  <2>3. \A h \in Syms :
          /\ sym'[h].needs_lazy_stub = sym[h].needs_lazy_stub
          /\ sym'[h].needs_copy = sym[h].needs_copy
          /\ sym'[h].plt = sym[h].plt
          /\ sym'[h].section = sym[h].section
    BY <1>2, CheckRelocEffect
  <2>4. QED
    BY <1>1, <2>1, <2>2, <2>3, ScanDisposition
<1>3. ASSUME NEW h \in Syms, BecomeIndirect(h)
      PROVE  Flags' /\ Entries' /\ Disposition'
  <2>1. Flags' /\ Entries'
    BY <1>1, <1>3, BecomeIndirectFlags, BecomeIndirectEntries
  <2>2. pc' = "scan" /\ UNCHANGED <<link, plts>>
    BY <1>1, <1>3 DEF BecomeIndirect
  <2>3. \A k \in Syms :
          /\ sym'[k].needs_lazy_stub = sym[k].needs_lazy_stub
          /\ sym'[k].needs_copy = sym[k].needs_copy
          /\ sym'[k].plt = sym[k].plt
          /\ sym'[k].section = sym[k].section
    BY <1>3, BecomeIndirectEffect
  <2>4. QED
    BY <1>1, <2>1, <2>2, <2>3, ScanDisposition
<1>4. ASSUME EndScan
      PROVE  Flags' /\ Entries' /\ Disposition'
  <2>1. /\ pc' = "adjust" /\ todo' = Proper /\ Proper' = Proper
        /\ UNCHANGED <<link, refs, forwarded, plts>>
        /\ sym' = [h \in Syms |-> AtEnd(h)]
    BY <1>4 DEF EndScan, AtEnd, Proper
  <2>2. \A h \in Syms :
          /\ sym'[h].needs_lazy_stub = sym[h].needs_lazy_stub
          /\ sym'[h].needs_copy = sym[h].needs_copy
          /\ sym'[h].plt = sym[h].plt
          /\ sym'[h].section = sym[h].section
          /\ sym[h].has_static_relocs => sym'[h].has_static_relocs
          /\ sym[h].pointer_equality_needed => sym'[h].pointer_equality_needed
          /\ sym[h].readonly_reloc => sym'[h].readonly_reloc
    BY <2>1, AtEndEntry DEF TypeInv
  <2>3. Flags'
    BY <1>1, <2>1, <2>2, FlagsFrame DEF TypeInv
  <2>4. Entries'
    BY <1>1, <1>4, EndScanEntries
  <2>5. Disposition'
    BY <1>1, <2>1, <2>2, ScanDisposition
  <2>6. QED
    BY <2>3, <2>4, <2>5
<1>5. QED
  BY <1>2, <1>3, <1>4 DEF SymInv

\* What no step after the scan does to an entry.
KeepsFlags ==
  \A h \in Syms :
    /\ sym'[h].has_static_relocs = sym[h].has_static_relocs
    /\ sym'[h].pointer_equality_needed = sym[h].pointer_equality_needed
    /\ sym'[h].readonly_reloc = sym[h].readonly_reloc
    /\ sym'[h].no_fn_stub = sym[h].no_fn_stub
    /\ sym'[h].needs_plt = sym[h].needs_plt
    /\ sym'[h].func = sym[h].func
    /\ sym[h].dynindx # NoOffset => sym'[h].dynindx # NoOffset

\* After the scan no entry forgets or learns anything.
LEMMA KeptFlags ==
  ASSUME TypeInv, Flags, Entries, pc # "scan", pc' # "scan",
         UNCHANGED <<link, refs, forwarded>>, KeepsFlags
  PROVE  Flags' /\ Entries'
BY FlagsFrame, EntriesFrame DEF TypeInv, KeepsFlags

\* adjust_dynamic_symbol keeps the invariant, whatever it decides.
LEMMA AdjustSym ==
  ASSUME TypeInv, TypeInv', SymInv, NEW h \in Syms, Adjust(h)
  PROVE  SymInv'
<1>1. /\ pc = "adjust" /\ Flags /\ Entries /\ Disposition
      /\ UNCHANGED <<link, refs, forwarded>>
  BY DEF SymInv, Adjust, LazyStub, PltEntry, WeakAlias, NothingToAdjust, RefuseStatic,
         CopyReloc, Adjusting
<1>2. pc' # "scan"
  BY <1>1 DEF Adjust, LazyStub, PltEntry, WeakAlias, NothingToAdjust, RefuseStatic,
         CopyReloc
<1>3. CASE RefuseStatic(h)
  BY <1>3 DEF SymInv, RefuseStatic
<1>4. CASE LazyStub(h)
  <2>1. KeepsFlags
    BY <1>4, LazyStubEffect DEF KeepsFlags
  <2>2. QED
    BY <1>1, <1>2, <1>4, <2>1, KeptFlags, LazyStubDisposition DEF SymInv
<1>5. CASE PltEntry(h)
  <2>1. KeepsFlags
    BY <1>5, PltEntryEffect DEF KeepsFlags
  <2>2. QED
    BY <1>1, <1>2, <1>5, <2>1, KeptFlags, PltEntryDisposition DEF SymInv
<1>6. CASE WeakAlias(h)
  <2>1. KeepsFlags
    BY <1>6, WeakAliasEffect DEF KeepsFlags
  <2>2. QED
    BY <1>1, <1>2, <1>6, <2>1, KeptFlags, WeakAliasDisposition DEF SymInv
<1>7. CASE NothingToAdjust(h)
  <2>1. KeepsFlags
    BY <1>7 DEF KeepsFlags, NothingToAdjust
  <2>2. QED
    BY <1>1, <1>2, <1>7, <2>1, KeptFlags, NothingToAdjustDisposition DEF SymInv
<1>8. CASE CopyReloc(h)
  <2>1. KeepsFlags
    BY <1>8, CopyRelocEffect DEF KeepsFlags
  <2>2. QED
    BY <1>1, <1>2, <1>8, <2>1, KeptFlags, CopyRelocDisposition DEF SymInv
<1>9. QED
  BY <1>3, <1>4, <1>5, <1>6, <1>7, <1>8 DEF Adjust

\* size_dynamic_sections and the final layout keep the invariant.
LEMMA SizeSym ==
  ASSUME TypeInv, TypeInv', SymInv,
         AllocateDynrelocs \/ EstimateStubSize \/ LayOutGot \/ LayOutStubs \/ SortDynsyms
  PROVE  SymInv'
<1>1. /\ Flags /\ Entries /\ Disposition
      /\ pc \in {"adjust", "estimate", "lay_out", "stubs", "sort"}
      /\ pc' \in {"estimate", "lay_out", "stubs", "sort", "relocate"}
      /\ UNCHANGED <<link, refs, forwarded, plts>>
  BY DEF SymInv, AllocateDynrelocs, EstimateStubSize, LayOutGot, LayOutStubs, SortDynsyms
<1>2. CASE AllocateDynrelocs
  <2>1. KeepsFlags
    BY <1>2, AllocateEffect DEF KeepsFlags, TypeInv
  <2>2. Disposition'
    <3>1. pc = "adjust" /\ todo = {} /\ pc' = "estimate"
      BY <1>2 DEF AllocateDynrelocs
    <3>2. QED
      BY <1>1, <1>2, <2>1, <3>1, AllocateEffect, DecidedDisposition
         DEF KeepsFlags, Late, TypeInv
  <2>3. QED
    BY <1>1, <2>1, <2>2, KeptFlags DEF SymInv
<1>3. CASE EstimateStubSize
  <2>1. pc = "estimate" /\ pc' = "lay_out" /\ sym' = sym
    BY <1>3 DEF EstimateStubSize
  <2>2. KeepsFlags
    BY <2>1 DEF KeepsFlags
  <2>3. Disposition'
    BY <1>1, <2>1, DecidedDisposition DEF Late
  <2>4. QED
    BY <1>1, <2>2, <2>3, KeptFlags DEF SymInv
<1>4. CASE LayOutGot
  <2>1. KeepsFlags
    BY <1>4, LayOutGotEffect DEF KeepsFlags, TypeInv
  <2>2. QED
    BY <1>1, <1>4, <2>1, KeptFlags, LayOutGotDisposition DEF SymInv
<1>5. CASE LayOutStubs
  <2>1. KeepsFlags
    BY <1>5, LayOutStubsEffect DEF KeepsFlags, TypeInv
  <2>2. QED
    BY <1>1, <1>5, <2>1, KeptFlags, LayOutStubsDisposition DEF SymInv
<1>6. CASE SortDynsyms
  <2>1. \A h \in Syms :
          /\ sym'[h].needs_lazy_stub = sym[h].needs_lazy_stub
          /\ sym'[h].needs_copy = sym[h].needs_copy
          /\ sym'[h].plt = sym[h].plt
          /\ sym'[h].section = sym[h].section
    BY <1>6, SortEffect DEF TypeInv
  <2>2. KeepsFlags
    BY <1>6, SortEffect, SortedIndices DEF KeepsFlags, TypeInv
  <2>3. pc = "sort" /\ pc' = "relocate"
    BY <1>6 DEF SortDynsyms
  <2>4. Disposition'
    BY <1>1, <2>1, <2>2, <2>3, DecidedDisposition DEF KeepsFlags, Late
  <2>5. QED
    BY <1>1, <2>2, <2>4, KeptFlags DEF SymInv
<1>7. QED
  BY <1>2, <1>3, <1>4, <1>5, <1>6

\* The steps that change no entry.
LEMMA OutputSym ==
  ASSUME TypeInv, TypeInv', SymInv, pc # "failed",
         \/ \E sec \in InputSections : RelocateSection(sec)
         \/ EndRelocate
         \/ \E h \in Syms : FinishSymbol(h)
         \/ FinishSections
  PROVE  SymInv'
<1>1. /\ pc \in {"relocate", "finish"} /\ pc' \in {"relocate", "finish", "finished"}
      /\ UNCHANGED <<link, refs, forwarded, sym, plts>>
  BY DEF RelocateSection, EndRelocate, FinishSymbol, FinishSections
<1>2. KeepsFlags
  BY <1>1 DEF KeepsFlags
<1>3. Disposition'
  BY <1>1, DecidedDisposition DEF Late, SymInv
<1>4. QED
  BY <1>1, <1>2, <1>3, KeptFlags DEF SymInv

\* Every step keeps the invariant about symbols.
LEMMA SymNext == TypeInv /\ TypeInv' /\ SymInv /\ [Next]_vars => SymInv'
<1> SUFFICES ASSUME TypeInv, TypeInv', SymInv, [Next]_vars PROVE SymInv'
  OBVIOUS
<1>1. CASE \E h \in Syms : Adjust(h)
  BY <1>1, AdjustSym
<1>2. CASE \/ \E sec \in InputSections : RelocateSection(sec)
           \/ EndRelocate
           \/ \E h \in Syms : FinishSymbol(h)
           \/ FinishSections
  <2>1. pc # "failed"
    BY <1>2 DEF RelocateSection, EndRelocate, FinishSymbol, FinishSections
  <2>2. QED
    BY <1>2, <2>1, OutputSym
<1>3. CASE UNCHANGED vars
  <2>1. UNCHANGED <<pc, link, refs, forwarded, sym, plts, todo>>
    BY <1>3 DEF vars
  <2>2. QED
    BY <2>1 DEF SymInv, Flags, Entries, Disposition, WasScanned, Target, Recalls,
       IsStatic, NeedsValue, CanMakeDynamic, EntryOK, Proper, DynamicFromStart, Hidden,
       DefRegular, DefDynamic, Disposed, Pending, Untouched, Offsets, PltSyms, Stubs
<1>4. QED
  BY <1>1, <1>2, <1>3, ScanSym, SizeSym DEF Next
-----------------------------------------------------------------------------
(***************************************************************************)
(* The output: what the references ask for when they are looked at again.  *)
(***************************************************************************)
\* A reference that has been scanned counts.
LEMMA ScannedCounts ==
  ASSUME TypeOK, NEW S \in SUBSET DOMAIN refs, NEW r \in S, refs[r] > 0
  PROVE  SumFunctionOnSet(refs, S) # 0
<1>1. IsFiniteSet(S) /\ IsFiniteSet(S \ {r})
  BY RefSum, FS_Subset
<1>2. \A q \in S : refs[q] \in Nat
  BY RefType
<1>3. SumFunctionOnSet(refs, S) = refs[r] + SumFunctionOnSet(refs, S \ {r})
  BY <1>1, <1>2, SumRemove
<1>4. SumFunctionOnSet(refs, S \ {r}) \in Nat
  BY <1>1, <1>2, SumNat
<1>5. QED
  BY <1>2, <1>3, <1>4

\* A relocation that is written for a symbol was reserved: the scan has counted
\* it and allocate_dynrelocs copied it.
LEMMA EmitsCopied ==
  ASSUME TypeInv, SymInv, pc \notin {"scan", "adjust", "failed"},
         NEW r \in DOMAIN refs, refs[r] > 0, r.sym # Local, Emits(r)
  PROVE  /\ r \in CopiedRefs
         /\ Target(r.sym) \in Proper /\ Target(r.sym) \in Syms
         /\ CopiesRelocs(Target(r.sym))
<1> DEFINE h == Target(r.sym)
<1>1. h \in Proper /\ h \in Syms
  BY RefType, ProperTarget DEF TypeInv
<1>2. /\ r.type = "word" /\ Alloc(r.sec)
      /\ link.shared \/ (DefDynamic(h) /\ ~sym[h].has_static_relocs)
      /\ ~(link.kind[h].def = "undefweak" /\ link.kind[h].vis # "default")
  BY DEF Emits
<1>3. CanMakeDynamic(r)
  <2>1. CASE link.shared
    BY <1>2, <2>1 DEF CanMakeDynamic
  <2>2. CASE ~link.shared
    <3>1. ~IsStatic(r)
      BY <1>2, <2>2 DEF SymInv, Flags, WasScanned, Recalls
    <3>2. QED
      BY <1>2, <3>1 DEF IsStatic, NeedsValue, Debugging, Alloc
  <2>3. QED
    BY <2>1, <2>2
<1>4. r \in DynamicRefs(h) /\ DynamicRefs(h) \subseteq DOMAIN refs
  BY <1>3 DEF DynamicRefs
<1>5. Counted(h)
  BY <1>1, <1>2 DEF TypeInv, Counts, Replaced
<1>6. sym[h].possibly_dynamic_relocs # 0
  BY <1>4, <1>5, ScannedCounts DEF Counted, TypeInv
<1>7. CopiesRelocs(h)
  BY <1>2, <1>6 DEF CopiesRelocs, DefDynamic, DefRegular
<1>8. QED
  BY <1>1, <1>3, <1>7 DEF CopiedRefs

\* relocate_section agrees with check_relocs on local symbols.
LEMMA LocalEmits ==
  ASSUME TypeInv, NEW r \in DOMAIN refs, r.sym = Local
  PROVE  Emits(r) <=> r \in LocalRefs
BY DEF Emits, LocalRefs, CanMakeDynamic

\* In a shared object, every relocation that was reserved is written.
LEMMA CopiedEmits ==
  ASSUME link.shared, NEW r \in CopiedRefs
  PROVE  Emits(r)
BY DEF CopiedRefs, Emits, CanMakeDynamic, CopiesRelocs

\* The steps that follow the adjustment of the symbols.
Sizing ==
  AllocateDynrelocs \/ EstimateStubSize \/ LayOutGot \/ LayOutStubs \/ SortDynsyms

\* The steps that write the output.
Writing ==
  \/ \E sec \in InputSections : RelocateSection(sec)
  \/ EndRelocate
  \/ \E h \in Syms : FinishSymbol(h)
  \/ FinishSections

\* Once the symbols are adjusted, the relocations that were counted for them stay
\* counted, and the same symbols have them copied.
LEMMA CountsKept ==
  ASSUME TypeOK, Sizing \/ Writing
  PROVE  /\ UNCHANGED <<link, refs, forwarded>>
         /\ pc \notin {"scan", "failed"} /\ pc' \notin {"scan", "adjust", "failed"}
         /\ \A h \in Syms :
              /\ sym'[h].possibly_dynamic_relocs = sym[h].possibly_dynamic_relocs
              /\ sym'[h].readonly_reloc = sym[h].readonly_reloc
              /\ sym'[h].needs_copy = sym[h].needs_copy
              /\ CopiesRelocs(h)' <=> CopiesRelocs(h)
         /\ Copies' = Copies /\ LocalRefs' = LocalRefs /\ CopiedRefs' = CopiedRefs
<1>1. /\ UNCHANGED <<link, refs, forwarded>>
      /\ pc \notin {"scan", "failed"} /\ pc' \notin {"scan", "adjust", "failed"}
  BY DEF Sizing, Writing, AllocateDynrelocs, EstimateStubSize, LayOutGot, LayOutStubs,
         SortDynsyms, RelocateSection, EndRelocate, FinishSymbol, FinishSections
<1>2. \A h \in Syms :
        /\ sym'[h].possibly_dynamic_relocs = sym[h].possibly_dynamic_relocs
        /\ sym'[h].readonly_reloc = sym[h].readonly_reloc
        /\ sym'[h].needs_copy = sym[h].needs_copy
  <2>1. CASE EstimateStubSize \/ Writing
    BY <2>1 DEF EstimateStubSize, Writing, RelocateSection, EndRelocate, FinishSymbol,
                FinishSections
  <2>2. QED
    BY <2>1, AllocateEffect, LayOutGotEffect, LayOutStubsEffect, SortEffect DEF Sizing
<1>3. \A h \in Syms : CopiesRelocs(h)' <=> CopiesRelocs(h)
  BY <1>1, <1>2 DEF CopiesRelocs, DefRegular
<1>4. Copies' = Copies
  BY <1>2 DEF Copies
<1>5. LocalRefs' = LocalRefs
  BY <1>1 DEF LocalRefs, CanMakeDynamic
<1>6. CopiedRefs' = CopiedRefs
  <2>1. \A r \in DOMAIN refs : CanMakeDynamic(r)' <=> CanMakeDynamic(r)
    BY <1>1 DEF CanMakeDynamic
  <2>2. \A h : Target(h)' = Target(h)
    BY <1>1 DEF Target
  <2>3. Proper' = Proper /\ Proper \subseteq Syms
    BY <1>1 DEF Proper
  <2>4. QED
    BY <1>1, <1>3, <2>1, <2>2, <2>3 DEF CopiedRefs
<1>7. QED
  BY <1>1, <1>2, <1>3, <1>4, <1>5, <1>6

\* The steps that scan relocations and adjust symbols.
Deciding ==
  \/ \E r \in DOMAIN refs : CheckReloc(r)
  \/ \E h \in Syms : BecomeIndirect(h)
  \/ EndScan
  \/ \E h \in Syms : Adjust(h)

\* Every step of a link is of one of three kinds.
LEMMA NextSteps == Next <=> Deciding \/ Sizing \/ Writing
BY Zenon DEF Next, Deciding, Sizing, Writing

\* While symbols are scanned and adjusted, nothing is written.
LEMMA NotBegun ==
  ASSUME Deciding
  PROVE  /\ pc \in {"scan", "adjust"} /\ pc' \in {"scan", "adjust", "failed"}
         /\ UNCHANGED <<link, texttag, output, written>>
<1>1. CASE \E r \in DOMAIN refs : CheckReloc(r)
  BY <1>1 DEF CheckReloc
<1>2. CASE (\E h \in Syms : BecomeIndirect(h)) \/ EndScan
  BY <1>2 DEF BecomeIndirect, EndScan
<1>3. CASE \E h \in Syms : Adjust(h)
  <2>1. PICK h \in Syms : Adjust(h)
    BY <1>3
  <2>2. Adjusting(h) /\ pc' \in {pc, "failed"}
    BY <2>1 DEF Adjust, LazyStub, PltEntry, WeakAlias, NothingToAdjust, RefuseStatic, CopyReloc
  <2>3. QED
    BY <2>2 DEF Adjusting
<1>4. QED
  BY <1>1, <1>2, <1>3 DEF Deciding

-----------------------------------------------------------------------------
(***************************************************************************)
(* No reference is resolved into a library.                                *)
(***************************************************************************)
LEMMA Resolved == TypeInv /\ SymInv => ResolvedInOutput
<1> SUFFICES ASSUME TypeInv, SymInv, LaidOut, NEW r \in DOMAIN refs, refs[r] > 0,
                    r.sym # Local, IsStatic(r) \/ (r.type = "word" /\ Alloc(r.sec)),
                    sym[Target(r.sym)].section = "library"
             PROVE  Emits(r)
  BY DEF ResolvedInOutput, WasScanned
<1> DEFINE h == Target(r.sym)
<1>1. h \in Proper /\ h \in Syms
  BY RefType, ProperTarget DEF TypeInv
<1>2. DefDynamic(h) /\ ~sym[h].has_static_relocs
  BY <1>1 DEF SymInv, Disposition, Disposed, Pending, LaidOut
<1>3. ~IsStatic(r)
  BY <1>2 DEF SymInv, Flags, WasScanned, Recalls, LaidOut
<1>4. QED
  BY <1>2, <1>3 DEF Emits, DefDynamic

-----------------------------------------------------------------------------
(***************************************************************************)
(* DT_TEXTREL.                                                             *)
(***************************************************************************)
LEMMA TextInit == Init => TextInv
BY DEF Init, TextInv, LocalText, WasScanned, LocalRefs

\* Every step keeps the announcement of relocations in read-only sections.
LEMMA TextNext == TypeInv /\ SymInv /\ TextInv /\ [Next]_vars => TextInv'
<1> SUFFICES ASSUME TypeInv, SymInv, TextInv, [Next]_vars PROVE TextInv'
  OBVIOUS
<1>1. CASE \E r \in DOMAIN refs : CheckReloc(r)
  <2>1. PICK r \in DOMAIN refs : CheckReloc(r)
    BY <1>1
  <2>2. /\ pc = "scan" /\ pc' \in {"scan", "failed"} /\ link' = link
        /\ refs' = [refs EXCEPT ![r] = @ + 1]
        /\ \A q \in DOMAIN refs : refs[q] \in Nat
    BY <2>1, RefType DEF CheckReloc, TypeInv
  <2>3. CASE pc' = "failed"
    BY <2>3 DEF TextInv
  <2>4. CASE pc' # "failed"
    <3>1. LocalRefs' = LocalRefs /\ LocalRefs \subseteq DOMAIN refs
      BY <2>2 DEF LocalRefs, CanMakeDynamic
    <3>2. textrel => textrel'
      BY <2>1, <2>4 DEF CheckReloc
    <3>3. r \in LocalRefs /\ ReadOnly(r.sec) => textrel'
      BY <2>1, <2>4 DEF CheckReloc, LocalRefs
    <3>4. \A q \in LocalRefs : q # r /\ WasScanned(q)' => WasScanned(q)
      BY <2>2, <3>1 DEF WasScanned
    <3>5. LocalText' => LocalText \/ (r \in LocalRefs /\ ReadOnly(r.sec))
      BY <3>1, <3>4 DEF LocalText
    <3>6. QED
      BY <2>2, <2>4, <3>2, <3>3, <3>5 DEF TextInv
  <2>5. QED
    BY <2>3, <2>4
<1>2. CASE (\E h \in Syms : BecomeIndirect(h)) \/ EndScan \/ (\E h \in Syms : Adjust(h))
  <2>1. pc \in {"scan", "adjust"} /\ pc' \in {"scan", "adjust", "failed"}
    BY <1>2, NotBegun DEF Deciding
  <2>2. UNCHANGED <<link, refs, textrel>>
    <3>1. CASE (\E h \in Syms : BecomeIndirect(h)) \/ EndScan
      BY <3>1 DEF BecomeIndirect, EndScan
    <3>2. CASE \E h \in Syms : Adjust(h)
      <4>1. PICK h \in Syms : Adjusting(h)
        BY <3>2 DEF Adjust, LazyStub, PltEntry, WeakAlias, NothingToAdjust, RefuseStatic,
                    CopyReloc
      <4>2. QED
        BY <4>1 DEF Adjusting
    <3>3. QED
      BY <1>2, <3>1, <3>2
  <2>3. LocalText' <=> LocalText
    BY <2>2 DEF LocalText, LocalRefs, CanMakeDynamic, WasScanned
  <2>4. QED
    BY <2>1, <2>2, <2>3 DEF TextInv
<1>3. CASE Sizing \/ Writing
  <2>1. /\ UNCHANGED <<link, refs, forwarded>> /\ LocalRefs' = LocalRefs
        /\ \A h \in Syms : /\ sym'[h].readonly_reloc = sym[h].readonly_reloc
                           /\ CopiesRelocs(h)' <=> CopiesRelocs(h)
    BY <1>3, CountsKept DEF TypeInv
  <2>2. LocalText' <=> LocalText
    BY <2>1 DEF LocalText, WasScanned
  <2>3. GlobalText' <=> GlobalText
    BY <2>1 DEF GlobalText, Proper
  <2>4. CASE AllocateDynrelocs
    <3>1. /\ pc = "adjust" /\ pc' = "estimate"
          /\ textrel' = (textrel \/ \E h \in CopiedSyms : sym[h].readonly_reloc)
      BY <2>4 DEF AllocateDynrelocs, CopiedSyms
    <3>2. QED
      BY <2>2, <2>3, <3>1 DEF TextInv, GlobalText, CopiedSyms
  <2>5. CASE EstimateStubSize \/ LayOutGot
    <3>1. /\ pc \in {"estimate", "lay_out"} /\ pc' \in {"lay_out", "stubs"}
          /\ UNCHANGED <<textrel, texttag>>
      BY <2>5 DEF EstimateStubSize, LayOutGot
    <3>2. QED
      BY <2>2, <2>3, <3>1 DEF TextInv
  <2>6. CASE LayOutStubs
    <3>1. pc = "stubs" /\ pc' = "sort" /\ texttag' = textrel /\ textrel' = FALSE
      BY <2>6 DEF LayOutStubs
    <3>2. QED
      BY <2>2, <2>3, <3>1 DEF TextInv
  <2>7. CASE SortDynsyms \/ EndRelocate \/ \E h \in Syms : FinishSymbol(h)
    <3>1. /\ pc \in {"sort", "relocate", "finish"} /\ pc' \in {"relocate", "finish"}
          /\ UNCHANGED <<textrel, texttag>>
      BY <2>7 DEF SortDynsyms, EndRelocate, FinishSymbol
    <3>2. QED
      BY <2>2, <2>3, <3>1 DEF TextInv
  <2>8. CASE \E sec \in InputSections : RelocateSection(sec)
    <3>1. PICK sec \in InputSections : RelocateSection(sec)
      BY <2>8
    <3> DEFINE emitted == {r \in DOMAIN refs : refs[r] > 0 /\ r.sec = sec /\ Emits(r)}
    <3>2. /\ pc = "relocate" /\ pc' = "relocate" /\ texttag' = texttag
          /\ textrel' = (textrel \/ (ReadOnly(sec) /\ emitted # {}))
      BY <3>1 DEF RelocateSection
    <3>3. ASSUME NEW r \in emitted, ReadOnly(sec)
          PROVE  LocalText \/ GlobalText
      <4>1. CASE r.sym = Local
        BY <3>3, <4>1, LocalEmits DEF LocalText, WasScanned
      <4>2. CASE r.sym # Local
        <5>1. /\ r \in CopiedRefs
              /\ Target(r.sym) \in Proper /\ CopiesRelocs(Target(r.sym))
          BY <3>2, <4>2, EmitsCopied
        <5>2. sym[Target(r.sym)].readonly_reloc
          BY <3>2, <3>3, <4>2, <5>1
             DEF SymInv, Flags, WasScanned, Recalls, CopiedRefs
        <5>3. QED
          BY <5>1, <5>2 DEF GlobalText
      <4>3. QED
        BY <4>1, <4>2
    <3>4. textrel' => texttag
      BY <3>2, <3>3 DEF TextInv
    <3>5. QED
      BY <2>2, <2>3, <3>2, <3>4 DEF TextInv
  <2>9. CASE FinishSections
    <3>1. /\ pc = "finish" /\ pc' = "finished" /\ textrel' = textrel
          /\ texttag' = (texttag /\ textrel)
      BY <2>9 DEF FinishSections
    <3>2. QED
      BY <3>1 DEF TextInv
  <2>10. QED
    BY <1>3, <2>4, <2>5, <2>6, <2>7, <2>8, <2>9 DEF Sizing, Writing
<1>4. CASE UNCHANGED vars
  BY <1>4 DEF vars, TextInv, LocalText, GlobalText, LocalRefs, CanMakeDynamic, WasScanned,
              Proper, CopiesRelocs, DefRegular
<1>5. QED
  BY <1>1, <1>2, <1>3, <1>4, NextSteps DEF Deciding

\* The invariant says what is promised.
LEMMA Tagged == TextInv => TextRelTagged
BY DEF TextInv, TextRelTagged, LaidOut

-----------------------------------------------------------------------------
(***************************************************************************)
(* Room for relocations.                                                   *)
(***************************************************************************)
\* What the entries of the symbols that allocate_dynrelocs copies count is what
\* has been scanned for them.
LEMMA CopiedSum ==
  ASSUME TypeInv, pc \notin {"scan", "failed"}
  PROVE  SumFunctionOnSet(RelocsOf, CopiedSyms) = SumFunctionOnSet(refs, CopiedRefs)
<1> USE DEF TypeInv
<1> DEFINE F == [h \in CopiedSyms |-> DynamicRefs(h)]
           f == refs
           w == RelocsOf
           S == CopiedSyms
<1>1. CopiedSyms \subseteq Syms /\ IsFiniteSet(CopiedSyms)
  BY SymsFinite DEF CopiedSyms, Proper
<1>2. ASSUME NEW h \in CopiedSyms
      PROVE  /\ F[h] = DynamicRefs(h) /\ F[h] \subseteq DOMAIN refs
             /\ RelocsOf[h] = SumFunctionOnSet(refs, F[h])
  <2>1. h \in Syms /\ h \in Proper /\ CopiesRelocs(h)
    BY <1>1 DEF CopiedSyms
  <2>2. F[h] = DynamicRefs(h) /\ F[h] \subseteq DOMAIN refs
    BY <2>1 DEF DynamicRefs
  <2>3. Counted(h)
    BY <2>1 DEF Counts, Replaced, CopiesRelocs
  <2>4. QED
    BY <2>1, <2>2, <2>3 DEF Counted, RelocsOf
<1>3. \A h \in S : /\ IsFiniteSet(F[h]) /\ \A r \in F[h] : f[r] \in Int
                   /\ w[h] = SumFunctionOnSet(f, F[h])
  BY <1>2, RefSum, RefType
<1>4. \A h, k \in S : h # k => F[h] \cap F[k] = {}
  BY <1>2 DEF DynamicRefs
<1>5. \A y : y \in CopiedRefs <=> \E x \in S : y \in F[x]
  <2>1. ASSUME NEW h \in CopiedSyms, NEW r \in F[h]
        PROVE  r \in CopiedRefs
    <3>1. r \in DynamicRefs(h) /\ h \in Proper /\ CopiesRelocs(h)
      BY <1>2, <2>1 DEF CopiedSyms
    <3>2. QED
      BY <3>1 DEF CopiedRefs, DynamicRefs
  <2>2. \A r \in CopiedRefs : \E x \in S : r \in F[x]
    <3> SUFFICES ASSUME NEW r \in CopiedRefs PROVE \E x \in S : r \in F[x]
      OBVIOUS
    <3>1. Target(r.sym) \in CopiedSyms
      BY DEF CopiedRefs, CopiedSyms
    <3>2. r \in F[Target(r.sym)]
      BY <1>2, <3>1 DEF CopiedRefs, DynamicRefs
    <3>3. QED
      BY <3>1, <3>2
  <2>3. QED
    BY <2>1, <2>2
<1>6. IsFiniteSet(S) /\ S = DOMAIN F
  BY <1>1
<1> HIDE DEF F, f, w, S
<1>7. Partition(CopiedRefs, S, F)
  BY <1>3, <1>4, <1>5, <1>6 DEF Partition
<1>8. \A r \in CopiedRefs : f[r] \in Int
  BY RefType DEF CopiedRefs, f
<1>9. \A h \in S : w[h] = SumFunctionOnSet(f, F[h])
  BY <1>3
<1>10. SumFunctionOnSet(f, CopiedRefs) = SumFunctionOnSet(w, S)
  BY <1>7, <1>8, <1>9, SumFibres
<1>11. QED
  BY <1>10 DEF f, w, S

\* Nothing has been scanned, and there is room for nothing.
LEMMA RoomInit == Init => RoomInv
<1> SUFFICES ASSUME Init PROVE RoomInv
  OBVIOUS
<1>1. /\ pc = "scan" /\ output = 0 /\ written = {} /\ reserved = 0
      /\ \A r \in DOMAIN refs : refs[r] = 0
      /\ \A h \in Syms : ~sym[h].needs_copy
  BY DEF Init, NewEntry
<1>2. Copies = {} /\ Cardinality(Copies) = 0
  BY <1>1, FS_EmptySet DEF Copies
<1>3. IsFiniteSet(LocalRefs) /\ \A r \in LocalRefs : refs[r] = 0
  BY <1>1, TypeInit, RefSum DEF LocalRefs, TypeInv
<1>4. SumFunctionOnSet(refs, LocalRefs) = 0
  BY <1>3, SumZero
<1>5. QED
  BY <1>1, <1>2, <1>4 DEF RoomInv

\* Reserving goes on.
LEMMA DecidingRoom ==
  ASSUME TypeInv, SymInv, RoomInv, Deciding
  PROVE  RoomInv'
<1> USE DEF TypeInv
<1>1. /\ pc \in {"scan", "adjust"} /\ pc' \in {"scan", "adjust", "failed"}
      /\ output' = 0 /\ written' = {} /\ link' = link
      /\ reserved = SumFunctionOnSet(refs, LocalRefs) + Cardinality(Copies)
  BY NotBegun DEF RoomInv
<1>2. /\ SumFunctionOnSet(refs, LocalRefs) \in Nat /\ LocalRefs \subseteq DOMAIN refs
      /\ Copies \subseteq Syms /\ Cardinality(Copies) \in Nat
  BY RefSum, SymsFinite DEF LocalRefs, Copies
<1>3. ASSUME NEW r \in DOMAIN refs, CheckReloc(r), pc' # "failed"
      PROVE  reserved' = SumFunctionOnSet(refs', LocalRefs') + Cardinality(Copies')
  <2>1. LocalRefs' = LocalRefs
    BY <1>3 DEF CheckReloc, LocalRefs, CanMakeDynamic
  <2>2. SumFunctionOnSet(refs', LocalRefs)
          = SumFunctionOnSet(refs, LocalRefs) + IF r \in LocalRefs THEN 1 ELSE 0
    BY <1>2, <1>3, RefSumNext DEF CheckReloc
  <2>3. reserved' = reserved + IF r \in LocalRefs THEN 1 ELSE 0
    BY <1>2, <1>3 DEF CheckReloc, LocalRefs, TypeOK
  <2>4. Copies' = Copies
    <3>1. \A h \in Syms : sym'[h].needs_copy = sym[h].needs_copy
      BY <1>3, CheckRelocEffect
    <3>2. QED
      BY <3>1 DEF Copies
  <2>5. QED
    BY <1>1, <1>2, <2>1, <2>2, <2>3, <2>4
<1>4. ASSUME UNCHANGED <<refs, reserved>>,
             \A h \in Syms : sym'[h].needs_copy = sym[h].needs_copy
      PROVE  reserved' = SumFunctionOnSet(refs', LocalRefs') + Cardinality(Copies')
  <2>1. LocalRefs' = LocalRefs /\ Copies' = Copies
    BY <1>1, <1>4 DEF LocalRefs, CanMakeDynamic, Copies
  <2>2. QED
    BY <1>1, <1>4, <2>1
<1>5. ASSUME NEW h \in Syms, BecomeIndirect(h)
      PROVE  reserved' = SumFunctionOnSet(refs', LocalRefs') + Cardinality(Copies')
  <2>1. UNCHANGED <<refs, reserved>>
    BY <1>5 DEF BecomeIndirect
  <2>2. QED
    BY <1>4, <1>5, <2>1, BecomeIndirectEffect
<1>6. ASSUME EndScan
      PROVE  reserved' = SumFunctionOnSet(refs', LocalRefs') + Cardinality(Copies')
  <2>1. UNCHANGED <<refs, reserved>> /\ sym' = [h \in Syms |-> AtEnd(h)]
    BY <1>6 DEF EndScan, AtEnd
  <2>2. QED
    BY <1>4, <2>1, AtEndEntry
<1>7. ASSUME NEW h \in Syms, Adjust(h), ~CopyReloc(h)
      PROVE  reserved' = SumFunctionOnSet(refs', LocalRefs') + Cardinality(Copies')
  <2>1. UNCHANGED <<refs, reserved>>
    BY <1>7 DEF Adjust, LazyStub, PltEntry, WeakAlias, NothingToAdjust, RefuseStatic,
                Adjusting
  <2>2. \A k \in Syms : sym'[k].needs_copy = sym[k].needs_copy
    <3>1. CASE NothingToAdjust(h) \/ RefuseStatic(h)
      BY <3>1 DEF NothingToAdjust, RefuseStatic
    <3>2. QED
      BY <1>7, <3>1, LazyStubEffect, PltEntryEffect, WeakAliasEffect DEF Adjust
  <2>3. QED
    BY <1>4, <2>1, <2>2
<1>8. ASSUME NEW h \in Syms, CopyReloc(h)
      PROVE  reserved' = SumFunctionOnSet(refs', LocalRefs') + Cardinality(Copies')
  <2>1. /\ pc = "adjust" /\ h \in todo /\ refs' = refs /\ reserved' = reserved + 1
    BY <1>8 DEF CopyReloc, Adjusting
  <2>2. h \notin Copies
    BY <2>1 DEF SymInv, Disposition, Disposed, Pending, Untouched, Copies
  <2>3. Copies' = Copies \cup {h}
    BY <1>8, CopyRelocEffect DEF Copies
  <2>4. Cardinality(Copies \cup {h}) = Cardinality(Copies) + 1
    BY <1>2, <2>2, SymsFinite, FS_AddElement
  <2>5. LocalRefs' = LocalRefs
    BY <1>1, <2>1 DEF LocalRefs, CanMakeDynamic
  <2>6. QED
    BY <1>1, <1>2, <2>1, <2>3, <2>4, <2>5
<1>9. pc' # "failed" =>
        reserved' = SumFunctionOnSet(refs', LocalRefs') + Cardinality(Copies')
  BY <1>3, <1>5, <1>6, <1>7, <1>8 DEF Deciding
<1>10. QED
  BY <1>1, <1>9 DEF RoomInv

\* allocate_dynrelocs adds the relocations against symbols; nothing is written yet.
LEMMA SizingRoom ==
  ASSUME TypeInv, SymInv, RoomInv, Sizing
  PROVE  RoomInv'
<1>1. /\ UNCHANGED <<link, refs, forwarded>>
      /\ Copies' = Copies /\ LocalRefs' = LocalRefs /\ CopiedRefs' = CopiedRefs
  BY CountsKept DEF TypeInv
<1>2. /\ pc \in {"adjust", "estimate", "lay_out", "stubs", "sort"}
      /\ pc' \in {"estimate", "lay_out", "stubs", "sort", "relocate"}
      /\ output' = 0 /\ written' = {}
  BY DEF Sizing, AllocateDynrelocs, EstimateStubSize, LayOutGot, LayOutStubs, SortDynsyms,
         RoomInv
<1>3. reserved' = SumFunctionOnSet(refs, LocalRefs) + SumFunctionOnSet(refs, CopiedRefs)
                    + Cardinality(Copies)
  <2>1. CASE AllocateDynrelocs
    <3>1. /\ pc = "adjust"
          /\ reserved' = reserved + SumFunctionOnSet(RelocsOf, CopiedSyms)
      BY <2>1 DEF AllocateDynrelocs, RelocsOf, CopiedSyms
    <3>2. reserved = SumFunctionOnSet(refs, LocalRefs) + Cardinality(Copies)
      BY <3>1 DEF RoomInv
    <3>3. SumFunctionOnSet(RelocsOf, CopiedSyms) = SumFunctionOnSet(refs, CopiedRefs)
      BY <3>1, CopiedSum
    <3>4. /\ SumFunctionOnSet(refs, LocalRefs) \in Nat
          /\ SumFunctionOnSet(refs, CopiedRefs) \in Nat /\ Cardinality(Copies) \in Nat
      BY RefSum, SymsFinite DEF LocalRefs, CopiedRefs, Copies, TypeInv
    <3>5. QED
      BY <3>1, <3>2, <3>3, <3>4
  <2>2. CASE ~AllocateDynrelocs
    <3>1. reserved' = reserved /\ pc \in {"estimate", "lay_out", "stubs", "sort"}
      BY <2>2 DEF Sizing, EstimateStubSize, LayOutGot, LayOutStubs, SortDynsyms
    <3>2. QED
      BY <3>1 DEF RoomInv
  <2>3. QED
    BY <2>1, <2>2
<1>4. pc' = "relocate" => SumFunctionOnSet(refs', Emitted') = 0
  <2> SUFFICES ASSUME SortDynsyms PROVE SumFunctionOnSet(refs', Emitted') = 0
    BY DEF Sizing, AllocateDynrelocs, EstimateStubSize, LayOutGot, LayOutStubs
  <2>1. todo' = {r.sec : r \in {q \in DOMAIN refs : refs[q] > 0}}
    BY DEF SortDynsyms
  <2>2. Emitted' = {}
    BY <1>1, <2>1 DEF Emitted
  <2>3. QED
    BY <2>2, SumEmpty
<1>5. QED
  BY <1>1, <1>2, <1>3, <1>4 DEF RoomInv

\* What has been written is what the sections and symbols that were visited ask for.
LEMMA WritingRoom ==
  ASSUME TypeInv, SymInv, RoomInv, Writing
  PROVE  RoomInv'
<1> USE DEF TypeInv
<1>1. /\ UNCHANGED <<link, refs, forwarded, sym, reserved>>
      /\ Copies' = Copies /\ LocalRefs' = LocalRefs /\ CopiedRefs' = CopiedRefs
      /\ \A r : Emits(r)' <=> Emits(r)
  <2>1. /\ UNCHANGED <<link, refs, forwarded>>
        /\ Copies' = Copies /\ LocalRefs' = LocalRefs /\ CopiedRefs' = CopiedRefs
    BY CountsKept
  <2>2. UNCHANGED <<sym, reserved>>
    BY DEF Writing, RelocateSection, EndRelocate, FinishSymbol, FinishSections
  <2>3. QED
    BY <2>1, <2>2 DEF Emits, Target, DefDynamic
<1>2. /\ pc \in {"relocate", "finish"} /\ pc' \in {"relocate", "finish", "finished"}
      /\ reserved = SumFunctionOnSet(refs, LocalRefs) + SumFunctionOnSet(refs, CopiedRefs)
                      + Cardinality(Copies)
  BY DEF Writing, RelocateSection, EndRelocate, FinishSymbol, FinishSections, RoomInv
<1> DEFINE E == {r \in DOMAIN refs : refs[r] > 0 /\ Emits(r)}
<1>3. E' = E /\ SumFunctionOnSet(refs, E) \in Nat
  BY <1>1, RefSum
<1>4. CASE \E sec \in InputSections : RelocateSection(sec)
  <2>1. PICK sec \in InputSections : RelocateSection(sec)
    BY <1>4
  <2> DEFINE emitted == {r \in DOMAIN refs : refs[r] > 0 /\ r.sec = sec /\ Emits(r)}
  <2>2. /\ pc = "relocate" /\ pc' = "relocate" /\ sec \in todo /\ todo' = todo \ {sec}
        /\ output' = output + SumFunctionOnSet(refs, emitted)
    BY <2>1 DEF RelocateSection
  <2>3. Emitted' = Emitted \cup emitted /\ Emitted \cap emitted = {}
    BY <1>1, <2>2 DEF Emitted
  <2>4. /\ IsFiniteSet(Emitted) /\ IsFiniteSet(emitted)
        /\ \A r \in Emitted \cup emitted : refs[r] \in Int
    <3>1. Emitted \subseteq DOMAIN refs /\ emitted \subseteq DOMAIN refs
      BY DEF Emitted
    <3>2. QED
      BY <3>1, RefSum, RefType
  <2> HIDE DEF emitted
  <2>5. SumFunctionOnSet(refs, Emitted \cup emitted)
          = SumFunctionOnSet(refs, Emitted) + SumFunctionOnSet(refs, emitted)
    BY <2>3, <2>4, SumUnion
  <2>6. output' = SumFunctionOnSet(refs', Emitted')
    BY <1>1, <2>2, <2>3, <2>5 DEF RoomInv
  <2>7. QED
    BY <1>1, <1>2, <2>2, <2>6 DEF RoomInv
<1>5. CASE EndRelocate
  <2>1. /\ pc = "relocate" /\ pc' = "finish" /\ todo = {} /\ output' = output
        /\ todo' = {h \in Proper : sym[h].dynindx # NoOffset}
    BY <1>5 DEF EndRelocate
  <2>2. Emitted = E
    BY <2>1 DEF Emitted
  <2>3. Copies \ todo' = {}
    <3>1. \A h \in Copies : h \in Proper /\ sym[h].dynindx # NoOffset
      BY <2>1 DEF Copies, SymInv, Disposition, Disposed, Untouched, Proper
    <3>2. QED
      BY <2>1, <3>1
  <2>4. Cardinality(Copies \ todo') = 0
    BY <2>3, FS_EmptySet
  <2> HIDE DEF E
  <2>5. output' = SumFunctionOnSet(refs, E) + Cardinality(Copies \ todo')
    BY <1>3, <2>1, <2>2, <2>4 DEF RoomInv
  <2>6. QED
    BY <1>1, <1>2, <1>3, <2>1, <2>5 DEF RoomInv, E
<1>6. CASE \E h \in Syms : FinishSymbol(h)
  <2>1. PICK h \in Syms : FinishSymbol(h)
    BY <1>6
  <2>2. /\ pc = "finish" /\ pc' = "finish" /\ h \in todo /\ todo' = todo \ {h}
        /\ output' = output + (IF sym[h].needs_copy THEN 1 ELSE 0)
    BY <2>1 DEF FinishSymbol
  <2>3. output = SumFunctionOnSet(refs, E) + Cardinality(Copies \ todo)
    BY <2>2 DEF RoomInv
  <2>4. IsFiniteSet(Copies \ todo) /\ Cardinality(Copies \ todo) \in Nat
    BY SymsFinite DEF Copies
  <2>5. Cardinality(Copies \ todo')
          = Cardinality(Copies \ todo) + (IF sym[h].needs_copy THEN 1 ELSE 0)
    <3>1. CASE sym[h].needs_copy
      <4>1. Copies \ todo' = (Copies \ todo) \cup {h} /\ h \notin Copies \ todo
        BY <2>2, <3>1 DEF Copies
      <4>2. QED
        BY <2>4, <3>1, <4>1, FS_AddElement
    <3>2. CASE ~sym[h].needs_copy
      <4>1. Copies \ todo' = Copies \ todo
        BY <2>2, <3>2 DEF Copies
      <4>2. Cardinality(Copies \ todo) + 0 = Cardinality(Copies \ todo)
        BY <2>4
      <4>3. QED
        BY <3>2, <4>1, <4>2
    <3>3. QED
      BY <3>1, <3>2
  <2> HIDE DEF E
  <2>6. output' = SumFunctionOnSet(refs, E) + Cardinality(Copies \ todo')
    BY <1>3, <2>2, <2>3, <2>4, <2>5
  <2>7. QED
    BY <1>1, <1>2, <1>3, <2>2, <2>6 DEF RoomInv, E
<1>7. CASE FinishSections
  <2>1. /\ pc = "finish" /\ pc' = "finished" /\ UNCHANGED <<todo, output>>
    BY <1>7 DEF FinishSections
  <2>2. QED
    BY <1>1, <1>2, <1>3, <2>1 DEF RoomInv
<1>8. QED
  BY <1>4, <1>5, <1>6, <1>7 DEF Writing

\* Every step keeps the account of .rel.dyn.
LEMMA RoomNext == TypeInv /\ SymInv /\ RoomInv /\ [Next]_vars => RoomInv'
<1> SUFFICES ASSUME TypeInv, SymInv, RoomInv, [Next]_vars PROVE RoomInv'
  OBVIOUS
<1>1. CASE UNCHANGED vars
  <2>1. /\ UNCHANGED <<pc, link, refs, forwarded, sym, reserved, todo, output, written>>
    BY <1>1 DEF vars
  <2>2. /\ LocalRefs' = LocalRefs /\ Copies' = Copies /\ CopiedRefs' = CopiedRefs
        /\ \A r : Emits(r)' <=> Emits(r)
    BY <2>1 DEF LocalRefs, Copies, CopiedRefs, CanMakeDynamic, Target, Proper, CopiesRelocs,
                DefRegular, DefDynamic, Emits
  <2>3. Emitted' = Emitted
    BY <2>1, <2>2 DEF Emitted
  <2>4. QED
    BY <2>1, <2>2, <2>3 DEF RoomInv
<1>2. QED
  BY <1>1, NextSteps, DecidingRoom, SizingRoom, WritingRoom

\* What is written never exceeds what was reserved; in a shared object nothing is
\* left over.
LEMMA Suffices ==
  ASSUME TypeInv, SymInv, RoomInv
  PROVE  RoomForRelocs
<1> USE DEF TypeInv
<1> DEFINE E == {r \in DOMAIN refs : refs[r] > 0 /\ Emits(r)}
           R == LocalRefs \cup CopiedRefs
<1>1. reserved \in Nat /\ output \in Nat
  BY DEF TypeOK
<1>2. CASE pc \notin {"relocate", "finish", "finished"}
  <2>1. output = 0
    BY <1>2 DEF RoomInv, TypeOK
  <2>2. QED
    BY <1>1, <1>2, <2>1 DEF RoomForRelocs
<1>3. CASE pc \in {"relocate", "finish", "finished"}
  <2>1. /\ R \subseteq DOMAIN refs /\ E \subseteq DOMAIN refs /\ E \subseteq R
        /\ Emitted \subseteq R
    <3>1. \A r \in DOMAIN refs : refs[r] > 0 /\ Emits(r) => r \in R
      BY <1>3, LocalEmits, EmitsCopied
    <3>2. QED
      BY <3>1 DEF LocalRefs, CopiedRefs, Emitted
  <2>2. /\ IsFiniteSet(LocalRefs) /\ IsFiniteSet(CopiedRefs) /\ LocalRefs \cap CopiedRefs = {}
        /\ IsFiniteSet(R) /\ \A r \in R : refs[r] \in Nat
        /\ \A r \in LocalRefs \cup CopiedRefs : refs[r] \in Int
        /\ SumFunctionOnSet(refs, LocalRefs) \in Nat
        /\ SumFunctionOnSet(refs, CopiedRefs) \in Nat
    <3>1. LocalRefs \subseteq DOMAIN refs /\ CopiedRefs \subseteq DOMAIN refs
          /\ LocalRefs \cap CopiedRefs = {}
      BY DEF LocalRefs, CopiedRefs
    <3>2. QED
      BY <2>1, <3>1, RefSum, RefType
  <2>3. SumFunctionOnSet(refs, R)
          = SumFunctionOnSet(refs, LocalRefs) + SumFunctionOnSet(refs, CopiedRefs)
    BY <2>2, SumUnion
  <2> HIDE DEF E, R
  <2>4. /\ SumFunctionOnSet(refs, E) <= SumFunctionOnSet(refs, R)
        /\ SumFunctionOnSet(refs, Emitted) <= SumFunctionOnSet(refs, R)
        /\ SumFunctionOnSet(refs, R) \in Nat /\ SumFunctionOnSet(refs, E) \in Nat
        /\ SumFunctionOnSet(refs, Emitted) \in Nat
    <3>1. Emitted \subseteq DOMAIN refs
      BY DEF Emitted
    <3>2. QED
      BY <2>1, <2>2, <3>1, SumSubset, RefSum
  <2>5. /\ Cardinality(Copies) \in Nat /\ Cardinality(Copies \ todo) \in Nat
        /\ Cardinality(Copies \ todo) <= Cardinality(Copies)
    <3>1. IsFiniteSet(Copies) /\ Copies \ todo \in SUBSET Copies
      BY SymsFinite DEF Copies
    <3>2. QED
      BY <3>1, FS_Subset, FS_CardinalityType
  <2>6. reserved = SumFunctionOnSet(refs, R) + Cardinality(Copies)
    BY <1>3, <2>2, <2>3 DEF RoomInv
  <2>7. output = IF pc = "relocate" THEN SumFunctionOnSet(refs, Emitted)
                 ELSE SumFunctionOnSet(refs, E) + Cardinality(Copies \ todo)
    BY <1>3 DEF RoomInv, E
  <2>8. output <= reserved
    BY <2>4, <2>5, <2>6, <2>7
  <2>9. ASSUME pc = "finished", link.shared
        PROVE  output = reserved
    <3>1. Copies = {} /\ Copies \ todo = {}
      BY <2>9 DEF Copies, SymInv, Disposition, Disposed
    <3>2. Cardinality(Copies) = 0 /\ Cardinality(Copies \ todo) = 0
      BY <3>1, FS_EmptySet
    <3>3. \A r \in R \ E : refs[r] = 0
      <4>1. \A r \in R : r \in DOMAIN refs /\ Emits(r)
        BY <2>9, LocalEmits, CopiedEmits DEF R, LocalRefs, CopiedRefs
      <4>2. QED
        BY <4>1, RefType DEF E
    <3>4. SumFunctionOnSet(refs, R) = SumFunctionOnSet(refs, E)
      <4>1. \A r \in R : refs[r] \in Int
        BY <2>2
      <4>2. QED
        BY <2>1, <2>2, <3>3, <4>1, SumPositive
    <3>5. QED
      BY <2>4, <2>6, <2>7, <2>9, <3>2, <3>4
  <2>10. QED
    BY <2>8, <2>9 DEF RoomForRelocs
<1>4. QED
  BY <1>2, <1>3

-----------------------------------------------------------------------------
(***************************************************************************)
(* Indices of dynamic symbols.                                             *)
(***************************************************************************)
\* dynsymcount keeps up with the symbols that enter the dynamic symbol table.
LEMMA Entered ==
  ASSUME dynsymcount \in Nat, dynsymcount >= 1 + Cardinality(DynamicSyms),
         dynsymcount' = dynsymcount + NewDynsyms(sym, sym')
  PROVE  dynsymcount' >= 1 + Cardinality(DynamicSyms)'
<1> DEFINE new == {h \in Syms : sym[h].dynindx = NoOffset /\ sym'[h].dynindx # NoOffset}
           now == DynamicSyms'
           old == DynamicSyms
<1>1. now \subseteq old \cup new
  BY DEF DynamicSyms
<1>2. NewDynsyms(sym, sym') = Cardinality(new) /\ Cardinality(DynamicSyms)' = Cardinality(now)
  BY DEF NewDynsyms
<1>3. /\ IsFiniteSet(old) /\ Cardinality(old) \in Nat
      /\ IsFiniteSet(new) /\ Cardinality(new) \in Nat
      /\ Cardinality(now) \in Nat
  BY SymsFinite DEF DynamicSyms
<1>4. dynsymcount >= 1 + Cardinality(old)
  OBVIOUS
<1> HIDE DEF new, now, old
<1>5. /\ IsFiniteSet(old \cup new) /\ Cardinality(old \cap new) \in Nat
      /\ Cardinality(old \cup new)
           = Cardinality(old) + Cardinality(new) - Cardinality(old \cap new)
  BY <1>3, FS_Union, FS_Intersection, FS_CardinalityType
<1>6. Cardinality(now) <= Cardinality(old \cup new)
  BY <1>1, <1>5, FS_Subset
<1>7. QED
  BY <1>2, <1>3, <1>4, <1>5, <1>6

\* A step that enters no symbol.
LEMMA NoneEntered ==
  ASSUME dynsymcount \in Nat, dynsymcount >= 1 + Cardinality(DynamicSyms),
         dynsymcount' = dynsymcount,
         \A h \in Syms : sym[h].dynindx = NoOffset => sym'[h].dynindx = NoOffset
  PROVE  dynsymcount' >= 1 + Cardinality(DynamicSyms)'
<1> DEFINE now == DynamicSyms'
           old == DynamicSyms
<1>1. now \in SUBSET old /\ IsFiniteSet(old)
  BY SymsFinite DEF DynamicSyms
<1>2. Cardinality(now) <= Cardinality(old) /\ Cardinality(now) \in Nat /\ Cardinality(old) \in Nat
  BY <1>1, FS_Subset, FS_CardinalityType
<1>3. Cardinality(DynamicSyms)' = Cardinality(now) /\ dynsymcount >= 1 + Cardinality(old)
  OBVIOUS
<1> HIDE DEF now, old
<1>4. QED
  BY <1>2, <1>3

\* The symbols that are dynamic from the start are counted.
LEMMA IndexInit == Init => IndexInv
<1> SUFFICES ASSUME Init PROVE IndexInv
  OBVIOUS
<1>1. /\ pc = "scan"
      /\ dynsymcount = 1 + Cardinality({h \in Syms : DynamicFromStart(link, h)})
      /\ \A h \in Syms :
           sym[h].dynindx = IF DynamicFromStart(link, h) THEN 0 ELSE NoOffset
  BY DEF Init, NewEntry
<1>2. DynamicSyms = {h \in Syms : DynamicFromStart(link, h)}
  BY <1>1 DEF DynamicSyms, NoOffset
<1>3. Cardinality(DynamicSyms) \in Nat
  BY SymsFinite DEF DynamicSyms
<1>4. dynsymcount >= 1 + Cardinality(DynamicSyms)
  BY <1>1, <1>2, <1>3
<1>5. QED
  BY <1>1, <1>4 DEF IndexInv, StubsLoadIndex, LaidOut

\* h is counted once when it turns out to be another name of a symbol.
LEMMA IndirectIndex ==
  ASSUME TypeInv, dynsymcount >= 1 + Cardinality(DynamicSyms),
         NEW h \in Syms, BecomeIndirect(h)
  PROVE  dynsymcount' >= 1 + Cardinality(DynamicSyms)'
<1> DEFINE t == link.indirect[h]
           now == DynamicSyms'
           old == DynamicSyms
<1>1. /\ dynsymcount' = dynsymcount /\ dynsymcount \in Nat /\ t \in Syms
      /\ h # t
  BY DEF BecomeIndirect, TypeInv, TypeOK, Link
<1>2. /\ \A k \in Syms \ {h, t} : sym'[k] = sym[k]
      /\ sym'[h].dynindx = NoOffset
      /\ sym'[t].dynindx = IF sym[h].dynindx # NoOffset THEN sym[h].dynindx
                           ELSE sym[t].dynindx
  BY BecomeIndirectEffect
<1>3. CASE sym[h].dynindx = NoOffset
  <2>1. \A k \in Syms : sym[k].dynindx = NoOffset => sym'[k].dynindx = NoOffset
    BY <1>1, <1>2, <1>3
  <2>2. QED
    BY <1>1, <2>1, NoneEntered
<1>4. CASE sym[h].dynindx # NoOffset
  <2>1. now \subseteq (old \ {h}) \cup {t} /\ h \in old
    BY <1>1, <1>2, <1>4 DEF DynamicSyms
  <2>2. IsFiniteSet(old) /\ IsFiniteSet(old \ {h})
    BY SymsFinite DEF DynamicSyms
  <2>3. Cardinality(DynamicSyms)' = Cardinality(now) /\ dynsymcount >= 1 + Cardinality(old)
    OBVIOUS
  <2> HIDE DEF now, old, t
  <2>4. Cardinality(old \ {h}) = Cardinality(old) - 1 /\ Cardinality(old) \in Nat
    BY <2>1, <2>2, FS_RemoveElement, FS_CardinalityType
  <2>5. /\ IsFiniteSet((old \ {h}) \cup {t})
        /\ Cardinality((old \ {h}) \cup {t}) \in Nat
        /\ Cardinality((old \ {h}) \cup {t}) <= Cardinality(old)
    <3>1. CASE t \in old \ {h}
      <4>1. (old \ {h}) \cup {t} = old \ {h}
        BY <3>1
      <4>2. Cardinality(old \ {h}) \in Nat /\ Cardinality(old \ {h}) <= Cardinality(old)
        BY <2>2, <2>4, FS_CardinalityType
      <4>3. QED
        BY <2>2, <4>1, <4>2
    <3>2. CASE t \notin old \ {h}
      <4>1. IsFiniteSet((old \ {h}) \cup {t})
            /\ Cardinality((old \ {h}) \cup {t}) = Cardinality(old \ {h}) + 1
        BY <2>2, <3>2, FS_AddElement
      <4>2. QED
        BY <2>4, <4>1
    <3>3. QED
      BY <3>1, <3>2
  <2>6. Cardinality(now) <= Cardinality((old \ {h}) \cup {t}) /\ Cardinality(now) \in Nat
    BY <2>1, <2>5, FS_Subset, FS_CardinalityType
  <2>7. QED
    BY <1>1, <2>3, <2>4, <2>5, <2>6
<1>5. QED
  BY <1>3, <1>4

\* Each symbol that enters the dynamic symbol table is counted.
LEMMA DecidingIndex ==
  ASSUME TypeInv, IndexInv, Deciding
  PROVE  IndexInv'
<1>1. /\ pc \in {"scan", "adjust"} /\ pc' \in {"scan", "adjust", "failed"}
  BY NotBegun
<1>2. dynsymcount >= 1 + Cardinality(DynamicSyms) /\ dynsymcount \in Nat
  BY <1>1 DEF IndexInv, TypeInv, TypeOK
<1>3. ASSUME NEW r \in DOMAIN refs, CheckReloc(r), pc' # "failed"
      PROVE  dynsymcount' >= 1 + Cardinality(DynamicSyms)'
  <2>1. CASE r.sym = Local
    <3>1. UNCHANGED <<sym, dynsymcount>>
      BY <1>3, <2>1 DEF CheckReloc
    <3>2. QED
      BY <1>2, <3>1, NoneEntered
  <2>2. CASE r.sym # Local
    <3>1. dynsymcount' = dynsymcount + NewDynsyms(sym, sym')
      BY <1>3, <2>2, Zenon DEF CheckReloc
    <3>2. QED
      BY <1>2, <3>1, Entered
  <2>3. QED
    BY <2>1, <2>2
<1>4. ASSUME NEW h \in Syms, BecomeIndirect(h)
      PROVE  dynsymcount' >= 1 + Cardinality(DynamicSyms)'
  BY <1>2, <1>4, IndirectIndex
<1>5. ASSUME EndScan
      PROVE  dynsymcount' >= 1 + Cardinality(DynamicSyms)'
  <2>1. dynsymcount' = dynsymcount /\ sym' = [h \in Syms |-> AtEnd(h)]
    BY <1>5 DEF EndScan, AtEnd
  <2>2. \A h \in Syms : sym'[h].dynindx = sym[h].dynindx
    BY <2>1, AtEndEntry DEF TypeInv
  <2>3. QED
    BY <1>2, <2>1, <2>2, NoneEntered
<1>6. ASSUME NEW h \in Syms, Adjust(h)
      PROVE  dynsymcount' >= 1 + Cardinality(DynamicSyms)'
  <2>1. dynsymcount' = dynsymcount
    BY <1>6 DEF Adjust, LazyStub, PltEntry, WeakAlias, NothingToAdjust, RefuseStatic,
                CopyReloc, Adjusting
  <2>2. \A k \in Syms : sym'[k].dynindx = sym[k].dynindx
    <3>1. CASE NothingToAdjust(h) \/ RefuseStatic(h)
      BY <3>1 DEF NothingToAdjust, RefuseStatic
    <3>2. CASE LazyStub(h) \/ PltEntry(h)
      BY <3>2, LazyStubEffect, PltEntryEffect
    <3>3. CASE WeakAlias(h) \/ CopyReloc(h)
      BY <3>3, WeakAliasEffect, CopyRelocEffect
    <3>4. QED
      BY <1>6, <3>1, <3>2, <3>3 DEF Adjust
  <2>3. QED
    BY <1>2, <2>1, <2>2, NoneEntered
<1>7. pc' # "failed" => dynsymcount' >= 1 + Cardinality(DynamicSyms)'
  BY <1>3, <1>4, <1>5, <1>6 DEF Deciding
<1>8. QED
  BY <1>1, <1>7 DEF IndexInv, StubsLoadIndex, LaidOut

\* Until the symbols are sorted; the estimate is the only step that looks at the
\* count.
LEMMA SizingIndex ==
  ASSUME TypeInv, IndexInv, Sizing, ~SortDynsyms
  PROVE  IndexInv'
<1>1. dynsymcount \in Nat /\ link' = link
  BY CountsKept DEF TypeInv, TypeOK
<1>2. /\ pc \in {"adjust", "estimate", "lay_out", "stubs"}
      /\ pc' \in {"estimate", "lay_out", "stubs", "sort"}
      /\ pc \in {"adjust", "estimate"} <=> pc' \in {"estimate", "lay_out"}
      /\ pc = "estimate" <=> pc' = "lay_out"
  BY DEF Sizing, AllocateDynrelocs, EstimateStubSize, LayOutGot, LayOutStubs
<1>3. dynsymcount >= 1 + Cardinality(DynamicSyms)
  BY <1>2 DEF IndexInv
<1>4. dynsymcount' >= 1 + Cardinality(DynamicSyms)'
  <2>1. CASE AllocateDynrelocs
    <3>1. dynsymcount' = dynsymcount + NewDynsyms(sym, sym')
      BY <2>1, Zenon DEF AllocateDynrelocs
    <3>2. QED
      BY <1>1, <1>3, <3>1, Entered
  <2>2. CASE EstimateStubSize \/ LayOutGot \/ LayOutStubs
    <3>1. dynsymcount' = dynsymcount
      BY <2>2 DEF EstimateStubSize, LayOutGot, LayOutStubs
    <3>2. \A h \in Syms : sym'[h].dynindx = sym[h].dynindx
      <4>1. CASE EstimateStubSize
        BY <4>1 DEF EstimateStubSize
      <4>2. QED
        BY <2>2, <4>1, LayOutGotEffect, LayOutStubsEffect DEF TypeInv
    <3>3. QED
      BY <1>1, <1>3, <3>1, <3>2, NoneEntered
  <2>3. QED
    BY <2>1, <2>2 DEF Sizing
<1>5. ASSUME pc' \in {"lay_out", "stubs", "sort"}, Stubs' # {}
      PROVE  (big_stubs \/ WorstDynsyms <= MaxIndex + 1)'
  <2>1. CASE EstimateStubSize
    <3>1. Stubs = Stubs' /\ WorstDynsyms' = WorstDynsyms /\ pc = "estimate"
      BY <2>1 DEF EstimateStubSize, Stubs, WorstDynsyms
    <3>2. lazy_stub_count # 0
      <4>1. IsFiniteSet(Stubs) /\ lazy_stub_count = Cardinality(Stubs)
        BY <3>1, SymsFinite DEF Stubs, TypeInv, StubCount
      <4>2. QED
        BY <1>5, <3>1, <4>1, FS_EmptySet
    <3>3. big_stubs' = (WorstDynsyms > MaxIndex + 1)
      BY <2>1, <3>2 DEF EstimateStubSize
    <3>4. WorstDynsyms \in Int /\ MaxIndex \in Int
      BY <1>1, BoundsAssumption DEF WorstDynsyms
    <3>5. WorstDynsyms > MaxIndex + 1 \/ WorstDynsyms' <= MaxIndex + 1
      BY <3>1, <3>4
    <3>6. QED
      BY <3>3, <3>5
  <2>2. CASE LayOutGot \/ LayOutStubs
    <3>1. UNCHANGED <<link, big_stubs, dynsymcount>> /\ pc \in {"lay_out", "stubs"}
      BY <2>2 DEF LayOutGot, LayOutStubs
    <3>2. \A h \in Syms : sym'[h].needs_lazy_stub => sym[h].needs_lazy_stub
      BY <2>2, LayOutGotEffect, LayOutStubsEffect DEF TypeInv
    <3>3. Stubs # {}
      BY <1>5, <3>2 DEF Stubs
    <3>4. QED
      BY <3>1, <3>3 DEF IndexInv, WorstDynsyms
  <2>3. QED
    BY <1>2, <1>5, <2>1, <2>2 DEF Sizing, AllocateDynrelocs
<1>6. QED
  BY <1>2, <1>4, <1>5 DEF IndexInv, StubsLoadIndex, LaidOut

\* The final indices stay below the estimate.
LEMMA SortIndex ==
  ASSUME TypeInv, SymInv, IndexInv, SortDynsyms
  PROVE  IndexInv'
<1> USE DEF TypeInv
<1>1. /\ pc = "sort" /\ pc' = "relocate" /\ UNCHANGED <<link, forwarded, big_stubs>>
  BY DEF SortDynsyms
<1>2. ASSUME NEW h \in Proper, sym'[h].section = "stubs"
      PROVE  big_stubs \/ sym'[h].dynindx <= MaxIndex
  <2>1. h \in Syms /\ sym'[h].section = sym[h].section
    BY SortEffect DEF Proper
  <2>2. h \in Stubs
    BY <1>1, <1>2, <2>1 DEF SymInv, Disposition, Disposed, Stubs
  <2>3. big_stubs \/ WorstDynsyms <= MaxIndex + 1
    BY <1>1, <2>2 DEF IndexInv
  <2>4. PICK sections \in 0..(IF link.shared THEN SectionDynsyms ELSE 0),
             pos \in Orders(ProperDynamic) :
          \A k \in Syms :
             sym'[k].dynindx = IF k \in ProperDynamic THEN sections + pos[k]
                               ELSE sym[k].dynindx
    BY SortEffect
  <2>5. /\ sections \in Nat /\ sections <= (IF link.shared THEN SectionDynsyms ELSE 0)
        /\ SectionDynsyms \in Nat /\ MaxIndex \in Nat
        /\ dynsymcount \in Nat
    BY BoundsAssumption DEF TypeOK
  <2>6. /\ Cardinality(ProperDynamic) \in Nat /\ Cardinality(DynamicSyms) \in Nat
        /\ Cardinality(ProperDynamic) <= Cardinality(DynamicSyms)
    <3>1. ProperDynamic \in SUBSET DynamicSyms /\ IsFiniteSet(DynamicSyms)
      BY SymsFinite DEF ProperDynamic, DynamicSyms, Proper
    <3>2. QED
      BY <3>1, FS_Subset, FS_CardinalityType
  <2>7. dynsymcount >= 1 + Cardinality(DynamicSyms)
    BY <1>1 DEF IndexInv
  <2>8. CASE h \in ProperDynamic
    <3>1. pos[h] \in 1..Cardinality(ProperDynamic) /\ sym'[h].dynindx = sections + pos[h]
      BY <2>1, <2>4, <2>8, OrderedIn
    <3>2. sym'[h].dynindx <= WorstDynsyms - 1
      BY <2>5, <2>6, <2>7, <3>1 DEF WorstDynsyms
    <3>3. WorstDynsyms \in Int /\ sym'[h].dynindx \in Int
      BY <2>5, <2>6, <3>1 DEF WorstDynsyms
    <3>4. QED
      BY <2>3, <2>5, <3>2, <3>3
  <2>9. CASE h \notin ProperDynamic
    <3>1. sym'[h].dynindx = NoOffset
      BY <1>2, <2>1, <2>4, <2>9 DEF ProperDynamic
    <3>2. QED
      BY <2>5, <3>1 DEF NoOffset
  <2>10. QED
    BY <2>8, <2>9
<1>3. QED
  BY <1>1, <1>2 DEF IndexInv, StubsLoadIndex, Proper

\* Every step keeps the count of dynamic symbols and the size of stubs.
LEMMA IndexNext == TypeInv /\ SymInv /\ IndexInv /\ [Next]_vars => IndexInv'
<1> SUFFICES ASSUME TypeInv, SymInv, IndexInv, [Next]_vars PROVE IndexInv'
  OBVIOUS
<1>1. CASE Writing
  <2>1. /\ UNCHANGED <<link, forwarded, sym, big_stubs>>
        /\ pc \in {"relocate", "finish"} /\ pc' \in {"relocate", "finish", "finished"}
    BY <1>1 DEF Writing, RelocateSection, EndRelocate, FinishSymbol, FinishSections
  <2>2. StubsLoadIndex'
    BY <2>1 DEF IndexInv, StubsLoadIndex, LaidOut, Proper
  <2>3. QED
    BY <2>1, <2>2 DEF IndexInv
<1>2. CASE UNCHANGED vars
  <2>1. UNCHANGED <<pc, link, forwarded, sym, big_stubs, dynsymcount>>
    BY <1>2 DEF vars
  <2>2. UNCHANGED <<DynamicSyms, Stubs, WorstDynsyms, StubsLoadIndex>>
    BY <2>1 DEF DynamicSyms, Stubs, WorstDynsyms, StubsLoadIndex, LaidOut, Proper
  <2>3. QED
    BY <2>1, <2>2 DEF IndexInv
<1>3. QED
  BY <1>1, <1>2, NextSteps, DecidingIndex, SizingIndex, SortIndex DEF Sizing

-----------------------------------------------------------------------------
(***************************************************************************)
(* GOT entries of the symbols that relocations name.                       *)
(***************************************************************************)
\* No symbol has relocations to copy yet.
LEMMA AreaInit == Init => AreaInv
BY DEF Init, AreaInv

\* allocate_dynrelocs gives every symbol with relocations a GOT entry that is not
\* for calls only; what is not dynamic then binds locally or needs no relocation.
LEMMA AllocateArea ==
  ASSUME TypeInv, SymInv, AllocateDynrelocs
  PROVE  AreaInv'
<1> USE DEF TypeInv
<1>1. /\ pc = "adjust" /\ pc' = "estimate" /\ UNCHANGED <<link, forwarded>>
  BY DEF AllocateDynrelocs
<1>2. ASSUME NEW h \in Proper, CopiesRelocs(h)'
      PROVE  /\ sym'[h].global_got_area # "NONE" /\ ~sym'[h].got_only_for_calls
             /\ sym'[h].dynindx = NoOffset => Hidden(h) \/ (~link.shared /\ ~DefDynamic(h))
  <2>1. h \in Syms /\ h \in CopiedSyms
    BY <1>2, CountsKept DEF CopiedSyms, Sizing, Proper
  <2>2. sym'[h].dynindx = NoOffset => sym[h].dynindx = NoOffset
    BY <2>1, AllocateEffect
  <2>3. sym[h].dynindx = NoOffset => ~DynamicFromStart(link, h)
    BY <1>1, <1>2, <2>1 DEF SymInv, Entries, EntryOK
  <2>4. ~DynamicFromStart(link, h) => Hidden(h) \/ (~link.shared /\ ~DefDynamic(h))
    BY DEF DynamicFromStart, Hidden, DefDynamic
  <2>5. QED
    BY <2>1, <2>2, <2>3, <2>4, AllocateEffect
<1>3. QED
  BY <1>1, <1>2 DEF AreaInv, Proper, Hidden, DefDynamic, DefRegular

\* mips_elf_count_got_symbols takes out what binds locally.
LEMMA LayOutGotArea ==
  ASSUME TypeInv, AreaInv, LayOutGot
  PROVE  AreaInv'
<1> USE DEF TypeInv
<1>1. /\ pc = "lay_out" /\ pc' = "stubs" /\ UNCHANGED <<link, forwarded>>
  BY DEF LayOutGot
<1>2. ASSUME NEW h \in Proper, CopiesRelocs(h)'
      PROVE  \/ BindsLocally(h, sym[h], FALSE)' \/ sym'[h].global_got_area # "NONE"
             \/ (~link.shared /\ ~DefDynamic(h))
  <2>1. h \in Syms /\ CopiesRelocs(h)
    BY <1>2, CountsKept DEF Sizing, Proper
  <2>2. /\ sym[h].global_got_area # "NONE" /\ ~sym[h].got_only_for_calls
        /\ sym[h].dynindx = NoOffset => Hidden(h) \/ DefRegular(h)
                                        \/ (~link.shared /\ ~DefDynamic(h))
    BY <1>1, <1>2, <2>1 DEF AreaInv
  <2>3. /\ sym'[h].global_got_area = FinalArea(h)
        /\ sym'[h].dynindx = sym[h].dynindx /\ sym'[h].func = sym[h].func
    BY <2>1, LayOutGotEffect
  <2>4. BindsLocally(h, sym[h], FALSE)' <=> BindsLocally(h, sym[h], FALSE)
    BY <1>1, <2>3 DEF BindsLocally, Hidden, DefRegular
  <2>5. CASE sym[h].dynindx = NoOffset
    BY <2>2, <2>4, <2>5 DEF BindsLocally
  <2>6. CASE sym[h].dynindx # NoOffset /\ ~BindsLocally(h, sym[h], FALSE)
    <3>1. ~BindsLocally(h, sym[h], sym[h].got_only_for_calls)
      BY <2>2, <2>6 DEF BindsLocally
    <3>2. QED
      BY <2>2, <2>3, <2>6, <3>1 DEF FinalArea
  <2>7. QED
    BY <2>4, <2>5, <2>6
<1>3. QED
  BY <1>1, <1>2 DEF AreaInv, Proper, DefDynamic

\* Later steps change neither areas nor what binds locally.
LEMMA AreaFrame ==
  ASSUME TypeInv, AreaInv, UNCHANGED <<link, forwarded>>,
         \/ pc \in {"estimate", "lay_out"} /\ pc' \in {"estimate", "lay_out"}
         \/ /\ pc \in {"stubs", "sort", "relocate", "finish", "finished"}
            /\ pc' \in {"stubs", "sort", "relocate", "finish", "finished"},
         \A h \in Syms :
           /\ CopiesRelocs(h)' => CopiesRelocs(h)
           /\ sym'[h].global_got_area = sym[h].global_got_area
           /\ sym'[h].got_only_for_calls = sym[h].got_only_for_calls
           /\ sym'[h].func = sym[h].func
           /\ sym'[h].dynindx = NoOffset <=> sym[h].dynindx = NoOffset
  PROVE  AreaInv'
<1>1. \A h \in Syms :
        /\ BindsLocally(h, sym[h], FALSE)' <=> BindsLocally(h, sym[h], FALSE)
        /\ Hidden(h)' <=> Hidden(h)
        /\ DefRegular(h)' <=> DefRegular(h)
        /\ DefDynamic(h)' <=> DefDynamic(h)
  BY DEF BindsLocally, Hidden, DefRegular, DefDynamic
<1>2. \A h \in Proper : h \in Syms
  BY DEF Proper
<1>3. Proper' = Proper
  BY DEF Proper
<1>4. QED
  BY <1>1, <1>2, <1>3 DEF AreaInv

\* Every step keeps the GOT entries that relocations need.
LEMMA AreaNext == TypeInv /\ SymInv /\ AreaInv /\ [Next]_vars => AreaInv'
<1> SUFFICES ASSUME TypeInv, SymInv, AreaInv, [Next]_vars PROVE AreaInv'
  OBVIOUS
<1>1. CASE Deciding
  <2>1. pc' \in {"scan", "adjust", "failed"}
    BY <1>1, NotBegun
  <2>2. QED
    BY <2>1 DEF AreaInv
<1>2. CASE Sizing \/ Writing
  <2>1. /\ UNCHANGED <<link, forwarded>>
        /\ \A h \in Syms : CopiesRelocs(h)' <=> CopiesRelocs(h)
    BY <1>2, CountsKept DEF TypeInv
  <2>2. CASE AllocateDynrelocs \/ LayOutGot
    BY <2>2, AllocateArea, LayOutGotArea
  <2>3. CASE EstimateStubSize \/ Writing
    <3>1. /\ sym' = sym
          /\ \/ pc = "estimate" /\ pc' = "lay_out"
             \/ /\ pc \in {"relocate", "finish"}
                /\ pc' \in {"relocate", "finish", "finished"}
      BY <2>3 DEF EstimateStubSize, Writing, RelocateSection, EndRelocate, FinishSymbol,
                  FinishSections
    <3>2. QED
      BY <2>1, <3>1, AreaFrame
  <2>4. CASE LayOutStubs
    <3>1. pc = "stubs" /\ pc' = "sort"
      BY <2>4 DEF LayOutStubs
    <3>2. QED
      BY <2>1, <2>4, <3>1, LayOutStubsEffect, AreaFrame DEF TypeInv
  <2>5. CASE SortDynsyms
    <3>1. pc = "sort" /\ pc' = "relocate"
      BY <2>5 DEF SortDynsyms
    <3>2. \A h \in Syms :
            /\ sym'[h].global_got_area = sym[h].global_got_area
            /\ sym'[h].got_only_for_calls = sym[h].got_only_for_calls
            /\ sym'[h].func = sym[h].func
      BY <2>5, SortEffect DEF TypeInv
    <3>3. \A h \in Syms : sym'[h].dynindx = NoOffset <=> sym[h].dynindx = NoOffset
      BY <2>5, SortedIndices DEF TypeInv
    <3>4. QED
      BY <2>1, <3>1, <3>2, <3>3, AreaFrame
  <2>6. QED
    BY <1>2, <2>2, <2>3, <2>4, <2>5 DEF Sizing
<1>3. CASE UNCHANGED vars
  <2>1. UNCHANGED <<pc, link, forwarded, sym>>
    BY <1>3 DEF vars
  <2>2. QED
    BY <2>1 DEF AreaInv, Proper, CopiesRelocs, DefRegular, DefDynamic, Hidden, BindsLocally
<1>4. QED
  BY <1>1, <1>2, <1>3, NextSteps

\* The invariant covers the symbols that relocations name.
LEMMA AreaKept == TypeInv /\ SymInv /\ AreaInv => GotAreaKept
<1> SUFFICES ASSUME TypeInv, SymInv, AreaInv, LaidOut,
                    NEW r \in DOMAIN refs, WasScanned(r), r.sym # Local, Emits(r)
             PROVE  LET h == Target(r.sym) IN
                    BindsLocally(h, sym[h], FALSE) \/ sym[h].global_got_area # "NONE"
  BY DEF GotAreaKept
<1> DEFINE h == Target(r.sym)
<1>1. h \in Proper /\ CopiesRelocs(h)
  BY EmitsCopied DEF LaidOut, WasScanned
<1>2. link.shared \/ DefDynamic(h)
  BY DEF Emits
<1>3. QED
  BY <1>1, <1>2 DEF AreaInv, LaidOut

-----------------------------------------------------------------------------
(***************************************************************************)
(* PLT entries and stubs that are written.                                 *)
(***************************************************************************)
\* Nothing is written.
LEMMA WrittenInit == Init => WrittenInv
BY DEF Init, WrittenInv

\* What would be written for a symbol.
LEMMA EntryFacts ==
  ASSUME NEW h, NEW w \in EntriesOf(h)
  PROVE  /\ w.sym = h /\ w.offset = sym[h].plt /\ sym[h].plt # NoOffset
         /\ w.part \in {"plt", "stubs"}
         /\ w.part = "plt" <=> sym[h].no_fn_stub
         /\ w.part = "plt" => w.exported = sym[h].pointer_equality_needed
BY DEF EntriesOf, Entry

\* Entries are written for one dynamic symbol after the other.
LEMMA WritingWritten ==
  ASSUME TypeInv, WrittenInv, Writing
  PROVE  WrittenInv'
<1>1. UNCHANGED <<link, forwarded, sym>>
  BY DEF Writing, RelocateSection, EndRelocate, FinishSymbol, FinishSections
<1>2. \A h : EntriesOf(h)' = EntriesOf(h)
  BY <1>1 DEF EntriesOf, Entry
<1>3. Proper' = Proper /\ DynamicSyms' = DynamicSyms
  BY <1>1 DEF Proper, DynamicSyms
<1>4. CASE \E sec \in InputSections : RelocateSection(sec)
  <2>1. pc' = "relocate" /\ written' = written
    BY <1>4 DEF RelocateSection
  <2>2. QED
    BY <1>2, <2>1 DEF WrittenInv
<1>5. CASE EndRelocate
  <2>1. /\ pc' = "finish" /\ written' = written
        /\ todo' = {h \in Proper : sym[h].dynindx # NoOffset}
    BY <1>5 DEF EndRelocate
  <2>2. todo' = Proper \cap DynamicSyms
    BY <2>1 DEF Proper, DynamicSyms
  <2>3. QED
    BY <1>2, <1>3, <2>1, <2>2 DEF WrittenInv
<1>6. CASE \E h \in Syms : FinishSymbol(h)
  <2>1. PICK h \in Syms : FinishSymbol(h)
    BY <1>6
  <2>2. /\ pc = "finish" /\ pc' = "finish" /\ h \in todo /\ todo' = todo \ {h}
        /\ written' = written \cup EntriesOf(h)
    BY <2>1 DEF FinishSymbol
  <2>3. \A w \in written' : w.sym \in Syms /\ w \in EntriesOf(w.sym)
    BY <2>2, EntryFacts DEF WrittenInv
  <2>4. todo' \subseteq Proper \cap DynamicSyms
    BY <2>2 DEF WrittenInv
  <2>5. \A k \in (Proper \cap DynamicSyms) \ todo' : EntriesOf(k) \subseteq written'
    BY <2>2 DEF WrittenInv
  <2>6. QED
    BY <1>2, <1>3, <2>2, <2>3, <2>4, <2>5 DEF WrittenInv
<1>7. CASE FinishSections
  <2>1. pc = "finish" /\ pc' = "finished" /\ UNCHANGED <<todo, written>> /\ todo = {}
    BY <1>7 DEF FinishSections
  <2>2. QED
    BY <1>2, <1>3, <2>1 DEF WrittenInv
<1>8. QED
  BY <1>4, <1>5, <1>6, <1>7 DEF Writing

\* Every step keeps the account of written entries.
LEMMA WrittenNext == TypeInv /\ RoomInv /\ WrittenInv /\ [Next]_vars => WrittenInv'
<1> SUFFICES ASSUME TypeInv, RoomInv, WrittenInv, [Next]_vars PROVE WrittenInv'
  OBVIOUS
<1>1. CASE Deciding
  <2>1. written' = {} /\ pc' \in {"scan", "adjust", "failed"}
    BY <1>1, NotBegun DEF RoomInv
  <2>2. QED
    BY <2>1 DEF WrittenInv
<1>2. CASE Sizing
  <2>1. written' = {} /\ pc' \in {"estimate", "lay_out", "stubs", "sort", "relocate"}
    BY <1>2 DEF Sizing, AllocateDynrelocs, EstimateStubSize, LayOutGot, LayOutStubs,
                SortDynsyms, RoomInv
  <2>2. QED
    BY <2>1 DEF WrittenInv
<1>3. CASE UNCHANGED vars
  <2>1. UNCHANGED <<pc, link, forwarded, sym, todo, written>>
    BY <1>3 DEF vars
  <2>2. (\A h : EntriesOf(h)' = EntriesOf(h)) /\ Proper' = Proper /\ DynamicSyms' = DynamicSyms
    BY <2>1 DEF EntriesOf, Entry, Proper, DynamicSyms
  <2>3. QED
    BY <2>1, <2>2 DEF WrittenInv
<1>4. QED
  BY <1>1, <1>2, <1>3, NextSteps, WritingWritten

\* An entry that has been written, with what was decided about its symbol.
LEMMA WrittenEntry ==
  ASSUME TypeInv, SymInv, RoomInv, WrittenInv, NEW w \in written
  PROVE  /\ pc \in {"relocate", "finish", "finished"}
         /\ w.sym \in Syms /\ w \in EntriesOf(w.sym)
         /\ w.part = "plt" <=> ~sym[w.sym].needs_lazy_stub
         /\ w.part = "plt" =>
              w.sym \in PltSyms /\ link.use_plts /\ ~DefRegular(w.sym) /\ w.offset \in 0..(plts - 1)
         /\ w.part = "stubs" =>
              w.sym \in Stubs /\ w.offset \in 0..(Cardinality(Stubs) - 1)
<1> DEFINE h == w.sym
<1>1. pc \in {"relocate", "finish", "finished"}
  BY DEF RoomInv, TypeInv, TypeOK
<1>2. h \in Syms /\ w \in EntriesOf(h)
  BY DEF WrittenInv
<1>3. /\ w.offset = sym[h].plt /\ sym[h].plt # NoOffset
      /\ w.part \in {"plt", "stubs"} /\ (w.part = "plt" <=> sym[h].no_fn_stub)
  BY <1>2, EntryFacts
<1>4. /\ sym[h].needs_lazy_stub => ~sym[h].no_fn_stub
      /\ ~sym[h].needs_lazy_stub =>
           sym[h].no_fn_stub /\ link.use_plts /\ ~DefRegular(h)
  BY <1>1, <1>2, <1>3 DEF SymInv, Disposition, Disposed
<1>5. w.part = "plt" => h \in PltSyms /\ w.offset \in Offsets(PltSyms)
  BY <1>2, <1>3, <1>4 DEF PltSyms, Offsets
<1>6. w.part = "stubs" => h \in Stubs /\ w.offset \in Offsets(Stubs)
  BY <1>2, <1>3, <1>4 DEF Stubs, Offsets
<1>7. Offsets(PltSyms) = 0..(plts - 1) /\ Offsets(Stubs) = 0..(Cardinality(Stubs) - 1)
  BY <1>1 DEF SymInv, Disposition
<1>8. QED
  BY <1>1, <1>2, <1>3, <1>4, <1>5, <1>6, <1>7

\* In the end, the entry of each symbol that has one is written.
LEMMA AllWritten ==
  ASSUME TypeInv, SymInv, RoomInv, WrittenInv, pc = "finished"
  PROVE  /\ \A h \in PltSyms : \E w \in written : w.part = "plt" /\ w.offset = sym[h].plt
         /\ \A h \in Stubs : \E w \in written : w.part = "stubs" /\ w.offset = sym[h].plt
<1>1. ASSUME NEW h \in PltSyms \cup Stubs
      PROVE  h \in Syms /\ h \in Proper /\ h \in DynamicSyms /\ sym[h].plt # NoOffset
  <2>1. h \in Syms /\ Disposed(h) /\ EntryOK(h)
    BY <1>1 DEF PltSyms, Stubs, SymInv, Disposition, Entries
  <2>2. h \in Proper
    BY <1>1, <2>1 DEF PltSyms, Stubs, Disposed, Untouched, Proper
  <2>3. CASE h \in PltSyms
    BY <2>1, <2>2, <2>3 DEF PltSyms, Disposed, DynamicSyms
  <2>4. CASE h \in Stubs
    <3>1. sym[h].needs_plt /\ ~DefRegular(h)
      BY <2>1, <2>4 DEF Stubs, Disposed
    <3>2. sym[h].dynindx # NoOffset
      BY <2>1, <2>2, <3>1 DEF EntryOK
    <3>3. sym[h].plt \in 0..(Cardinality(Stubs) - 1)
      <4>1. sym[h].plt \in Offsets(Stubs)
        BY <2>4 DEF Offsets
      <4>2. QED
        BY <4>1 DEF SymInv, Disposition
    <3>4. QED
      BY <2>1, <2>2, <3>2, <3>3 DEF DynamicSyms, NoOffset
  <2>5. QED
    BY <1>1, <2>3, <2>4
<1>2. ASSUME NEW h \in PltSyms \cup Stubs
      PROVE  EntriesOf(h) \subseteq written
  BY <1>1, <1>2 DEF WrittenInv
<1>3. ASSUME NEW h \in PltSyms
      PROVE  \E w \in written : w.part = "plt" /\ w.offset = sym[h].plt
  <2>1. sym[h].no_fn_stub
    BY <1>1, <1>3 DEF PltSyms, SymInv, Disposition, Disposed
  <2>2. Entry("plt", h, sym[h].pointer_equality_needed) \in written
    BY <1>1, <1>2, <1>3, <2>1 DEF EntriesOf
  <2>3. QED
    BY <2>2 DEF Entry
<1>4. ASSUME NEW h \in Stubs
      PROVE  \E w \in written : w.part = "stubs" /\ w.offset = sym[h].plt
  <2>1. ~sym[h].no_fn_stub
    BY <1>1, <1>4 DEF Stubs, SymInv, Disposition, Disposed
  <2>2. Entry("stubs", h, TRUE) \in written
    BY <1>1, <1>2, <1>4, <2>1 DEF EntriesOf
  <2>3. QED
    BY <2>2 DEF Entry
<1>5. QED
  BY <1>3, <1>4

\* The invariants say what is promised about PLT entries and stubs.
LEMMA Allocated == TypeInv /\ SymInv /\ RoomInv /\ WrittenInv => WrittenAsAllocated
<1> SUFFICES ASSUME TypeInv, SymInv, RoomInv, WrittenInv PROVE WrittenAsAllocated
  OBVIOUS
<1>1. OneAddress
  <2> SUFFICES ASSUME NEW w \in written, w.part = "plt",
                      NEW r \in DOMAIN refs, WasScanned(r), r.sym # Local, NeedsValue(r),
                      Target(r.sym) = w.sym
               PROVE  w.exported
    BY DEF OneAddress
  <2>1. w.exported = sym[w.sym].pointer_equality_needed
    BY WrittenEntry, EntryFacts
  <2>2. Flags
    BY WrittenEntry DEF SymInv
  <2>3. sym[w.sym].pointer_equality_needed
    BY <2>2 DEF Flags, Recalls
  <2>4. QED
    BY <2>1, <2>3
<1>2. /\ IsFiniteSet(Stubs) /\ Cardinality(Stubs) \in Nat
      /\ Stubs = {} <=> Cardinality(Stubs) = 0
      /\ plts \in Nat /\ sstubs \in Nat
  BY SymsFinite, FS_EmptySet DEF Stubs, TypeInv, TypeOK
<1>3. LaidOut => /\ sstubs = lazy_stub_count
                 /\ sstubs = Cardinality(Stubs) + 1 \/ (sstubs = 0 /\ Stubs = {})
  BY DEF LaidOut, TypeInv, StubCount
<1>4. ASSUME NEW w \in written
      PROVE  /\ w.part = "plt" <=> ~sym[w.sym].needs_lazy_stub
             /\ w.part = "plt" => link.use_plts /\ ~DefRegular(w.sym) /\ w.offset < plts
             /\ w.part = "stubs" => w.offset < sstubs - 1
  <2>1. w.part = "plt" => w.offset < plts
    BY <1>2, WrittenEntry
  <2>2. w.part = "stubs" => w.offset < sstubs - 1
    BY <1>2, <1>3, WrittenEntry DEF LaidOut
  <2>3. QED
    BY <2>1, <2>2, WrittenEntry
<1>5. ASSUME pc = "finished"
      PROVE  /\ {w.offset : w \in {w \in written : w.part = "plt"}} = 0..(plts - 1)
             /\ {w.offset : w \in {w \in written : w.part = "stubs"}} = 0..(sstubs - 2)
             /\ \A h \in Proper : sym[h].needs_copy => sym[h].dynindx # NoOffset
  <2>1. Offsets(PltSyms) = 0..(plts - 1) /\ Offsets(Stubs) = 0..(Cardinality(Stubs) - 1)
    BY <1>5 DEF SymInv, Disposition
  <2>2. 0..(Cardinality(Stubs) - 1) = 0..(sstubs - 2)
    BY <1>2, <1>3, <1>5 DEF LaidOut
  <2>3. \A w \in written : w.part = "plt" => w.offset \in 0..(plts - 1)
    BY WrittenEntry
  <2>4. \A w \in written : w.part = "stubs" => w.offset \in 0..(Cardinality(Stubs) - 1)
    BY WrittenEntry
  <2>5. \A i \in Offsets(PltSyms) : \E w \in written : w.part = "plt" /\ w.offset = i
    BY <1>5, AllWritten DEF Offsets
  <2>6. \A i \in Offsets(Stubs) : \E w \in written : w.part = "stubs" /\ w.offset = i
    BY <1>5, AllWritten DEF Offsets
  <2>7. {w.offset : w \in {w \in written : w.part = "plt"}} = 0..(plts - 1)
    <3> DEFINE found == {w \in written : w.part = "plt"}
    <3>1. \A w \in found : w.offset \in 0..(plts - 1)
      BY <2>3
    <3>2. \A i \in 0..(plts - 1) : \E w \in found : w.offset = i
      BY <2>1, <2>5
    <3> HIDE DEF found
    <3>3. {w.offset : w \in found} = 0..(plts - 1)
      BY <3>1, <3>2
    <3>4. QED
      BY <3>3 DEF found
  <2>8. {w.offset : w \in {w \in written : w.part = "stubs"}} = 0..(sstubs - 2)
    <3> DEFINE found == {w \in written : w.part = "stubs"}
               places == 0..(sstubs - 2)
    <3>1. \A w \in found : w.offset \in places
      BY <2>2, <2>4
    <3>2. \A i \in places : \E w \in found : w.offset = i
      BY <2>1, <2>2, <2>6
    <3> HIDE DEF found, places
    <3>3. {w.offset : w \in found} = places
      BY <3>1, <3>2
    <3>4. QED
      BY <3>3 DEF found, places
  <2>9. \A h \in Proper : sym[h].needs_copy => sym[h].dynindx # NoOffset
    BY <1>5 DEF SymInv, Disposition, Disposed, Proper
  <2>10. QED
    BY <2>7, <2>8, <2>9
<1>6. QED
  BY <1>1, <1>3, <1>4, <1>5 DEF WrittenAsAllocated

-----------------------------------------------------------------------------
(***************************************************************************)
(* The theorems.                                                           *)
(***************************************************************************)
\* What the entries of the symbols recall of the scanned relocations, and what
\* adjust_dynamic_symbol has made of each symbol.
THEOREM SymInvariance == Spec => []SymInv
<1>1. Init => SymInv
  BY SymInit
<1>2. TypeInv /\ SymInv /\ [Next]_vars => SymInv'
  BY SymNext, TypeNext
<1>3. QED
  BY <1>1, <1>2, TypeInvariance, PTL DEF Spec

\* What is reserved in .rel.dyn, and what has been written of it, in terms of the
\* relocations that check_relocs has seen.
THEOREM RoomInvariance == Spec => []RoomInv
<1>1. Init => RoomInv
  BY RoomInit
<1>2. TypeInv /\ SymInv /\ RoomInv /\ [Next]_vars => RoomInv'
  BY RoomNext
<1>3. QED
  BY <1>1, <1>2, TypeInvariance, SymInvariance, PTL DEF Spec

\* The relocations that relocate_section and finish_dynamic_symbol write fit in
\* the room that check_relocs, adjust_dynamic_symbol and allocate_dynrelocs have
\* reserved; in a shared object nothing is left over.
THEOREM RelocsFitTheirRoom == Spec => []RoomForRelocs
<1>1. TypeInv /\ SymInv /\ RoomInv => RoomForRelocs
  BY Suffices
<1>2. QED
  BY <1>1, TypeInvariance, SymInvariance, RoomInvariance, PTL

\* calculate_relocation resolves no reference to an address inside a library.
THEOREM NothingInLibrary == Spec => []ResolvedInOutput
<1>1. TypeInv /\ SymInv => ResolvedInOutput
  BY Resolved
<1>2. QED
  BY <1>1, TypeInvariance, SymInvariance, PTL

\* finish_dynamic_symbol writes every PLT entry and stub where it was allocated,
\* and shows the address of a function wherever it was used.
THEOREM AllocatedIsWritten == Spec => []WrittenAsAllocated
<1>1. Init => WrittenInv
  BY WrittenInit
<1>2. TypeInv /\ RoomInv /\ WrittenInv /\ [Next]_vars => WrittenInv'
  BY WrittenNext
<1>3. TypeInv /\ SymInv /\ RoomInv /\ WrittenInv => WrittenAsAllocated
  BY Allocated
<1>4. QED
  BY <1>1, <1>2, <1>3, TypeInvariance, SymInvariance, RoomInvariance, PTL DEF Spec

\* The symbols that dynamic relocations name keep their GOT entries when
\* mips_elf_count_got_symbols takes out those that bind locally.
THEOREM RelocsKeepGotEntries == Spec => []GotAreaKept
<1>1. Init => AreaInv
  BY AreaInit
<1>2. TypeInv /\ SymInv /\ AreaInv /\ [Next]_vars => AreaInv'
  BY AreaNext
<1>3. TypeInv /\ SymInv /\ AreaInv => GotAreaKept
  BY AreaKept
<1>4. QED
  BY <1>1, <1>2, <1>3, TypeInvariance, SymInvariance, PTL DEF Spec

\* mips_elf_estimate_stub_size chooses stubs that can load whatever index
\* mips_elf_sort_hash_table gives their symbols later.
THEOREM StubsReachTheirSymbols == Spec => []StubsLoadIndex
<1>1. Init => IndexInv
  BY IndexInit
<1>2. TypeInv /\ SymInv /\ IndexInv /\ [Next]_vars => IndexInv'
  BY IndexNext
<1>3. IndexInv => StubsLoadIndex
  BY DEF IndexInv
<1>4. QED
  BY <1>1, <1>2, <1>3, TypeInvariance, SymInvariance, PTL DEF Spec

\* A DT_TEXTREL entry is there whenever a relocation of a read-only section is
\* written.
THEOREM TextRelocsAnnounced == Spec => []TextRelTagged
<1>1. Init => TextInv
  BY TextInit
<1>2. TypeInv /\ SymInv /\ TextInv /\ [Next]_vars => TextInv'
  BY TextNext
<1>3. TextInv => TextRelTagged
  BY Tagged
<1>4. QED
  BY <1>1, <1>2, <1>3, TypeInvariance, SymInvariance, PTL DEF Spec
=============================================================================
