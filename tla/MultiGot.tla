------------------------------ MODULE MultiGot ------------------------------
(***************************************************************************)
(* The global offset table of one link, from the entries that the scan of  *)
(* the input relocations recorded to the slots that the relocations use.   *)
(*                                                                         *)
(* A GOT that fits in 16-bit addressing is laid out as it is.  One that    *)
(* does not is split (mips_elf_multi_got): every input bfd gets a GOT of   *)
(* its own, these are merged again as long as the sum seems to fit, one of *)
(* them being the primary GOT; each GOT is given a range of the section,   *)
(* its TLS entries and, in the secondary GOTs, its global entries are      *)
(* given indices; room is reserved for the dynamic relocations that the    *)
(* slots will need.  The dynamic symbols are then sorted, which places the *)
(* global entries of the primary GOT, and the input bfds are relocated.    *)
(*                                                                         *)
(* Every htab_traverse visits its entries in an arbitrary order: here it   *)
(* is one action per entry, or one choice of an order.  Counts are in GOT  *)
(* entries, not bytes.  A local entry stands for a (symndx, addend) pair;  *)
(* the addresses of different entries are taken to be different.           *)
(***************************************************************************)
EXTENDS Integers, Sequences, FiniteSets, Functions

CONSTANTS
  Bfds,       \* input bfds
  OutputBfd,  \* the output bfd; also names the GOT that is no input bfd's own
  Syms,       \* global symbols
  LocalSyms,  \* local symbols: an entry for one belongs to one bfd
  LdmModule,  \* stands for symndx 0, the symbol of an LDM entry
  MaxGotNo,   \* MIPS_ELF_GOT_MAX_SIZE / MIPS_ELF_GOT_SIZE
  Reserved,   \* htab->reserved_gotno
  Links       \* the recorded inputs: see LinksAssumption

\* GOT_TLS_GD, GOT_TLS_LDM, GOT_TLS_IE.
GD == "GD"
LDM == "LDM"
IE == "IE"

TlsTypes == {{}, {GD}, {IE}, {GD, IE}, {LDM}}

\* struct mips_got_entry, without the index it is given later.
Entry == [abfd : Bfds \cup {OutputBfd}, sym : Syms \cup LocalSyms \cup {LdmModule},
          tls : TlsTypes]

(***************************************************************************)
(* What the scan leaves behind.  entries is the master hash table: at most *)
(* one entry for each (abfd, sym).  page_gotno is what the page entries of *)
(* each bfd may need, pages what the whole output may need (PageEstimate   *)
(* of GotPages).  reloc_only are the symbols that dynamic relocations      *)
(* refer to, binds_local those that bind locally, preemptible those that   *)
(* TLS relocations name, def_dynamic those that only a shared library      *)
(* defines, and lazy_stubs those with a lazy-binding stub.                 *)
(***************************************************************************)
Link == [entries : SUBSET Entry, page_gotno : [Bfds -> Nat], pages : Nat,
         reloc_only : SUBSET Syms, binds_local : SUBSET Syms,
         preemptible : SUBSET Syms, def_dynamic : SUBSET Syms,
         lazy_stubs : SUBSET Syms, shared : BOOLEAN]

IsTls(e) == e.tls # {}

ASSUME NamesAssumption ==
  /\ OutputBfd \notin Bfds
  /\ Syms \cap LocalSyms = {} /\ LdmModule \notin Syms \cup LocalSyms
  /\ IsFiniteSet(Bfds) /\ IsFiniteSet(Syms) /\ IsFiniteSet(LocalSyms)

ASSUME SizesAssumption ==
  MaxGotNo \in Nat /\ Reserved \in Nat /\ Reserved <= MaxGotNo

ASSUME LinksAssumption == \A l \in Links : l \in Link

ASSUME EntriesAssumption ==
  \A l \in Links : \A e \in l.entries :
    /\ e.abfd \in Bfds
    /\ e.sym = LdmModule <=> e.tls = {LDM}
    /\ IsTls(e) /\ e.sym \in Syms =>
         /\ e.sym \notin l.reloc_only
         /\ \A f \in l.entries : e.sym = f.sym => IsTls(f)
    /\ \A f \in l.entries : e.abfd = f.abfd /\ e.sym = f.sym => e = f

VARIABLES
  pc,              \* the step of the link that comes next
  link,            \* the recorded input; never changes
  area,            \* Syms -> h->global_got_area
  gots,            \* the GOTs, by the bfd each was created for
  bfd2got,         \* Bfds -> the GOT the bfd uses
  multi,           \* gg->bfd2got exists: there are several GOTs
  global_gotno,    \* gg->global_gotno
  reloc_only_gotno,\* gg->reloc_only_gotno
  todo,            \* entries or bfds that the current traversal has not visited
  primary,         \* the primary GOT, OutputBfd while there is none
  chain,           \* GOTs still to be assigned: merging, the secondary GOTs
  order,           \* GOTs with a range, first to last
  slots,           \* entries with an index: [got, key, first, size]
  lazy,            \* symbols with needs_lazy_stub
  lazy_stub_count, \* htab->lazy_stub_count
  needed_relocs,   \* dynamic relocations that room is reserved for
  reloc_count,     \* dynamic relocations that were output
  done,            \* TLS entries whose slots are initialized (GOT_TLS_DONE)
  local_entries    \* the local slots in use: <<got, address>>

vars == <<pc, link, area, gots, bfd2got, multi, global_gotno,
          reloc_only_gotno, todo, primary, chain, order, slots, lazy,
          lazy_stub_count, needed_relocs, reloc_count, done, local_entries>>

-----------------------------------------------------------------------------
(***************************************************************************)
(* Entries and GOTs.                                                       *)
(***************************************************************************)
Min2(a, b) == IF a <= b THEN a ELSE b

\* mips_elf_multi_got_entry_eq: entries for a global symbol match whatever bfd
\* refers to it, and so do all LDM entries.
Key(e) == IF e.sym \in LocalSyms THEN <<e.abfd, e.sym>> ELSE <<OutputBfd, e.sym>>

InLocalArea(e) ==
  ~IsTls(e) /\ (e.sym \in LocalSyms \/ (e.sym \in Syms /\ area[e.sym] = "NONE"))

InGlobalArea(e) == ~IsTls(e) /\ e.sym \in Syms /\ area[e.sym] # "NONE"

\* GOT entries that TLS access types take: GD and LDM two, IE one.
TlsSize(types) ==
  (IF types \cap {GD, LDM} # {} THEN 2 ELSE 0) + (IF IE \in types THEN 1 ELSE 0)

TlsSlots(E) ==
  2 * Cardinality({e \in E : e.tls \cap {GD, LDM} # {}})
    + Cardinality({e \in E : IE \in e.tls})

EmptyGot == [entries |-> {}, local_gotno |-> 0, global_gotno |-> 0,
             tls_gotno |-> 0, page_gotno |-> 0, assigned_gotno |-> 0,
             tls_assigned_gotno |-> 0]

\* Mutant of AddEntries: the page entries are not transferred.
AddEntries_NoPages(got, E, pages) ==
  LET new == {e \in E : \A f \in got.entries : Key(e) # Key(f)}
  IN  [got EXCEPT
         !.entries = @ \cup new,
         !.local_gotno = @ + Cardinality({e \in new : InLocalArea(e)}),
         !.global_gotno = @ + Cardinality({e \in new : InGlobalArea(e)}),
         !.tls_gotno = @ + TlsSlots(new)]

\* mips_elf_make_got_per_bfd and mips_elf_make_got_pages_per_bfd for all of E:
\* an entry that matches one of the GOT is dropped, the others are counted.
AddEntries(got, E, pages) ==
  LET new == {e \in E : \A f \in got.entries : Key(e) # Key(f)}
  IN  [got EXCEPT
         !.entries = @ \cup new,
         !.local_gotno = @ + Cardinality({e \in new : InLocalArea(e)}),
         !.global_gotno = @ + Cardinality({e \in new : InGlobalArea(e)}),
         !.tls_gotno = @ + TlsSlots(new),
         !.page_gotno = @ + pages]

\* End of a GOT that has been given its range.
EndOf(g) == gots[g].local_gotno + gots[g].global_gotno + gots[g].tls_gotno

LastEnd == IF order = <<>> THEN 0 ELSE EndOf(order[Len(order)])

\* mips_elf_adjust_gp: a GOT begins where its predecessor ends.
BaseOf(g) ==
  LET i == CHOOSE j \in 1..Len(order) : order[j] = g
  IN  IF i = 1 THEN 0 ELSE EndOf(order[i - 1])

EntriesOf(b) == {e \in link.entries : e.abfd = b}

\* The bfds that mips_elf_multi_got creates a GOT for.
BfdsWithGot == {b \in Bfds : EntriesOf(b) # {} \/ link.page_gotno[b] > 0}

(***************************************************************************)
(* The object whose tls_type a TLS relocation of the bfd that recorded e   *)
(* reads and updates.  In a single-GOT link it is the symbol for a global  *)
(* symbol, with the access types of all bfds, and the entry itself         *)
(* otherwise.  In a multi-GOT link it is the entry that the bfd's GOT has  *)
(* kept among those that match e.                                          *)
(***************************************************************************)
Holder(e) ==
  IF multi
  THEN CHOOSE f \in gots[bfd2got[e.abfd]].entries : Key(f) = Key(e)
  ELSE IF e.sym \in Syms
  THEN [e EXCEPT !.abfd = OutputBfd,
                 !.tls = UNION {f.tls : f \in {f \in link.entries : f.sym = e.sym}}]
  ELSE e

TlsEntries == {e \in link.entries : IsTls(e)}

(***************************************************************************)
(* mips_tls_got_relocs and, for one TLS entry, mips_elf_initialize_tls_    *)
(* slots: the dynamic relocations that the slots of entry e need.          *)
(***************************************************************************)
TlsRelocs(e) ==
  LET named == e.sym \in link.preemptible IN
  IF link.shared \/ named
  THEN Cardinality(e.tls) + (IF named /\ GD \in e.tls THEN 1 ELSE 0)
  ELSE 0

SumTlsRelocs(E) == SumFunctionOnSet([e \in E |-> TlsRelocs(e)], E)

\* A global entry outside the primary GOT is filled in by a relocation.
NeedsRel32(e) == link.shared \/ e.sym \in link.def_dynamic

-----------------------------------------------------------------------------
(***************************************************************************)
(* mips_elf_lay_out_got: decide which symbols live in the local area, then *)
(* whether one GOT is enough.                                              *)
(***************************************************************************)
\* The area each symbol was recorded for, and, once mips_elf_count_got_symbols
\* has moved the symbols that bind locally, the final one.
RecordedArea(s) ==
  IF \E e \in link.entries : e.sym = s /\ ~IsTls(e) THEN "NORMAL"
  ELSE IF s \in link.reloc_only THEN "RELOC_ONLY" ELSE "NONE"

FinalArea == [s \in Syms |-> IF s \in link.binds_local THEN "NONE" ELSE RecordedArea(s)]

\* One object for each TLS slot or pair of slots of a single GOT.
SingleTls ==
  {Holder(e) : e \in {e \in TlsEntries : e.sym # LdmModule}}
    \cup {[abfd |-> OutputBfd, sym |-> LdmModule, tls |-> {LDM}] :
            e \in {e \in TlsEntries : e.sym = LdmModule}}

SingleGot ==
  LET local == {e \in link.entries : ~IsTls(e) /\ e.sym \in LocalSyms}
      bound == {s \in link.binds_local : RecordedArea(s) = "NORMAL"}
  IN  [EmptyGot EXCEPT
         !.entries = {e \in link.entries : ~IsTls(e)} \cup SingleTls,
         !.local_gotno = Reserved + Cardinality(local) + Cardinality(bound)
                                  + link.pages,
         !.global_gotno = Cardinality({s \in Syms : FinalArea[s] # "NONE"}),
         !.tls_gotno = TlsSlots(SingleTls),
         !.assigned_gotno = Reserved]

SizeOf(got) == got.local_gotno + got.global_gotno + got.tls_gotno

LayOutGot ==
  /\ pc = "layout"
  /\ area' = FinalArea
  /\ global_gotno' = SingleGot.global_gotno
  /\ reloc_only_gotno' = Cardinality({s \in Syms : FinalArea[s] = "RELOC_ONLY"})

\* Everything is within reach: the TLS entries are indexed and room is made
\* for their relocations, one for each bfd's LDM entry.
LayOutSingle ==
  /\ LayOutGot
  /\ SizeOf(SingleGot) <= MaxGotNo
  /\ pc' = "tls"
  /\ gots' = [gots EXCEPT ![OutputBfd] =
                [SingleGot EXCEPT !.tls_assigned_gotno =
                   SingleGot.local_gotno + SingleGot.global_gotno]]
  /\ order' = <<OutputBfd>>
  /\ todo' = SingleTls
  /\ needed_relocs' = SumTlsRelocs({Holder(e) : e \in TlsEntries})
  /\ UNCHANGED <<link, bfd2got, multi, primary, chain, slots, lazy,
                 lazy_stub_count, reloc_count, done, local_entries>>

\* mips_elf_multi_got begins: one GOT for each input bfd.
SplitGot ==
  /\ LayOutGot
  /\ SizeOf(SingleGot) > MaxGotNo
  /\ pc' = "split"
  /\ multi' = TRUE
  /\ UNCHANGED <<link, gots, bfd2got, todo, primary, chain, order, slots, lazy,
                 lazy_stub_count, needed_relocs, reloc_count, done,
                 local_entries>>

\* Both traversals that create the GOTs of the bfds.
MakeGotPerBfd ==
  /\ pc = "split"
  /\ pc' = "merge"
  /\ gots' = [g \in DOMAIN gots |->
                IF g \in Bfds
                THEN AddEntries(EmptyGot, EntriesOf(g), link.page_gotno[g])
                ELSE EmptyGot]
  /\ bfd2got' = [b \in Bfds |-> IF b \in BfdsWithGot THEN b ELSE OutputBfd]
  /\ todo' = BfdsWithGot
  /\ UNCHANGED <<link, area, multi, global_gotno, reloc_only_gotno, primary,
                 chain, order, slots, lazy, lazy_stub_count, needed_relocs,
                 reloc_count, done, local_entries>>

-----------------------------------------------------------------------------
(***************************************************************************)
(* mips_elf_merge_gots, one bfd at a time.                                 *)
(***************************************************************************)
MaxCount == MaxGotNo - Reserved

PageEntries(pages) == Min2(link.pages, pages)

\* Mutant of OwnEstimate: TLS entries cost no more than their own slots.
OwnEstimate_Uncharged(got) ==
  PageEntries(got.page_gotno) + got.local_gotno + got.tls_gotno
    + got.global_gotno

\* What the GOT of one bfd needs.  As the TLS entries of the primary GOT follow
\* all global entries, a GOT with TLS entries is charged for all of these.
OwnEstimate(got) ==
  PageEntries(got.page_gotno) + got.local_gotno + got.tls_gotno
    + (IF got.tls_gotno > 0 THEN global_gotno ELSE got.global_gotno)

\* mips_elf_merge_got_with: a conservative estimate for two GOTs together.
MergedEstimate(from, to, globals) ==
  PageEntries(from.page_gotno + to.page_gotno)
    + from.local_gotno + to.local_gotno + from.tls_gotno + to.tls_gotno + globals

FitsPrimary(b) ==
  /\ OwnEstimate(gots[b]) <= MaxCount
  /\ primary # OutputBfd
  /\ MergedEstimate(gots[b], gots[primary], global_gotno) <= MaxCount

FitsCurrent(b) ==
  /\ chain # <<>>
  /\ LET to == gots[Head(chain)] IN
     MergedEstimate(gots[b], to, gots[b].global_gotno + to.global_gotno) <= MaxCount

MergeUnchanged ==
  UNCHANGED <<pc, link, area, multi, global_gotno, reloc_only_gotno, order,
              slots, lazy, lazy_stub_count, needed_relocs, reloc_count, done,
              local_entries>>

\* The bfd uses GOT g from now on, which takes over its entries.
MergeInto(b, g) ==
  /\ gots' = [gots EXCEPT ![g] = AddEntries(@, gots[b].entries, gots[b].page_gotno)]
  /\ bfd2got' = [bfd2got EXCEPT ![b] = g]
  /\ UNCHANGED <<primary, chain>>

BecomePrimary(b) ==
  /\ OwnEstimate(gots[b]) <= MaxCount
  /\ primary = OutputBfd
  /\ primary' = b
  /\ UNCHANGED <<gots, bfd2got, chain>>

MergeWithPrimary(b) ==
  /\ FitsPrimary(b)
  /\ MergeInto(b, primary)

MergeWithCurrent(b) ==
  /\ ~FitsPrimary(b)
  /\ FitsCurrent(b)
  /\ MergeInto(b, Head(chain))

\* "Don't check if it fits; if it turns out that it doesn't, we'll get
\* relocation overflows anyway."
BecomeCurrent(b) ==
  /\ ~FitsPrimary(b)
  /\ ~FitsCurrent(b)
  /\ chain' = <<b>> \o chain
  /\ UNCHANGED <<gots, bfd2got, primary>>

MayBecomePrimary(b) == primary = OutputBfd /\ OwnEstimate(gots[b]) <= MaxCount

MergeGot(b) ==
  /\ pc = "merge"
  /\ b \in todo
  /\ todo' = todo \ {b}
  /\ \/ BecomePrimary(b)
     \/ MergeWithPrimary(b)
     \/ ~MayBecomePrimary(b) /\ (MergeWithCurrent(b) \/ BecomeCurrent(b))
  /\ MergeUnchanged

(***************************************************************************)
(* Between merging and assigning: bfds without a GOT use the primary one,  *)
(* which is an empty one if none was found, and every global entry goes to *)
(* the primary GOT, those it does not use itself after the others.         *)
(***************************************************************************)
GlobalsOf(g) == {e.sym : e \in {e \in gots[g].entries : InGlobalArea(e)}}

\* Mutant: the count of the symbols that only relocations refer to is left as
\* it was.
RelocOnlyCount_Kept == reloc_only_gotno

\* The primary GOT gets all global entries; the master's reloc_only_gotno.
PrimaryGlobals == global_gotno
RelocOnlyCount == global_gotno - gots[primary].global_gotno

ChoosePrimary ==
  /\ pc = "merge"
  /\ todo = {}
  /\ pc' = "assign"
  /\ bfd2got' = [b \in Bfds |-> IF b \in BfdsWithGot THEN bfd2got[b] ELSE primary]
  /\ reloc_only_gotno' = RelocOnlyCount
  /\ gots' = [gots EXCEPT ![primary].global_gotno = PrimaryGlobals]
  /\ area' = [s \in Syms |->
               IF s \in GlobalsOf(primary) THEN "NORMAL"
               ELSE IF area[s] # "NONE" THEN "RELOC_ONLY" ELSE "NONE"]
  /\ chain' = <<primary>> \o chain
  /\ UNCHANGED <<link, multi, global_gotno, todo, primary, order, slots, lazy,
                 lazy_stub_count, needed_relocs, reloc_count, done,
                 local_entries>>

(***************************************************************************)
(* The loop that gives every GOT its range and pushes it onto the reversed *)
(* circular list, in which its predecessor ends where it begins.           *)
(***************************************************************************)
AssignRange ==
  /\ pc = "assign"
  /\ chain # <<>>
  /\ LET g == Head(chain)
         first == LastEnd + Reserved
         local == gots[g].local_gotno + first + PageEntries(gots[g].page_gotno)
     IN /\ gots' = [gots EXCEPT
                      ![g].assigned_gotno = first,
                      ![g].local_gotno = local,
                      ![g].tls_assigned_gotno = local + gots[g].global_gotno]
        /\ order' = Append(order, g)
        /\ todo' = {e \in gots[g].entries : IsTls(e)}
  /\ chain' = Tail(chain)
  /\ pc' = "tls"
  /\ UNCHANGED <<link, area, bfd2got, multi, global_gotno, reloc_only_gotno,
                 primary, slots, lazy, lazy_stub_count, needed_relocs,
                 reloc_count, done, local_entries>>

Slot(g, key, first, size) == [got |-> g, key |-> key, first |-> first, size |-> size]

\* mips_elf_initialize_tls_index for one entry of the GOT assigned last.
InitializeTlsIndex(e) ==
  /\ pc = "tls"
  /\ e \in todo
  /\ LET g == order[Len(order)] IN
     /\ slots' = slots \cup
                   {Slot(g, Key(e), gots[g].tls_assigned_gotno, TlsSize(e.tls))}
     /\ gots' = [gots EXCEPT ![g].tls_assigned_gotno = @ + TlsSize(e.tls)]
  /\ todo' = todo \ {e}
  /\ UNCHANGED <<pc, link, area, bfd2got, multi, global_gotno, reloc_only_gotno,
                 primary, chain, order, lazy, lazy_stub_count, needed_relocs,
                 reloc_count, done, local_entries>>

\* Mutants of Secondary: the primary GOT comes around again; the last GOT is
\* left out.
Secondary_Circular == {order[i] : i \in 1..Len(order)}
Secondary_NotLast == {order[i] : i \in 2..(Len(order) - 1)}

\* The GOTs that are not the primary one.
Secondary == {order[i] : i \in 2..Len(order)}

\* Mutants: a symbol that has lost its stub before is counted again; no symbol
\* loses its stub.
ForbidLazyStubs_Recounts(g) == {e.sym : e \in gots[g].entries} \cap Syms
ForbidLazyStubs_None(g) == {}

\* mips_elf_forbid_lazy_stubs: the symbols that lose their stub.
ForbidLazyStubs(g) == {e.sym : e \in gots[g].entries} \cap lazy

\* The next GOT, if any, is a secondary one.
NextGot ==
  /\ pc = "tls"
  /\ todo = {}
  /\ IF chain # <<>>
     THEN LET bound == ForbidLazyStubs(Head(chain)) IN
          /\ lazy' = lazy \ bound
          /\ lazy_stub_count' = lazy_stub_count - Cardinality(bound)
          /\ pc' = "assign"
          /\ UNCHANGED todo
     ELSE /\ UNCHANGED <<lazy, lazy_stub_count>>
          /\ pc' = "offsets"
          /\ todo' = Secondary
  /\ UNCHANGED <<link, area, gots, bfd2got, multi, global_gotno,
                 reloc_only_gotno, primary, chain, order, slots, needed_relocs,
                 reloc_count, done, local_entries>>

-----------------------------------------------------------------------------
(***************************************************************************)
(* The last loop of mips_elf_multi_got: the global entries of every GOT    *)
(* but the primary one get an index, in any order, and room is made for    *)
(* the relocations of its TLS, global and, in a shared object, local       *)
(* entries.                                                                *)
(***************************************************************************)
Bijections(S, T) == {f \in [S -> T] : \A t \in T : \E s \in S : f[s] = t}

GlobalEntries(g) == {e \in gots[g].entries : InGlobalArea(e)}

\* Mutants: no room for TLS relocations; none for local entries.
SecondaryRelocs_NoTls(g) ==
  Cardinality({e \in GlobalEntries(g) : NeedsRel32(e)})
    + (IF link.shared THEN gots[g].local_gotno - gots[g].assigned_gotno ELSE 0)

\* The relocations that secondary GOT g is expected to need.
SecondaryRelocs(g) ==
  SumTlsRelocs({e \in gots[g].entries : IsTls(e)})
    + Cardinality({e \in GlobalEntries(g) : NeedsRel32(e)})
    + (IF link.shared THEN gots[g].local_gotno - gots[g].assigned_gotno ELSE 0)

\* The loop goes from the GOT assigned last to the one after the primary.
SetGlobalGotOffsets(g) ==
  /\ pc = "offsets"
  /\ g \in todo
  /\ \E i \in 2..Len(order) :
       order[i] = g /\ \A j \in (i + 1)..Len(order) : order[j] \notin todo
  /\ todo' = todo \ {g}
  /\ \E pos \in Bijections(GlobalEntries(g), 0..(Cardinality(GlobalEntries(g)) - 1)) :
       slots' = slots \cup
         {Slot(g, Key(e), gots[g].local_gotno + pos[e], 1) : e \in GlobalEntries(g)}
  /\ needed_relocs' = needed_relocs + SecondaryRelocs(g)
  /\ UNCHANGED <<pc, link, area, gots, bfd2got, multi, global_gotno,
                 reloc_only_gotno, primary, chain, order, lazy, lazy_stub_count,
                 reloc_count, done, local_entries>>

(***************************************************************************)
(* mips_elf_sort_hash_table: the dynamic symbols with a global entry are   *)
(* the last ones of the table, those that no GOT entry was recorded for at *)
(* the very end; the entry of the lowest follows the local entries of the  *)
(* primary GOT (mips_elf_global_got_index).  min_got_dynindx goes down     *)
(* from dynsymcount - reloc_only_gotno and max_unref_got_dynindx goes up   *)
(* from there.                                                             *)
(***************************************************************************)
Normal == {s \in Syms : area[s] = "NORMAL"}
RelocOnly == {s \in Syms : area[s] = "RELOC_ONLY"}

SortDynsyms ==
  /\ pc = "offsets"
  /\ todo = {}
  /\ pc' = "relocate"
  /\ \E down \in Bijections(Normal, 1..Cardinality(Normal)),
        up \in Bijections(RelocOnly, 0..(Cardinality(RelocOnly) - 1)) :
       LET g == order[1]
           start == gots[g].local_gotno + Cardinality(Normal)
       IN slots' = slots
            \cup {Slot(g, <<OutputBfd, s>>, start - down[s], 1) : s \in Normal}
            \cup {Slot(g, <<OutputBfd, s>>, start + up[s], 1) : s \in RelocOnly}
  /\ todo' = Bfds
  /\ UNCHANGED <<link, area, gots, bfd2got, multi, global_gotno,
                 reloc_only_gotno, primary, chain, order, lazy, lazy_stub_count,
                 needed_relocs, reloc_count, done, local_entries>>

-----------------------------------------------------------------------------
(***************************************************************************)
(* mips_elf_relocate_section for all relocations of one input bfd: its TLS *)
(* slots are initialized unless they are already, and its local addresses  *)
(* and pages take the next free local slots unless the GOT holds them.     *)
(***************************************************************************)
RelocateBfd(b) ==
  /\ pc = "relocate"
  /\ b \in todo
  /\ todo' = todo \ {b}
  /\ LET tls == {Holder(e) : e \in {e \in EntriesOf(b) : IsTls(e)}} \ done
         g == bfd2got[b]
     IN /\ done' = done \cup tls
        /\ reloc_count' = reloc_count + SumTlsRelocs(tls)
        /\ \E pages \in SUBSET (1..link.pages) :
             LET addresses == {Key(e) : e \in {e \in EntriesOf(b) : InLocalArea(e)}}
                                \cup {<<OutputBfd, p>> : p \in pages}
                 new == {<<g, addr>> : addr \in addresses} \ local_entries
             IN /\ Cardinality(pages) = PageEntries(link.page_gotno[b])
                /\ local_entries' = local_entries \cup new
                /\ gots' = [gots EXCEPT ![g].assigned_gotno = @ + Cardinality(new)]
  /\ UNCHANGED <<pc, link, area, bfd2got, multi, global_gotno, reloc_only_gotno,
                 primary, chain, order, slots, lazy, lazy_stub_count,
                 needed_relocs>>

\* finish_dynamic_symbol outputs the relocations of the global entries of the
\* secondary GOTs, finish_dynamic_sections those of their local entries.
FinishRelocs(g) ==
  Cardinality({e \in GlobalEntries(g) : NeedsRel32(e)})
    + (IF link.shared THEN gots[g].assigned_gotno - (BaseOf(g) + Reserved) ELSE 0)

FinishLink ==
  /\ pc = "relocate"
  /\ todo = {}
  /\ pc' = "finished"
  /\ reloc_count' = reloc_count
       + SumFunctionOnSet([g \in Secondary |-> FinishRelocs(g)], Secondary)
  /\ UNCHANGED <<link, area, gots, bfd2got, multi, global_gotno,
                 reloc_only_gotno, todo, primary, chain, order, slots, lazy,
                 lazy_stub_count, needed_relocs, done, local_entries>>

-----------------------------------------------------------------------------
Init ==
  /\ pc = "layout"
  /\ link \in Links
  /\ area = [s \in Syms |-> RecordedArea(s)]
  /\ gots = [g \in Bfds \cup {OutputBfd} |-> EmptyGot]
  /\ bfd2got = [b \in Bfds |-> OutputBfd]
  /\ multi = FALSE
  /\ global_gotno = 0
  /\ reloc_only_gotno = 0
  /\ todo = {}
  /\ primary = OutputBfd
  /\ chain = <<>>
  /\ order = <<>>
  /\ slots = {}
  /\ lazy = link.lazy_stubs
  /\ lazy_stub_count = Cardinality(link.lazy_stubs)
  /\ needed_relocs = 0
  /\ reloc_count = 0
  /\ done = {}
  /\ local_entries = {}

Next ==
  \/ LayOutSingle
  \/ SplitGot
  \/ MakeGotPerBfd
  \/ \E b \in Bfds : MergeGot(b)
  \/ ChoosePrimary
  \/ AssignRange
  \/ \E e \in todo : InitializeTlsIndex(e)
  \/ NextGot
  \/ \E g \in Bfds \cup {OutputBfd} : SetGlobalGotOffsets(g)
  \/ SortDynsyms
  \/ \E b \in Bfds : RelocateBfd(b)
  \/ FinishLink

\* The linker is one process and nothing it waits for may fail to come.
Fairness == WF_vars(Next)

Spec == Init /\ [][Next]_vars /\ Fairness

-----------------------------------------------------------------------------
(***************************************************************************)
(* Properties.                                                             *)
(***************************************************************************)
GotIds == Bfds \cup {OutputBfd}

GotInfo == [entries : SUBSET Entry, local_gotno : Nat, global_gotno : Nat,
            tls_gotno : Nat, page_gotno : Nat, assigned_gotno : Nat,
            tls_assigned_gotno : Nat]

TypeOK ==
  /\ pc \in {"layout", "split", "merge", "assign", "tls", "offsets",
             "relocate", "finished"}
  /\ link \in Link
  /\ area \in [Syms -> {"NONE", "NORMAL", "RELOC_ONLY"}]
  /\ gots \in [GotIds -> GotInfo]
  /\ bfd2got \in [Bfds -> GotIds]
  /\ multi \in BOOLEAN
  /\ global_gotno \in Nat /\ reloc_only_gotno \in Nat
  /\ todo \subseteq Bfds \/ todo \subseteq Entry
  /\ primary \in GotIds
  /\ chain \in Seq(GotIds) /\ order \in Seq(GotIds)
  /\ slots \subseteq [got : GotIds, key : GotIds \X (Syms \cup LocalSyms \cup {LdmModule}),
                      first : Nat, size : 1..3]
  /\ lazy \subseteq Syms /\ lazy_stub_count \in Nat
  /\ needed_relocs \in Nat /\ reloc_count \in Nat
  /\ done \subseteq Entry
  /\ local_entries \subseteq GotIds \X (GotIds \X (Syms \cup LocalSyms \cup Nat))

LaidOut == pc \in {"relocate", "finished"}

Users(g) == {b \in Bfds : bfd2got[b] = g}

\* "Each one 16-bit addressable": whatever the order of merging, a GOT that
\* was merged, and the primary GOT, hold everything their bfds refer to within
\* MaxGotNo entries of their start.  Only a bfd that did not even fit alone
\* may be out of reach.  No slot is in a local area or beyond the end of its
\* GOT, although ranges and indices are computed by different passes.
WithinReach ==
  LaidOut => \A g \in {order[i] : i \in 1..Len(order)} :
    /\ g = order[1] \/ Cardinality(Users(g)) > 1 =>
         /\ gots[g].local_gotno - BaseOf(g) <= MaxGotNo
         /\ \A e \in link.entries, sl \in slots :
              bfd2got[e.abfd] = g /\ sl.got = g /\ sl.key = Key(e) =>
                sl.first + sl.size - BaseOf(g) <= MaxGotNo
    /\ \A sl \in slots : sl.got = g =>
         gots[g].local_gotno <= sl.first /\ sl.first + sl.size <= EndOf(g)

\* "Not enough GOT space for local GOT entries" is not reported: the local
\* areas of merged GOTs have room for the distinct addresses and pages of all
\* their bfds.
LocalsFit ==
  LaidOut => \A i \in 1..Len(order) :
    gots[order[i]].assigned_gotno <= gots[order[i]].local_gotno

\* The assertions of mips_elf_sort_hash_table: the two areas are as large as
\* the counters that were adjusted when the primary GOT was chosen.
SortAsserts ==
  pc \in {"offsets", "relocate", "finished"} =>
    /\ Cardinality(RelocOnly) = reloc_only_gotno
    /\ Cardinality(Normal) + Cardinality(RelocOnly) = global_gotno

\* A symbol that a secondary GOT holds is resolved when the object is loaded,
\* so it must not be bound lazily through a stub, and the stubs are counted.
NoLazySecondary ==
  LaidOut =>
    /\ \A e \in link.entries :
         bfd2got[e.abfd] # order[1] => e.sym \notin lazy
    /\ lazy_stub_count = Cardinality(lazy)

PrimaryTlsRelocs ==
  IF multi THEN SumTlsRelocs({e \in gots[primary].entries : IsTls(e)}) ELSE 0

\* Relocations are counted when the GOT is laid out and output when it is
\* used, by different code: apart from the TLS entries of the primary GOT of a
\* multi-GOT link the two agree, exactly unless local slots stay unused.
RelocsBalance ==
  /\ reloc_count <= needed_relocs + PrimaryTlsRelocs
  /\ pc = "finished" /\ ~link.shared =>
       reloc_count = needed_relocs + PrimaryTlsRelocs

\* The references that go through the table, by what their entries match, and
\* the slots that the GOT of their bfd has for them.
References == {<<e.abfd, Key(e)>> : e \in {e \in link.entries : ~InLocalArea(e)}}

SlotsOf(r) ==
  UNION {sl.first..(sl.first + sl.size - 1) :
           sl \in {sl \in slots : sl.got = bfd2got[r[1]] /\ sl.key = r[2]}}

SlotsUsed == UNION {{<<r[1], r[2], i>> : i \in SlotsOf(r)} : r \in References}

Relocated == IF pc \in {"relocate", "finished"} THEN Bfds \ todo ELSE {}

Contract == INSTANCE GotContract WITH
  Symbols <- GotIds \X (Syms \cup LocalSyms \cup {LdmModule}),
  refs <- References, uses <- SlotsUsed, relocated <- Relocated

\* Split or not, the table keeps its contract: what TLS indices, global offsets
\* and the dynamic symbol order place, in whichever order, is never moved or
\* given to another symbol, and is complete before the code that uses it is
\* relocated.
KeepsContract == Contract!Spec

\* Every link comes to its end: no traversal waits for an entry that another
\* one has to provide, whatever the order of merging.
LinkFinishes == <>(pc = "finished")

\* BFD_ASSERT (*tls_type & GOT_TLS_IE), and the same for GD and LDM: the entry
\* that a TLS relocation finds has the access type of the relocation.
TlsTypesKept ==
  LaidOut => \A e \in TlsEntries : e.tls \subseteq Holder(e).tls

\* "Allocate room for the TLS relocations": .rel.dyn has room for all dynamic
\* relocations of GOT entries.
RoomForRelocs == reloc_count <= needed_relocs

=============================================================================
