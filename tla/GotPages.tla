------------------------------ MODULE GotPages ------------------------------
(***************************************************************************)
(* How many slots of the local GOT area a link reserves, and whether the   *)
(* relocations it then resolves fit in them.                               *)
(*                                                                         *)
(* While the input relocations are scanned, every page relocation extends  *)
(* the list of addend ranges of its (input bfd, symbol) pair and adjusts   *)
(* an estimate of the GOT page entries needed                              *)
(* (mips_elf_record_got_page_entry); every relocation that wants the full  *)
(* address of a local symbol reserves an entry of its own                  *)
(* (mips_elf_record_local_got_symbol).  Addresses are not known yet.  The  *)
(* GOT is then laid out (mips_elf_lay_out_got), the sections get their     *)
(* addresses, and each relocation takes the slot of the page or of the     *)
(* address it refers to (mips_elf_create_local_got_entry), which fails     *)
(* when the reserved slots have run out.                                   *)
(*                                                                         *)
(* Abstraction: a pair (bfd, symndx) is a member of Refs, and its addends  *)
(* are small integers; PageSize stands for 0x10000.                        *)
(***************************************************************************)
EXTENDS Integers, Sequences, FiniteSets, SequencesExt

CONSTANTS
  Refs,          \* pairs (input bfd, symbol index) that relocations refer to
  PageAddends,   \* addends of page relocations (R_MIPS_GOT16, R_MIPS_GOT_PAGE)
  DispAddends,   \* addends of R_MIPS_GOT_DISP against a local symbol
  PageSize,      \* bytes covered by one GOT page entry, 0x10000 in the code
  Reserved,      \* htab->reserved_gotno: 2, or 3 on VxWorks
  PageSlack,     \* the constant 5 of mips_elf_lay_out_got
  Layouts        \* the addresses the linker may give: see LayoutsAssumption

ASSUME RefsAssumption == IsFiniteSet(Refs)
ASSUME PageSizeAssumption == PageSize \in Nat /\ PageSize > 1
ASSUME AddendsAssumption == PageAddends \subseteq Int /\ DispAddends \subseteq Int
\* "Is 5 enough?": 4 would be.
ASSUME SlotsAssumption == Reserved \in Nat /\ PageSlack \in Nat /\ PageSlack >= 4

(***************************************************************************)
(* A layout gives every symbol a value and the extent of the two loadable  *)
(* segments of contiguous sections that the code assumes.                  *)
(***************************************************************************)
Segment == {seg \in [first : Int, last : Int] : seg.first <= seg.last}

ASSUME LayoutsAssumption ==
  Layouts \subseteq [value : [Refs -> Int], text : Segment, data : Segment]

VARIABLES
  phase,          \* "scan" the relocations, then "relocate" them
  ranges,         \* Refs -> the sorted list of addend ranges
  num_pages,      \* Refs -> the page entries its ranges may need
  page_gotno,     \* the sum of num_pages; clamped when the GOT is laid out
  got_symbols,    \* local (ref, addend) pairs with a GOT entry of their own
  local_gotno,    \* the slots of the local area
  assigned_gotno, \* the slots of the local area in use
  got_entries,    \* the addresses those slots hold
  value,          \* Refs -> the value of the symbol, once laid out
  failed,         \* "not enough GOT space for local GOT entries"
  seen            \* history: the addends recorded for each ref

vars == <<phase, ranges, num_pages, page_gotno, got_symbols, local_gotno,
          assigned_gotno, got_entries, value, failed, seen>>

(***************************************************************************)
(* The arithmetic of pages.                                                *)
(***************************************************************************)
Extent(min, max) == [min_addend |-> min, max_addend |-> max]

\* Mutant: the pages that a range touches when it begins at a page boundary.
PagesForRange_Aligned(r) ==
  (r.max_addend - r.min_addend + PageSize) \div PageSize

\* mips_elf_pages_for_range: the page entries that a range may need.
PagesForRange(r) ==
  (r.max_addend - r.min_addend + 2 * PageSize - 1) \div PageSize

\* mips_elf_got_page: the page entry within half a page of an address.
PageOf(addr) == ((addr + PageSize \div 2) \div PageSize) * PageSize

Min2(a, b) == IF a <= b THEN a ELSE b

-----------------------------------------------------------------------------
(***************************************************************************)
(* Scanning.  Entry k of the list is where the search of                   *)
(* mips_elf_record_got_page_entry stops: the ranges before it end too far  *)
(* below the addend to share a page with it.                               *)
(***************************************************************************)
StopsAt(rs, a, k) ==
  /\ \A j \in 1..(k - 1) : a > rs[j].max_addend + (PageSize - 1)
  /\ k <= Len(rs) => a <= rs[k].max_addend + (PageSize - 1)

\* The range at k is new: none is near, or the one found begins too far above.
StartsRange(rs, a, k) ==
  k <= Len(rs) => a < rs[k].min_addend - (PageSize - 1)

\* Mutant: the next range is never looked at.
JoinsNext_Never(rs, a, k) == FALSE

\* Extending the range at k upwards to a makes it meet the next one.
JoinsNext(rs, a, k) ==
  k < Len(rs) /\ a >= rs[k + 1].min_addend - (PageSize - 1)

\* Install the new list for ref and move both estimates by delta pages.
Record(ref, a, rs, delta) ==
  /\ ranges' = [ranges EXCEPT ![ref] = rs]
  /\ num_pages' = [num_pages EXCEPT ![ref] = @ + delta]
  /\ page_gotno' = page_gotno + delta
  /\ seen' = [seen EXCEPT ![ref] = @ \cup {a}]
  /\ UNCHANGED <<phase, got_symbols, local_gotno, assigned_gotno, got_entries,
                 value, failed>>

NewRange(ref, a, k) ==
  LET rs == ranges[ref] IN
  /\ StartsRange(rs, a, k)
  /\ Record(ref, a, InsertAt(rs, k, Extent(a, a)), 1)

\* The addend changes the extent of the range at k only.
Extend(ref, a, k, r) ==
  Record(ref, a, ReplaceAt(ranges[ref], k, r),
         PagesForRange(r) - PagesForRange(ranges[ref][k]))

ExtendDown(ref, a, k) ==
  LET rs == ranges[ref] IN
  /\ ~StartsRange(rs, a, k)
  /\ a < rs[k].min_addend
  /\ Extend(ref, a, k, Extent(a, rs[k].max_addend))

Inside(ref, a, k) ==
  LET rs == ranges[ref] IN
  /\ ~StartsRange(rs, a, k)
  /\ a \in rs[k].min_addend .. rs[k].max_addend
  /\ Extend(ref, a, k, rs[k])

ExtendUp(ref, a, k) ==
  LET rs == ranges[ref] IN
  /\ ~StartsRange(rs, a, k)
  /\ a > rs[k].max_addend
  /\ ~JoinsNext(rs, a, k)
  /\ Extend(ref, a, k, Extent(rs[k].min_addend, a))

\* Mutant of Join: the joined range ends at the new addend.
Join_EndsAtAddend(ref, a, k) ==
  LET rs == ranges[ref]
      joined == Extent(rs[k].min_addend, a) IN
  /\ ~StartsRange(rs, a, k)
  /\ a > rs[k].max_addend
  /\ JoinsNext(rs, a, k)
  /\ Record(ref, a, RemoveAt(ReplaceAt(rs, k, joined), k + 1),
            PagesForRange(joined) - PagesForRange(rs[k])
                                  - PagesForRange(rs[k + 1]))

\* Mutant of Join: the pages of the range that disappears stay counted.
Join_CountsNext(ref, a, k) ==
  LET rs == ranges[ref]
      joined == Extent(rs[k].min_addend, rs[k + 1].max_addend) IN
  /\ ~StartsRange(rs, a, k)
  /\ a > rs[k].max_addend
  /\ JoinsNext(rs, a, k)
  /\ Record(ref, a, RemoveAt(ReplaceAt(rs, k, joined), k + 1),
            PagesForRange(joined) - PagesForRange(rs[k]))

\* The range at k now meets the next one, which is removed.
Join(ref, a, k) ==
  LET rs == ranges[ref]
      joined == Extent(rs[k].min_addend, rs[k + 1].max_addend) IN
  /\ ~StartsRange(rs, a, k)
  /\ a > rs[k].max_addend
  /\ JoinsNext(rs, a, k)
  /\ Record(ref, a, RemoveAt(ReplaceAt(rs, k, joined), k + 1),
            PagesForRange(joined) - PagesForRange(rs[k])
                                  - PagesForRange(rs[k + 1]))

RecordPage(ref, a) ==
  /\ phase = "scan"
  /\ \E k \in 1..(Len(ranges[ref]) + 1) :
       /\ StopsAt(ranges[ref], a, k)
       /\ \/ NewRange(ref, a, k)
          \/ ExtendDown(ref, a, k)
          \/ Inside(ref, a, k)
          \/ ExtendUp(ref, a, k)
          \/ Join(ref, a, k)

\* mips_elf_record_local_got_symbol, for a symbol without TLS relocations.
RecordLocal(ref, a) ==
  /\ phase = "scan"
  /\ <<ref, a>> \notin got_symbols
  /\ got_symbols' = got_symbols \cup {<<ref, a>>}
  /\ local_gotno' = local_gotno + 1
  /\ UNCHANGED <<phase, ranges, num_pages, page_gotno, assigned_gotno,
                 got_entries, value, failed, seen>>

-----------------------------------------------------------------------------
(***************************************************************************)
(* Layout.  Every address that a recorded relocation refers to lies in a   *)
(* loadable segment; loadable_size is the sum of their sizes.              *)
(***************************************************************************)
InSegments(l, addr) ==
  addr \in (l.text.first .. l.text.last) \cup (l.data.first .. l.data.last)

Fits(l) ==
  /\ \A ref \in Refs : \A a \in seen[ref] : InSegments(l, l.value[ref] + a)
  /\ \A p \in got_symbols : InSegments(l, l.value[p[1]] + p[2])

SizeOf(seg) == seg.last - seg.first + 1

LoadableSize(l) == SizeOf(l.text) + SizeOf(l.data)

\* Mutant: no allowance for segments that straddle page boundaries.
PageEstimate_NoSlack(l) ==
  Min2(LoadableSize(l) \div PageSize, page_gotno)

\* The smaller of the two estimates of the page entries.
PageEstimate(l) ==
  Min2(LoadableSize(l) \div PageSize + PageSlack, page_gotno)

LayOutGot(l) ==
  /\ phase = "scan"
  /\ Fits(l)
  /\ phase' = "relocate"
  /\ value' = l.value
  /\ page_gotno' = PageEstimate(l)
  /\ local_gotno' = Reserved + local_gotno + PageEstimate(l)
  /\ assigned_gotno' = Reserved
  /\ UNCHANGED <<ranges, num_pages, got_symbols, got_entries, failed, seen>>

-----------------------------------------------------------------------------
(***************************************************************************)
(* Relocation.  mips_elf_create_local_got_entry returns the entry that     *)
(* holds the address, or takes the next slot for it; the slot past the     *)
(* last one is taken and then refused.                                     *)
(***************************************************************************)
FindEntry(addr) ==
  /\ addr \in got_entries
  /\ UNCHANGED vars

CreateEntry(addr) ==
  /\ addr \notin got_entries
  /\ assigned_gotno' = assigned_gotno + 1
  /\ got_entries' = got_entries \cup {addr}
  /\ failed' = (assigned_gotno' > local_gotno)
  /\ UNCHANGED <<phase, ranges, num_pages, page_gotno, got_symbols,
                 local_gotno, value, seen>>

CreateLocalEntry(addr) ==
  /\ phase = "relocate"
  /\ ~failed
  /\ FindEntry(addr) \/ CreateEntry(addr)

RelocatePage(ref, a) ==
  /\ a \in seen[ref]
  /\ CreateLocalEntry(PageOf(value[ref] + a))

RelocateLocal(ref, a) ==
  /\ <<ref, a>> \in got_symbols
  /\ CreateLocalEntry(value[ref] + a)

-----------------------------------------------------------------------------
Init ==
  /\ phase = "scan"
  /\ ranges = [ref \in Refs |-> <<>>]
  /\ num_pages = [ref \in Refs |-> 0]
  /\ page_gotno = 0
  /\ got_symbols = {}
  /\ local_gotno = 0
  /\ assigned_gotno = 0
  /\ got_entries = {}
  /\ value = [ref \in Refs |-> 0]
  /\ failed = FALSE
  /\ seen = [ref \in Refs |-> {}]

Next ==
  \/ \E ref \in Refs, a \in PageAddends :
       RecordPage(ref, a) \/ RelocatePage(ref, a)
  \/ \E ref \in Refs, a \in DispAddends :
       RecordLocal(ref, a) \/ RelocateLocal(ref, a)
  \/ \E l \in Layouts : LayOutGot(l)

Spec == Init /\ [][Next]_vars

-----------------------------------------------------------------------------
(***************************************************************************)
(* Properties.                                                             *)
(***************************************************************************)
AddendRange == [min_addend : Int, max_addend : Int]

\* Type correctness; page_gotno and num_pages are unsigned in the code, and
\* NumPagesExact shows that no join takes them below zero.
TypeOK ==
  /\ phase \in {"scan", "relocate"}
  /\ ranges \in [Refs -> Seq(AddendRange)]
  /\ num_pages \in [Refs -> Int]
  /\ page_gotno \in Int
  /\ got_symbols \subseteq Refs \X DispAddends
  /\ local_gotno \in Int
  /\ assigned_gotno \in Nat
  /\ got_entries \subseteq Int
  /\ value \in [Refs -> Int]
  /\ failed \in BOOLEAN
  /\ seen \in [Refs -> SUBSET PageAddends]

\* "The structures form a non-overlapping list that is sorted by increasing
\* MIN_ADDEND": moreover neighbours never could share a page entry, however
\* the addends arrived; the search in mips_elf_record_got_page_entry and its
\* single-neighbour join are only right for such lists.
RangesApart ==
  \A ref \in Refs :
    /\ \A i \in 1..Len(ranges[ref]) :
         ranges[ref][i].min_addend <= ranges[ref][i].max_addend
    /\ \A i \in 1..(Len(ranges[ref]) - 1) :
         ranges[ref][i].max_addend + (PageSize - 1)
           < ranges[ref][i + 1].min_addend

\* No recorded addend is ever dropped from the ranges by a later extension or
\* join.
SeenCovered ==
  \A ref \in Refs : \A a \in seen[ref] :
    \E i \in 1..Len(ranges[ref]) :
      a \in ranges[ref][i].min_addend .. ranges[ref][i].max_addend

\* The page entries that a list of ranges may need.
PagesNeeded(rs) ==
  SumFunctionOnSet([i \in 1..Len(rs) |-> PagesForRange(rs[i])], 1..Len(rs))

\* The incremental estimate of one symbol, whose updates add and subtract
\* unsigned differences, is at all times what its ranges need.
NumPagesExact ==
  \A ref \in Refs : num_pages[ref] = PagesNeeded(ranges[ref])

\* "This function creates an upper bound on the number of GOT slots required":
\* wherever the symbol ends up, its addends touch no more pages than that.
PagesBounded ==
  \A ref \in Refs : \A base \in 0..(PageSize - 1) :
    Cardinality({PageOf(base + a) : a \in seen[ref]}) <= num_pages[ref]

\* "Not enough GOT space for local GOT entries" is never reported: the smaller
\* of the two estimates covers the distinct pages and addresses of all
\* relocations, in whatever order they are resolved.
EnoughGotSpace == ~failed

=============================================================================
