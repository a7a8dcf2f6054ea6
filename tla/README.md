# Verification of the OpenISA toolchain

The repository holds the OpenISA tools: a MIPS ELF linker (binutils 2.23.2 with
changed relocations), the scripts that build the toolchain around it, a port of
newlib, and programs to try it on. This directory models the parts with logic of
their own in TLA+, checks them with TLC on small instances and proves with TLAPS
the properties that do not depend on the instance.

File names without a directory are in `linker-oi/binutils-2.23.2/bfd/`.

## 1. Inventory

The repository is large, but nearly all of it is vendored: programs (`mibench`,
`usertest`), system headers (`sbt-sysheaders`), newlib, and the parts of binutils
that the OpenISA linker does not use. What carries the logic is the MIPS ELF
backend of the linker (`elfxx-mips.c`, with the relocation tables of
`elf32-mips.c`) and the scripts that build everything.

### The linker backend

The generic linker calls the backend in a fixed order: it creates the dynamic
sections, scans the relocations of every input section (`check_relocs`), lets the
backend decide the fate of each dynamic symbol (`adjust_dynamic_symbol`), fixes
sizes (`always_size_sections`, `size_dynamic_sections`), relaxes code, gives
addresses to sections, relocates each input section (`relocate_section`), and
finally fills in the dynamic symbols and sections (`finish_dynamic_symbol`,
`finish_dynamic_sections`). There is one process and no thread. What makes it
hard is the *ordering*: a phase makes estimates that a later phase must not
exceed, hash tables are traversed in an arbitrary order, and the number, the
content and the order of the inputs are the user's.

| Component | State | Operations | What makes it correct |
|---|---|---|---|
| Page estimate and local GOT slots | ranges of addends per (bfd, symbol), `num_pages`, `page_gotno`, `local_gotno`, `assigned_gotno`, local entries | `record_got_page_entry`, `record_local_got_symbol`, the estimate of `lay_out_got`, `create_local_got_entry` | lists sorted and apart, no addend lost, the count an upper bound, no local slot missing at relocation time |
| Multi-GOT layout | the master GOT, a GOT per bfd, `bfd2got`, primary and current GOT, ranges, TLS and global indices, `global_got_area`, lazy stubs, `.rel.dyn` size and use | `lay_out_got`, `multi_got`, `merge_gots`, `initialize_tls_index`, `set_global_got_offset`, `forbid_lazy_stubs`, `sort_hash_table`, TLS slot initialization, the GOT part of `finish_*` | every entry has one slot, no slot is shared, merged GOTs are within 16-bit reach, counters agree with what is output |
| Relocation scan | per-symbol flags, GOT entries, reserved dynamic relocations, MIPS16 stub sections and requests for la25 stubs | `check_relocs`, `allocate_dynrelocs` | what is reserved covers what relocation outputs |
| Symbol disposition | `needs_lazy_stub`, PLT and copy decisions, `possibly_dynamic_relocs`, `la25_stub` | `adjust_dynamic_symbol`, `copy_indirect_symbol`, `check_symbols`, `lay_out_lazy_stubs`, `finish_dynamic_symbol` | each symbol is bound in one way, stubs sized before and filled after agree, a call lands on code of the interface and mode that it assumes |
| Relocation arithmetic | section contents, the list of pending HI16 relocations | `hi16_reloc`, `got16_reloc`, `lo16_reloc`, `calculate_relocation`, `perform_relocation` | the two halves of an address always recombine to it |
| Relaxation | section bytes, relocations, symbols | `relax_section`, `relax_delete_bytes` | labels and relocations stay with their instructions, delay slots and addresses keep their meaning |
| Object attributes and flags | `e_flags` and GNU attributes of the output | `merge_private_bfd_data` | incompatible inputs are rejected whatever their order |

The components meet in shared state: the scan writes the entries and symbol
flags that the layout reads, the layout fixes the counts that relocation uses up,
and symbol disposition takes lazy stubs away and adds dynamic symbols between the
two.

### The build

| Component | State | Operations | What makes it correct |
|---|---|---|---|
| `build.sh`, `artifact17docker/build.sh` | the disk | stages guarded by an artefact, each a list of commands | a run that was stopped can be repeated; a finished one is complete and final |
| `crossbuild_arm.sh`, `run.sh`, `test/` | log files | loops over programs | nothing is carried from one program to the next |

Here the hard behaviour is failure: a download or a compiler can fail, the user
can interrupt a build of several hours, and the only thing that the next run
knows is what is on disk.

### Left aside

newlib and its `libnosys` port (a start file and stubs that keep no state), the
benchmarks and the system headers are third-party code. The remaining tools of
binutils are unchanged.

## 2. Modules

| Module | Models | Code |
|---|---|---|
| `GotPages` | page estimate, local GOT slots | `elfxx-mips.c` 3338-3523, 3708-3886, 8814-8888 |
| `GotPagesProofs` | theorems about `GotPages` | |
| `SumTheorems` | facts about sums and cardinalities over finite sets, for the other proofs | |
| `GotContract` | what a table of slots promises: the abstract specification of the GOT | |
| `MultiGot` | from the master GOT to slots and relocations; implements `GotContract` | `elfxx-mips.c` 2892-3178, 3550-3636, 4008-4717, 8814-8942, 10038-10097, 10752-10786 |
| `MultiGotProofs` | theorems about `MultiGot`, and that it implements `GotContract` | |
| `DynRelocs` | dynamic relocations, PLT entries, lazy stubs and copy relocations from the scan to the output | `elfxx-mips.c` 3550-3670, 5492-5530, 6010-6228, 7831-8334, 8502-9016, 9863-10175, 11509-11561 |
| `DynRelocsProofs` | theorems about `DynRelocs` | |
| `JumpStubs` | calls between MIPS16 and standard, PIC and non-PIC code | `elfxx-mips.c` 1463-1621, 1730-1817, 4960-5350, 7675-7826, 8272-8284, 11509-11561, 14309-14327 |
| `JumpStubsProofs` | theorems about `JumpStubs` | |
| `RelaxSection` | linker relaxation of microMIPS code | `elfxx-mips.c` 11998-12066, 12069-12270, 12423-12837 |
| `RelaxSectionProofs` | theorems about `RelaxSection` | |
| `SpecialRelocs` | the special functions that relocate OpenISA and MIPS16 fields | `elfxx-mips.c` 2170-2370, 11837-11990, `elf32-mips.c` 168-279, 777-835 |
| `SpecialRelocsProofs` | theorems about `SpecialRelocs` | |
| `HeaderMerge` | which inputs fit together and what the header of the output says | `elfxx-mips.c` 6230-6318, 13600-13698, 13703-14096 |
| `HeaderMergeProofs` | theorems about `HeaderMerge` | |
| `ToolchainBuild` | both build scripts, run again after failures | `build.sh`, `artifact17docker/build.sh`, `Dockerfile` |
| `MC...` | instances for TLC: families of links, sections, layouts | |

How they fit together: `check_relocs` is cut by what it writes. Its effect on
`struct mips_elf_link_hash_entry` is in `DynRelocs` (fields for dynamic linking)
and `JumpStubs` (fields for MIPS16 and la25 stubs); the GOT entries that it
records are inputs of `GotPages` (page entries, in any order) and `MultiGot`
(`Links`). `DynRelocs` and `MultiGot` meet in two places: `MultiGot` may take
lazy stubs away (`ForbidLazyStubs`), which `DynRelocs!LayOutGot` allows for any
set of symbols, and both sort the dynamic symbols.

### GotPages

`ranges[ref]` is the list `entry->ranges` of a `mips_got_page_entry`, where `ref`
is its (bfd, symndx) key; `num_pages`, `page_gotno`, `local_gotno` and
`assigned_gotno` have the names of the fields. `seen` is a history variable.
`RecordPage` is one call of `mips_elf_record_got_page_entry`; its five disjuncts
are the paths through it (a new range, extended downwards, unchanged, extended
upwards, extended upwards and joined with the next). `RecordLocal` is
`mips_elf_record_local_got_symbol`. `LayOutGot` is the part of
`mips_elf_lay_out_got` that fixes the local area; it chooses one of the layouts
the linker may arrive at later. `RelocatePage` and `RelocateLocal` are what one
relocation does in `mips_elf_create_local_got_entry`.

A page is `PageSize` bytes instead of 0x10000: the code treats addends only
through distances compared with 0xffff and divisions by 0x10000, both of which
keep their form. That an address is in one of two contiguous segments is the
code's own assumption (the comment at line 8877).

### MultiGot and GotContract

One behaviour is one link. `link` is what the scan has recorded and never changes;
its fields are the master hash table and the per-symbol flags. An entry for a
local symbol stands for one (symndx, addend). `LayOutSingle` and `SplitGot` are
the two outcomes of `mips_elf_lay_out_got`. `MakeGotPerBfd`, `MergeGot`,
`ChoosePrimary`, `AssignRange`, `InitializeTlsIndex`, `NextGot` and
`SetGlobalGotOffsets` are the steps of `mips_elf_multi_got`, `SortDynsyms` is
`mips_elf_sort_hash_table`, called when the link starts to output, `RelocateBfd` is the
effect of `relocate_section` on the GOT for all sections of one bfd, and
`FinishLink` counts what `finish_dynamic_symbol` and `finish_dynamic_sections`
output for GOT slots.

A traversal of a hash table visits its entries in some order: bfds are merged in
any order, TLS entries are indexed in any order, global entries and dynamic
symbols take any permutation of their positions, input bfds are relocated in any
order. GOT indices are counted in entries instead of bytes. VxWorks, where a GOT
is never split, is left out. The model stops short of addresses: that a local
address is already in the GOT is decided by identity of entry or page.

`GotContract` knows no ranges and no lists: references get slots, a slot serves
one symbol, a reference that has its slots keeps them, and a bfd is relocated
when its references have theirs. A symbol of the contract is what an entry is
found by (`Key`, the equality of `mips_elf_multi_got_entry_eq`): a global symbol for all
bfds, a local one for the bfd it belongs to, the TLS module for all.
`MultiGot!Contract` maps `refs` to the entries outside the local area, `uses` to the slots that the GOT of each bfd has for
them, and `relocated` to the bfds that `RelocateBfd` has taken from `todo`. Most
steps of `MultiGot` are stutters; `LayOutSingle` and `SplitGot` settle which
symbols need an entry, `InitializeTlsIndex`, `SetGlobalGotOffsets` and
`SortDynsyms` place.

### DynRelocs

One behaviour is one dynamic link of symbols of given kinds. The linker decides
three times what becomes of a reference: the scan (`CheckReloc`), the adjustment
of symbols (`LazyStub`, `PltEntry`, `WeakAlias`, `NothingToAdjust`,
`RefuseStatic`, `CopyReloc`: the ways through `adjust_dynamic_symbol`) with the
sizes (`AllocateDynrelocs`, `EstimateStubSize`, `LayOutGot`, `LayOutStubs`), and
the output (`SortDynsyms`, `RelocateSection`, `FinishSymbol`, `FinishSections`).
`sym` has the fields of `mips_elf_link_hash_entry` under their names, `plt` the
offset that PLT entries and stubs share, `section` where the value of the symbol
lies. Between the scans of two inputs a symbol can become indirect
(`BecomeIndirect`, `copy_indirect_symbol`). Relocation types are classes by what
the scan does with them, sections by the flags that matter. What the generic
linker does (`def_regular`, `_bfd_elf_symbol_refs_local_p`, dynamic symbols from
the start, its own copy of flags) is marked external.

Faithful to details that look odd: `copy_indirect_symbol` does not combine
`got_only_for_calls`, and for a weak alias it copies `has_static_relocs` only. Both are harmless as far as the properties go. A dynamic
relocation may also be dropped because its field was edited away
(`.eh_frame`); such sections are left out, and the "exactly" of
`RoomForRelocs` is claimed without them. Left out are VxWorks, SGI and TLS.

### JumpStubs

One behaviour reads the objects of a link in some order, each at once followed by
the scan of its stub sections (`ScanStub`) and of any of its calls and addresses
(`ScanReloc`), as the linker does. `other[h]` is the ISA that the symbol table
says at that moment, `sym` the fields for stubs; `CheckSymbol` is
`mips_elf_check_symbols` (fn stubs needed, stub sections excluded, la25 stubs
made) and `Relocate` the part of `calculate_relocation` that picks the
destination and the jump mode. `Versioned` links have a plain name that a later
object makes a name of a versioned definition.

Three kinds of links are left out of the instance because the properties do not
hold for them; nothing in the repository speaks of them, and compilers do not
produce them by themselves. `JumpStubs` defines for each what a usual link is like,
`MCJumpStubs` says that the links of the instance are of the usual kinds, and the
theorems name what they assume:

* a weak MIPS16 definition that gives way to a standard one:
  `merge_symbol_attribute` (line 14315) takes flags only from a definition that
  has some, so the symbol stays MIPS16 (`RightMode` would fail; excluded by
  `ReplacedByItsIsa`);
* a function with two definitions, whose fn stub comes from a PIC object and
  whose winning definition from a non-PIC one: `mips_elf_local_pic_function_p`
  (line 1610) looks at the definition, and the stub gets no la25 stub
  (`RegisterValid` would fail; excluded by `FnStubsFollowDefinition`);
* a versioned MIPS16 function with `.mips16.call.fp` stubs for its plain name and
  for the versioned one: `_bfd_mips_elf_copy_indirect_symbol` puts the stub of the
  plain name in the place of the other, which `check_symbols` then does not drop.
  Nothing leads there, but its jump is relocated, and is a JALX even if it is sent
  to an la25 stub of standard code (`RightMode` would fail; excluded by
  `CallFpStubsForOneName`).

### RelaxSection

One behaviour relaxes one section, relocation by relocation and pass by pass.
`contents` is the list of halfwords, each known by the instruction of the
original code that it belongs to, so that what is deleted can be told;
`relocs` and `value` are the relocations and labels that
`mips_elf_relax_delete_bytes` moves. `DropLui`, `CompactBranch`,
`ShortenBranch` and `ShortenSlot` are the four relaxations in the order the code
tries them, `Keep` a relocation that is left as it is. How far each field
reaches, 2 to the power of its bits less one in the source, is a constant. Not modelled: registers, addends, the ISA bit, several sections that
move each other, instruction halves that look like jumps.

The branch at line 12601 looks one relocation beyond the array when there is no
second next one; what is read there is unknown, so `Keep` may then be taken
instead of `DropLui`.

`Assembled`, `NothingBehind` and `OwnHi` say what sections are like as a rule;
`MCRelaxSection` says that those of `relax` are so, and the theorems name which they
assume:

* `Assembled`: relocations are on instructions they are made for, and the delay
  slot of a JAL has the width that the JAL fixes and holds no branch;
* `NothingBehind`: branches go to labels or to what lies before the section, and
  so does what an ADDIU pair addresses. With data behind the code a later deletion
  moves an ADDIUPC away from the data whose distance was checked before, by a few
  bytes, and a label in the code that a pair addresses can lose its alignment;
  relocation then reports an overflow or a misaligned value. The same happens to a
  short branch to something behind the section;
* `OwnHi`: no two LO16s share a HI16. Those that do are the finding of section 3.

### SpecialRelocs

`ac_link.ld` asks for `OUTPUT_FORMAT("elf32-little")`, which is not the format of
the inputs, so an OpenISA link goes through
`_bfd_elf_mips_get_relocated_section_contents`: every relocation is handed to the
special function of its howto. One behaviour is the sections of one link in
order. `section` and `next` are the place reached, `field` the contents,
`mips_hi16_list` the static list (a set: what is done with it does not depend on
its order); `installed` and `reported` are history variables. `ApplyGeneric` is
`generic_reloc`, `SaveHigh` is `hi16_reloc`, `ApplyLow` is the whole of
`lo16_reloc` with its loop; `Treatment` includes the choice of `got16_reloc`. A
field is a number below a span, and shifts are divisions by a unit: the howto
table is the data of the model. Where the bits lie (bitpos 6 and 12) and the
MIPS16 shuffling of halfwords do not matter to the properties. MIPS16 stands for
microMIPS too, whose howtos are the same. `_bfd_relocate_contents` is in
a file that the repository does not hold (`bfd/reloc.c`); it is modelled from its
use and marked external. Not in this module: GP-relative relocations, partial
links, addresses outside the section.

### HeaderMerge

One behaviour merges the inputs of a link, one after the other in any order.
`e_flags`, `machine` and `fp` are what the output keeps: the flags that are
compared, `bfd_get_mach` and `Tag_GNU_MIPS_ABI_FP`. `MergeFirst`, `MergeAlike` and
`MergeCompared` are the three ways through
`_bfd_mips_elf_merge_private_bfd_data` and `RefuseTarget` its early error returns;
`TakesMachine` and the operators named `...Clash` are its comparisons,
`WithMachine`, `WithConvention` and `WithAses` what it writes. A refused input is in
`refused`, but its ASEs and conventions have already been merged, and the linker
goes on to the next input to report more, as it does in the code. `Flags` are the
combinations that `_bfd_elf_mips_mach` can read from an object.

Not modelled: flags that are not compared (NOREORDER, XGOT, UCODE), the common
GNU attributes, a machine for the output set by the user, the class of the file,
which differs only between targets.

What is accepted depends on the order of the inputs in two ways, about which the
code says nothing: MIPS V and MIPS32 code both run on MIPS64, but go
together only if an input for MIPS64 comes before the second of them; and the ABI of an input is kept
only if it is the first one or brings a new machine, so that two ABIs are noticed in
some orders and not in others. `RefusedForReason` therefore claims that a refusal
has a reason, not that each reason leads to a refusal; for machines, sizes and ASEs
`CodeRuns` and `AsesApart` claim the converse.

An ABI for 64-bit registers (O64, EABI64) in the flags of 32-bit code is left out of
the instance, by `AbisFit`. Such an input and a second one, 32-bit for its ABI only, are
refused for their ABIs; the output takes the machine of the second but not its ABI,
and is no longer known as 32-bit code. A third input is then refused as 32-bit
code linked with 64-bit code, although there is no 64-bit input: `RefusedForReason`
would fail. The error is real, only its wording misleads, and no compiler makes
such flags.

### ToolchainBuild

`artifact` says which of the two scripts runs; `disk` is what survives a run. A
stage is a guard (the `[ ! -f ... ]` test) and a list of commands; consecutive
commands of a script with the same needs are one. `Write`, `Link` and `Clean` are
the effects of commands, `Refuse` a command that fails because of what is or is
not on disk, `Fail` any other failure, `Kill` an interruption, `Crossbuild` the
next `RUN` of the Dockerfile. Outputs of a command appear one by one in an
arbitrary order, since `make -j20`, `ninja` and `git` promise none, and a run can
stop between any two. `cut` is a history variable: the stages in which a run
stopped with the artefact of their guard on disk, which no later run resumes.

## 3. What is checked

Passing runs:

| Run | Question | Instance |
|---|---|---|
| `got_pages_scan` | Do the ranges stay sorted, apart and complete, and is the incremental page count exact and an upper bound, in whatever order addends arrive? | one symbol, 16 addends at all distances around a page of 4 bytes: every order of arrival, every base address |
| `got_pages_link` | Is the estimate always enough? The code asks itself "Is 5 enough?" (line 8879) | four symbols, two segments that may or may not straddle a page |
| `multi_got` | Does every link finish and implement the contract, are merged GOTs within reach, do counters, relocations, dynamic symbol order and stubs agree? | three bfds, with any of a local and two global symbols, pages, two of them, a symbol only relocations use; in an executable, or in a shared object where one of the symbols binds locally; or with any access models of one TLS symbol, the module entry, a global symbol; or with a thread-local symbol of their own |
| `dyn_relocs` | Do the three decisions agree: is there room for every relocation, PLT entry, stub and tag that the output needs? | two symbols: every kind of function beside a library function, undefined functions, one that becomes a name of the other, a weak alias; shared library and executables with and without PLTs and copy relocations; two relocations of any type and section |
| `jump_stubs` | Does every call land on code of the right interface and mode, in a stub that was kept, with $25 set? | three objects in any order, PIC or not; two names of one function, a versioned name, a replaced weak definition; every distribution of stub sections; two relocations |
| `relax` | Does relaxed code mean what it meant? | three of 20 idioms in a row (pairs near and far, shared and interleaved, in delay slots, branches and calls with every kind of delay slot), one label anywhere |
| `special_relocs` | Is every field relocated once, for its own symbol, whatever is left pending; what is lost of a pair; does a branch reach or report? | 64 addresses; pairs with all low addends, branches and jumps, MIPS16 pairs with several high parts, an unpaired high part in an earlier section, local and global GOT relocations |
| `header_merge` | Does the output run all code that it contains, and is an input refused for a reason only, in whatever order the inputs come? | three inputs: any machines, with 32-bit forms, ABIs (those for 64-bit registers too) and an old combination; empty inputs and other targets; calling conventions, ASEs, DSOs and floating point ABIs |
| `build` | What do runs that stop anywhere leave to later ones? | both scripts, four runs |

The bounds are chosen so that the interesting cases happen. In `GotPagesLink.cfg`
the estimate by size (5) is the smaller one and four of its slots are used: with a
slack of 4 the run still passes, with 3 it fails, so the answer to the question of
the comment is yes, with one to spare. In the `MultiGot` runs seven entries, two
of them reserved, stand for the 64 KB limit: links fit in one GOT, or split into
two or three GOTs, with and without merging; bfds that do not fit with any other
occur, and three is the smallest number of bfds for which a primary, a merged and
a secondary GOT exist at once. Links with TLS that differ by a
permutation of the bfds are considered once. In
`dyn_relocs` two symbols are enough for an indirect or an alias pair and two
relocations for any two reasons to treat a symbol in different ways; a normal stub
can load index 2 and a shared library may need one section symbol, so that
indices are out of reach in some links. In `jump_stubs` two relocations are enough
for one that needs a stub and one that does not, or two users of one GOT slot;
relocations of stub sections come on top. In `relax` branches have 5 and 4 bits of reach and
addresses 4 and 6, so that each form fits for some places of the label only, and
three idioms put two deletions between a branch and its label. In
`special_relocs` an OpenISA pair has
16 by 4 addresses and a MIPS16 pair 8 by 8 (18 and 14, 16 and 16 bits in the
source), a jump covers half of the address space and a branch a quarter, so that
low parts carry, displacements leave the field at both ends, and targets are
beyond the region. In `header_merge`
three inputs are the least for which the output stands for two that are not
there any more when the third is compared; each kind of flag is combined with
itself, since the comparisons do not mix them, except machines with sizes and ABIs,
which are together. Four runs
of a script are enough for a failed, a repaired, a finished and a later run.

The bounds named in the modules are `MaxRuns` (runs of a script) and `MaxRelocs`
(relocations that `DynRelocs` and `JumpStubs` scan). A link is finite, so
`MultiGot`, `GotPages`, `RelaxSection`, `SpecialRelocs` and `HeaderMerge` need none.

Liveness is claimed for `MultiGot` (`LinkFinishes`): its loops run along a list
that is circular for a while. The fairness is `WF_vars(Next)`: the linker is one
process that waits for nobody, so some step is taken as long as one is possible.
The other linker modules are single passes; nothing obliges the user to run a
build script again, and none is assumed. Runs whose behaviours end (a link
is finished, the runs of a script are used up) do not check for deadlock;
`got_pages_scan` does.

Each property of a passing run has a mutant of the code's model (operators with a
suffix, placed before the one they change) that TLC finds to violate it.

### Disagreements between the code and what is said of it

These runs end in a counterexample:

* `multi_got_tls_models`, `TlsTypesKept`. A merge drops an entry that matches one
  in the target GOT (`mips_elf_make_got_per_bfd`, line 4181) with its TLS access
  types. If one bfd uses a global TLS symbol by the general dynamic model and
  another by the initial exec model, and their GOTs are merged, the entry that
  both find has one type only; `mips_tls_got_index` asserts that it has the type
  of the relocation (line 3157). The single GOT keeps the types with the symbol
  and has no such case.
* `multi_got_tls_relocs`, `RoomForRelocs`. The loop that reserves room for the
  relocations of the GOTs stops before the primary one (line 4686), which leaves its TLS
  entries without room. `RelocsBalance` shows that this is the only gap: with those
  added, reserved and output relocations agree in all other respects.
* `relax_shared_hi`, `AddressesKept`. A LUI that serves two LO16 relocations must
  stay (comment at line 12600), but the test begins with `irel + 2 >= irelend`
  where `<` is meant, so it is never true inside the array: the LUI is deleted and
  the second instruction lacks the high half of its address.

And four that the models show without a run of their own:

* The newlib stage is guarded by `libc.a`, which is installed before `ac_link.ld`
  and `ac_start.o` (`build.sh:47`); a run that stops in between is followed by one
  that reports "Finished" without them. `FinishedMeansComplete` is therefore stated
  up to the stages in `cut`: those are the only ones that can be incomplete.
* `check_error` of `artifact17docker/build.sh` (line 9) exits with the status of
  its `echo`, 0, so that docker goes on after a failed build, although
  `Dockerfile:33` says the next step depends on the build being completed
  (`ExitStatus`).
* Each half of an OpenISA pair is installed from its own field, so a carry out of
  the low parts of symbol and addend is lost. `PairLosesOnlyTheCarry` shows that
  nothing else is: a pair without a low addend is right.
* An input without sections that matter "cannot actually cause any
  incompatibility" (comment at line 13945), but the test for it comes after the
  first input has given its flags to the output (line 13905): an empty first input
  makes others be refused. `RefusedForReason` therefore counts empty inputs.

## 4. What is proved

Every theorem holds for every value of the constants that the named assumptions
of its module admit; six (three of `JumpStubs`, one of `HeaderMerge`, two of
`RelaxSection`) add hypotheses about the inputs, which TLC evaluates on the instance. Each invariant theorem rests on one inductive invariant per
module, built from named parts; each action is a lemma, with a step per part that
it can disturb. TLC checks the properties themselves on the
instances of section 3.

### GotPages

For every finite set of references, every addends, every page size above 1, every
slack of 4 or more and every set of layouts in two contiguous segments:

* `TypeCorrect`: `Spec => []TypeOK`;
* `RangesStayApart`: `Spec => []RangesApart`. The list of each symbol is sorted
  with gaps of at least a page, however addends arrive. The search loop (which stops at
  the first range that ends late enough) and the join (which looks at one
  neighbour) are only right for such lists;
* `AddendsStayCovered`: `Spec => []SeenCovered`. No extension or join loses an
  addend;
* `EstimatesExact`: `Spec => []NumPagesExact`. The count that is changed by
  differences is what the ranges need, for each symbol and for all;
* `PagesStayBounded`: `Spec => []PagesBounded`. Wherever a symbol ends up, it needs
  no more pages than were counted;
* `GotSpaceSuffices`: `Spec => []EnoughGotSpace`. No relocation finds the local
  area full. The code adds a slack of 5 pages to the size of the segments; 4 are
  enough, and `SlotsAssumption` asks for no more.

`RangesApart` is needed by `SeenCovered` for nothing but bounds of lists, but its
own step is where the work is: an insertion at the place where the search stops is
apart from both neighbours because the range before ended too far below and the
one found began too far above; an extension downwards is apart from its left
neighbour for the first of these reasons; an extension upwards that does not reach
its right neighbour is apart from it by the test, and one that does removes that
neighbour and inherits the distance of the following one. Each path of
`RecordPage` is a lemma; the lemmas on lists (insertion, replacement, removal) are
stated first, then what each does to a sum over the list.

`SpaceInv` adds what is counted: while relocations are processed, the entries
given out are addresses that were recorded or pages that some seen addend lies on
(`Relocating`), and the number of those pages is at most `page_gotno`. There are
two reasons, as there are two estimates: the pages of one range lie between those of
its ends, and the pages of all addresses lie within two segments.

### MultiGot

For every set of bfds and symbols, every link and any limit of a GOT:

* `TypeCorrect`: `Spec => []TypeOK`;
* `AreasMatchTheirCounts`: `Spec => []SortAsserts`. The assertions of
  `mips_elf_sort_hash_table` hold;
* `NoLazySymbolInSecondary`: `Spec => []NoLazySecondary`;
* `LocalEntriesFit`: `Spec => []LocalsFit`;
* `EntriesWithinReach`: `Spec => []WithinReach`;
* `RelocsAgree`: `Spec => []RelocsBalance`. Reserved and written relocations
  differ by the TLS entries of the primary GOT and by nothing else;
* `TableKeepsContract`: `Spec => KeepsContract`. The layout implements
  `GotContract`.

The invariant comes in layers, each proved from the ones before. `Base` says which
GOTs are in line and who uses them (`Shape`), and that the counters of a GOT count
its entries (`Counts`). `AreasPlaced` and `StubsLost` say which symbols are in the
global area and which have lost their stub. `Room` says what pages a GOT was
charged, where its range lies and which local slots are in use; `Reach` what the
estimates of merging bound; `Placement` which slots were given out; `Owned` whose
entries a GOT holds; `Output` which relocations were reserved and written, as sums.

* `LocalsFit`: local entries in use are distinct addresses and pages of the users
  of a GOT, and its local area was charged for all of them, at least once.
* `WithinReach`: a merge is accepted when the sum of the parts, which is no less than
  what the merged GOT holds, is within the limit; the primary GOT is charged for
  all global entries, or its own come first. Ranges begin where the one
  before ends, so the bound on the size is one on the distance.
* `RelocsBalance`: the TLS entries that relocation fills are those of the GOTs in
  line, because each GOT in line owns the entries that its users find in it.
  Both sides are then sums over the same disjoint union, except that the loop
  that reserves stops before the primary GOT. Local slots that are laid out and
  not used explain the inequality for shared objects.

The contract needs four more layers: which TLS entries a single GOT holds
(`SingleHeld`), that GOTs do not overlap (`Line`), that slots do not
(`Apart`: within a GOT global entries come before TLS entries, and no two entries
of a GOT are found by the same key), and which references have their slots at which
point (`Complete`). Each step is then one of the contract's: the two layouts are
`Settle`, the three passes that give out indices are `Place`, `RelocateBfd` is
`Relocate`, all others stutter. `EntriesAssumption` is needed here: a symbol is
thread-local or it is not, so that no key has a slot in both areas.

The proof could not be done with references identified by bfd and symbol alone, as
the mapping first had it: two thread-local symbols of the same name in different
bfds are different symbols. References are therefore keys, and `multi_got` has
links with thread-local symbols that are local.

The assumptions used are `NamesAssumption`, `SizesAssumption`, `LinksAssumption`
and `EntriesAssumption`.

### DynRelocs

For every finite set of symbols, every set of links and any number of relocations:

* `TypeCorrect`: `Spec => []TypeOK`;
* `RelocsFitTheirRoom`: `Spec => []RoomForRelocs`;
* `NothingInLibrary`: `Spec => []ResolvedInOutput`;
* `AllocatedIsWritten`: `Spec => []WrittenAsAllocated`;
* `RelocsKeepGotEntries`: `Spec => []GotAreaKept`;
* `StubsReachTheirSymbols`: `Spec => []StubsLoadIndex`;
* `TextRelocsAnnounced`: `Spec => []TextRelTagged`.

The scan forgets relocations and keeps counters and flags; the output sees the
relocations again. The invariant says what the counters and flags recall. `TypeInv`:
`possibly_dynamic_relocs` of a symbol is the sum over the relocations that name it
or a name that has become indirect to it, unless a PLT entry or a copy has
replaced them. `SymInv`: which flags are set by which relocations, which
combinations an entry can have after the adjustment, and what has been decided for
each symbol (`Disposition`). From these, each on its own: `RoomInv` (reserved and
written so far, as sums over the same set of references), `TextInv`, `IndexInv`
(a stub that cannot load its index was made big before indices were final),
`AreaInv` (a symbol with dynamic relocations is not moved out of the global area)
and `WrittenInv`.

The assumptions used are those of the module. They say how names and weak aliases
are chained (`IndirectAssumption`, `AliasAssumption`), that a symbol that is not
visible is not taken from a library (`LibraryAssumption`), that PLT entries belong to
executables (`PltAssumption`), and types (`LinkAssumption`, `BoundsAssumption`);
each is something that the linker proper sees to before or between the calls of
the backend.

### SpecialRelocs

For every link and all widths of fields:

* `TypeCorrect`: `Spec => []TypeOK`;
* `EachFieldOnce`: `Spec => []InstalledOnceForOwnSymbol`;
* `PairsKeepTheirSum`: `Spec => []PairLosesOnlyTheCarry`;
* `BranchesReach`: `Spec => []BranchReaches`.

The invariant describes each site by its place: whether it waits on
`mips_hi16_list` (`Waits`: it is a high part that was passed, and no low part
that takes it was), what was installed there (`WasInstalled`), what the field holds
as a consequence (`Holds`) and whether an overflow was reported (`Reported`). The
loop of `lo16_reloc` takes the high parts of its own symbol and leaves the others,
so that each has a first low part that installs it. What the fields then make
together is arithmetic: cutting the two halves of a sum to their widths loses the
carry between them and nothing else, and a signed field that did not overflow is the
distance divided by 4. `SpansAssumption` says that both kinds of pairs cover the
address space, which is a multiple of what a jump and a branch reach, and
`LinksAssumption` that a field holds no more than its width and that instructions
and branch targets are aligned.

### JumpStubs

For every set of objects, symbols and links, including the kinds that the
instance leaves out (section 2):

* `TypeCorrect`: `Spec => []TypeOK`;
* `StubsStayKept`: `Spec => []StubsKept`. No relocation, la25 stub or exported
  symbol ends at a stub section that was dropped;
* `SlotsAgree`: `Spec => []OneGotValue`.

For the links of the kinds that the hypotheses name:

* `InterfacesMatch`: `Spec => []RightInterface`, given `ReplacedByItsIsa`;
* `RegistersAreValid`: `Spec => []RegisterValid`, given `ReplacedByItsIsa` and
  `FnStubsFollowDefinition`;
* `ModesAreRight`: `Spec => []RightMode`, given `ReplacedByItsIsa` and
  `CallFpStubsForOneName`.

A stub is dropped in `CheckSymbol`, for what the scan remembered of references
that may have been made under another name; whether it was needed shows in
`Relocate`. The inductive invariant `IInv` carries the reason from one to the
other: a symbol has stubs of its own only (`OwnStubs`, so that dropping those of
one symbol leaves the others alone, and that a stub moves together with its name);
before a symbol is checked none of its stubs has been dropped, and after that only
those that neither `need_fn_stub` nor the ISA calls for (`StubsDropped`);
every reference that wants the standard interface has set `need_fn_stub` of the
symbol that its name stands for now (`ReferencesRemembered`, which
`BecomeIndirect` can only keep because `CopyIndirect` combines the flags);
an la25 stub for MIPS16 code is one for a stub that is needed (`La25Needed`); and
relocations are performed when nothing of this changes any more (`ResolvedLast`).
`SlotsAgree` follows from `ReferencesRemembered`: a standard call by the GOT
forces the stub upon the MIPS16 calls, which bypass it only when there is none.

The last three compare what the linker did with the link as it really is, so a
second invariant, `CodeInv`, says that what it knew was right: the flags of a
symbol are those of its definition as soon as that is read, and never say MIPS16 of
another (`Functions`, where `ReplacedByItsIsa` is needed); each stub section that
was scanned is found at its symbol, by whatever name (`StubsFound`); so is each
plain jump from code that is not PIC (`BranchesRemembered`); and from both
`check_symbols` has made the la25 stubs that are wanted, and for MIPS16 code only
those of fn stubs (`La25Made`). `ModesAreRight` also needs that the jump of a call
stub that returns, the only stub with a plain jump, is not relocated on its way to
MIPS16 code. That is `FpInv`: such a jump is that of the stub that its symbol has
(`JumpsOfStubs`), `check_symbols` drops it if the symbol is MIPS16 (`FpDropped`),
and only what is emitted is relocated (`EmittedOnly`). The first attempt failed at
`BecomeIndirect`, for the links of the third kind; TLC then showed the violation on
one of them. The assumptions used are `LinksAssumption` and `NoneAssumption`.

### HeaderMerge

For every set of inputs, however many there are, in any order:

* `TypeCorrect`: `Spec => []TypeOK`;
* `AsesStayApart`: `Spec => []AsesApart`. A link in which no input is refused
  has no MIPS16 code beside microMIPS code, and its header names all ASEs;
* `ConventionOfAll`: `Spec => []PicOfAll`;
* `FloatMixIsWarned`: `Spec => []FloatMixWarned`;
* `OutputRunsCode`: `Spec => []CodeRuns`. The machine of the output runs all code
  that it contains;
* `RefusalsHaveReason`: `Spec => []RefusedForReason`, given `AbisFit` (section 2).

Each input is compared with the output only, so the invariant says what the output
keeps of all inputs before: it has flags and an attribute as soon as an input was
merged (`Started`); its attribute is that of every input that has one and did not
warn (`FloatKept`, from which two inputs that differ cannot both be silent); its
ASEs contain those of its inputs and do not contain both of the two that exclude
each other (`AsesKept`), which makes the comparison with the union enough. The
assumptions used are `InputsAssumption` and `NoneAssumption`.

`OutputRunsCode` needs that machines which were compared one after the other also go
together, which is a matter of the table. `mips_mach_extends_p` reads it once, from its
start; `Runs` is defined by recursion along the rows, whatever their order.
`ExtendsIsRuns` shows that both are the same. It rests on one fact about the data, that
the row of a machine comes after the rows of those that extend it (`RowsSorted`): then
what the pass has met is closed under the rows already read (`ChainClosed`) and
contains nothing else (`ChainLeast`). With the table in a wrong order the lemma is false. So
the order that the function computes is transitive, and a machine that extends that
of the output extends those of all inputs before.

For `RefusalsHaveReason` the invariant is `Reasons`: each thing that an input is
compared with (machine, size, ABI, each ASE) was that of some input before, although
of different ones. A refusal is then the fault of one of them. Size is the hard part, because
the output can be 32-bit code for the ISA level, the mode or the ABI, and
`WithMachine` must not lose the reason; TLC found the links that `AbisFit` excludes
when the proof stopped there.

### RelaxSection

For every section, all labels and addresses, and fields of any width:

* `TypeCorrect`: `Spec => []TypeOK`. After any number of deletions the bytes are
  whole instructions in their old order, each of the size that its opcode has now;
* `RelocationsFollow`: `Spec => []LabelsFollow`.

For the sections that the hypotheses of section 2 describe:

* `ShortBranchesReach`: `Spec => []BranchesReach`, given `Assembled` and
  `NothingBehind`;
* `RelaxationKeepsMeaning`: `Spec => []MeaningKept`, given these and `OwnHi`.

The inductive invariant `IInv` ties offsets to code: halfwords are in order and each
instruction whole (`Decodes`), each offset of a relocation or label cuts the
halfwords between the same instructions as at the start (`Placed`), a relocation
keeps its instruction (`Named`), no opcode is replaced twice (`Opcodes`), and only
LUIs and NOPs are ever missing (`OnlyDropped`). All four relaxations are shown to be
one kind of step (`Deletion`: an instruction is taken out, or the second half of one
that has a short form from now on), and what a deletion does is proved once.
The code looks at raw halfwords before a relocation; that it finds an instruction
there, and not the second half of another, follows from `Decodes`.

`FormsHold` says that each form that was chosen is still right: a branch, or an
address before the code, that fitted once fits after any deletion, because deletions
bring labels closer and move code towards the data (`MovesDown`). A branch is
shortened before its own second half is deleted, for which the code allows by
counting from the instruction after the short form. `DelaySlotsKept` is inductive
with `IInv`: the deleted LUI follows no jump, because the code has looked for 16-bit
and 32-bit jumps before it, and the deleted NOP follows a jump that was just made
compact. `HiKept` says that a LO16 whose form is
unchanged has its LUI: the LUI of a HI16 goes only together with the form of the LO16
next to it, and with `OwnHi` no other needs it. The proof of `HiKept` fails
without `OwnHi`, at the relocation that the condition in line 12601 was to find.

### What the proofs rest on, and what is left to TLC

Most of these arguments are about sums and cardinalities. Both are folds over
finite sets, and `SumTheorems` derives what the other modules cite: the sum of a
disjoint union, of a set with one more element, of two functions one below the
other, the cardinality of an image. Where induction over a finite set is needed,
the module takes a subset that is minimal among those for which the claim fails
(`SetInduction`), which the provers can follow.

Only proved, since a run on a small instance says less: `TypeCorrect` of `GotPages`
and `HeaderMerge`, `ConventionOfAll` and `FloatMixIsWarned`.

Only model-checked:

* `LinkFinishes`: liveness is out of the provers' reach;
* the properties of `ToolchainBuild`, whose scripts are fixed, so that only the
  number of runs is left open.

## 5. What is not modelled

* The values that `calculate_relocation` and `perform_relocation` compute, which a
  link without `ac_link.ld` uses (which stub or dynamic relocation they choose is
  in `JumpStubs` and `DynRelocs`), and GP-relative relocations.
* How the scan builds GOT entries: they are inputs of `GotPages` and `MultiGot`.
* Garbage collection and `.pdr` editing; `_bfd_mips_relax_section`, which
  `elf32-mips.c` does not use; VxWorks, IRIX, SGI specifics.
* `crossbuild_arm.sh` and `run.sh`, beyond being started; the test scripts, which
  compare outputs program by program and keep no state.
* newlib, benchmarks, headers: third-party.

## 6. Plan

What is left, in order of importance:

1. Proofs: `FinishedIsFinal` and `FinishedMeansComplete` for any number of runs.
2. A composition in which `DynRelocs` and `MultiGot` share the symbol table, so
   that `lost` in `DynRelocs!LayOutGot` is what `ForbidLazyStubs` takes.
3. Relaxation of two sections at once, where data can lie behind code.
4. The values of `calculate_relocation`, with the OpenISA fields it still splits
   16 and 16.
