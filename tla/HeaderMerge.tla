---------------------------- MODULE HeaderMerge ----------------------------
(***************************************************************************)
(* How the linker decides whether input objects fit together, and what the *)
(* header of the output says of them: _bfd_mips_elf_merge_private_bfd_data,*)
(* called for one input after the other.  Each is only compared with what  *)
(* has become of the output, so what is kept there must stand for all      *)
(* inputs before.                                                          *)
(*                                                                         *)
(* Left out: flags that are not compared (NOREORDER, XGOT, UCODE), the     *)
(* common GNU attributes, an output machine set by the user.               *)
(***************************************************************************)
EXTENDS Naturals, SequencesExt

CONSTANTS
  Bfds,   \* input bfds
  None,   \* not initialized
  Inputs  \* the inputs considered: functions from Bfds to Input

\* BFD machines, bfd_mach_mips...
Machines ==
  {"octeon2", "octeonp", "octeon", "isa64r2", "sb1", "xlr", "loongson_3a", "isa64",
   "12000", "14000", "16000", "10000", "5500", "5400", "5", "5000", "7000", "9000",
   "4120", "4111", "4100", "loongson_2e", "loongson_2f", "8000", "4650", "4600",
   "4400", "4300", "4010", "isa32r2", "isa32", "4000", "6000", "3900", "3000"}

\* Each row: a machine and the one that it extends.
mips_mach_extensions ==
  << <<"octeon2", "octeonp">>, <<"octeonp", "octeon">>, <<"octeon", "isa64r2">>,
     <<"isa64r2", "isa64">>, <<"sb1", "isa64">>, <<"xlr", "isa64">>,
     <<"loongson_3a", "isa64">>, <<"isa64", "5">>,
     <<"12000", "10000">>, <<"14000", "10000">>, <<"16000", "10000">>,
     <<"5500", "5400">>, <<"5400", "5000">>,
     <<"5", "8000">>, <<"10000", "8000">>, <<"5000", "8000">>, <<"7000", "8000">>,
     <<"9000", "8000">>, <<"4120", "4100">>, <<"4111", "4100">>,
     <<"loongson_2e", "4000">>, <<"loongson_2f", "4000">>, <<"8000", "4000">>,
     <<"4650", "4000">>, <<"4600", "4000">>, <<"4400", "4000">>, <<"4300", "4000">>,
     <<"4100", "4000">>, <<"4010", "4000">>, <<"isa32r2", "isa32">>,
     <<"4000", "6000">>, <<"isa32", "6000">>, <<"6000", "3000">>, <<"3900", "3000">> >>

\* _bfd_elf_mips_mach: EF_MIPS_ARCH is an ISA level, that stands for a machine if
\* EF_MIPS_MACH does not name one.
LevelMachine ==
  [arch \in {"1", "2", "3", "4", "5", "32", "64", "32r2", "64r2"} |->
     CASE arch = "1" -> "3000"  [] arch = "2" -> "6000"
       [] arch = "3" -> "4000"  [] arch = "4" -> "8000"
       [] arch = "5" -> "5"
       [] arch = "32" -> "isa32"      [] arch = "64" -> "isa64"
       [] arch = "32r2" -> "isa32r2"  [] arch = "64r2" -> "isa64r2"]

Archs == DOMAIN LevelMachine

\* Those that EF_MIPS_MACH can name.
NamedMachines ==
  {"3900", "4010", "4100", "4111", "4120", "4650", "5400", "5500", "9000", "sb1",
   "loongson_2e", "loongson_2f", "loongson_3a", "octeon2", "octeon", "xlr"}

Ases == {"m16", "micro", "mdmx"}

\* The parts of e_flags that are compared: the ISA level, the machine that it and
\* EF_MIPS_MACH name together, and so on; rest is any other bit.
FlagsWith(aseSets) ==
  [arch : Archs, mach : Machines, mode32 : BOOLEAN,
   abi : {"none", "o32", "o64", "eabi32", "eabi64"},
   pic : BOOLEAN, cpic : BOOLEAN, ase : aseSets, rest : BOOLEAN]

\* Flags of an object: they name its machine, and it is not for both of the ASEs
\* that use the same bit of addresses.
Flags ==
  {flags \in FlagsWith({ases \in SUBSET Ases : ~({"m16", "micro"} \subseteq ases)}) :
     flags.mach \in NamedMachines \cup {LevelMachine[flags.arch]}}

\* An input: whether it is for the target of the output, its flags and its
\* Tag_GNU_MIPS_ABI_FP, whether it holds nothing, whether it is a DSO.
Input ==
  [fits : BOOLEAN, flags : Flags, fp : 0..5, empty : BOOLEAN, dynamic : BOOLEAN]

ASSUME InputsAssumption == Inputs \subseteq [Bfds -> Input]
ASSUME NoneAssumption == None \notin FlagsWith(SUBSET Ases) \cup Machines \cup 0..5

VARIABLES
  input,    \* the inputs; never changes
  todo,     \* bfds that have not been merged
  e_flags,  \* flags of the output, or None
  machine,  \* bfd_get_mach of the output, or None
  fp,       \* Tag_GNU_MIPS_ABI_FP of the output, or None
  refused,  \* bfds that could not be merged
  warned    \* bfds whose floating point ABI gave a warning

vars == <<input, todo, e_flags, machine, fp, refused, warned>>

-----------------------------------------------------------------------------
\* Mutant: the table is searched from its end.
Chain_FromTheEnd ==
  [extension \in Machines |->
     FoldRight(LAMBDA row, on : IF row[1] \in on THEN on \cup {row[2]} ELSE on,
               mips_mach_extensions, {extension})]

\* The machines that one pass over the table, following extension, meets.
Chain ==
  [extension \in Machines |->
     FoldLeft(LAMBDA on, row : IF row[1] \in on THEN on \cup {row[2]} ELSE on,
              {extension}, mips_mach_extensions)]

\* mips_mach_extends_p.
MachExtends(base, extension) ==
  \/ base \in Chain[extension]
  \/ base = "isa32" /\ "isa64" \in Chain[extension]
  \/ base = "isa32r2" /\ "isa64r2" \in Chain[extension]

\* mips_32bit_flags_p.
Is32(flags) ==
  \/ flags.mode32
  \/ flags.abi \in {"o32", "eabi32"}
  \/ flags.arch \in {"1", "2", "32", "32r2"}

\* The usual inputs: code of 32 bits does not use an ABI for 64-bit registers (see
\* the README for the others).
AbiFits(flags) == flags.abi \in {"o64", "eabi64"} => ~Is32(flags)

AbisFit == \A in \in Inputs : \A b \in Bfds : AbiFits(in[b].flags)

Init ==
  /\ input \in Inputs
  /\ todo = Bfds
  /\ e_flags = None /\ machine = None /\ fp = None
  /\ refused = {} /\ warned = {}

-----------------------------------------------------------------------------
\* mips_elf_merge_obj_attributes: the first one that says something wins, and a
\* different one, or one that is unknown, gives a warning.
MergeAttributes(b) ==
  LET in == input[b].fp IN
  /\ fp' = IF fp \in {None, 0} THEN in ELSE fp
  /\ warned' = IF fp \notin {None, 0, in} /\ in # 0 THEN warned \cup {b} ELSE warned

Take(b) == b \in todo /\ todo' = todo \ {b} /\ UNCHANGED input

\* Of other endianness or another target.
RefuseTarget(b) ==
  /\ Take(b)
  /\ ~input[b].fits
  /\ refused' = refused \cup {b}
  /\ UNCHANGED <<e_flags, machine, fp, warned>>

\* The first input gives its flags to the output.
MergeFirst(b) ==
  /\ Take(b)
  /\ input[b].fits /\ e_flags = None
  /\ MergeAttributes(b)
  /\ e_flags' = input[b].flags
  /\ machine' = input[b].flags.mach
  /\ UNCHANGED refused

\* DSOs should only be linked with CPIC code.
NewFlags(b) ==
  [input[b].flags EXCEPT !.pic = @ \/ input[b].dynamic, !.cpic = @ \/ input[b].dynamic]

\* Nothing to compare: the flags are those of the output, or there is no code.
MergeAlike(b) ==
  /\ Take(b)
  /\ input[b].fits /\ e_flags # None
  /\ NewFlags(b) = e_flags \/ input[b].empty
  /\ MergeAttributes(b)
  /\ UNCHANGED <<e_flags, machine, refused>>

SizeClash(new) == Is32(new) # Is32(e_flags)

\* The output becomes one for the machine of the input.
TakesMachine(new) ==
  /\ ~SizeClash(new)
  /\ ~MachExtends(new.mach, machine) /\ MachExtends(machine, new.mach)

MachineClash(new) ==
  /\ ~SizeClash(new)
  /\ ~MachExtends(new.mach, machine) /\ ~MachExtends(machine, new.mach)

AbiClash(new) == "none" \notin {new.abi, e_flags.abi} /\ new.abi # e_flags.abi

AseClash(new) ==
  \/ "m16" \in e_flags.ase /\ "micro" \in new.ase
  \/ "micro" \in e_flags.ase /\ "m16" \in new.ase

RestClash(new) == new.rest # e_flags.rest

Clash(new) ==
  SizeClash(new) \/ MachineClash(new) \/ AbiClash(new) \/ AseClash(new) \/ RestClash(new)

\* Mutant: the flag that makes the input a 32-bit one is not copied.
WithMachine_NoMode(flags, new) == [flags EXCEPT !.arch = new.arch, !.mach = new.mach]

\* The ABI comes along if it is what makes the input a 32-bit one.
WithMachine(flags, new) ==
  [flags EXCEPT
     !.arch = new.arch, !.mach = new.mach, !.mode32 = @ \/ new.mode32,
     !.abi = IF @ = "none" /\ Is32(new) /\ ~Is32([new EXCEPT !.abi = "none"])
             THEN new.abi ELSE @]

WithConvention(flags, new) ==
  [flags EXCEPT !.cpic = @ \/ new.pic \/ new.cpic, !.pic = @ /\ new.pic]

\* Mutant: the ASEs of the first input are kept.
WithAses_First(flags, new) == flags

WithAses(flags, new) == [flags EXCEPT !.ase = @ \cup new.ase]

\* Flags are merged even if the input is refused, and later inputs are still
\* looked at.
MergeCompared(b) ==
  LET new == NewFlags(b) IN
  /\ Take(b)
  /\ input[b].fits /\ e_flags # None
  /\ new # e_flags /\ ~input[b].empty
  /\ MergeAttributes(b)
  /\ LET merged == WithAses(WithConvention(e_flags, new), new) IN
     e_flags' = IF TakesMachine(new) THEN WithMachine(merged, new) ELSE merged
  /\ machine' = IF TakesMachine(new) THEN new.mach ELSE machine
  /\ refused' = IF Clash(new) THEN refused \cup {b} ELSE refused

Next ==
  \E b \in Bfds :
    RefuseTarget(b) \/ MergeFirst(b) \/ MergeAlike(b) \/ MergeCompared(b)

Spec == Init /\ [][Next]_vars

-----------------------------------------------------------------------------
\* Every variable keeps its type (refused inputs leave ASEs, too), and the flags of
\* the output name its machine.
TypeOK ==
  /\ input \in Inputs
  /\ todo \subseteq Bfds /\ refused \subseteq Bfds /\ warned \subseteq Bfds
  /\ e_flags = None \/ e_flags \in FlagsWith(SUBSET Ases)
  /\ machine = IF e_flags = None THEN None ELSE e_flags.mach
  /\ fp \in 0..5 \cup {None}

\* The direct bases of a machine: those of the table, and the 32-bit forms.
Bases(m) ==
  {row[2] : row \in {row \in ToSet(mips_mach_extensions) : row[1] = m}}
  \cup (IF m = "isa64" THEN {"isa32"} ELSE IF m = "isa64r2" THEN {"isa32r2"} ELSE {})

\* The machines whose code m runs.
Runs ==
  LET runs[m \in Machines] == {m} \cup UNION {runs[base] : base \in Bases(m)}
  IN [m \in Machines |-> runs[m]]

\* Inputs with code that the output contains.
Contained == {b \in Bfds \ todo : input[b].fits /\ ~input[b].empty}

\* A link that succeeds makes an output that is for a machine that runs all of
\* its code, and that is recognised as 32-bit code ("so that we continue to
\* recognise OBFD as a 32-bit binary", line 14001) if all of its code is.
CodeRuns ==
  refused = {} => \A b \in Contained :
    /\ input[b].flags.mach \in Runs[machine]
    /\ Is32(input[b].flags) = Is32(e_flags)

\* Two inputs that no output can contain together.
Incompatible(a, b) ==
  LET x == NewFlags(a)  y == NewFlags(b) IN
  \/ Is32(x) # Is32(y)
  \/ x.mach \notin Runs[y.mach] /\ y.mach \notin Runs[x.mach]
  \/ "none" \notin {x.abi, y.abi} /\ x.abi # y.abi
  \/ {"m16", "micro"} \subseteq x.ase \cup y.ase
  \/ x.rest # y.rest

\* An input is refused only if one input before it does not go together with it,
\* however many inputs the flags of the output stand for.  That one may be empty: whatever comes first gives its flags to the output (line 13905),
\* although an empty input "cannot actually cause any incompatibility" (line 13945).
RefusedForReason ==
  \A b \in refused :
    \/ ~input[b].fits
    \/ \E a \in (Bfds \ todo) \ {b} : input[a].fits /\ Incompatible(a, b)

\* "Forbid linking MIPS16 and microMIPS ASE modules together and allow arbitrary
\* mixing of the remaining ASEs (retain the union)" (line 14052).
AsesApart ==
  refused = {} =>
    /\ \A b \in Contained : input[b].flags.ase \subseteq e_flags.ase
    /\ ~\E a, b \in Contained :
         a # b /\ "m16" \in input[a].flags.ase /\ "micro" \in input[b].flags.ase

\* The output is PIC only if all of its code is, and uses abicalls if any does.
PicOfAll ==
  \A b \in Contained :
    /\ e_flags.pic => NewFlags(b).pic
    /\ input[b].flags.cpic => e_flags.cpic

\* Of two inputs that pass floating point values in different ways at least one
\* gives a warning, in whatever order they and inputs that do not care come.
FloatMixWarned ==
  \A a, b \in {b \in Bfds \ todo : input[b].fits} :
    input[a].fp # 0 /\ input[b].fp # 0 /\ input[a].fp # input[b].fp
    => a \in warned \/ b \in warned

=============================================================================
