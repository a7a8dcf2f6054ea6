--------------------------- MODULE MCHeaderMerge ---------------------------
(***************************************************************************)
(* Inputs for HeaderMerge: three bfds, each of one of a few kinds.         *)
(***************************************************************************)
EXTENDS HeaderMerge

F(arch, mach, abi) ==
  [arch |-> arch, mach |-> mach, mode32 |-> FALSE, abi |-> abi,
   pic |-> FALSE, cpic |-> FALSE, ase |-> {}, rest |-> FALSE]

Object(flags) ==
  [fits |-> TRUE, flags |-> flags, fp |-> 0, empty |-> FALSE, dynamic |-> FALSE]

\* The ISA level in the flags of an object for machine m.
ArchOf(m) ==
  CASE m = "3900" -> "1"
    [] m \in {"4010", "4100", "4111", "4120", "4650", "loongson_2e", "loongson_2f"} -> "3"
    [] m \in {"5400", "5500", "9000"} -> "4"
    [] m \in {"sb1", "loongson_3a", "xlr"} -> "64"
    [] m \in {"octeon", "octeon2"} -> "64r2"
    [] OTHER -> CHOOSE arch \in Archs : LevelMachine[arch] = m

InputMachines == NamedMachines \cup {LevelMachine[arch] : arch \in Archs}

\* All machines that an object can name, without an ABI in the flags; some with
\* 64-bit registers of which code uses half, because of the ABI or of the mode;
\* other ABIs; and the old combination of a 32-bit level and a 64-bit machine.
MachineKinds ==
  {Object(F(ArchOf(m), m, "none")) : m \in InputMachines}
  \cup {Object(F(ArchOf(m), m, "o32")) :
          m \in {"4000", "4120", "8000", "5500", "5", "isa64", "octeon2"}}
  \cup {Object([F(ArchOf(m), m, "none") EXCEPT !.mode32 = TRUE]) : m \in {"4000", "isa64"}}
  \cup {Object(F("1", "3000", abi)) : abi \in {"o32", "eabi32"}}
  \cup {Object(F("3", "4000", "o64")), Object(F("64", "isa64", "eabi64"))}
  \cup {Object(F("2", "4120", "none"))}

\* Objects without code, of another target, or with an unknown flag.
OddKinds ==
  {[Object(F(x[1], x[2], "none")) EXCEPT !.empty = e] :
     x \in {<<"1", "3000">>, <<"2", "6000">>, <<"64", "isa64">>, <<"1", "3900">>},
     e \in BOOLEAN}
  \cup {[Object(F("1", "3000", "none")) EXCEPT !.fits = FALSE],
        Object([F("1", "3000", "none") EXCEPT !.rest = TRUE])}

\* Calling conventions, ASEs and floating point ABIs.
ConventionKinds ==
  {[Object([F("32", "isa32", "o32") EXCEPT !.pic = x[1], !.cpic = x[2], !.ase = ase])
      EXCEPT !.dynamic = x[3], !.fp = n] :
     x \in {<<FALSE, FALSE, FALSE>>, <<FALSE, TRUE, FALSE>>, <<TRUE, TRUE, FALSE>>,
            <<TRUE, TRUE, TRUE>>},
     ase \in {{}, {"m16"}, {"micro"}}, n \in {0, 1}}
  \cup {[Object(F("32", "isa32", "o32")) EXCEPT !.fp = n] : n \in {3, 5}}
  \cup {Object([F("32", "isa32", "o32") EXCEPT !.ase = {"mdmx"}])}

MCInputs ==
  [Bfds -> MachineKinds] \cup [Bfds -> OddKinds] \cup [Bfds -> ConventionKinds]

ASSUME UsualInputs == AbisFit
=============================================================================
