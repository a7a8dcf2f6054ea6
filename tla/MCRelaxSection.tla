--------------------------- MODULE MCRelaxSection ---------------------------
(***************************************************************************)
(* Small sections for RelaxSection, put together from idioms of compiled   *)
(* code.  Addresses are of data; branches and calls are to one label.      *)
(***************************************************************************)
EXTENDS RelaxSection

CONSTANTS l, near, far

I(o) == <<[op |-> o, type |-> "NONE", sym |-> l]>>

R(o, t, s) == <<[op |-> o, type |-> t, sym |-> s]>>

Hi(s) == R("lui", "HI16", s)

Lo(o, s) == R(o, "LO16", s)

\* near fits 16 bits (here 4).  far is in reach of ADDIUPC (here 6 bits) from the
\* beginning of the section; it lies before it, so code never moves away from it
\* (see the README for data behind the code).
MCAddress == [s \in Data |-> IF s = near THEN 4 ELSE 8]

MCReach == [HI0_LO16 |-> 2^3, PC23 |-> 2^5, PC10 |-> 2^4, PC7 |-> 2^3]

Addresses ==
  {Hi(s) \o Lo(o, s) : s \in {near, far}, o \in {"addiu", "load"}}
  \cup {Hi(s) \o R("b", "PC16", l) \o Lo("addiu", s) : s \in {near, far}}
  \cup {Hi(near) \o Hi(far) \o Lo("addiu", near) \o Lo("addiu", far),
        Hi(far) \o Hi(far) \o Lo("addiu", far),
        Hi(near) \o I("jr16") \o Lo("load", near),
        I("jr16") \o Hi(near) \o Lo("load", near),
        I("beq") \o Hi(near) \o Lo("addiu", near)}

Branches ==
  {R(o, "PC16", l) \o I(slot) : o \in {"beqz", "b"}, slot \in {"nop", "insn16", "insn"}}

Calls == {R("jal", "26", l) \o I(slot) : slot \in {"nop32", "move32", "insn"}}

Idioms == Addresses \cup Branches \cup Calls

CodeOf(idioms) == {a \o b \o c : a, b, c \in idioms}

MCSections ==
  UNION {[code : {code}, label : [Labels -> 1..(Len(code) + 1)]] :
           code \in CodeOf(Idioms)}

\* The sections of this run are among those of the theorems.
ASSUME UsualSections == \A s \in MCSections : Assembled(s) /\ NothingBehind(s) /\ OwnHi(s)

\* Two loads from one object: the second relies on the LUI as well.
SharedHi ==
  UNION {[code : {a \o Hi(near) \o Lo("load", near) \o Lo("load", near) \o b},
          label : [Labels -> {1}]] : a, b \in Branches \cup {Hi(near) \o Lo("load", near)}}
=============================================================================
