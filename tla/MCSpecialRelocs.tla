-------------------------- MODULE MCSpecialRelocs --------------------------
(***************************************************************************)
(* Small links for SpecialRelocs.  The address space has 64 addresses: 16  *)
(* by 4 for an OpenISA pair, 8 by 8 for a MIPS16 one; a jump covers half   *)
(* of it and a branch a quarter of it, so that each of them can miss.      *)
(***************************************************************************)
EXTENDS SpecialRelocs

R(type, sym, imm) == [type |-> type, sym |-> sym, field |-> imm]

\* An OpenISA pair with high addend hi and low addend lo, and a MIPS16 pair.
OiPair(sym, hi, lo)  == <<R("R_MIPS_HI16", sym, hi), R("R_MIPS_LO16", sym, lo)>>
M16Pair(sym, hi, lo) == <<R("R_MIPS16_HI16", sym, hi), R("R_MIPS16_LO16", sym, lo)>>

\* OpenISA code: pairs, a jump and branches forwards and backwards.
OpenIsaSections ==
    {<<OiPair("f", hi, lo) \o <<R("R_MIPS_PC16", "g", b)>>>> :
        hi \in {0, 9}, lo \in 0 .. 3, b \in {0, 1, 3}}
  \union
    {<<<<R("R_MIPS_26", "f", a)>> \o OiPair("g", 0, lo)>> :
        a \in {0, 1}, lo \in {0, 2}}

\* MIPS16 code: pairs in a row, several high parts for one low part, GOT
\* relocations, and a first section that ends in a high part with no low part.
Mips16Sections ==
    {<<M16Pair("f", 1, lo) \o M16Pair("g", 0, lo)>> : lo \in {0, 5}}
  \union
    {<<<<R("R_MIPS16_HI16", "f", 0)>> \o M16Pair("f", 2, 7),
       <<R(got, "g", 0), R("R_MIPS16_LO16", "g", 1)>> \o OiPair("f", 1, 1)>> :
        got \in {"R_MIPS16_GOT16", "R_MIPS16_HI16"}}
  \union
    {<<<<R("R_MIPS16_LO16", "f", 0), R("R_MIPS16_HI16", "f", 0)>>,
       M16Pair("g", 0, 1) \o <<R("R_MIPS_GOT16", "g", 0)>>>>}

LinksOf(layouts, locals) ==
    {[sections |-> ss, base |-> [s \in DOMAIN ss |-> b + 24 * (s - 1)],
      value |-> [f |-> x, g |-> y], locals |-> locals] :
        ss \in layouts, b \in {0, 28}, x \in {0, 3, 22, 36, 61}, y \in {8, 40, 60}}

MCLinks ==
    LinksOf(OpenIsaSections, {"f"}) \union
    LinksOf(Mips16Sections, {"f"}) \union LinksOf(Mips16Sections, {"f", "g"})
=============================================================================
