---------------------------- MODULE MCJumpStubs ----------------------------
(***************************************************************************)
(* Small links for JumpStubs: a caller c, an object d with the definitions *)
(* and an object e, which may call, define and bring stubs of its own.     *)
(* f is the function; v is another name of its place, or the versioned     *)
(* name that f turns out to stand for.                                     *)
(***************************************************************************)
EXTENDS JumpStubs

CONSTANTS c, d, e, f, v

S(bfd, kind, h) == [bfd |-> bfd, kind |-> kind, sym |-> h]

Def(b, o) == [owner |-> b, other |-> o]

\* Objects are PIC as a whole; stub sections are where compilers put them: fn
\* stubs with the function, call stubs with callers.
Base ==
  [pic : {{}, {d}, {d, e}, {e}},
   exported : {{}, {v}},
   def : {[h \in Syms |-> NoDef]},
   weak : {[h \in Syms |-> NoDef]},
   stubs : {{}}, indirect : {[h \in Syms |-> h]}, place : {[h \in Syms |-> 0]}]

\* f and v are names of one place in d; d has fn stubs for one or for both names,
\* or c and e have call stubs.
Aliases ==
  {[l EXCEPT !.def = [h \in Syms |-> Def(d, o)], !.stubs = stubs] :
     l \in Base, o \in {"mips16"}, stubs \in {{S(d, "fn", f)}, {S(d, "fn", f), S(d, "fn", v)}}}
  \cup
  {[l EXCEPT !.def = [h \in Syms |-> Def(d, o)], !.stubs = stubs] :
     l \in Base, o \in {"none", "pic", "mips16"},
     stubs \in {{S(c, "call", f)}, {S(c, "call", f), S(e, "call_fp", f)},
                {S(c, "call_fp", v), S(e, "call_fp", v)}}}

\* f is a name for v, which d defines with a version.
Versioned ==
  {[l EXCEPT !.def = [h \in Syms |-> IF h = v THEN Def(d, o) ELSE NoDef],
             !.indirect = [h \in Syms |-> v], !.stubs = stubs] :
     l \in Base, o \in {"none", "mips16"},
     stubs \in {{S(d, "fn", v)}, {S(d, "fn", f), S(e, "fn", f)},
                {S(c, "call", f)}, {S(c, "call", f), S(e, "call_fp", v)}}}

\* e has a weak definition of v, which gives way to that of d and is of its ISA.
Replaced ==
  {[l EXCEPT !.def = [h \in Syms |-> IF h = v THEN Def(d, o) ELSE Def(c, "none")],
             !.weak = [h \in Syms |-> IF h = v THEN Def(e, o) ELSE NoDef],
             !.place = [h \in Syms |-> IF h = v THEN 0 ELSE 1], !.stubs = stubs] :
     l \in Base, o \in {"none", "mips16"},
     stubs \in {{S(d, "fn", v), S(e, "fn", v)}, {S(c, "call", v), S(c, "call_fp", v)}}}

\* Symbols with fn stubs are MIPS16, and links are of the usual kinds.
MCLinks == {l \in Aliases \cup Versioned \cup Replaced :
              \A s \in l.stubs : s.kind = "fn" =>
                LET def == l.def[l.indirect[s.sym]] IN
                /\ def.other = "mips16"
                /\ s.bfd \in l.pic => def.owner \in l.pic}

ASSUME UsualLinks == ReplacedByItsIsa /\ FnStubsFollowDefinition /\ CallFpStubsForOneName
=============================================================================
