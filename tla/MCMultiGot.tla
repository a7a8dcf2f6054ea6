----------------------------- MODULE MCMultiGot -----------------------------
(***************************************************************************)
(* TLC instances of MultiGot: families of links.                           *)
(***************************************************************************)
EXTENDS MultiGot

CONSTANTS b1, b2, b3, x, y, t, l

E(b, s, types) == [abfd |-> b, sym |-> s, tls |-> types]

\* All choices of one element of refs[b] for each bfd, united.
Families(refs) ==
  {f1 \cup f2 \cup f3 : f1 \in refs[b1], f2 \in refs[b2], f3 \in refs[b3]}

Base == [entries |-> {}, page_gotno |-> [b \in Bfds |-> 0], pages |-> 0,
         reloc_only |-> {}, binds_local |-> {}, preemptible |-> {},
         def_dynamic |-> {}, lazy_stubs |-> {}, shared |-> FALSE]

\* Every bfd refers to any of two global symbols and perhaps to a local one.
GlobalRefs(b) ==
  {{E(b, s, {}) : s \in S} : S \in SUBSET {x, y, l}}

\* b2 and b3 play the same part: b2 is the one with fewer entries.
OrderedFamilies ==
  {F \in Families([b \in Bfds |-> GlobalRefs(b)]) :
     Cardinality({e \in F : e.abfd = b2}) <= Cardinality({e \in F : e.abfd = b3})}

\* Globals, locals and pages, in an executable or in a shared object, where one of
\* the symbols binds locally.
GlobalLinks ==
  {[Base EXCEPT !.entries = es, !.page_gotno = [b \in Bfds |-> IF b = b1 THEN 2 ELSE 1],
                !.pages = 2, !.reloc_only = {t}, !.def_dynamic = {x}, !.lazy_stubs = {y},
                !.shared = object[1], !.binds_local = object[2]] :
     es \in OrderedFamilies, object \in {<<FALSE, {}>>, <<TRUE, {x}>>}}

\* Every bfd refers to a TLS symbol by any access model, to the TLS module,
\* and perhaps to a global symbol.
TlsRefs(b) ==
  {{E(b, t, types) : types \in ts \ {{}}} \cup {E(b, LdmModule, {LDM}) : i \in m}
      \cup {E(b, s, {}) : s \in S} :
     ts \in {{{}}, {{GD}}, {{IE}}, {{GD, IE}}}, m \in SUBSET {1}, S \in SUBSET {x}}

\* The three bfds play the same part: they come in the order of what they use.
TlsFamilies ==
  LET Uses(F, b, s, types) ==
        IF \E e \in F : e.abfd = b /\ e.sym = s /\ types \subseteq e.tls THEN 1 ELSE 0
      Weight(F, b) ==
        Uses(F, b, t, {GD}) + 2 * Uses(F, b, t, {IE})
        + 4 * Uses(F, b, LdmModule, {}) + 8 * Uses(F, b, x, {})
  IN {F \in Families([b \in Bfds |-> TlsRefs(b)]) :
        Weight(F, b1) <= Weight(F, b2) /\ Weight(F, b2) <= Weight(F, b3)}

TlsLinks ==
  {[Base EXCEPT !.entries = es, !.reloc_only = {y}, !.def_dynamic = {x},
                !.shared = object[1], !.preemptible = object[2]] :
     es \in TlsFamilies, object \in {<<FALSE, {t}>>, <<TRUE, {}>>, <<TRUE, {t}>>}}

\* Every bfd has a thread-local symbol of its own.
LocalTlsLinks ==
  {[Base EXCEPT !.entries = es, !.lazy_stubs = {x}, !.shared = TRUE] :
     es \in Families([b \in Bfds |->
                       {{E(b, l, {GD})}, {E(b, l, {IE}), E(b, x, {})}}])}

AllLinks == GlobalLinks \cup TlsLinks \cup LocalTlsLinks

\* Two bfds that use the two access models of one TLS symbol.
TwoModels ==
  {[Base EXCEPT !.entries = es, !.preemptible = {t}] :
     es \in Families([b \in Bfds |->
                       IF b = b3 THEN GlobalRefs(b)
                       ELSE {{E(b, t, {GD})}, {E(b, t, {IE})}}])}

\* Two bfds that use one TLS symbol in the same way.
OneModel ==
  {[Base EXCEPT !.entries = es, !.preemptible = {t}] :
     es \in Families([b \in Bfds |->
                       IF b = b3 THEN GlobalRefs(b) ELSE {{E(b, t, {GD})}}])}
=============================================================================
