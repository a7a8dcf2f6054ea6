----------------------------- MODULE JumpStubs -----------------------------
(***************************************************************************)
(* Calls between objects that were compiled for different interfaces:      *)
(* standard and MIPS16 code, position-dependent and PIC code.              *)
(*                                                                         *)
(* The compiler leaves stub sections beside MIPS16 code: .mips16.fn.F lets *)
(* standard code call F, .mips16.call.F and .mips16.call.fp.F let MIPS16   *)
(* code call a standard F.  check_relocs collects the stub sections and    *)
(* remembers what kinds of references it saw; check_symbols throws stubs   *)
(* away that nothing needs and makes la25 stubs, which load $25 for PIC    *)
(* functions that are called by a plain jump; calculate_relocation picks   *)
(* the destination of each reference.  By the time a relocation is scanned *)
(* its symbol may not be defined yet, or be another one later.             *)
(*                                                                         *)
(* Left out: microMIPS, stubs for local symbols (which the scan of their   *)
(* own object decides alone), relocatable output and garbage collection.   *)
(***************************************************************************)
EXTENDS Naturals, FiniteSets

CONSTANTS
  Bfds,     \* input bfds
  Syms,     \* global functions
  None,     \* no bfd, no symbol
  Links,    \* the links considered: see Link
  MaxRelocs \* bound: relocations scanned, not counting those of stub sections

\* The part of st_other that names the ISA or the convention of a function.
Others == {"none", "mips16", "pic"}

Definition == [owner : Bfds, other : Others]

\* A function that no input object defines.
NoDef == [owner |-> None, other |-> "none"]

Stub == [bfd : Bfds, kind : {"fn", "call", "call_fp"}, sym : Syms]

NoStub == [bfd |-> None, kind |-> "none", sym |-> None]

(***************************************************************************)
(* What is fixed before the link: the PIC objects, the symbols that other  *)
(* modules may call, the definition that wins, the weak definition that it *)
(* replaced (it belongs to an object that was read before), the stub       *)
(* sections, the names that turn out to be names of another symbol, and    *)
(* where functions are (aliases are at one place).                         *)
(***************************************************************************)
Link == [pic : SUBSET Bfds, exported : SUBSET Syms,
         def : [Syms -> Definition \cup {NoDef}],
         weak : [Syms -> Definition \cup {NoDef}],
         stubs : SUBSET Stub, indirect : [Syms -> Syms], place : [Syms -> Nat]]

ASSUME LinksAssumption ==
  \A l \in Links :
    /\ l \in Link
    /\ \A h \in Syms : l.indirect[h] # h =>
         /\ l.def[h] = NoDef
         /\ l.def[l.indirect[h]] # NoDef
         /\ l.indirect[l.indirect[h]] = l.indirect[h]
ASSUME NoneAssumption == None \notin Bfds \cup Syms
ASSUME BoundAssumption == MaxRelocs \in Nat

(***************************************************************************)
(* The usual links, in which calls land on code of the right interface and *)
(* mode (see the README for the others).                                   *)
(***************************************************************************)
\* A MIPS16 definition gives way to one of its ISA only.
ReplacedByItsIsa ==
  \A l \in Links : \A h \in Syms :
    l.weak[h].other = "mips16" => l.def[h].other = "mips16"

\* An fn stub is PIC code only if the definition that it leads to is.
FnStubsFollowDefinition ==
  \A l \in Links : \A s \in l.stubs :
    s.kind = "fn" /\ s.bfd \in l.pic => l.def[l.indirect[s.sym]].owner \in l.pic

\* Call stubs that return are for one name of a function.
CallFpStubsForOneName ==
  \A l \in Links : \A s, t \in l.stubs :
    s.kind = "call_fp" /\ t.kind = "call_fp" /\ l.indirect[s.sym] = l.indirect[t.sym]
      => s.sym = t.sym

\* Relocations of calls and addresses, from standard code and, those of the
\* second line, from MIPS16 code.
Types == {"26", "pc16", "hi16", "call16",
          "16_26", "16_call16"}

Ref == [bfd : Bfds, sec : {"text", "fn", "call", "call_fp"}, type : Types, sym : Syms]

VARIABLES
  pc,        \* the step of the link that comes next
  link,      \* the link; never changes
  loaded,    \* bfds whose symbols have been read
  current,   \* the bfd whose relocations are being scanned
  other,     \* Syms -> h->other
  forwarded, \* symbols that have become indirect
  sym,       \* Syms -> the fields of struct mips_elf_link_hash_entry for stubs
  la25,      \* Syms -> the symbol that h->la25_stub was made for, or None
  excluded,  \* stub sections with SEC_EXCLUDE
  todo,      \* stub sections, symbols or bfds that are still to be visited
  refs,      \* relocations scanned
  resolved   \* [ref, dest, cross]: relocations performed

vars == <<pc, link, loaded, current, other, forwarded, sym, la25, excluded, todo,
          refs, resolved>>

-----------------------------------------------------------------------------
\* Relocations of stub sections, and .pdr, may refer to MIPS16 code directly.
AllowsMips16Refs(sec) == sec # "text"

Mips16Call(type) == type \in {"16_26", "16_call16"}

Target(h) == IF h \in forwarded THEN link.indirect[h] ELSE h

Proper == Syms \ forwarded

IsMips16(h) == other[h] = "mips16"

\* mips_elf_relocation_needs_la25_stub: plain jumps from objects that are not PIC.
NeedsLa25Stub(r, targetIs16Bit) ==
  /\ r.bfd \notin link.pic
  /\ r.type \in {"26", "pc16"} \/ (r.type = "16_26" /\ ~targetIs16Bit)

NewEntry == [fn_stub |-> NoStub, call_stub |-> NoStub, call_fp_stub |-> NoStub,
             need_fn_stub |-> FALSE, has_nonpic_branches |-> FALSE]

Init ==
  /\ pc = "scan" /\ link \in Links
  /\ loaded = {} /\ current = None
  /\ other = [h \in Syms |-> "none"]
  /\ forwarded = {}
  /\ sym = [h \in Syms |-> NewEntry]
  /\ la25 = [h \in Syms |-> None]
  /\ excluded = {} /\ todo = {} /\ refs = {} /\ resolved = {}

-----------------------------------------------------------------------------
(***************************************************************************)
(* Reading the input: check_relocs runs for a bfd when its symbols have    *)
(* been read and before those of the next.                                 *)
(***************************************************************************)

\* The names that b defines under another name, with a version.
VersionedBy(b) ==
  {h \in Syms : link.indirect[h] # h /\ link.def[link.indirect[h]].owner = b}

\* The symbols of a bfd are read.  merge_symbol_attribute: a definition without
\* flags leaves those of an earlier one.
LoadBfd(b) ==
  /\ pc = "scan" /\ todo = {}
  /\ b \notin loaded
  /\ VersionedBy(b) \subseteq forwarded
  /\ \A h \in Syms : link.def[h].owner = b =>
       link.weak[h].owner \in loaded \cup {None}
  /\ loaded' = loaded \cup {b}
  /\ current' = b
  /\ other' = [h \in Syms |->
       LET flags == {d.other : d \in {d \in {link.def[h], link.weak[h]} : d.owner = b}}
                      \ {"none"}
       IN IF flags = {} THEN other[h] ELSE CHOOSE f \in flags : TRUE]
  /\ todo' = {s \in link.stubs : s.bfd = b}
  /\ UNCHANGED <<pc, link, forwarded, sym, la25, excluded, refs, resolved>>

Moved(new, old) == IF new = NoStub THEN old ELSE new

\* Mutants: fields that are forgotten when a symbol becomes indirect.
CopyIndirect_NoStub(dir, ind) ==
  [dir EXCEPT !.need_fn_stub = @ \/ ind.need_fn_stub,
              !.has_nonpic_branches = @ \/ ind.has_nonpic_branches]

CopyIndirect_NoBranches(dir, ind) ==
  [fn_stub |-> Moved(ind.fn_stub, dir.fn_stub),
   call_stub |-> Moved(ind.call_stub, dir.call_stub),
   call_fp_stub |-> Moved(ind.call_fp_stub, dir.call_fp_stub),
   need_fn_stub |-> dir.need_fn_stub \/ ind.need_fn_stub,
   has_nonpic_branches |-> dir.has_nonpic_branches]

\* _bfd_mips_elf_copy_indirect_symbol.
CopyIndirect(dir, ind) ==
  [fn_stub |-> Moved(ind.fn_stub, dir.fn_stub),
   call_stub |-> Moved(ind.call_stub, dir.call_stub),
   call_fp_stub |-> Moved(ind.call_fp_stub, dir.call_fp_stub),
   need_fn_stub |-> dir.need_fn_stub \/ ind.need_fn_stub,
   has_nonpic_branches |-> dir.has_nonpic_branches \/ ind.has_nonpic_branches]

\* A bfd with a versioned definition is read: the plain name becomes indirect.
BecomeIndirect(h) ==
  /\ pc = "scan" /\ todo = {}
  /\ h \notin forwarded /\ link.indirect[h] # h
  /\ link.def[link.indirect[h]].owner \notin loaded
  /\ forwarded' = forwarded \cup {h}
  /\ sym' = [sym EXCEPT
       ![link.indirect[h]] = CopyIndirect(@, sym[h]),
       ![h] = [NewEntry EXCEPT !.has_nonpic_branches = sym[h].has_nonpic_branches]]
  /\ current' = None
  /\ UNCHANGED <<pc, link, loaded, other, la25, excluded, todo, refs, resolved>>

\* The fields of the symbol after check_relocs has seen r.
Scanned(r, entry, targetIs16Bit) ==
  [entry EXCEPT
     !.has_nonpic_branches = @ \/ NeedsLa25Stub(r, targetIs16Bit),
     !.need_fn_stub = @ \/ (~Mips16Call(r.type) /\ ~AllowsMips16Refs(r.sec))]

ScanReloc(r) ==
  /\ pc = "scan"
  /\ r.bfd = current /\ r.sec = "text"
  /\ Cardinality({q \in refs : q.sec = "text"}) < MaxRelocs
  /\ r \notin refs
  /\ refs' = refs \cup {r}
  /\ LET h == Target(r.sym) IN
     sym' = [sym EXCEPT ![h] = Scanned(r, @, IsMips16(h))]
  /\ UNCHANGED <<pc, link, loaded, current, other, forwarded, la25, excluded, todo,
                 resolved>>

\* The relocation that a stub section jumps by: call.fp stubs return to restore
\* the result, so they have a plain jump; the others load the address.
JumpOf(s) ==
  [bfd |-> s.bfd, sec |-> s.kind, type |-> IF s.kind = "call_fp" THEN "26" ELSE "hi16",
   sym |-> s.sym]

StubOf(entry, kind) ==
  CASE kind = "fn" -> entry.fn_stub
    [] kind = "call" -> entry.call_stub
    [] kind = "call_fp" -> entry.call_fp_stub

\* Mutant: .mips16.call.fp.F taken by its prefix, .mips16.call.
WithStub_Prefix(entry, s) ==
  IF s.kind = "fn" THEN [entry EXCEPT !.fn_stub = s]
  ELSE [entry EXCEPT !.call_stub = s]

WithStub(entry, s) ==
  CASE s.kind = "fn" -> [entry EXCEPT !.fn_stub = s]
    [] s.kind = "call" -> [entry EXCEPT !.call_stub = s]
    [] s.kind = "call_fp" -> [entry EXCEPT !.call_fp_stub = s]

\* A second stub of one kind for a symbol is discarded, before its relocations
\* are looked at.
ScanStub(s) ==
  /\ pc = "scan"
  /\ s \in todo
  /\ todo' = todo \ {s}
  /\ LET h == Target(s.sym) IN
     IF StubOf(sym[h], s.kind) # NoStub
     THEN excluded' = excluded \cup {s} /\ UNCHANGED <<sym, refs>>
     ELSE /\ sym' = [sym EXCEPT ![h] =
                       Scanned(JumpOf(s), WithStub(@, s), IsMips16(h))]
          /\ refs' = refs \cup {JumpOf(s)}
          /\ UNCHANGED excluded
  /\ UNCHANGED <<pc, link, loaded, current, other, forwarded, la25, resolved>>

-----------------------------------------------------------------------------
(***************************************************************************)
(* mips_elf_check_symbols, once all input has been read.                   *)
(***************************************************************************)

EndScan ==
  /\ pc = "scan" /\ todo = {} /\ loaded = Bfds
  /\ pc' = "check" /\ todo' = Proper /\ current' = None
  /\ UNCHANGED <<link, loaded, other, forwarded, sym, la25, excluded, refs, resolved>>

\* Mutant: only references of this link count.
NeedsFnStub_References(h) == sym[h].need_fn_stub

\* mips_elf_check_mips16_stubs: other modules call by the standard interface.
NeedsFnStub(h) ==
  sym[h].need_fn_stub \/ (sym[h].fn_stub # NoStub /\ h \in link.exported)

Unneeded(h, needFnStub) ==
  (IF needFnStub THEN {} ELSE {sym[h].fn_stub})
  \cup (IF IsMips16(h) THEN {sym[h].call_stub, sym[h].call_fp_stub} ELSE {})

\* mips_elf_local_pic_function_p: the function, or its stub, may want $25.
LocalPic(h, needFnStub) ==
  /\ link.def[h] # NoDef
  /\ ~IsMips16(h) \/ (sym[h].fn_stub # NoStub /\ needFnStub)
  /\ link.def[h].owner \in link.pic \/ other[h] = "pic"

\* mips_elf_add_la25_stub: one stub for all names of a place.
La25StubFor(h) ==
  LET same == {g \in Proper : la25[g] # None /\ link.place[g] = link.place[h]}
  IN IF same = {} THEN h ELSE la25[CHOOSE g \in same : TRUE]

CheckSymbol(h) ==
  /\ pc = "check" /\ h \in todo
  /\ todo' = IF todo = {h} THEN Bfds ELSE todo \ {h}
  /\ pc' = IF todo = {h} THEN "relocate" ELSE pc
  /\ LET need == NeedsFnStub(h) IN
     /\ sym' = [sym EXCEPT ![h].need_fn_stub = need]
     /\ excluded' = excluded \cup (Unneeded(h, need) \ {NoStub})
     /\ la25' = IF LocalPic(h, need) /\ sym[h].has_nonpic_branches
                THEN [la25 EXCEPT ![h] = La25StubFor(h)] ELSE la25
  /\ UNCHANGED <<link, loaded, current, other, forwarded, refs, resolved>>

-----------------------------------------------------------------------------
(***************************************************************************)
(* mips_elf_calculate_relocation and mips_elf_perform_relocation.          *)
(***************************************************************************)

\* Mutant: MIPS16 calls by the GOT never need the fn stub.
UsesFnStub_NotCall16(r, h) ==
  /\ ~Mips16Call(r.type)
  /\ sym[h].fn_stub # NoStub
  /\ ~AllowsMips16Refs(r.sec)

UsesFnStub(r, h) ==
  /\ r.type # "16_26"
  /\ sym[h].fn_stub # NoStub
  /\ r.type = "16_call16" => sym[h].need_fn_stub
  /\ ~AllowsMips16Refs(r.sec)

UsesCallStub(r, h) ==
  /\ r.type = "16_26"
  /\ sym[h].call_stub # NoStub \/ sym[h].call_fp_stub # NoStub
  /\ ~IsMips16(h)

\* When there are both, the sections of the caller's object tell.
CallStub(b, h) ==
  LET hasFp == \E s \in link.stubs : s.bfd = b /\ s.kind = "call_fp"
  IN IF sym[h].call_stub = NoStub \/ (sym[h].call_fp_stub # NoStub /\ hasFp)
     THEN sym[h].call_fp_stub ELSE sym[h].call_stub

\* A place in the output: the function, a stub section or an la25 stub.
AtCode(h) == [via |-> "none", stub |-> NoStub, sym |-> h]

AtStub(s, h) == [via |-> "stub", stub |-> s, sym |-> h]

AtLa25(h) == [via |-> "la25", stub |-> NoStub, sym |-> la25[h]]

Destination(r, h) ==
  IF UsesFnStub(r, h)
  THEN IF la25[h] # None THEN AtLa25(h) ELSE AtStub(sym[h].fn_stub, h)
  ELSE IF UsesCallStub(r, h) THEN AtStub(CallStub(r.bfd, h), h)
  ELSE IF la25[h] # None /\ NeedsLa25Stub(r, IsMips16(h)) THEN AtLa25(h)
  ELSE AtCode(h)

\* Mutant: the redirection to a stub does not reset the flag.
CrossModeJump_Symbol(r, h) ==
  \/ r.type = "16_26" /\ ~IsMips16(h)
  \/ r.type = "26" /\ IsMips16(h)

\* *cross_mode_jump_p: the jump becomes a JALX.
CrossModeJump(r, h) ==
  LET targetIs16Bit == IsMips16(h) /\ ~UsesFnStub(r, h)
  IN \/ r.type = "16_26" /\ ~targetIs16Bit
     \/ r.type = "26" /\ targetIs16Bit

Resolve(r) ==
  LET h == Target(r.sym)
  IN [ref |-> r, dest |-> Destination(r, h), cross |-> CrossModeJump(r, h)]

\* An excluded section is not part of the output.
Emitted(r) == r.sec # "text" =>
  [bfd |-> r.bfd, kind |-> r.sec, sym |-> r.sym] \notin excluded

\* relocate_section for all sections of a bfd.
Relocate(b) ==
  /\ pc = "relocate" /\ b \in todo
  /\ todo' = todo \ {b}
  /\ pc' = IF todo = {b} THEN "done" ELSE pc
  /\ resolved' = resolved \cup {Resolve(r) : r \in {r \in refs : r.bfd = b /\ Emitted(r)}}
  /\ UNCHANGED <<link, loaded, current, other, forwarded, sym, la25, excluded, refs>>

Next ==
  \/ \E b \in Bfds : LoadBfd(b)
  \/ \E h \in Syms : BecomeIndirect(h)
  \/ \E r \in Ref : ScanReloc(r)
  \/ \E s \in todo \cap link.stubs : ScanStub(s)
  \/ EndScan
  \/ \E h \in Syms : CheckSymbol(h)
  \/ \E b \in Bfds : Relocate(b)

Spec == Init /\ [][Next]_vars

-----------------------------------------------------------------------------
Entry == [fn_stub : Stub \cup {NoStub}, call_stub : Stub \cup {NoStub},
          call_fp_stub : Stub \cup {NoStub},
          need_fn_stub : BOOLEAN, has_nonpic_branches : BOOLEAN]

Place == [via : {"none", "stub", "la25"}, stub : Stub \cup {NoStub}, sym : Syms]

\* Every variable keeps its type; only stub sections of the link are excluded,
\* and an entry points to stubs of the right kind.
TypeOK ==
  /\ pc \in {"scan", "check", "relocate", "done"}
  /\ loaded \subseteq Bfds /\ current \in Bfds \cup {None}
  /\ other \in [Syms -> Others]
  /\ forwarded \subseteq Syms
  /\ la25 \in [Syms -> Syms \cup {None}]
  /\ excluded \subseteq link.stubs
  /\ todo \subseteq (CASE pc = "scan" -> link.stubs
                       [] pc = "check" -> Proper
                       [] OTHER -> Bfds)
  /\ refs \subseteq Ref
  /\ \A x \in resolved : x.ref \in refs /\ x.dest \in Place /\ x.cross \in BOOLEAN
  /\ sym \in [Syms -> Entry]
  /\ \A h \in Syms, kind \in {"fn", "call", "call_fp"} :
       \/ StubOf(sym[h], kind) = NoStub
       \/ StubOf(sym[h], kind) \in link.stubs /\ StubOf(sym[h], kind).kind = kind

\* No reference, no la25 stub and no dynamic symbol leads to a stub section that
\* was left out: the BFD_ASSERTs at elfxx-mips.c:1632, 5257, 5316 and 10021.
\* References are seen in another step, and often under another name, than the
\* one in which the stub is dropped.
StubsKept ==
  /\ \A x \in resolved : x.dest.stub \notin excluded
  /\ pc \in {"relocate", "done"} => \A h \in Proper :
       /\ la25[h] # None /\ IsMips16(la25[h]) => sym[la25[h]].need_fn_stub
       /\ sym[h].fn_stub # NoStub /\ h \in link.exported => sym[h].fn_stub \notin excluded

DefinedMips16(h) == link.def[h].other = "mips16"

HasStub(h, kind) == \E s \in link.stubs : s.kind = kind /\ Target(s.sym) = h

\* Code only reaches a function of the other interface through a stub, when some
\* input object has one for it: standard code, and whatever takes the address,
\* goes to the fn stub, and MIPS16 jumps to a call stub.
RightInterface ==
  \A x \in resolved : LET h == Target(x.ref.sym) IN
    x.ref.sec = "text" =>
      /\ ~Mips16Call(x.ref.type) /\ DefinedMips16(h) /\ HasStub(h, "fn")
           => x.dest.via # "none"
      /\ x.ref.type = "16_26" /\ ~DefinedMips16(h)
           /\ (HasStub(h, "call") \/ HasStub(h, "call_fp"))
           => x.dest.via = "stub" /\ x.dest.stub.kind # "fn"

\* All references that share the GOT slot of a function find one address in it,
\* the comment at elfxx-mips.c:5228: MIPS16 calls may bypass the fn stub
\* only as long as nothing else uses the slot.
OneGotValue ==
  \A x \in resolved, y \in resolved :
    /\ {x.ref.type, y.ref.type} \subseteq {"call16", "16_call16"}
    /\ x.ref.sec = "text" /\ y.ref.sec = "text"
    /\ Target(x.ref.sym) = Target(y.ref.sym)
    => x.dest = y.dest

\* The standard entry point that a reference reaches wants $25: it is a function
\* of a PIC object (or marked as PIC), or an fn stub of a PIC object.
WantsRegister(x) ==
  LET h == Target(x.ref.sym) IN
  \/ /\ x.dest.via = "none" /\ ~DefinedMips16(h)
     /\ link.def[h].owner \in link.pic \/ link.def[h].other = "pic"
  \/ x.dest.stub.kind = "fn" /\ x.dest.stub.bfd \in link.pic

\* A plain jump from code that does not set $25 reaches a PIC function by an
\* la25 stub, whatever was known about the function when the jump was scanned.
RegisterValid ==
  \A x \in resolved :
    /\ x.ref.bfd \notin link.pic
    /\ x.ref.type \in {"26", "pc16", "16_26"}
    /\ WantsRegister(x)
    => x.dest.via = "la25"

\* "Calls from 16-bit code to 32-bit code and vice versa require the mode
\* change" (elfxx-mips.c:5337): a jump is a JALX exactly when the code it lands
\* on is of the other ISA.  Stubs are standard code.
RightMode ==
  \A x \in resolved : x.ref.type \in {"26", "16_26"} =>
    LET from16 == x.ref.type = "16_26"
        to16 == x.dest.via = "none" /\ DefinedMips16(Target(x.ref.sym))
    IN x.cross <=> from16 # to16
=============================================================================
