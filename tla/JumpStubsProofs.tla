-------------------------- MODULE JumpStubsProofs --------------------------
(***************************************************************************)
(* Proofs about JumpStubs, for every link: any objects, symbols, stub      *)
(* sections and names, read in any order.  No reference leads to a stub    *)
(* section that was dropped, and all users of a GOT slot agree on what it  *)
(* holds.  In the links of the usual kinds, calls land on code of the      *)
(* interface and of the mode that they assume, with $25 set.               *)
(***************************************************************************)
EXTENDS JumpStubs, TLAPS

Kinds == {"fn", "call", "call_fp"}

\* The link is one of those considered, and names became indirect as it says.
LinkKept ==
  /\ link \in Links
  /\ \A h \in forwarded : link.indirect[h] # h
  /\ pc = "scan" => \A s \in todo : s.bfd \in loaded

\* A symbol has stubs of its own only, which have been scanned.
OwnStubs ==
  \A h \in Syms, kind \in Kinds : LET s == StubOf(sym[h], kind) IN
    s # NoStub =>
      /\ Target(s.sym) = h
      /\ s.bfd \in loaded
      /\ pc = "scan" => s \notin todo

\* Stubs that were dropped while scanning had been scanned.
DroppedScanned ==
  pc = "scan" => \A s \in excluded : s.bfd \in loaded /\ s \notin todo

\* No stub of h has been dropped.
Fresh(h) == \A kind \in Kinds : StubOf(sym[h], kind) \notin excluded

\* Only stubs of h that nothing needs have been dropped.
Checked(h) ==
  /\ sym[h].need_fn_stub => sym[h].fn_stub \notin excluded
  /\ ~IsMips16(h) => sym[h].call_stub \notin excluded /\ sym[h].call_fp_stub \notin excluded
  /\ sym[h].fn_stub # NoStub /\ h \in link.exported => sym[h].need_fn_stub

StubsDropped ==
  \A h \in Proper :
    IF pc = "scan" \/ (pc = "check" /\ h \in todo) THEN Fresh(h) ELSE Checked(h)

\* A reference that wants the standard interface is remembered, by whatever name
\* its symbol goes.
ReferencesRemembered ==
  \A r \in refs :
    r.sec = "text" /\ ~Mips16Call(r.type) => sym[Target(r.sym)].need_fn_stub

\* An la25 stub for MIPS16 code is one for its fn stub.
La25Needed ==
  \A h \in Syms :
    la25[h] # None /\ IsMips16(la25[h]) => sym[la25[h]].need_fn_stub

\* la25 stubs are made when all input has been read; relocations are performed
\* when nothing they depend on changes any more.
ResolvedLast ==
  /\ pc = "scan" => \A h \in Syms : la25[h] = None
  /\ pc \in {"scan", "check"} => resolved = {}
  /\ \A x \in resolved : x.ref \in refs /\ x = Resolve(x.ref)

IInv ==
  /\ TypeOK /\ LinkKept
  /\ OwnStubs /\ DroppedScanned /\ StubsDropped
  /\ ReferencesRemembered /\ La25Needed /\ ResolvedLast

-----------------------------------------------------------------------------
(***************************************************************************)
(* Symbols and their stubs.                                                *)
(***************************************************************************)
\* NoStub is no stub.
LEMMA NoStubOutside == NoStub \notin Stub
BY NoneAssumption DEF NoStub, Stub

\* What an entry points to.
LEMMA StubOfEntry ==
  ASSUME NEW e \in Entry, NEW kind \in Kinds
  PROVE  StubOf(e, kind) \in Stub \cup {NoStub}
BY DEF Entry, StubOf, Kinds

\* The symbol that a reference is for is not indirect itself.
LEMMA TargetIsProper ==
  ASSUME LinkKept, NEW h \in Syms
  PROVE  Target(h) \in Proper
<1>1. link \in Link /\ link.indirect \in [Syms -> Syms]
  BY LinksAssumption DEF LinkKept, Link
<1>2. CASE h \in forwarded
  <2>1. link.indirect[h] # h
    BY <1>2 DEF LinkKept
  <2>2. link.indirect[link.indirect[h]] = link.indirect[h]
    BY <2>1, LinksAssumption DEF LinkKept
  <2>3. QED
    BY <1>1, <1>2, <2>2 DEF LinkKept, Target, Proper
<1>3. CASE h \notin forwarded
  BY <1>3 DEF Target, Proper
<1>4. QED
  BY <1>2, <1>3

\* What the steps that change an entry do to its stubs.
LEMMA ScannedEntry ==
  ASSUME NEW r \in Ref, NEW e \in Entry, NEW t \in BOOLEAN
  PROVE  /\ Scanned(r, e, t) \in Entry
         /\ \A kind \in Kinds : StubOf(Scanned(r, e, t), kind) = StubOf(e, kind)
         /\ e.need_fn_stub => Scanned(r, e, t).need_fn_stub
         /\ ~Mips16Call(r.type) /\ r.sec = "text" => Scanned(r, e, t).need_fn_stub
<1>1. /\ NeedsLa25Stub(r, t) \in BOOLEAN
      /\ Mips16Call(r.type) \in BOOLEAN
      /\ AllowsMips16Refs(r.sec) \in BOOLEAN
  BY DEF NeedsLa25Stub, Mips16Call, AllowsMips16Refs
<1>2. QED
  BY <1>1 DEF Scanned, Entry, StubOf, Kinds, AllowsMips16Refs

\* A stub section takes the place for its kind.
LEMMA WithStubEntry ==
  ASSUME NEW s \in Stub, NEW e \in Entry
  PROVE  /\ WithStub(e, s) \in Entry
         /\ StubOf(WithStub(e, s), s.kind) = s
         /\ \A kind \in Kinds : kind # s.kind => StubOf(WithStub(e, s), kind) = StubOf(e, kind)
         /\ WithStub(e, s).need_fn_stub = e.need_fn_stub
<1>1. s.kind \in Kinds
  BY DEF Stub, Kinds
<1>2. QED
  BY <1>1 DEF WithStub, Entry, StubOf, Kinds

\* The other symbol inherits the stubs that it did not have, and the needs.
LEMMA CopyIndirectEntry ==
  ASSUME NEW dir \in Entry, NEW ind \in Entry
  PROVE  /\ CopyIndirect(dir, ind) \in Entry
         /\ \A kind \in Kinds : StubOf(CopyIndirect(dir, ind), kind)
              = Moved(StubOf(ind, kind), StubOf(dir, kind))
         /\ CopyIndirect(dir, ind).need_fn_stub = (dir.need_fn_stub \/ ind.need_fn_stub)
BY DEF CopyIndirect, Moved, Entry, StubOf, Kinds

\* The entry of a name that has become indirect.
LEMMA ForwardedEntry ==
  ASSUME NEW e \in Entry
  PROVE  LET n == [NewEntry EXCEPT !.has_nonpic_branches = e.has_nonpic_branches] IN
         /\ n \in Entry
         /\ \A kind \in Kinds : StubOf(n, kind) = NoStub
BY DEF NewEntry, Entry, StubOf, Kinds

\* What calculate_relocation looks at.
LEMMA ResolveKept ==
  ASSUME UNCHANGED <<link, other, forwarded, sym, la25>>
  PROVE  \A r : Resolve(r)' = Resolve(r)
<1>1. /\ \A g : Target(g)' = Target(g)
      /\ \A g : IsMips16(g)' = IsMips16(g)
  BY DEF Target, IsMips16
<1>2. \A r, h : UsesFnStub(r, h)' = UsesFnStub(r, h)
  BY DEF UsesFnStub
<1>3. \A r, h : UsesCallStub(r, h)' = UsesCallStub(r, h)
  BY <1>1 DEF UsesCallStub
<1>4. \A c, h : CallStub(c, h)' = CallStub(c, h)
  BY DEF CallStub
<1>5. \A r, t : NeedsLa25Stub(r, t)' = NeedsLa25Stub(r, t)
  BY DEF NeedsLa25Stub
<1>6. \A r, h : Destination(r, h)' = Destination(r, h)
  BY <1>1, <1>2, <1>3, <1>4, <1>5 DEF Destination, AtCode, AtStub, AtLa25
<1>7. \A r, h : CrossModeJump(r, h)' = CrossModeJump(r, h)
  BY <1>1, <1>2 DEF CrossModeJump
<1>8. QED
  BY <1>1, <1>6, <1>7 DEF Resolve

-----------------------------------------------------------------------------
(***************************************************************************)
(* The invariant is inductive: one lemma for each action.                  *)
(***************************************************************************)
LEMMA InitInv == Init => IInv
<1> SUFFICES ASSUME Init PROVE IInv
  OBVIOUS
<1>1. \A h \in Syms, kind \in Kinds : StubOf(sym[h], kind) = NoStub
  BY DEF Init, NewEntry, StubOf, Kinds
<1>2. TypeOK
  <2>1. sym \in [Syms -> Entry]
    BY DEF Init, NewEntry, Entry
  <2>2. QED
    BY <1>1, <2>1 DEF Init, TypeOK, Others, Kinds
<1>3. LinkKept /\ OwnStubs /\ DroppedScanned /\ StubsDropped
  BY <1>1 DEF Init, LinkKept, OwnStubs, DroppedScanned, StubsDropped, Fresh, Kinds
<1>4. ReferencesRemembered /\ La25Needed /\ ResolvedLast
  BY DEF Init, ReferencesRemembered, La25Needed, ResolvedLast
<1>5. QED
  BY <1>2, <1>3, <1>4 DEF IInv

LEMMA LoadBfdInv ==
  ASSUME IInv, NEW b \in Bfds, LoadBfd(b)
  PROVE  IInv'
<1> USE DEF LoadBfd
<1>1. \A h : Target(h)' = Target(h)
  BY DEF Target
<1>2. Proper' = Proper
  BY DEF Proper
<1>3. TypeOK'
  <2>1. link \in Link
    BY LinksAssumption DEF IInv, LinkKept
  <2>2. other' \in [Syms -> Others]
    <3>1. ASSUME NEW h \in Syms, NEW d \in {link.def[h], link.weak[h]}
          PROVE  d.other \in Others
      BY <2>1 DEF Link, Definition, NoDef, Others
    <3>2. QED
      BY <3>1 DEF IInv, TypeOK
  <2>3. todo' \subseteq link.stubs
    OBVIOUS
  <2>4. QED
    BY <2>2, <2>3 DEF IInv, TypeOK
<1>4. LinkKept'
  BY DEF IInv, LinkKept
<1>5. OwnStubs'
  BY <1>1 DEF IInv, OwnStubs
<1>6. DroppedScanned'
  BY DEF IInv, DroppedScanned
<1>7. StubsDropped'
  BY <1>2 DEF IInv, StubsDropped, Fresh
<1>8. ReferencesRemembered'
  BY <1>1 DEF IInv, ReferencesRemembered
<1>9. La25Needed' /\ ResolvedLast'
  BY DEF IInv, La25Needed, ResolvedLast
<1>10. QED
  BY <1>3, <1>4, <1>5, <1>6, <1>7, <1>8, <1>9 DEF IInv

LEMMA EndScanInv ==
  ASSUME IInv, EndScan
  PROVE  IInv'
<1> USE DEF EndScan
<1>1. \A h : Target(h)' = Target(h)
  BY DEF Target
<1>2. Proper' = Proper
  BY DEF Proper
<1>3. TypeOK'
  BY <1>2 DEF IInv, TypeOK
<1>4. LinkKept' /\ DroppedScanned'
  BY DEF IInv, LinkKept, DroppedScanned
<1>5. OwnStubs'
  BY <1>1 DEF IInv, OwnStubs
<1>6. StubsDropped'
  BY <1>2 DEF IInv, StubsDropped, Fresh
<1>7. ReferencesRemembered'
  BY <1>1 DEF IInv, ReferencesRemembered
<1>8. La25Needed' /\ ResolvedLast'
  BY DEF IInv, La25Needed, ResolvedLast, IsMips16
<1>9. QED
  BY <1>3, <1>4, <1>5, <1>6, <1>7, <1>8 DEF IInv

LEMMA ScanRelocInv ==
  ASSUME IInv, NEW r \in Ref, ScanReloc(r)
  PROVE  IInv'
<1> DEFINE h == Target(r.sym)
<1> USE DEF ScanReloc
<1>1. h \in Proper /\ h \in Syms
  BY TargetIsProper DEF IInv, Ref, Proper
<1>2. /\ \A g : Target(g)' = Target(g)
      /\ \A g : IsMips16(g)' = IsMips16(g)
      /\ Proper' = Proper
  BY DEF Target, Proper, IsMips16
<1>3. sym \in [Syms -> Entry] /\ IsMips16(h) \in BOOLEAN
  BY DEF IInv, TypeOK, IsMips16
<1>4. sym' = [sym EXCEPT ![h] = Scanned(r, sym[h], IsMips16(h))]
  OBVIOUS
<1> HIDE DEF h
<1>5. /\ sym' \in [Syms -> Entry]
      /\ \A g \in Syms, kind \in Kinds : StubOf(sym'[g], kind) = StubOf(sym[g], kind)
      /\ \A g \in Syms : sym[g].need_fn_stub => sym'[g].need_fn_stub
      /\ ~Mips16Call(r.type) /\ r.sec = "text" => sym'[h].need_fn_stub
  <2>1. sym[h] \in Entry
    BY <1>1, <1>3
  <2>2. /\ Scanned(r, sym[h], IsMips16(h)) \in Entry
        /\ \A kind \in Kinds :
             StubOf(Scanned(r, sym[h], IsMips16(h)), kind) = StubOf(sym[h], kind)
        /\ sym[h].need_fn_stub => Scanned(r, sym[h], IsMips16(h)).need_fn_stub
        /\ ~Mips16Call(r.type) /\ r.sec = "text"
             => Scanned(r, sym[h], IsMips16(h)).need_fn_stub
    BY <1>3, <2>1, ScannedEntry
  <2>3. QED
    BY <1>1, <1>3, <1>4, <2>2
<1>6. TypeOK'
  <2>1. refs' \subseteq Ref
    BY DEF IInv, TypeOK
  <2>2. \A x \in resolved' : x.ref \in refs' /\ x.dest \in Place /\ x.cross \in BOOLEAN
    BY DEF IInv, TypeOK
  <2>3. \A g \in Syms, kind \in Kinds :
          \/ StubOf(sym'[g], kind) = NoStub
          \/ StubOf(sym'[g], kind) \in link'.stubs /\ StubOf(sym'[g], kind).kind = kind
    BY <1>5 DEF IInv, TypeOK, Kinds
  <2>4. QED
    BY <1>2, <1>5, <2>1, <2>2, <2>3 DEF IInv, TypeOK, Kinds
<1>7. LinkKept' /\ DroppedScanned'
  BY DEF IInv, LinkKept, DroppedScanned
<1>8. OwnStubs'
  BY <1>2, <1>5 DEF IInv, OwnStubs
<1>9. StubsDropped'
  BY <1>2, <1>5 DEF IInv, StubsDropped, Fresh, Proper
<1>10. ReferencesRemembered'
  <2>1. \A q \in refs : Target(q.sym) \in Syms
    BY TargetIsProper DEF IInv, TypeOK, Ref, Proper
  <2>2. QED
    BY <1>1, <1>2, <1>5, <2>1 DEF IInv, ReferencesRemembered, h
<1>11. La25Needed'
  BY DEF IInv, La25Needed, ResolvedLast
<1>12. ResolvedLast'
  BY DEF IInv, ResolvedLast
<1>13. QED
  BY <1>6, <1>7, <1>8, <1>9, <1>10, <1>11, <1>12 DEF IInv

LEMMA RelocateInv ==
  ASSUME IInv, NEW b \in Bfds, Relocate(b)
  PROVE  IInv'
<1> USE DEF Relocate
<1>1. /\ \A g : Target(g)' = Target(g)
      /\ \A g : IsMips16(g)' = IsMips16(g)
      /\ Proper' = Proper
  BY DEF Target, Proper, IsMips16
<1>2. \A r : Resolve(r)' = Resolve(r)
  BY ResolveKept
<1>3. \A r \in refs : Resolve(r).dest \in Place /\ Resolve(r).cross \in BOOLEAN
  <2> TAKE r \in refs
  <2> DEFINE h == Target(r.sym)
  <2>1. h \in Syms
    BY TargetIsProper DEF IInv, TypeOK, Ref, Proper
  <2>2. Resolve(r) = [ref |-> r, dest |-> Destination(r, h), cross |-> CrossModeJump(r, h)]
    BY DEF Resolve
  <2> HIDE DEF h
  <2>3. sym[h] \in Entry /\ la25[h] \in Syms \cup {None}
    BY <2>1 DEF IInv, TypeOK
  <2>4. CrossModeJump(r, h) \in BOOLEAN
    BY DEF CrossModeJump
  <2>5. Destination(r, h) \in Place
    <3>1. AtCode(h) \in Place
      BY <2>1 DEF AtCode, Place
    <3>2. la25[h] # None => AtLa25(h) \in Place
      BY <2>3 DEF AtLa25, Place
    <3>3. AtStub(sym[h].fn_stub, h) \in Place
      BY <2>1, <2>3 DEF AtStub, Place, Entry
    <3>4. AtStub(CallStub(r.bfd, h), h) \in Place
      BY <2>1, <2>3 DEF AtStub, Place, Entry, CallStub
    <3>5. QED
      BY <3>1, <3>2, <3>3, <3>4 DEF Destination
  <2>6. QED
    BY <2>2, <2>4, <2>5
<1>4. \A x \in resolved' : x \in resolved \/ \E r \in refs : x = Resolve(r)
  OBVIOUS
<1>5. \A r : Resolve(r).ref = r
  BY DEF Resolve
<1>6. TypeOK'
  <2>1. \A x \in resolved' : x.ref \in refs' /\ x.dest \in Place /\ x.cross \in BOOLEAN
    BY <1>3, <1>4, <1>5 DEF IInv, TypeOK
  <2>2. todo' \subseteq Bfds /\ pc' \in {"relocate", "done"}
    BY DEF IInv, TypeOK
  <2>3. QED
    BY <2>1, <2>2 DEF IInv, TypeOK
<1>7. LinkKept' /\ DroppedScanned'
  BY DEF IInv, LinkKept, DroppedScanned
<1>8. OwnStubs'
  BY <1>1 DEF IInv, OwnStubs
<1>9. StubsDropped'
  <2>1. \A h \in Proper : Checked(h)' = Checked(h)
    BY <1>1 DEF Checked
  <2>2. QED
    BY <1>1, <2>1 DEF IInv, StubsDropped
<1>10. ReferencesRemembered' /\ La25Needed'
  BY <1>1 DEF IInv, ReferencesRemembered, La25Needed
<1>11. ResolvedLast'
  BY <1>2, <1>4, <1>5 DEF IInv, ResolvedLast
<1>12. QED
  BY <1>6, <1>7, <1>8, <1>9, <1>10, <1>11 DEF IInv

LEMMA CheckSymbolInv ==
  ASSUME IInv, NEW h \in Syms, CheckSymbol(h)
  PROVE  IInv'
<1> DEFINE need == NeedsFnStub(h)
<1> USE DEF CheckSymbol
<1>1. /\ \A g : Target(g)' = Target(g)
      /\ \A g : IsMips16(g)' = IsMips16(g)
      /\ Proper' = Proper
  BY DEF Target, Proper, IsMips16
<1>2. /\ pc = "check" /\ h \in todo /\ h \in Proper
      /\ link \in Link /\ link.stubs \subseteq Stub
      /\ sym \in [Syms -> Entry]
  BY LinksAssumption DEF IInv, TypeOK, LinkKept, Link
<1>3. need \in BOOLEAN /\ (sym[h].need_fn_stub => need)
  <2>1. sym[h].need_fn_stub \in BOOLEAN
    BY <1>2 DEF Entry
  <2>2. QED
    BY <2>1 DEF NeedsFnStub
<1>4. /\ sym' = [sym EXCEPT ![h].need_fn_stub = need]
      /\ excluded' = excluded \cup (Unneeded(h, need) \ {NoStub})
      /\ la25' = IF LocalPic(h, need) /\ sym[h].has_nonpic_branches
                 THEN [la25 EXCEPT ![h] = La25StubFor(h)] ELSE la25
  OBVIOUS
<1>5. sym[h].fn_stub # NoStub /\ h \in link.exported => need
  BY DEF NeedsFnStub
<1> HIDE DEF need
<1>6. /\ sym' \in [Syms -> Entry]
      /\ \A g \in Syms, kind \in Kinds : StubOf(sym'[g], kind) = StubOf(sym[g], kind)
      /\ \A g \in Syms : sym[g].need_fn_stub => sym'[g].need_fn_stub
      /\ \A g \in Syms : g # h => sym'[g] = sym[g]
      /\ sym'[h].need_fn_stub = need
  <2>1. sym'[h] = [sym[h] EXCEPT !.need_fn_stub = need]
    BY <1>2, <1>4
  <2>2. \A g \in Syms : g # h => sym'[g] = sym[g]
    BY <1>2, <1>4
  <2>3. sym[h] \in Entry
    BY <1>2
  <2>4. /\ sym'[h] \in Entry
        /\ \A kind \in Kinds : StubOf(sym'[h], kind) = StubOf(sym[h], kind)
        /\ sym'[h].need_fn_stub = need
    BY <1>3, <2>1, <2>3 DEF Entry, StubOf, Kinds
  <2>5. sym' \in [Syms -> Entry]
    BY <1>2, <1>4, <2>2, <2>4
  <2>6. QED
    BY <1>3, <2>2, <2>4, <2>5
<1>7. \A s \in Unneeded(h, need) :
        \/ s = NoStub
        \/ /\ s \in link.stubs /\ Target(s.sym) = h
           /\ s.kind = "fn" => ~need
           /\ s.kind # "fn" => IsMips16(h)
  <2>1. \A s \in Unneeded(h, need) :
          \/ ~need /\ s = StubOf(sym[h], "fn")
          \/ IsMips16(h) /\ (s = StubOf(sym[h], "call") \/ s = StubOf(sym[h], "call_fp"))
    BY DEF Unneeded, StubOf
  <2>2. \A kind \in Kinds :
          \/ StubOf(sym[h], kind) = NoStub
          \/ /\ StubOf(sym[h], kind) \in link.stubs
             /\ StubOf(sym[h], kind).kind = kind
             /\ Target(StubOf(sym[h], kind).sym) = h
    BY DEF IInv, TypeOK, OwnStubs, Kinds
  <2>3. QED
    BY <2>1, <2>2 DEF Kinds
<1>8. excluded' \subseteq link.stubs /\ NoStub \notin excluded'
  BY <1>2, <1>4, <1>7, NoStubOutside DEF IInv, TypeOK
<1>9. \A g \in Syms, kind \in Kinds :
        StubOf(sym[g], kind) \notin excluded /\ StubOf(sym[g], kind) \in excluded' =>
          /\ g = h
          /\ kind = "fn" => ~need
          /\ kind # "fn" => IsMips16(h)
  <2> SUFFICES ASSUME NEW g \in Syms, NEW kind \in Kinds,
                      StubOf(sym[g], kind) \notin excluded,
                      StubOf(sym[g], kind) \in excluded'
               PROVE  /\ g = h
                      /\ kind = "fn" => ~need
                      /\ kind # "fn" => IsMips16(h)
    OBVIOUS
  <2> DEFINE s == StubOf(sym[g], kind)
  <2>1. s \in Unneeded(h, need) /\ s # NoStub
    BY <1>4
  <2>2. Target(s.sym) = g /\ s.kind = kind
    BY <2>1 DEF IInv, TypeOK, OwnStubs, Kinds
  <2>3. QED
    BY <1>7, <2>1, <2>2
<1>10. la25' \in [Syms -> Syms \cup {None}]
  <2>1. La25StubFor(h) \in Syms
    BY DEF La25StubFor, IInv, TypeOK, Proper
  <2>2. QED
    BY <1>4, <2>1 DEF IInv, TypeOK
<1>11. TypeOK'
  <2>1. /\ pc' \in {"check", "relocate"}
        /\ pc' = "check" => todo' \subseteq Proper
        /\ pc' = "relocate" => todo' = Bfds
    BY <1>2 DEF IInv, TypeOK
  <2>2. todo' \subseteq (CASE pc' = "scan" -> link'.stubs
                           [] pc' = "check" -> Proper'
                           [] OTHER -> Bfds)
    BY <1>1, <2>1
  <2>3. \A x \in resolved' : x.ref \in refs' /\ x.dest \in Place /\ x.cross \in BOOLEAN
    BY DEF IInv, TypeOK
  <2>4. \A g \in Syms, kind \in Kinds :
          \/ StubOf(sym'[g], kind) = NoStub
          \/ StubOf(sym'[g], kind) \in link'.stubs /\ StubOf(sym'[g], kind).kind = kind
    BY <1>6 DEF IInv, TypeOK, Kinds
  <2>5. QED
    BY <1>6, <1>8, <1>10, <2>1, <2>2, <2>3, <2>4 DEF IInv, TypeOK, Kinds
<1>12. LinkKept' /\ DroppedScanned'
  BY <1>2 DEF IInv, LinkKept, DroppedScanned
<1>13. OwnStubs'
  BY <1>1, <1>2, <1>6 DEF IInv, OwnStubs
<1>14. StubsDropped'
  <2> SUFFICES ASSUME NEW g \in Proper
               PROVE  IF pc' = "scan" \/ (pc' = "check" /\ g \in todo')
                      THEN Fresh(g)' ELSE Checked(g)'
    BY <1>1 DEF StubsDropped
  <2>1. g \in Syms /\ pc' # "scan"
    BY <1>2 DEF Proper
  <2>2. CASE g = h
    <3>1. ~(pc' = "check" /\ g \in todo')
      BY <2>2
    <3>2. \A kind \in Kinds : StubOf(sym[h], kind) \notin excluded
      BY <1>2 DEF IInv, StubsDropped, Fresh
    <3>3. /\ need => StubOf(sym'[h], "fn") \notin excluded'
          /\ ~IsMips16(h) => /\ StubOf(sym'[h], "call") \notin excluded'
                             /\ StubOf(sym'[h], "call_fp") \notin excluded'
      BY <1>6, <1>9, <3>2 DEF Kinds
    <3>4. sym'[h].fn_stub = sym[h].fn_stub
      BY <1>6 DEF Kinds, StubOf
    <3>5. Checked(h)'
      BY <1>1, <1>5, <1>6, <3>3, <3>4 DEF Checked, StubOf
    <3>6. QED
      BY <2>1, <2>2, <3>1, <3>5
  <2>3. CASE g # h
    <3>1. \A kind \in Kinds :
            StubOf(sym[g], kind) \notin excluded => StubOf(sym'[g], kind) \notin excluded'
      BY <1>6, <1>9, <2>1, <2>3
    <3>2. Fresh(g) => Fresh(g)'
      BY <3>1 DEF Fresh
    <3>3. Checked(g) => Checked(g)'
      <4>1. sym'[g] = sym[g]
        BY <1>6, <2>1, <2>3
      <4>2. /\ sym[g].fn_stub \notin excluded => sym[g].fn_stub \notin excluded'
            /\ sym[g].call_stub \notin excluded => sym[g].call_stub \notin excluded'
            /\ sym[g].call_fp_stub \notin excluded => sym[g].call_fp_stub \notin excluded'
        BY <3>1, <4>1 DEF StubOf, Kinds
      <4>3. QED
        BY <1>1, <4>1, <4>2 DEF Checked
    <3>4. (pc' = "check" /\ g \in todo') <=> g \in todo
      BY <1>2, <2>3
    <3>5. IF g \in todo THEN Fresh(g) ELSE Checked(g)
      BY <1>2 DEF IInv, StubsDropped
    <3>6. QED
      BY <2>1, <3>2, <3>3, <3>4, <3>5
  <2>4. QED
    BY <2>2, <2>3
<1>15. ReferencesRemembered'
  <2>1. \A q \in refs : Target(q.sym) \in Syms
    BY TargetIsProper DEF IInv, TypeOK, Ref, Proper
  <2>2. QED
    BY <1>1, <1>6, <2>1 DEF IInv, ReferencesRemembered
<1>16. La25Needed'
  <2> SUFFICES ASSUME NEW g \in Syms, la25'[g] # None, IsMips16(la25'[g])
               PROVE  sym'[la25'[g]].need_fn_stub
    BY <1>1 DEF La25Needed
  <2>1. ASSUME NEW k \in Syms, la25'[g] = la25[k]
        PROVE  sym'[la25'[g]].need_fn_stub
    <3>1. la25[k] \in Syms /\ sym[la25[k]].need_fn_stub
      BY <2>1 DEF IInv, TypeOK, La25Needed
    <3>2. QED
      BY <1>6, <2>1, <3>1
  <2>2. CASE la25' = la25
    BY <2>1, <2>2
  <2>3. CASE LocalPic(h, need) /\ la25' = [la25 EXCEPT ![h] = La25StubFor(h)]
    <3>1. CASE g = h /\ La25StubFor(h) = h
      <4>1. la25'[g] = h
        BY <2>3, <3>1 DEF IInv, TypeOK
      <4>2. need
        BY <2>3, <4>1 DEF LocalPic
      <4>3. QED
        BY <1>6, <4>1, <4>2
    <3>2. CASE g = h /\ La25StubFor(h) # h
      <4>1. PICK k \in Proper : La25StubFor(h) = la25[k]
        BY <3>2 DEF La25StubFor
      <4>2. la25'[g] = la25[k] /\ k \in Syms
        BY <2>3, <3>2, <4>1 DEF IInv, TypeOK, Proper
      <4>3. QED
        BY <2>1, <4>2
    <3>3. CASE g # h
      <4>1. la25'[g] = la25[g]
        BY <2>3, <3>3 DEF IInv, TypeOK
      <4>2. QED
        BY <2>1, <4>1
    <3>4. QED
      BY <3>1, <3>2, <3>3
  <2>4. QED
    BY <1>4, <2>2, <2>3
<1>17. ResolvedLast'
  <2>1. resolved = {} /\ pc' # "scan"
    BY <1>2 DEF IInv, ResolvedLast
  <2>2. QED
    BY <2>1 DEF ResolvedLast
<1>18. QED
  BY <1>11, <1>12, <1>13, <1>14, <1>15, <1>16, <1>17 DEF IInv

LEMMA ScanStubInv ==
  ASSUME IInv, NEW s \in todo \cap link.stubs, ScanStub(s)
  PROVE  IInv'
<1> DEFINE h == Target(s.sym)
           e == Scanned(JumpOf(s), WithStub(sym[h], s), IsMips16(h))
           kept == StubOf(sym[h], s.kind) = NoStub
<1> USE DEF ScanStub
<1>1. /\ \A g : Target(g)' = Target(g)
      /\ \A g : IsMips16(g)' = IsMips16(g)
      /\ Proper' = Proper
  BY DEF Target, Proper, IsMips16
<1>2. /\ pc = "scan" /\ s \in todo /\ s.bfd \in loaded
      /\ link \in Link /\ s \in Stub /\ s \in link.stubs
      /\ sym \in [Syms -> Entry] /\ IsMips16(h) \in BOOLEAN
  BY LinksAssumption DEF IInv, TypeOK, LinkKept, Link, IsMips16
<1>3. h \in Proper /\ h \in Syms
  BY <1>2, TargetIsProper DEF IInv, Proper, Stub
<1>4. JumpOf(s) \in Ref /\ JumpOf(s).sec # "text"
  BY <1>2 DEF JumpOf, Ref, Types, Stub
<1>5. /\ todo' = todo \ {s}
      /\ sym' = IF kept THEN [sym EXCEPT ![h] = e] ELSE sym
      /\ refs' = IF kept THEN refs \cup {JumpOf(s)} ELSE refs
      /\ excluded' = IF kept THEN excluded ELSE excluded \cup {s}
  OBVIOUS
<1>6. /\ e \in Entry
      /\ StubOf(e, s.kind) = s
      /\ \A kind \in Kinds : kind # s.kind => StubOf(e, kind) = StubOf(sym[h], kind)
      /\ sym[h].need_fn_stub => e.need_fn_stub
  <2>1. sym[h] \in Entry
    BY <1>2, <1>3
  <2>2. s.kind \in Kinds
    BY <1>2 DEF Stub, Kinds
  <2>3. /\ WithStub(sym[h], s) \in Entry
        /\ StubOf(WithStub(sym[h], s), s.kind) = s
        /\ \A kind \in Kinds : kind # s.kind =>
             StubOf(WithStub(sym[h], s), kind) = StubOf(sym[h], kind)
        /\ WithStub(sym[h], s).need_fn_stub = sym[h].need_fn_stub
    BY <1>2, <2>1, WithStubEntry
  <2>4. /\ e \in Entry
        /\ \A kind \in Kinds : StubOf(e, kind) = StubOf(WithStub(sym[h], s), kind)
        /\ WithStub(sym[h], s).need_fn_stub => e.need_fn_stub
    BY <1>2, <1>4, <2>3, ScannedEntry
  <2>5. QED
    BY <2>2, <2>3, <2>4
<1> HIDE DEF h, e
<1>7. /\ sym' \in [Syms -> Entry]
      /\ \A g \in Syms, kind \in Kinds :
           \/ StubOf(sym'[g], kind) = StubOf(sym[g], kind)
           \/ kept /\ g = h /\ kind = s.kind /\ StubOf(sym'[g], kind) = s
      /\ \A g \in Syms : sym[g].need_fn_stub => sym'[g].need_fn_stub
  <2>1. CASE kept
    <3>1. sym' = [sym EXCEPT ![h] = e]
      BY <1>5, <2>1
    <3>2. sym'[h] = e /\ \A g \in Syms : g # h => sym'[g] = sym[g]
      BY <1>2, <1>3, <3>1
    <3>3. sym' \in [Syms -> Entry]
      BY <1>2, <1>6, <3>1
    <3>4. QED
      BY <1>6, <2>1, <3>2, <3>3
  <2>2. CASE ~kept
    BY <1>2, <1>5, <2>2
  <2>3. QED
    BY <2>1, <2>2
<1>8. NoStub \notin link.stubs
  BY <1>2, NoStubOutside DEF Link
<1>9. \A g \in Syms, kind \in Kinds : StubOf(sym[g], kind) # s
  BY <1>2, <1>8 DEF IInv, OwnStubs
<1>10. TypeOK'
  <2>1. refs' \subseteq Ref /\ excluded' \subseteq link'.stubs /\ todo' \subseteq link'.stubs
    BY <1>2, <1>4, <1>5 DEF IInv, TypeOK
  <2>2. \A x \in resolved' : x.ref \in refs' /\ x.dest \in Place /\ x.cross \in BOOLEAN
    BY <1>5 DEF IInv, TypeOK
  <2>3. \A g \in Syms, kind \in Kinds :
          \/ StubOf(sym'[g], kind) = NoStub
          \/ StubOf(sym'[g], kind) \in link'.stubs /\ StubOf(sym'[g], kind).kind = kind
    BY <1>2, <1>7 DEF IInv, TypeOK, Kinds
  <2>4. QED
    BY <1>7, <2>1, <2>2, <2>3 DEF IInv, TypeOK, Kinds
<1>11. LinkKept'
  BY <1>5 DEF IInv, LinkKept
<1>12. OwnStubs'
  <2> SUFFICES ASSUME NEW g \in Syms, NEW kind \in Kinds, StubOf(sym'[g], kind) # NoStub
               PROVE  /\ Target(StubOf(sym'[g], kind).sym) = g
                      /\ StubOf(sym'[g], kind).bfd \in loaded
                      /\ StubOf(sym'[g], kind) \notin todo'
    BY <1>1 DEF OwnStubs
  <2>1. CASE StubOf(sym'[g], kind) = StubOf(sym[g], kind)
    BY <1>2, <1>5, <2>1 DEF IInv, OwnStubs
  <2>2. CASE g = h /\ StubOf(sym'[g], kind) = s
    BY <1>2, <1>5, <2>2 DEF h
  <2>3. QED
    BY <1>7, <2>1, <2>2
<1>13. DroppedScanned'
  BY <1>2, <1>5 DEF IInv, DroppedScanned
<1>14. StubsDropped'
  <2> SUFFICES ASSUME NEW g \in Proper, NEW kind \in Kinds
               PROVE  StubOf(sym'[g], kind) \notin excluded'
    BY <1>1, <1>2 DEF StubsDropped, Fresh
  <2>1. g \in Syms
    BY DEF Proper
  <2>2. StubOf(sym[g], kind) \notin excluded /\ StubOf(sym[g], kind) # s
    BY <1>2, <1>9, <2>1 DEF IInv, StubsDropped, Fresh
  <2>3. s \notin excluded
    BY <1>2 DEF IInv, DroppedScanned
  <2>4. kept => s \notin excluded'
    BY <1>5, <2>3
  <2>5. StubOf(sym[g], kind) \notin excluded'
    BY <1>5, <2>2
  <2>6. QED
    BY <1>7, <2>1, <2>4, <2>5
<1>15. ReferencesRemembered'
  <2>1. \A q \in refs : Target(q.sym) \in Syms
    BY TargetIsProper DEF IInv, TypeOK, Ref, Proper
  <2>2. \A q \in refs' : q.sec = "text" => q \in refs
    BY <1>4, <1>5
  <2>3. QED
    BY <1>1, <1>7, <2>1, <2>2 DEF IInv, ReferencesRemembered
<1>16. La25Needed'
  BY <1>2 DEF IInv, La25Needed, ResolvedLast
<1>17. ResolvedLast'
  BY <1>2 DEF IInv, ResolvedLast
<1>18. QED
  BY <1>10, <1>11, <1>12, <1>13, <1>14, <1>15, <1>16, <1>17 DEF IInv

LEMMA BecomeIndirectInv ==
  ASSUME IInv, NEW h \in Syms, BecomeIndirect(h)
  PROVE  IInv'
<1> DEFINE t == link.indirect[h]
           left == [NewEntry EXCEPT !.has_nonpic_branches = sym[h].has_nonpic_branches]
<1> USE DEF BecomeIndirect
<1>1. /\ pc = "scan" /\ todo = {} /\ h \notin forwarded /\ t # h
      /\ link \in Link /\ t \in Syms /\ t \notin forwarded
      /\ sym \in [Syms -> Entry]
  <2>1. link \in Link /\ link.indirect \in [Syms -> Syms]
    BY LinksAssumption DEF IInv, LinkKept, Link
  <2>2. link.indirect[t] = t
    BY LinksAssumption DEF IInv, LinkKept
  <2>3. QED
    BY <2>1, <2>2 DEF IInv, LinkKept, TypeOK
<1>2. Proper' = Proper \ {h} /\ h \in Proper /\ t \in Proper
  BY <1>1 DEF Proper
<1>3. \A g \in Syms : Target(g)' = IF Target(g) = h THEN t ELSE Target(g)
  <2> TAKE g \in Syms
  <2>1. CASE g \in forwarded
    <3>1. Target(g) = link.indirect[g] /\ Target(g)' = link.indirect[g]
      BY <2>1 DEF Target
    <3>2. Target(g) # h
      <4>1. link.indirect[link.indirect[g]] = link.indirect[g]
        BY <2>1, LinksAssumption DEF IInv, LinkKept
      <4>2. QED
        BY <1>1, <3>1, <4>1
    <3>3. QED
      BY <3>1, <3>2
  <2>2. CASE g \notin forwarded
    BY <1>1, <2>2 DEF Target
  <2>3. QED
    BY <2>1, <2>2
<1>4. sym' = [sym EXCEPT ![t] = CopyIndirect(sym[t], sym[h]), ![h] = left]
  OBVIOUS
<1>5. /\ left \in Entry /\ \A kind \in Kinds : StubOf(left, kind) = NoStub
      /\ CopyIndirect(sym[t], sym[h]) \in Entry
      /\ \A kind \in Kinds : StubOf(CopyIndirect(sym[t], sym[h]), kind)
           = Moved(StubOf(sym[h], kind), StubOf(sym[t], kind))
      /\ CopyIndirect(sym[t], sym[h]).need_fn_stub
           = (sym[t].need_fn_stub \/ sym[h].need_fn_stub)
  <2>1. sym[t] \in Entry /\ sym[h] \in Entry
    BY <1>1
  <2>2. left \in Entry /\ \A kind \in Kinds : StubOf(left, kind) = NoStub
    BY <2>1, ForwardedEntry
  <2>3. QED
    BY <2>1, <2>2, CopyIndirectEntry
<1> HIDE DEF t, left
<1>6. /\ sym' \in [Syms -> Entry]
      /\ sym'[h] = left
      /\ sym'[t] = CopyIndirect(sym[t], sym[h])
      /\ \A g \in Syms : g # h /\ g # t => sym'[g] = sym[g]
  BY <1>1, <1>4, <1>5
<1>7. \A g \in Syms, kind \in Kinds :
        \/ StubOf(sym'[g], kind) = NoStub
        \/ g # h /\ StubOf(sym'[g], kind) = StubOf(sym[g], kind)
        \/ g = t /\ StubOf(sym'[g], kind) = StubOf(sym[h], kind)
  BY <1>1, <1>5, <1>6 DEF Moved
<1>8. TypeOK'
  <2>1. /\ refs' \subseteq Ref /\ excluded' \subseteq link'.stubs /\ todo' \subseteq link'.stubs
        /\ current' \in Bfds \cup {None} /\ forwarded' \subseteq Syms
    BY DEF IInv, TypeOK
  <2>2. \A x \in resolved' : x.ref \in refs' /\ x.dest \in Place /\ x.cross \in BOOLEAN
    BY DEF IInv, TypeOK
  <2>3. \A g \in Syms, kind \in Kinds :
          \/ StubOf(sym'[g], kind) = NoStub
          \/ StubOf(sym'[g], kind) \in link'.stubs /\ StubOf(sym'[g], kind).kind = kind
    BY <1>7 DEF IInv, TypeOK, Kinds
  <2>4. QED
    BY <1>1, <1>6, <2>1, <2>2, <2>3 DEF IInv, TypeOK, Kinds
<1>9. LinkKept' /\ DroppedScanned'
  BY <1>1 DEF IInv, LinkKept, DroppedScanned, t
<1>10. OwnStubs'
  <2> SUFFICES ASSUME NEW g \in Syms, NEW kind \in Kinds, NEW s,
                      s = StubOf(sym'[g], kind), s # NoStub
               PROVE  Target(s.sym)' = g /\ s.bfd \in loaded
    BY <1>1 DEF OwnStubs
  <2>1. s \in Stub
    <3>1. sym'[g] \in Entry
      BY <1>6
    <3>2. QED
      BY <3>1, StubOfEntry
  <2>2. s.sym \in Syms
    BY <2>1 DEF Stub
  <2>3. CASE g # h /\ s = StubOf(sym[g], kind)
    <3>1. Target(s.sym) = g /\ s.bfd \in loaded
      BY <2>3 DEF IInv, OwnStubs
    <3>2. QED
      BY <1>3, <2>2, <2>3, <3>1
  <2>4. CASE g = t /\ s = StubOf(sym[h], kind)
    <3>1. Target(s.sym) = h /\ s.bfd \in loaded
      BY <2>4 DEF IInv, OwnStubs
    <3>2. QED
      BY <1>3, <2>2, <2>4, <3>1
  <2>5. QED
    BY <1>7, <2>3, <2>4
<1>11. StubsDropped'
  <2> SUFFICES ASSUME NEW g \in Proper \ {h}, NEW kind \in Kinds
               PROVE  StubOf(sym'[g], kind) \notin excluded
    BY <1>1, <1>2 DEF StubsDropped, Fresh
  <2>1. g \in Syms
    BY DEF Proper
  <2>2. StubOf(sym[g], kind) \notin excluded /\ StubOf(sym[h], kind) \notin excluded
    BY <1>1, <1>2 DEF IInv, StubsDropped, Fresh
  <2>3. NoStub \notin excluded
    <3>1. link.stubs \subseteq Stub
      BY <1>1 DEF Link
    <3>2. QED
      BY <3>1, NoStubOutside DEF IInv, TypeOK
  <2>4. QED
    BY <1>7, <2>1, <2>2, <2>3
<1>12. ReferencesRemembered'
  <2> SUFFICES ASSUME NEW q \in refs, q.sec = "text", ~Mips16Call(q.type)
               PROVE  sym'[Target(q.sym)'].need_fn_stub
    BY DEF ReferencesRemembered
  <2>1. q.sym \in Syms /\ Target(q.sym) \in Syms
    BY TargetIsProper DEF IInv, TypeOK, Ref, Proper
  <2>2. sym[Target(q.sym)].need_fn_stub
    BY DEF IInv, ReferencesRemembered
  <2>3. CASE Target(q.sym) \in {h, t}
    <3>1. Target(q.sym)' = t
      BY <1>3, <2>1, <2>3
    <3>2. sym'[t].need_fn_stub
      BY <1>5, <1>6, <2>2, <2>3
    <3>3. QED
      BY <3>1, <3>2
  <2>4. CASE Target(q.sym) \notin {h, t}
    <3>1. Target(q.sym)' = Target(q.sym)
      BY <1>3, <2>1, <2>4
    <3>2. QED
      BY <1>6, <2>1, <2>2, <2>4, <3>1
  <2>5. QED
    BY <2>3, <2>4
<1>13. La25Needed'
  BY <1>1 DEF IInv, La25Needed, ResolvedLast
<1>14. ResolvedLast'
  BY <1>1 DEF IInv, ResolvedLast
<1>15. QED
  BY <1>8, <1>9, <1>10, <1>11, <1>12, <1>13, <1>14 DEF IInv

LEMMA StutterInv ==
  ASSUME IInv, UNCHANGED vars
  PROVE  IInv'
<1> USE DEF vars
<1>1. /\ \A g : Target(g)' = Target(g)
      /\ \A g : IsMips16(g)' = IsMips16(g)
      /\ Proper' = Proper
  BY DEF Target, Proper, IsMips16
<1>2. TypeOK'
  BY <1>1 DEF IInv, TypeOK
<1>3. LinkKept' /\ DroppedScanned'
  BY DEF IInv, LinkKept, DroppedScanned
<1>4. OwnStubs'
  BY <1>1 DEF IInv, OwnStubs
<1>5. StubsDropped'
  BY <1>1 DEF IInv, StubsDropped, Fresh, Checked
<1>6. ReferencesRemembered' /\ La25Needed'
  BY <1>1 DEF IInv, ReferencesRemembered, La25Needed
<1>7. ResolvedLast'
  <2>1. \A r : Resolve(r)' = Resolve(r)
    BY ResolveKept
  <2>2. QED
    BY <2>1 DEF IInv, ResolvedLast
<1>8. QED
  BY <1>2, <1>3, <1>4, <1>5, <1>6, <1>7 DEF IInv

LEMMA NextInv == IInv /\ [Next]_vars => IInv'
<1> SUFFICES ASSUME IInv, [Next]_vars PROVE IInv'
  OBVIOUS
<1>1. ASSUME NEW b \in Bfds, LoadBfd(b) PROVE IInv'
  BY <1>1, LoadBfdInv
<1>2. ASSUME NEW h \in Syms, BecomeIndirect(h) PROVE IInv'
  BY <1>2, BecomeIndirectInv
<1>3. ASSUME NEW r \in Ref, ScanReloc(r) PROVE IInv'
  BY <1>3, ScanRelocInv
<1>4. ASSUME NEW s \in todo \cap link.stubs, ScanStub(s) PROVE IInv'
  BY <1>4, ScanStubInv
<1>5. CASE EndScan
  BY <1>5, EndScanInv
<1>6. ASSUME NEW h \in Syms, CheckSymbol(h) PROVE IInv'
  BY <1>6, CheckSymbolInv
<1>7. ASSUME NEW b \in Bfds, Relocate(b) PROVE IInv'
  BY <1>7, RelocateInv
<1>8. CASE UNCHANGED vars
  BY <1>8, StutterInv
<1>9. QED
  BY <1>1, <1>2, <1>3, <1>4, <1>5, <1>6, <1>7, <1>8 DEF Next

LEMMA Invariance == Spec => []IInv
<1>1. Init => IInv
  BY InitInv
<1>2. IInv /\ [Next]_vars => IInv'
  BY NextInv
<1>3. QED
  BY <1>1, <1>2, PTL DEF Spec

-----------------------------------------------------------------------------
(***************************************************************************)
(* What follows from the invariant.                                        *)
(***************************************************************************)
\* Where a relocation goes when it is performed.
LEMMA ResolvedRefs ==
  ASSUME IInv, NEW x \in resolved
  PROVE  /\ x.ref \in Ref /\ x.ref \in refs
         /\ Target(x.ref.sym) \in Proper
         /\ x.dest = Destination(x.ref, Target(x.ref.sym))
         /\ Checked(Target(x.ref.sym))
<1>1. /\ x.ref \in refs /\ x = Resolve(x.ref) /\ pc \notin {"scan", "check"}
  BY DEF IInv, ResolvedLast
<1>2. x.ref \in Ref
  BY <1>1 DEF IInv, TypeOK
<1>3. Target(x.ref.sym) \in Proper
  BY <1>2, TargetIsProper DEF IInv, Ref
<1>4. x.dest = Destination(x.ref, Target(x.ref.sym))
  BY <1>1 DEF Resolve
<1>5. Checked(Target(x.ref.sym))
  BY <1>1, <1>3 DEF IInv, StubsDropped
<1>6. QED
  BY <1>1, <1>2, <1>3, <1>4, <1>5

\* A stub that a relocation uses is needed by one of the reasons in Checked.
LEMMA InvKeepsStubs == IInv => StubsKept
<1> SUFFICES ASSUME IInv PROVE StubsKept
  OBVIOUS
<1>1. ASSUME NEW x \in resolved
      PROVE  x.dest.stub \notin excluded
  <2> DEFINE r == x.ref
             h == Target(x.ref.sym)
  <2>1. r \in Ref /\ r \in refs /\ x.dest = Destination(r, h) /\ Checked(h)
    BY ResolvedRefs
  <2>2. NoStub \notin excluded
    <3>1. link.stubs \subseteq Stub
      BY LinksAssumption DEF IInv, LinkKept, Link
    <3>2. QED
      BY <3>1, NoStubOutside DEF IInv, TypeOK
  <2>3. ~Mips16Call(r.type) /\ ~AllowsMips16Refs(r.sec) => sym[h].need_fn_stub
    BY <2>1 DEF IInv, ReferencesRemembered, AllowsMips16Refs
  <2> HIDE DEF r, h
  <2>4. CASE UsesFnStub(r, h)
    <3>1. sym[h].need_fn_stub
      BY <2>3, <2>4 DEF UsesFnStub, Mips16Call
    <3>2. sym[h].fn_stub \notin excluded
      BY <2>1, <3>1 DEF Checked
    <3>3. QED
      BY <2>1, <2>2, <2>4, <3>2 DEF Destination, AtLa25, AtStub
  <2>5. CASE ~UsesFnStub(r, h) /\ UsesCallStub(r, h)
    <3>1. sym[h].call_stub \notin excluded /\ sym[h].call_fp_stub \notin excluded
      BY <2>1, <2>5 DEF Checked, UsesCallStub
    <3>2. CallStub(r.bfd, h) \notin excluded
      BY <3>1 DEF CallStub
    <3>3. QED
      BY <2>1, <2>5, <3>2 DEF Destination, AtStub
  <2>6. CASE ~UsesFnStub(r, h) /\ ~UsesCallStub(r, h)
    BY <2>1, <2>2, <2>6 DEF Destination, AtCode, AtLa25
  <2>7. QED
    BY <2>4, <2>5, <2>6
<1>2. ASSUME pc \in {"relocate", "done"}, NEW h \in Proper
      PROVE  /\ la25[h] # None /\ IsMips16(la25[h]) => sym[la25[h]].need_fn_stub
             /\ sym[h].fn_stub # NoStub /\ h \in link.exported
                  => sym[h].fn_stub \notin excluded
  <2>1. h \in Syms
    BY DEF Proper
  <2>2. Checked(h)
    BY <1>2 DEF IInv, StubsDropped
  <2>3. QED
    BY <2>1, <2>2 DEF IInv, La25Needed, Checked
<1>3. QED
  BY <1>1, <1>2 DEF StubsKept

\* A slot that standard code uses forces need_fn_stub, so MIPS16 calls cannot
\* bypass the stub; otherwise all of them do.
LEMMA InvAgrees == IInv => OneGotValue
<1> SUFFICES ASSUME IInv, NEW x \in resolved, NEW y \in resolved,
                    {x.ref.type, y.ref.type} \subseteq {"call16", "16_call16"},
                    x.ref.sec = "text", y.ref.sec = "text",
                    Target(x.ref.sym) = Target(y.ref.sym),
                    x.ref.type = "call16" \/ x.ref.type = y.ref.type
             PROVE  x.dest = y.dest
  BY DEF OneGotValue
<1> DEFINE h == Target(x.ref.sym)
<1>1. x.dest = Destination(x.ref, h) /\ y.dest = Destination(y.ref, h)
  BY ResolvedRefs
<1>2. x.ref.type = "call16" => sym[h].need_fn_stub
  BY ResolvedRefs DEF IInv, ReferencesRemembered, Mips16Call
<1> HIDE DEF h
<1>3. /\ ~AllowsMips16Refs(x.ref.sec) /\ ~AllowsMips16Refs(y.ref.sec)
      /\ x.ref.type \in {"call16", "16_call16"} /\ y.ref.type \in {"call16", "16_call16"}
  BY DEF AllowsMips16Refs
<1>4. UsesFnStub(x.ref, h) <=> UsesFnStub(y.ref, h)
  BY <1>2, <1>3 DEF UsesFnStub
<1>5. /\ ~UsesCallStub(x.ref, h) /\ ~UsesCallStub(y.ref, h)
      /\ \A t : ~NeedsLa25Stub(x.ref, t) /\ ~NeedsLa25Stub(y.ref, t)
  BY <1>3 DEF UsesCallStub, NeedsLa25Stub
<1>6. QED
  BY <1>1, <1>4, <1>5 DEF Destination

\* Every variable keeps its type, and symbols only point to stub sections of
\* their kind, whatever the input and the order in which it is read.
THEOREM TypeCorrect == Spec => []TypeOK
<1>1. IInv => TypeOK
  BY DEF IInv
<1>2. QED
  BY <1>1, Invariance, PTL

\* No stub section that was dropped is needed afterwards: the BFD_ASSERTs of
\* check_symbols and calculate_relocation hold for every link.
THEOREM StubsStayKept == Spec => []StubsKept
BY InvKeepsStubs, Invariance, PTL

\* All users of the GOT slot of a function agree on what it holds.
THEOREM SlotsAgree == Spec => []OneGotValue
BY InvAgrees, Invariance, PTL

-----------------------------------------------------------------------------
(***************************************************************************)
(* The code that a reference lands on.  What the linker knows of a         *)
(* function while it scans, checks and relocates has to agree with what    *)
(* the function turns out to be; for this the links must be of the usual   *)
(* kinds (ReplacedByItsIsa and so on).                                     *)
(***************************************************************************)
\* check_symbols has visited h.
Visited(h) == pc # "scan" /\ ~(pc = "check" /\ h \in todo)

\* The flags of a symbol are those of its definition as soon as it is read, and
\* never say MIPS16 of another.
Known(h) ==
  /\ IsMips16(h) => DefinedMips16(h)
  /\ link.def[h].owner \in loaded =>
       /\ link.weak[h].owner \in loaded \cup {None}
       /\ link.def[h].other # "none" => other[h] = link.def[h].other
  /\ link.indirect[h] # h /\ link.def[link.indirect[h]].owner \in loaded => h \in forwarded

Functions ==
  /\ pc # "scan" => loaded = Bfds
  /\ \A h \in Syms : Known(h)

\* A stub that was scanned is there for its symbol, or another of its kind is.
StubsFound ==
  \A s \in link.stubs :
    s.bfd \in loaded /\ (pc = "scan" => s \notin todo)
      => StubOf(sym[Target(s.sym)], s.kind) # NoStub

\* A plain jump is remembered, by whatever name its symbol goes.
BranchesRemembered ==
  \A r \in refs :
    NeedsLa25Stub(r, DefinedMips16(Target(r.sym)))
      => sym[Target(r.sym)].has_nonpic_branches

\* Functions that want $25 and are called by plain jumps have got their la25
\* stubs; MIPS16 functions have one for their fn stub only.
La25Made ==
  \A h \in Proper :
    /\ la25[h] # None /\ IsMips16(h) => sym[h].fn_stub # NoStub
    /\ Visited(h) /\ LocalPic(h, sym[h].need_fn_stub) /\ sym[h].has_nonpic_branches
         => la25[h] # None

CodeInv == Functions /\ StubsFound /\ BranchesRemembered /\ La25Made

\* Less is needed for MIPS16 code.
LEMMA La25Weaker ==
  ASSUME NEW r, NEW t \in BOOLEAN, NEW u \in BOOLEAN, u => t, NeedsLa25Stub(r, t)
  PROVE  NeedsLa25Stub(r, u)
BY DEF NeedsLa25Stub

\* What the scan of a relocation adds to an entry.
LEMMA ScannedBranches ==
  ASSUME NEW r \in Ref, NEW e \in Entry, NEW t \in BOOLEAN
  PROVE  Scanned(r, e, t).has_nonpic_branches
           = (e.has_nonpic_branches \/ NeedsLa25Stub(r, t))
<1>1. NeedsLa25Stub(r, t) \in BOOLEAN
  BY DEF NeedsLa25Stub
<1>2. QED
  BY <1>1 DEF Scanned, Entry

\* ScanReloc only adds to the entry of its symbol.
LEMMA ScanRelocEntries ==
  ASSUME IInv, NEW r \in Ref, ScanReloc(r)
  PROVE  /\ Target(r.sym) \in Syms
         /\ \A g \in Syms :
              /\ \A kind \in Kinds : StubOf(sym'[g], kind) = StubOf(sym[g], kind)
              /\ sym[g].has_nonpic_branches => sym'[g].has_nonpic_branches
         /\ NeedsLa25Stub(r, IsMips16(Target(r.sym)))
              => sym'[Target(r.sym)].has_nonpic_branches
<1> DEFINE h == Target(r.sym)
           e == Scanned(r, sym[h], IsMips16(h))
<1>1. h \in Syms /\ sym \in [Syms -> Entry] /\ IsMips16(h) \in BOOLEAN
  BY TargetIsProper DEF IInv, TypeOK, Ref, Proper, IsMips16
<1>2. sym' = [sym EXCEPT ![h] = e]
  BY DEF ScanReloc
<1>3. /\ \A kind \in Kinds : StubOf(e, kind) = StubOf(sym[h], kind)
      /\ e.has_nonpic_branches = (sym[h].has_nonpic_branches \/ NeedsLa25Stub(r, IsMips16(h)))
  BY <1>1, ScannedEntry, ScannedBranches
<1> HIDE DEF h, e
<1>4. sym'[h] = e /\ \A g \in Syms : g # h => sym'[g] = sym[g]
  BY <1>1, <1>2
<1>5. QED
  BY <1>1, <1>3, <1>4 DEF h

\* ScanStub adds a stub and its jump, unless there is a stub of its kind.
LEMMA ScanStubEntries ==
  ASSUME IInv, NEW s \in todo \cap link.stubs, ScanStub(s)
  PROVE  /\ pc = "scan" /\ s \in Stub /\ Target(s.sym) \in Syms /\ JumpOf(s) \in Ref
         /\ \A g \in Syms :
              /\ \A kind \in Kinds :
                   StubOf(sym[g], kind) # NoStub => StubOf(sym'[g], kind) = StubOf(sym[g], kind)
              /\ sym[g].has_nonpic_branches => sym'[g].has_nonpic_branches
         /\ StubOf(sym'[Target(s.sym)], s.kind) # NoStub
         /\ \/ refs' = refs
            \/ /\ refs' = refs \cup {JumpOf(s)}
               /\ StubOf(sym'[Target(s.sym)], s.kind) = s
               /\ NeedsLa25Stub(JumpOf(s), IsMips16(Target(s.sym)))
                    => sym'[Target(s.sym)].has_nonpic_branches
<1> DEFINE h == Target(s.sym)
           w == WithStub(sym[h], s)
           e == Scanned(JumpOf(s), w, IsMips16(h))
           kept == StubOf(sym[h], s.kind) = NoStub
<1>1. /\ link \in Link /\ s \in Stub /\ s \in link.stubs /\ pc = "scan"
      /\ sym \in [Syms -> Entry] /\ IsMips16(h) \in BOOLEAN
  BY LinksAssumption DEF IInv, TypeOK, LinkKept, Link, IsMips16, ScanStub
<1>2. h \in Syms /\ s.kind \in Kinds /\ s # NoStub
  BY <1>1, TargetIsProper, NoStubOutside DEF IInv, Proper, Stub, Kinds
<1>3. JumpOf(s) \in Ref
  BY <1>1 DEF JumpOf, Ref, Types, Stub
<1>4. /\ sym' = IF kept THEN [sym EXCEPT ![h] = e] ELSE sym
      /\ refs' = IF kept THEN refs \cup {JumpOf(s)} ELSE refs
  BY DEF ScanStub
<1>5. /\ w \in Entry /\ StubOf(w, s.kind) = s
      /\ \A kind \in Kinds : kind # s.kind => StubOf(w, kind) = StubOf(sym[h], kind)
      /\ w.has_nonpic_branches = sym[h].has_nonpic_branches
  <2>1. sym[h] \in Entry
    BY <1>1, <1>2
  <2>2. w.has_nonpic_branches = sym[h].has_nonpic_branches
    BY <1>2, <2>1 DEF WithStub, Entry, Kinds
  <2>3. QED
    BY <1>1, <2>1, <2>2, WithStubEntry
<1> HIDE DEF w
<1>6. /\ \A kind \in Kinds : StubOf(e, kind) = StubOf(w, kind)
      /\ e.has_nonpic_branches
           = (w.has_nonpic_branches \/ NeedsLa25Stub(JumpOf(s), IsMips16(h)))
  BY <1>1, <1>3, <1>5, ScannedEntry, ScannedBranches
<1> HIDE DEF h, e
<1>7. CASE kept
  <2>1. sym'[h] = e /\ \A g \in Syms : g # h => sym'[g] = sym[g]
    BY <1>1, <1>2, <1>4, <1>7
  <2>2. \A g \in Syms, kind \in Kinds :
          StubOf(sym[g], kind) # NoStub => StubOf(sym'[g], kind) = StubOf(sym[g], kind)
    BY <1>5, <1>6, <1>7, <2>1
  <2>3. \A g \in Syms : sym[g].has_nonpic_branches => sym'[g].has_nonpic_branches
    BY <1>5, <1>6, <2>1
  <2>4. StubOf(sym'[h], s.kind) = s
    BY <1>2, <1>5, <1>6, <2>1
  <2>5. NeedsLa25Stub(JumpOf(s), IsMips16(h)) => sym'[h].has_nonpic_branches
    BY <1>6, <2>1
  <2>6. QED
    BY <1>1, <1>2, <1>3, <1>4, <1>7, <2>2, <2>3, <2>4, <2>5 DEF h
<1>8. CASE ~kept
  BY <1>1, <1>2, <1>3, <1>4, <1>8 DEF h
<1>9. QED
  BY <1>7, <1>8

\* What has been said of a name is said of the symbol it becomes a name of.
LEMMA BecomeIndirectEntries ==
  ASSUME IInv, NEW h \in Syms, BecomeIndirect(h), NEW t, t = link.indirect[h]
  PROVE  /\ t \in Syms /\ t # h /\ ~DefinedMips16(h)
         /\ \A g \in Syms : Target(g)' = IF Target(g) = h THEN t ELSE Target(g)
         /\ \A g \in Syms : g # h /\ g # t => sym'[g] = sym[g]
         /\ \A kind \in Kinds :
              StubOf(sym'[t], kind) = Moved(StubOf(sym[h], kind), StubOf(sym[t], kind))
         /\ sym'[t].has_nonpic_branches
              = (sym[t].has_nonpic_branches \/ sym[h].has_nonpic_branches)
<1> DEFINE left == [NewEntry EXCEPT !.has_nonpic_branches = sym[h].has_nonpic_branches]
<1>1. /\ h \notin forwarded /\ t # h /\ forwarded' = forwarded \cup {h} /\ link' = link
      /\ sym' = [sym EXCEPT ![t] = CopyIndirect(sym[t], sym[h]), ![h] = left]
  BY DEF BecomeIndirect
<1>2. /\ link \in Links /\ link \in Link /\ t \in Syms /\ sym \in [Syms -> Entry]
  BY LinksAssumption DEF IInv, LinkKept, Link, TypeOK
<1>3. ~DefinedMips16(h)
  <2>1. link.def[h] = NoDef
    BY <1>1, <1>2, LinksAssumption
  <2>2. QED
    BY <2>1 DEF DefinedMips16, NoDef
<1>4. \A g \in Syms : Target(g)' = IF Target(g) = h THEN t ELSE Target(g)
  <2> TAKE g \in Syms
  <2>1. CASE g \in forwarded
    <3>1. link.indirect[link.indirect[g]] = link.indirect[g]
      BY <1>2, <2>1, LinksAssumption DEF IInv, LinkKept
    <3>2. QED
      BY <1>1, <2>1, <3>1 DEF Target
  <2>2. CASE g \notin forwarded
    BY <1>1, <2>2 DEF Target
  <2>3. QED
    BY <2>1, <2>2
<1> HIDE DEF left
<1>5. sym'[t] = CopyIndirect(sym[t], sym[h]) /\ \A g \in Syms : g # h /\ g # t => sym'[g] = sym[g]
  BY <1>1, <1>2
<1>6. sym[t] \in Entry /\ sym[h] \in Entry
  BY <1>2
<1>7. \A kind \in Kinds : StubOf(sym'[t], kind) = Moved(StubOf(sym[h], kind), StubOf(sym[t], kind))
  BY <1>5, <1>6, CopyIndirectEntry
<1>8. sym'[t].has_nonpic_branches = (sym[t].has_nonpic_branches \/ sym[h].has_nonpic_branches)
  BY <1>5 DEF CopyIndirect
<1>9. QED
  BY <1>1, <1>2, <1>3, <1>4, <1>5, <1>7, <1>8

\* CheckSymbol decides whether a symbol needs its fn stub and gets an la25 stub.
LEMMA CheckSymbolEntries ==
  ASSUME IInv, NEW h \in Syms, CheckSymbol(h)
  PROVE  /\ h \in Proper
         /\ \A g \in Syms : g # h => sym'[g] = sym[g] /\ la25'[g] = la25[g]
         /\ sym'[h] = [sym[h] EXCEPT !.need_fn_stub = NeedsFnStub(h)]
         /\ sym'[h].need_fn_stub = NeedsFnStub(h)
         /\ sym'[h].fn_stub = sym[h].fn_stub
         /\ sym'[h].has_nonpic_branches = sym[h].has_nonpic_branches
         /\ \A kind \in Kinds : StubOf(sym'[h], kind) = StubOf(sym[h], kind)
         /\ IF LocalPic(h, NeedsFnStub(h)) /\ sym[h].has_nonpic_branches
            THEN la25'[h] # None ELSE la25'[h] = la25[h]
<1>1. /\ sym \in [Syms -> Entry] /\ la25 \in [Syms -> Syms \cup {None}] /\ h \in Proper
  BY DEF IInv, TypeOK, CheckSymbol
<1> DEFINE need == NeedsFnStub(h)
           made == LocalPic(h, need) /\ sym[h].has_nonpic_branches
<1>2. /\ sym' = [sym EXCEPT ![h].need_fn_stub = need]
      /\ la25' = IF made THEN [la25 EXCEPT ![h] = La25StubFor(h)] ELSE la25
  BY DEF CheckSymbol
<1>3. La25StubFor(h) # None
  BY NoneAssumption DEF La25StubFor
<1> HIDE DEF need
<1>4. /\ sym'[h] = [sym[h] EXCEPT !.need_fn_stub = need]
      /\ \A g \in Syms : g # h => sym'[g] = sym[g]
  BY <1>1, <1>2
<1>5. sym[h] \in Entry
  BY <1>1
<1>6. /\ sym'[h].need_fn_stub = need /\ sym'[h].fn_stub = sym[h].fn_stub
      /\ sym'[h].has_nonpic_branches = sym[h].has_nonpic_branches
      /\ \A kind \in Kinds : StubOf(sym'[h], kind) = StubOf(sym[h], kind)
  BY <1>4, <1>5 DEF Entry, StubOf, Kinds
<1>7. /\ \A g \in Syms : g # h => la25'[g] = la25[g]
      /\ IF made THEN la25'[h] # None ELSE la25'[h] = la25[h]
  BY <1>1, <1>2, <1>3
<1>8. QED
  BY <1>1, <1>4, <1>6, <1>7 DEF need

\* Steps that read nothing leave what is known of functions.
LEMMA FunctionsKept ==
  ASSUME Functions, UNCHANGED <<link, loaded, other, forwarded>>, pc' = "scan" => pc = "scan",
         pc = "scan" => pc' = "scan" \/ loaded = Bfds
  PROVE  Functions'
BY DEF Functions, Known, IsMips16, DefinedMips16

\* Reading a bfd: a definition has its own flags, or those of one it replaced.
LEMMA FunctionsLoadBfd ==
  ASSUME ReplacedByItsIsa, IInv, Functions, NEW b \in Bfds, LoadBfd(b)
  PROVE  Functions'
<1> USE DEF LoadBfd
<1>1. link \in Links /\ link \in Link /\ other \in [Syms -> Others]
  BY LinksAssumption DEF IInv, LinkKept, TypeOK
<1>2. ASSUME NEW h \in Syms
      PROVE  Known(h)'
  <2> DEFINE def == link.def[h]
             weak == link.weak[h]
             flags == {d.other : d \in {d \in {def, weak} : d.owner = b}} \ {"none"}
  <2>1. other'[h] = IF flags = {} THEN other[h] ELSE CHOOSE f \in flags : TRUE
    OBVIOUS
  <2>2. Known(h)
    BY DEF Functions
  <2>3. flags # {} => other'[h] \in flags
    BY <2>1
  <2>4. \A f \in flags : \/ f = def.other /\ def.owner = b
                         \/ f = weak.other /\ weak.owner = b
    OBVIOUS
  <2>5. weak.other = "mips16" => def.other = "mips16"
    BY <1>1 DEF ReplacedByItsIsa
  <2>6. other'[h] = "mips16" => def.other = "mips16"
    BY <2>1, <2>2, <2>3, <2>4, <2>5 DEF Known, IsMips16, DefinedMips16
  <2>7. ASSUME def.owner \in loaded'
        PROVE  /\ weak.owner \in loaded' \cup {None}
               /\ def.other # "none" => other'[h] = def.other
    <3>1. CASE def.owner = b
      <4>1. weak.owner \in loaded \cup {None} /\ weak.owner # b
        BY <3>1, NoneAssumption
      <4>2. def.other # "none" => flags = {def.other}
        BY <3>1, <4>1
      <4>3. QED
        BY <2>1, <4>1, <4>2
    <3>2. CASE def.owner # b
      <4>1. def.owner \in loaded /\ weak.owner \in loaded \cup {None} /\ weak.owner # b
        BY <2>2, <2>7, <3>2, NoneAssumption DEF Known
      <4>2. flags = {}
        BY <3>2, <4>1
      <4>3. other'[h] = other[h]
        BY <2>1, <4>2
      <4>4. QED
        BY <2>2, <4>1, <4>3 DEF Known
    <3>3. QED
      BY <3>1, <3>2
  <2>8. link.indirect[h] # h /\ link.def[link.indirect[h]].owner \in loaded' => h \in forwarded
    BY <2>2 DEF Known, VersionedBy
  <2>9. QED
    BY <2>6, <2>7, <2>8 DEF Known, IsMips16, DefinedMips16
<1>3. QED
  BY <1>2 DEF Functions

\* Only LoadBfd and BecomeIndirect change what is known of functions.
LEMMA FunctionsStep ==
  ASSUME ReplacedByItsIsa, IInv, Functions, [Next]_vars
  PROVE  Functions'
<1>1. ASSUME NEW b \in Bfds, LoadBfd(b) PROVE Functions'
  BY <1>1, FunctionsLoadBfd
<1>2. ASSUME NEW h \in Syms, BecomeIndirect(h) PROVE Functions'
  BY <1>2 DEF BecomeIndirect, Functions, Known, IsMips16, DefinedMips16
<1>3. ASSUME NEW r \in Ref, ScanReloc(r) PROVE Functions'
  BY <1>3, FunctionsKept DEF ScanReloc
<1>4. ASSUME NEW s \in todo \cap link.stubs, ScanStub(s) PROVE Functions'
  BY <1>4, FunctionsKept DEF ScanStub
<1>5. CASE EndScan
  BY <1>5, FunctionsKept DEF EndScan
<1>6. ASSUME NEW h \in Syms, CheckSymbol(h) PROVE Functions'
  BY <1>6, FunctionsKept DEF CheckSymbol
<1>7. ASSUME NEW b \in Bfds, Relocate(b) PROVE Functions'
  BY <1>7, FunctionsKept DEF Relocate
<1>8. CASE UNCHANGED vars
  BY <1>8, FunctionsKept DEF vars
<1>9. QED
  BY <1>1, <1>2, <1>3, <1>4, <1>5, <1>6, <1>7, <1>8 DEF Next

\* Stubs and plain jumps that were scanned are not forgotten.
Remembered == StubsFound /\ BranchesRemembered

\* Names, refs and what has been scanned stay, entries only grow.
LEMMA RememberedKept ==
  ASSUME IInv, Remembered, UNCHANGED <<link, forwarded, loaded, refs>>,
         \A s \in link.stubs : s.bfd \in loaded /\ (pc' = "scan" => s \notin todo')
                               => (pc = "scan" => s \notin todo),
         \A g \in Syms :
           /\ \A kind \in Kinds : StubOf(sym'[g], kind) = StubOf(sym[g], kind)
           /\ sym[g].has_nonpic_branches => sym'[g].has_nonpic_branches
  PROVE  Remembered'
<1>1. \A g : Target(g)' = Target(g) /\ DefinedMips16(g)' = DefinedMips16(g)
  BY DEF Target, DefinedMips16
<1>2. link.stubs \subseteq Stub
  BY LinksAssumption DEF IInv, LinkKept, Link
<1>3. /\ \A s \in link.stubs : s.kind \in Kinds /\ Target(s.sym) \in Syms
      /\ \A r \in refs : Target(r.sym) \in Syms
  BY <1>2, TargetIsProper DEF IInv, TypeOK, Ref, Stub, Kinds, Proper
<1>4. StubsFound'
  BY <1>1, <1>3 DEF Remembered, StubsFound
<1>5. BranchesRemembered'
  <2> SUFFICES ASSUME NEW r \in refs, NeedsLa25Stub(r, DefinedMips16(Target(r.sym)))'
               PROVE  sym'[Target(r.sym)].has_nonpic_branches
    BY <1>1 DEF BranchesRemembered
  <2>1. NeedsLa25Stub(r, DefinedMips16(Target(r.sym)))
    BY <1>1 DEF NeedsLa25Stub
  <2>2. QED
    BY <1>3, <2>1 DEF Remembered, BranchesRemembered
<1>6. QED
  BY <1>4, <1>5 DEF Remembered

\* A plain jump is remembered when it is scanned.
LEMMA RememberedScanReloc ==
  ASSUME IInv, Functions, Remembered, NEW r \in Ref, ScanReloc(r)
  PROVE  Remembered'
<1> DEFINE h == Target(r.sym)
<1>1. /\ UNCHANGED <<pc, link, loaded, forwarded, other, todo>> /\ refs' = refs \cup {r}
  BY DEF ScanReloc
<1>2. \A g : /\ Target(g)' = Target(g) /\ DefinedMips16(g)' = DefinedMips16(g)
  BY <1>1 DEF Target, DefinedMips16
<1>3. link.stubs \subseteq Stub
  BY LinksAssumption DEF IInv, LinkKept, Link
<1>4. /\ \A s \in link.stubs : s.kind \in Kinds /\ Target(s.sym) \in Syms
      /\ \A q \in refs : Target(q.sym) \in Syms
  BY <1>3, TargetIsProper DEF IInv, TypeOK, Ref, Stub, Kinds, Proper
<1>5. StubsFound'
  BY <1>1, <1>2, <1>4, ScanRelocEntries DEF Remembered, StubsFound
<1>6. ASSUME NeedsLa25Stub(r, DefinedMips16(h))
      PROVE  sym'[h].has_nonpic_branches
  <2>1. h \in Syms /\ IsMips16(h) \in BOOLEAN /\ DefinedMips16(h) \in BOOLEAN
    BY ScanRelocEntries DEF IsMips16, DefinedMips16
  <2>2. IsMips16(h) => DefinedMips16(h)
    BY <2>1 DEF Functions, Known
  <2>3. NeedsLa25Stub(r, IsMips16(h))
    BY <1>6, <2>1, <2>2, La25Weaker
  <2>4. QED
    BY <2>3, ScanRelocEntries
<1>7. BranchesRemembered'
  <2> SUFFICES ASSUME NEW q \in refs', NeedsLa25Stub(q, DefinedMips16(Target(q.sym)))'
               PROVE  sym'[Target(q.sym)].has_nonpic_branches
    BY <1>2 DEF BranchesRemembered
  <2>1. NeedsLa25Stub(q, DefinedMips16(Target(q.sym)))
    BY <1>1, <1>2 DEF NeedsLa25Stub
  <2>2. CASE q = r
    BY <1>6, <2>1, <2>2
  <2>3. CASE q \in refs
    BY <1>4, <2>1, <2>3, ScanRelocEntries DEF Remembered, BranchesRemembered
  <2>4. QED
    BY <1>1, <2>2, <2>3
<1>8. QED
  BY <1>5, <1>7 DEF Remembered

\* A stub section is remembered, unless another of its kind is, and so is its jump.
LEMMA RememberedScanStub ==
  ASSUME IInv, Functions, Remembered, NEW s \in todo \cap link.stubs, ScanStub(s)
  PROVE  Remembered'
<1> DEFINE h == Target(s.sym)
<1>1. /\ UNCHANGED <<pc, link, loaded, forwarded, other>> /\ todo' = todo \ {s}
  BY DEF ScanStub
<1>2. \A g : /\ Target(g)' = Target(g) /\ DefinedMips16(g)' = DefinedMips16(g)
  BY <1>1 DEF Target, DefinedMips16
<1>3. link.stubs \subseteq Stub
  BY LinksAssumption DEF IInv, LinkKept, Link
<1>4. /\ \A q \in link.stubs : q.kind \in Kinds /\ Target(q.sym) \in Syms
      /\ \A q \in refs : Target(q.sym) \in Syms
  BY <1>3, TargetIsProper DEF IInv, TypeOK, Ref, Stub, Kinds, Proper
<1>5. StubsFound'
  <2> SUFFICES ASSUME NEW q \in link.stubs, q.bfd \in loaded, pc = "scan" => q \notin todo'
               PROVE  StubOf(sym'[Target(q.sym)], q.kind) # NoStub
    BY <1>1, <1>2 DEF StubsFound
  <2>1. CASE q = s
    BY <2>1, ScanStubEntries
  <2>2. CASE q # s
    <3>1. StubOf(sym[Target(q.sym)], q.kind) # NoStub
      BY <1>1, <2>2 DEF Remembered, StubsFound
    <3>2. QED
      BY <1>4, <3>1, ScanStubEntries
  <2>3. QED
    BY <2>1, <2>2
<1>6. ASSUME NEW q, q = JumpOf(s), q \in refs' \ refs, NeedsLa25Stub(q, DefinedMips16(h))
      PROVE  sym'[h].has_nonpic_branches
  <2>1. h \in Syms /\ IsMips16(h) \in BOOLEAN /\ DefinedMips16(h) \in BOOLEAN
    BY ScanStubEntries DEF IsMips16, DefinedMips16
  <2>2. IsMips16(h) => DefinedMips16(h)
    BY <2>1 DEF Functions, Known
  <2>3. NeedsLa25Stub(q, IsMips16(h))
    BY <1>6, <2>1, <2>2, La25Weaker
  <2>4. QED
    BY <1>6, <2>3, ScanStubEntries
<1>7. BranchesRemembered'
  <2> SUFFICES ASSUME NEW q \in refs', NeedsLa25Stub(q, DefinedMips16(Target(q.sym)))'
               PROVE  sym'[Target(q.sym)].has_nonpic_branches
    BY <1>2 DEF BranchesRemembered
  <2>1. NeedsLa25Stub(q, DefinedMips16(Target(q.sym)))
    BY <1>1, <1>2 DEF NeedsLa25Stub
  <2>2. CASE q \notin refs
    <3>1. q = JumpOf(s)
      BY <2>2, ScanStubEntries
    <3>2. q.sym = s.sym
      BY <3>1 DEF JumpOf
    <3>3. QED
      BY <1>6, <2>1, <2>2, <3>1, <3>2
  <2>3. CASE q \in refs
    BY <1>4, <2>1, <2>3, ScanStubEntries DEF Remembered, BranchesRemembered
  <2>4. QED
    BY <2>2, <2>3
<1>8. QED
  BY <1>5, <1>7 DEF Remembered

\* copy_indirect_symbol hands stubs and plain jumps on to the versioned symbol.
LEMMA RememberedBecomeIndirect ==
  ASSUME IInv, Remembered, NEW h \in Syms, BecomeIndirect(h)
  PROVE  Remembered'
<1> DEFINE t == link.indirect[h]
<1>1. /\ UNCHANGED <<pc, link, loaded, refs, todo>> /\ pc = "scan" /\ todo = {}
  BY DEF BecomeIndirect
<1>2. link.stubs \subseteq Stub
  BY LinksAssumption DEF IInv, LinkKept, Link
<1>3. /\ \A q \in link.stubs : q.kind \in Kinds /\ q.sym \in Syms /\ Target(q.sym) \in Syms
      /\ \A q \in refs : q.sym \in Syms /\ Target(q.sym) \in Syms
  BY <1>2, TargetIsProper DEF IInv, TypeOK, Ref, Stub, Kinds, Proper
<1>4. \A g : DefinedMips16(g)' = DefinedMips16(g)
  BY <1>1 DEF DefinedMips16
<1>5. /\ t # h /\ ~DefinedMips16(h)
      /\ \A g \in Syms : Target(g)' = IF Target(g) = h THEN t ELSE Target(g)
      /\ \A g \in Syms : g # h /\ g # t => sym'[g] = sym[g]
      /\ \A kind \in Kinds :
           StubOf(sym'[t], kind) = Moved(StubOf(sym[h], kind), StubOf(sym[t], kind))
      /\ sym'[t].has_nonpic_branches
           = (sym[t].has_nonpic_branches \/ sym[h].has_nonpic_branches)
  BY BecomeIndirectEntries
<1> HIDE DEF t
<1>6. StubsFound'
  <2> SUFFICES ASSUME NEW q \in link.stubs, q.bfd \in loaded
               PROVE  StubOf(sym'[Target(q.sym)'], q.kind) # NoStub
    BY <1>1 DEF StubsFound
  <2>1. StubOf(sym[Target(q.sym)], q.kind) # NoStub
    BY <1>1 DEF Remembered, StubsFound
  <2>2. CASE Target(q.sym) \in {h, t}
    <3>1. Target(q.sym)' = t
      BY <1>3, <1>5, <2>2
    <3>2. StubOf(sym'[t], q.kind) # NoStub
      BY <1>3, <1>5, <2>1, <2>2 DEF Moved
    <3>3. QED
      BY <3>1, <3>2
  <2>3. CASE Target(q.sym) \notin {h, t}
    BY <1>3, <1>5, <2>1, <2>3
  <2>4. QED
    BY <2>2, <2>3
<1>7. BranchesRemembered'
  <2> SUFFICES ASSUME NEW q \in refs, NeedsLa25Stub(q, DefinedMips16(Target(q.sym)))'
               PROVE  sym'[Target(q.sym)'].has_nonpic_branches
    BY <1>1, <1>4 DEF BranchesRemembered
  <2>1. NeedsLa25Stub(q, DefinedMips16(Target(q.sym)'))
    BY <1>1, <1>4 DEF NeedsLa25Stub
  <2>2. CASE Target(q.sym) = h
    <3>1. DefinedMips16(t) \in BOOLEAN /\ DefinedMips16(h) = FALSE
      BY <1>5 DEF DefinedMips16
    <3>2. Target(q.sym)' = t
      BY <1>3, <1>5, <2>2
    <3>3. NeedsLa25Stub(q, DefinedMips16(h))
      BY <2>1, <3>1, <3>2, La25Weaker
    <3>4. sym[h].has_nonpic_branches
      BY <2>2, <3>3 DEF Remembered, BranchesRemembered
    <3>5. QED
      BY <1>5, <3>2, <3>4
  <2>3. CASE Target(q.sym) # h
    <3>1. Target(q.sym)' = Target(q.sym)
      BY <1>3, <1>5, <2>3
    <3>2. sym[Target(q.sym)].has_nonpic_branches
      BY <2>1, <3>1 DEF Remembered, BranchesRemembered
    <3>3. QED
      BY <1>3, <1>5, <2>3, <3>1, <3>2
  <2>4. QED
    BY <2>2, <2>3
<1>8. QED
  BY <1>6, <1>7 DEF Remembered

\* Nothing that the scan remembered is forgotten.
LEMMA RememberedStep ==
  ASSUME IInv, Functions, Remembered, [Next]_vars
  PROVE  Remembered'
<1>1. ASSUME NEW b \in Bfds, LoadBfd(b) PROVE Remembered'
  <2>1. \A g : Target(g)' = Target(g) /\ DefinedMips16(g)' = DefinedMips16(g)
    BY <1>1 DEF LoadBfd, Target, DefinedMips16
  <2>2. StubsFound'
    BY <1>1, <2>1 DEF LoadBfd, Remembered, StubsFound
  <2>3. BranchesRemembered'
    BY <1>1, <2>1 DEF LoadBfd, Remembered, BranchesRemembered, NeedsLa25Stub
  <2>4. QED
    BY <2>2, <2>3 DEF Remembered
<1>2. ASSUME NEW h \in Syms, BecomeIndirect(h) PROVE Remembered'
  BY <1>2, RememberedBecomeIndirect
<1>3. ASSUME NEW r \in Ref, ScanReloc(r) PROVE Remembered'
  BY <1>3, RememberedScanReloc
<1>4. ASSUME NEW s \in todo \cap link.stubs, ScanStub(s) PROVE Remembered'
  BY <1>4, RememberedScanStub
<1>5. CASE EndScan
  BY <1>5, RememberedKept DEF EndScan
<1>6. ASSUME NEW h \in Syms, CheckSymbol(h) PROVE Remembered'
  <2>1. \A g \in Syms :
          /\ \A kind \in Kinds : StubOf(sym'[g], kind) = StubOf(sym[g], kind)
          /\ sym[g].has_nonpic_branches => sym'[g].has_nonpic_branches
    BY <1>6, CheckSymbolEntries
  <2>2. QED
    BY <1>6, <2>1, RememberedKept DEF CheckSymbol
<1>7. ASSUME NEW b \in Bfds, Relocate(b) PROVE Remembered'
  BY <1>7, RememberedKept DEF Relocate
<1>8. CASE UNCHANGED vars
  BY <1>8, RememberedKept DEF vars
<1>9. QED
  BY <1>1, <1>2, <1>3, <1>4, <1>5, <1>6, <1>7, <1>8 DEF Next

\* Until check_symbols runs there are no la25 stubs and nothing is visited.
LEMMA La25Scanning ==
  ASSUME IInv, pc = "scan" \/ (pc = "check" /\ todo = Proper /\ \A h \in Syms : la25[h] = None)
  PROVE  La25Made
BY DEF IInv, ResolvedLast, La25Made, Visited, Proper

\* What La25Made says of one symbol.
La25MadeFor(h) ==
  /\ la25[h] # None /\ IsMips16(h) => sym[h].fn_stub # NoStub
  /\ Visited(h) /\ LocalPic(h, sym[h].need_fn_stub) /\ sym[h].has_nonpic_branches
       => la25[h] # None

\* check_symbols makes the la25 stub of h, from all that was remembered of it.
LEMMA La25CheckSymbol ==
  ASSUME IInv, La25Made, NEW h \in Syms, CheckSymbol(h)
  PROVE  La25Made'
<1>1. /\ UNCHANGED <<link, other, forwarded>> /\ pc = "check" /\ h \in todo /\ todo \subseteq Proper
      /\ todo' = IF todo = {h} THEN Bfds ELSE todo \ {h}
      /\ pc' = IF todo = {h} THEN "relocate" ELSE pc
  BY DEF CheckSymbol, IInv, TypeOK
<1>2. /\ Proper' = Proper /\ \A g : IsMips16(g)' = IsMips16(g)
  BY <1>1 DEF Proper, IsMips16
<1>3. ASSUME NEW g \in Proper, g # h
      PROVE  La25MadeFor(g)'
  <2>1. g \in Syms /\ La25MadeFor(g)
    BY DEF La25Made, La25MadeFor, Proper
  <2>2. Visited(g)' => Visited(g)
    BY <1>1, <1>3 DEF Visited
  <2>3. sym'[g] = sym[g] /\ la25'[g] = la25[g]
    BY <1>3, <2>1, CheckSymbolEntries
  <2>4. LocalPic(g, sym[g].need_fn_stub)' => LocalPic(g, sym[g].need_fn_stub)
    BY <1>1, <1>2, <2>3 DEF LocalPic
  <2>5. QED
    BY <1>2, <2>1, <2>2, <2>3, <2>4 DEF La25MadeFor
<1>4. La25MadeFor(h)'
  <2>1. h \in Proper /\ La25MadeFor(h) /\ la25[h] \in Syms \cup {None}
    BY <1>1 DEF La25Made, La25MadeFor, IInv, TypeOK
  <2>2. /\ sym'[h].need_fn_stub = NeedsFnStub(h) /\ sym'[h].fn_stub = sym[h].fn_stub
        /\ sym'[h].has_nonpic_branches = sym[h].has_nonpic_branches
        /\ IF LocalPic(h, NeedsFnStub(h)) /\ sym[h].has_nonpic_branches
           THEN la25'[h] # None ELSE la25'[h] = la25[h]
    BY CheckSymbolEntries
  <2>3. LocalPic(h, sym[h].need_fn_stub)' => LocalPic(h, NeedsFnStub(h))
    BY <1>1, <1>2, <2>2 DEF LocalPic
  <2>4. LocalPic(h, NeedsFnStub(h)) /\ IsMips16(h) => sym[h].fn_stub # NoStub
    BY DEF LocalPic
  <2>5. QED
    BY <1>2, <2>1, <2>2, <2>3, <2>4 DEF La25MadeFor
<1>5. QED
  BY <1>2, <1>3, <1>4 DEF La25Made, La25MadeFor

\* la25 stubs are made in check_symbols only, and never taken back.
LEMMA La25Step ==
  ASSUME IInv, IInv', La25Made, [Next]_vars
  PROVE  La25Made'
<1>1. ASSUME pc' = "scan"
             \/ (pc' = "check" /\ todo' = Proper' /\ \A h \in Syms : la25'[h] = None)
      PROVE  La25Made'
  BY <1>1 DEF IInv, ResolvedLast, La25Made, Visited, Proper
<1>2. ASSUME UNCHANGED <<link, other, forwarded, sym, la25>>,
             pc \in {"relocate", "done"}, pc' \in {"relocate", "done"}
      PROVE  La25Made'
  BY <1>2 DEF La25Made, Visited, LocalPic, IsMips16, Proper
<1>3. ASSUME NEW h \in Syms, CheckSymbol(h) PROVE La25Made'
  BY <1>3, La25CheckSymbol
<1>4. CASE EndScan
  <2>1. pc' = "check" /\ todo' = Proper' /\ \A h \in Syms : la25'[h] = None
    BY <1>4 DEF EndScan, IInv, ResolvedLast, Proper
  <2>2. QED
    BY <1>1, <2>1
<1>5. CASE \E b \in Bfds : Relocate(b)
  BY <1>2, <1>5 DEF Relocate
<1>6. CASE \/ \E b \in Bfds : LoadBfd(b)
           \/ \E h \in Syms : BecomeIndirect(h)
           \/ \E r \in Ref : ScanReloc(r)
           \/ \E s \in todo \cap link.stubs : ScanStub(s)
  BY <1>1, <1>6 DEF LoadBfd, BecomeIndirect, ScanReloc, ScanStub
<1>7. CASE UNCHANGED vars
  BY <1>7 DEF vars, La25Made, Visited, LocalPic, IsMips16, Proper
<1>8. QED
  BY <1>3, <1>4, <1>5, <1>6, <1>7 DEF Next

\* CodeInv is inductive, given IInv.
LEMMA CodeInvariance ==
  ASSUME ReplacedByItsIsa
  PROVE  Spec => []CodeInv
<1>1. Init => CodeInv
  <2> SUFFICES ASSUME Init PROVE CodeInv
    OBVIOUS
  <2>1. IInv
    BY InitInv
  <2>2. Functions
    <3>1. \A h \in Syms : link.def[h].owner \notin loaded
                          /\ link.def[link.indirect[h]].owner \notin loaded
      BY DEF Init
    <3>2. QED
      BY <3>1 DEF Init, Functions, Known, IsMips16
  <2>3. La25Made
    BY <2>1, La25Scanning DEF Init
  <2>4. QED
    BY <2>2, <2>3 DEF Init, CodeInv, StubsFound, BranchesRemembered
<1>2. CodeInv /\ IInv /\ IInv' /\ [Next]_vars => CodeInv'
  BY FunctionsStep, RememberedStep, La25Step DEF CodeInv, Remembered
<1>3. QED
  BY <1>1, <1>2, Invariance, PTL DEF Spec

-----------------------------------------------------------------------------
\* What has been read when relocations are performed.
LEMMA ResolvedCode ==
  ASSUME IInv, CodeInv, NEW x \in resolved, NEW h, h = Target(x.ref.sym)
  PROVE  /\ x.ref \in Ref /\ x.ref \in refs /\ h \in Proper /\ h \in Syms
         /\ x.dest = Destination(x.ref, h) /\ x.cross = CrossModeJump(x.ref, h)
         /\ loaded = Bfds /\ Visited(h) /\ pc # "scan"
         /\ IsMips16(h) => DefinedMips16(h)
         /\ link.def[h] # NoDef => IsMips16(h) = DefinedMips16(h)
         /\ link.def[h].other # "none" => other[h] = link.def[h].other
         /\ \A kind \in Kinds : HasStub(h, kind) => StubOf(sym[h], kind) # NoStub
<1>1. /\ x = Resolve(x.ref) /\ pc \notin {"scan", "check"}
  BY DEF IInv, ResolvedLast
<1>2. /\ x.ref \in Ref /\ x.ref \in refs /\ h \in Proper /\ h \in Syms
      /\ x.dest = Destination(x.ref, h) /\ x.cross = CrossModeJump(x.ref, h)
  BY <1>1, ResolvedRefs DEF Resolve, Proper
<1>3. loaded = Bfds /\ Visited(h) /\ Known(h)
  BY <1>1, <1>2 DEF CodeInv, Functions, Visited
<1>4. link \in Link /\ link.stubs \subseteq Stub
  BY LinksAssumption DEF IInv, LinkKept, Link
<1>5. link.def[h] # NoDef => link.def[h].owner \in loaded
  BY <1>2, <1>3, <1>4 DEF Link, Definition
<1>6. link.def[h].other # "none" => other[h] = link.def[h].other
  BY <1>3, <1>5 DEF Known, NoDef
<1>7. IsMips16(h) <=> DefinedMips16(h)
  BY <1>3, <1>6 DEF Known, IsMips16, DefinedMips16
<1>8. \A kind \in Kinds : HasStub(h, kind) => StubOf(sym[h], kind) # NoStub
  <2> SUFFICES ASSUME NEW s \in link.stubs, Target(s.sym) = h
               PROVE  StubOf(sym[h], s.kind) # NoStub
    BY DEF HasStub
  <2>1. s.bfd \in Bfds
    BY <1>4 DEF Stub
  <2>2. QED
    BY <1>1, <1>3, <2>1 DEF CodeInv, StubsFound
<1>9. QED
  BY <1>1, <1>2, <1>3, <1>6, <1>7, <1>8 DEF IsMips16, DefinedMips16

\* Stubs that were found are used by the references that need them.
LEMMA InvRightInterface == IInv /\ CodeInv => RightInterface
<1> SUFFICES ASSUME IInv, CodeInv, NEW x \in resolved, x.ref.sec = "text",
                    NEW r, r = x.ref, NEW h, h = Target(x.ref.sym)
             PROVE  /\ ~Mips16Call(r.type) /\ DefinedMips16(h) /\ HasStub(h, "fn")
                         => x.dest.via # "none"
                    /\ r.type = "16_26" /\ ~DefinedMips16(h)
                         /\ (HasStub(h, "call") \/ HasStub(h, "call_fp"))
                         => x.dest.via = "stub" /\ x.dest.stub.kind # "fn"
  BY DEF RightInterface
<1>1. /\ x.dest = Destination(r, h) /\ h \in Syms
      /\ IsMips16(h) => DefinedMips16(h)
      /\ \A kind \in Kinds : HasStub(h, kind) => StubOf(sym[h], kind) # NoStub
      /\ ~AllowsMips16Refs(r.sec)
  BY ResolvedCode DEF AllowsMips16Refs
<1>2. ASSUME ~Mips16Call(r.type), HasStub(h, "fn")
      PROVE  x.dest.via # "none"
  <2>1. sym[h].fn_stub # NoStub
    BY <1>1, <1>2 DEF Kinds, StubOf
  <2>2. UsesFnStub(r, h)
    BY <1>1, <1>2, <2>1 DEF UsesFnStub, Mips16Call
  <2>3. QED
    BY <1>1, <2>2 DEF Destination, AtLa25, AtStub
<1>3. ASSUME r.type = "16_26", ~DefinedMips16(h), HasStub(h, "call") \/ HasStub(h, "call_fp")
      PROVE  x.dest.via = "stub" /\ x.dest.stub.kind # "fn"
  <2>1. sym[h].call_stub # NoStub \/ sym[h].call_fp_stub # NoStub
    BY <1>1, <1>3 DEF Kinds, StubOf
  <2>2. ~UsesFnStub(r, h) /\ UsesCallStub(r, h)
    BY <1>1, <1>3, <2>1 DEF UsesFnStub, UsesCallStub
  <2>3. x.dest = AtStub(CallStub(r.bfd, h), h)
    BY <1>1, <2>2 DEF Destination
  <2>4. CallStub(r.bfd, h) \in {StubOf(sym[h], "call"), StubOf(sym[h], "call_fp")} \ {NoStub}
    BY <2>1 DEF CallStub, StubOf
  <2>5. CallStub(r.bfd, h).kind # "fn"
    BY <1>1, <2>4 DEF IInv, TypeOK
  <2>6. QED
    BY <2>3, <2>5 DEF AtStub
<1>4. QED
  BY <1>2, <1>3

\* A reference that lands on a function or a stub that wants $25 is one for
\* which check_symbols has made an la25 stub.
LEMMA InvRegisterValid ==
  ASSUME FnStubsFollowDefinition
  PROVE  IInv /\ CodeInv => RegisterValid
<1> SUFFICES ASSUME IInv, CodeInv, NEW x \in resolved, NEW r, r = x.ref,
                    NEW h, h = Target(x.ref.sym), r.bfd \notin link.pic,
                    r.type \in {"26", "pc16", "16_26"},
                    WantsRegister(x)
             PROVE  x.dest.via = "la25"
  BY DEF RegisterValid
<1>1. /\ x.dest = Destination(r, h) /\ h \in Syms /\ h \in Proper /\ r \in refs /\ r \in Ref
      /\ loaded = Bfds /\ Visited(h)
      /\ IsMips16(h) => DefinedMips16(h)
      /\ link.def[h].other # "none" => other[h] = link.def[h].other
  BY ResolvedCode
<1>2. link \in Links /\ link \in Link /\ link.pic \subseteq Bfds /\ link.stubs \subseteq Stub
  BY LinksAssumption DEF IInv, LinkKept, Link
<1>3. LocalPic(h, sym[h].need_fn_stub) /\ sym[h].has_nonpic_branches => la25[h] # None
  BY <1>1 DEF CodeInv, La25Made
<1>4. NeedsLa25Stub(r, DefinedMips16(h)) => sym[h].has_nonpic_branches
  BY <1>1 DEF CodeInv, BranchesRemembered
<1>5. CASE /\ x.dest.via = "none" /\ ~DefinedMips16(h)
           /\ link.def[h].owner \in link.pic \/ link.def[h].other = "pic"
  <2>1. link.def[h] # NoDef
    BY <1>2, <1>5, NoneAssumption DEF NoDef
  <2>2. ~IsMips16(h) /\ IsMips16(h) \in BOOLEAN /\ DefinedMips16(h) \in BOOLEAN
    BY <1>1, <1>5 DEF IsMips16, DefinedMips16
  <2>3. LocalPic(h, sym[h].need_fn_stub)
    BY <1>1, <1>5, <2>1, <2>2 DEF LocalPic
  <2>4. NeedsLa25Stub(r, DefinedMips16(h)) /\ NeedsLa25Stub(r, IsMips16(h))
    BY <1>5, <2>2 DEF NeedsLa25Stub
  <2>5. la25[h] # None
    BY <1>3, <1>4, <2>3, <2>4
  <2>6. ~UsesFnStub(r, h) /\ ~UsesCallStub(r, h)
    BY <1>1, <1>5, <2>5 DEF Destination, AtStub, AtLa25
  <2>7. QED
    BY <1>1, <2>4, <2>5, <2>6 DEF Destination, AtLa25
<1>6. CASE x.dest.stub.kind = "fn" /\ x.dest.stub.bfd \in link.pic
  <2>1. UsesFnStub(r, h)
    <3>1. ASSUME UsesCallStub(r, h)
          PROVE  CallStub(r.bfd, h).kind # "fn"
      <4>1. CallStub(r.bfd, h) \in {StubOf(sym[h], "call"), StubOf(sym[h], "call_fp")}
        BY DEF CallStub, StubOf
      <4>2. QED
        BY <1>1, <4>1 DEF IInv, TypeOK, NoStub
    <3>2. QED
      BY <1>1, <1>6, <3>1 DEF Destination, AtStub, AtCode, AtLa25, NoStub
  <2>2. CASE la25[h] # None
    BY <1>1, <2>1, <2>2 DEF Destination, AtLa25
  <2>3. CASE la25[h] = None
    <3>1. x.dest.stub = sym[h].fn_stub /\ sym[h].fn_stub # NoStub
      BY <1>1, <2>1, <2>3 DEF Destination, AtStub, UsesFnStub
    <3>2. sym[h].fn_stub \in link.stubs /\ Target(sym[h].fn_stub.sym) = h
      BY <1>1, <3>1 DEF IInv, TypeOK, OwnStubs, StubOf, Kinds
    <3>3. r.type \in {"26", "pc16"} /\ r.sec = "text"
      BY <1>1, <2>1 DEF UsesFnStub, AllowsMips16Refs
    <3>4. sym[h].need_fn_stub
      BY <1>1, <3>3 DEF IInv, ReferencesRemembered, Mips16Call
    <3>5. NeedsLa25Stub(r, DefinedMips16(h))
      BY <3>3 DEF NeedsLa25Stub
    <3>6. link.indirect[sym[h].fn_stub.sym] = h
      <4> DEFINE n == sym[h].fn_stub.sym
      <4>1. n \in Syms
        BY <1>2, <3>2 DEF Stub
      <4>2. ASSUME link.indirect[n] # n
            PROVE  n \in forwarded
        <5>1. link.indirect[n] \in Syms /\ link.def[link.indirect[n]] # NoDef
          BY <1>2, <4>1, <4>2, LinksAssumption DEF Link
        <5>2. link.def[link.indirect[n]].owner \in Bfds
          BY <1>2, <5>1 DEF Link, Definition
        <5>3. QED
          BY <1>1, <4>1, <4>2, <5>2 DEF CodeInv, Functions, Known
      <4>3. QED
        BY <3>2, <4>2 DEF Target
    <3>7. link.def[h].owner \in link.pic
      BY <1>2, <1>6, <3>1, <3>2, <3>6 DEF FnStubsFollowDefinition
    <3>8. link.def[h] # NoDef
      BY <1>2, <3>7, NoneAssumption DEF NoDef
    <3>9. LocalPic(h, sym[h].need_fn_stub)
      BY <3>1, <3>4, <3>7, <3>8 DEF LocalPic
    <3>10. QED
      BY <1>3, <1>4, <2>3, <3>5, <3>9
  <2>4. QED
    BY <2>2, <2>3
<1>7. QED
  BY <1>5, <1>6 DEF WantsRegister

-----------------------------------------------------------------------------
(***************************************************************************)
(* Jump modes.  Only call stubs that return have plain jumps of their own: *)
(* those of a MIPS16 function are dropped, so none is turned into a JALX   *)
(* on its way to an la25 stub.                                             *)
(***************************************************************************)
FpStub(r) == [bfd |-> r.bfd, kind |-> "call_fp", sym |-> r.sym]

\* The stub whose jump was scanned is the one that its symbol has.
JumpsOfStubs ==
  \A r \in refs :
    /\ r.type = "26" => r.sec \in {"text", "call_fp"}
    /\ r.sec = "call_fp" => sym[Target(r.sym)].call_fp_stub = FpStub(r)

\* Such stubs of MIPS16 functions are not needed, and not relocated.
FpDropped ==
  \A h \in Proper :
    Visited(h) /\ IsMips16(h) => sym[h].call_fp_stub \in excluded \cup {NoStub}

EmittedOnly == \A x \in resolved : Emitted(x.ref)

FpInv == JumpsOfStubs /\ FpDropped /\ EmittedOnly

\* A stub is no NoStub, whatever it is for.
LEMMA FpStubIsOne == \A r : FpStub(r) # NoStub
BY DEF FpStub, NoStub

\* The jumps of a step that keeps the stubs of all symbols.
LEMMA JumpsKept ==
  ASSUME IInv, JumpsOfStubs, UNCHANGED <<link, forwarded>>,
         \A r \in refs' \ refs : r.sec = "text",
         \A g \in Syms : sym'[g].call_fp_stub = sym[g].call_fp_stub
  PROVE  JumpsOfStubs'
<1>1. \A g : Target(g)' = Target(g)
  BY DEF Target
<1>2. \A r \in refs : Target(r.sym) \in Syms
  BY TargetIsProper DEF IInv, TypeOK, Ref, Proper
<1>3. QED
  BY <1>1, <1>2 DEF JumpsOfStubs, FpStub

\* A call.fp stub replaces none of another name, so its jump is that of the stub
\* that its symbol has.
LEMMA JumpsScanStub ==
  ASSUME IInv, JumpsOfStubs, NEW s \in todo \cap link.stubs, ScanStub(s)
  PROVE  JumpsOfStubs'
<1> DEFINE h == Target(s.sym)
<1>1. \A g : Target(g)' = Target(g)
  BY DEF Target, ScanStub
<1>2. \A r \in refs : Target(r.sym) \in Syms
  BY TargetIsProper DEF IInv, TypeOK, Ref, Proper
<1>3. \A g \in Syms : sym[g].call_fp_stub # NoStub => sym'[g].call_fp_stub = sym[g].call_fp_stub
  BY ScanStubEntries DEF Kinds, StubOf
<1>4. s \in Stub
  BY ScanStubEntries
<1>5. ASSUME NEW r \in refs'
      PROVE  /\ r.type = "26" => r.sec \in {"text", "call_fp"}
             /\ r.sec = "call_fp" => sym'[Target(r.sym)].call_fp_stub = FpStub(r)
  <2>1. CASE r \in refs
    BY <1>2, <1>3, <2>1, FpStubIsOne DEF JumpsOfStubs
  <2>2. CASE r \notin refs
    <3>1. r = JumpOf(s) /\ StubOf(sym'[h], s.kind) = s
      BY <2>2, ScanStubEntries
    <3>2. /\ r.sec = s.kind /\ r.sym = s.sym /\ r.bfd = s.bfd
          /\ r.type = "26" => r.sec = "call_fp"
      BY <3>1 DEF JumpOf
    <3>3. r.sec = "call_fp" => sym'[h].call_fp_stub = s
      BY <3>1, <3>2 DEF StubOf
    <3>4. r.sec = "call_fp" => s = FpStub(r)
      BY <1>4, <3>2 DEF FpStub, Stub
    <3>5. QED
      BY <3>2, <3>3, <3>4
  <2>3. QED
    BY <2>1, <2>2
<1>6. QED
  BY <1>1, <1>5 DEF JumpsOfStubs, FpStub

\* Only one of two names that become one has a call stub that returns.
LEMMA JumpsBecomeIndirect ==
  ASSUME CallFpStubsForOneName, IInv, JumpsOfStubs, NEW h \in Syms, BecomeIndirect(h)
  PROVE  JumpsOfStubs'
<1> DEFINE t == link.indirect[h]
<1>1. /\ t \in Syms /\ t # h
      /\ \A g \in Syms : Target(g)' = IF Target(g) = h THEN t ELSE Target(g)
      /\ \A g \in Syms : g # h /\ g # t => sym'[g] = sym[g]
      /\ \A kind \in Kinds :
           StubOf(sym'[t], kind) = Moved(StubOf(sym[h], kind), StubOf(sym[t], kind))
  BY BecomeIndirectEntries
<1>2. /\ link \in Links /\ link \in Link /\ link.stubs \subseteq Stub
      /\ refs' = refs /\ h \notin forwarded /\ t = link.indirect[h]
  BY LinksAssumption DEF IInv, LinkKept, Link, BecomeIndirect
<1> HIDE DEF t
<1>3. sym'[t].call_fp_stub = Moved(sym[h].call_fp_stub, sym[t].call_fp_stub)
  BY <1>1 DEF Kinds, StubOf
<1>4. \A n \in Syms : Target(n) \in {h, t} => link.indirect[n] = t
  <2> TAKE n \in Syms
  <2>1. CASE n \in forwarded
    <3>1. link.indirect[link.indirect[n]] = link.indirect[n] /\ link.indirect[n] # n
      BY <1>2, <2>1, LinksAssumption DEF IInv, LinkKept
    <3>2. QED
      BY <1>1, <1>2, <2>1, <3>1 DEF Target
  <2>2. CASE n \notin forwarded
    <3>1. link.indirect[link.indirect[h]] = link.indirect[h]
      BY <1>1, <1>2, LinksAssumption
    <3>2. QED
      BY <1>2, <2>2, <3>1 DEF Target
  <2>3. QED
    BY <2>1, <2>2
<1>5. sym[h].call_fp_stub = NoStub \/ sym[t].call_fp_stub = NoStub
  <2> SUFFICES ASSUME sym[h].call_fp_stub # NoStub, sym[t].call_fp_stub # NoStub
               PROVE  FALSE
    OBVIOUS
  <2> DEFINE a == sym[h].call_fp_stub
             b == sym[t].call_fp_stub
  <2>1. /\ a \in link.stubs /\ a.kind = "call_fp" /\ Target(a.sym) = h
        /\ b \in link.stubs /\ b.kind = "call_fp" /\ Target(b.sym) = t
    BY <1>1 DEF IInv, TypeOK, OwnStubs, StubOf, Kinds
  <2> HIDE DEF a, b
  <2>2. a.sym \in Syms /\ b.sym \in Syms
    BY <1>2, <2>1 DEF Stub
  <2>3. a.sym = b.sym
    BY <1>2, <1>4, <2>1, <2>2 DEF CallFpStubsForOneName
  <2>4. QED
    BY <1>1, <2>1, <2>3
<1>6. ASSUME NEW r \in refs, r.sec = "call_fp"
      PROVE  sym'[Target(r.sym)'].call_fp_stub = FpStub(r)
  <2>1. r.sym \in Syms /\ Target(r.sym) \in Syms
    BY TargetIsProper DEF IInv, TypeOK, Ref, Proper
  <2>2. sym[Target(r.sym)].call_fp_stub = FpStub(r) /\ FpStub(r) # NoStub
    BY <1>6, FpStubIsOne DEF JumpsOfStubs
  <2>3. CASE Target(r.sym) = h
    BY <1>1, <1>3, <1>5, <2>1, <2>2, <2>3 DEF Moved
  <2>4. CASE Target(r.sym) = t
    BY <1>1, <1>3, <1>5, <2>1, <2>2, <2>4 DEF Moved
  <2>5. CASE Target(r.sym) \notin {h, t}
    BY <1>1, <2>1, <2>2, <2>5
  <2>6. QED
    BY <2>3, <2>4, <2>5
<1>7. QED
  BY <1>2, <1>6 DEF JumpsOfStubs, FpStub

\* check_symbols drops the call.fp stub of a MIPS16 function.
LEMMA FpCheckSymbol ==
  ASSUME IInv, FpDropped, NEW h \in Syms, CheckSymbol(h)
  PROVE  FpDropped'
<1>1. /\ UNCHANGED <<link, other, forwarded>> /\ pc = "check"
      /\ todo' = IF todo = {h} THEN Bfds ELSE todo \ {h}
      /\ pc' = IF todo = {h} THEN "relocate" ELSE pc
      /\ excluded' = excluded \cup (Unneeded(h, NeedsFnStub(h)) \ {NoStub})
  BY DEF CheckSymbol
<1>2. /\ Proper' = Proper /\ \A g : IsMips16(g)' = IsMips16(g)
  BY <1>1 DEF Proper, IsMips16
<1>3. \A g \in Syms : sym'[g].call_fp_stub = sym[g].call_fp_stub
  BY CheckSymbolEntries DEF Kinds, StubOf
<1>4. ASSUME NEW g \in Proper, Visited(g)', IsMips16(g)
      PROVE  sym[g].call_fp_stub \in excluded' \cup {NoStub}
  <2>1. CASE g = h
    <3>1. sym[h].call_fp_stub \in Unneeded(h, NeedsFnStub(h))
      BY <1>4, <2>1 DEF Unneeded
    <3>2. QED
      BY <1>1, <2>1, <3>1
  <2>2. CASE g # h
    <3>1. Visited(g)
      BY <1>1, <1>4, <2>2 DEF Visited
    <3>2. QED
      BY <1>1, <1>4, <3>1 DEF FpDropped
  <2>3. QED
    BY <2>1, <2>2
<1>5. \A g \in Proper : g \in Syms
  BY DEF Proper
<1>6. QED
  BY <1>2, <1>3, <1>4, <1>5 DEF FpDropped

\* Every step keeps FpInv.
LEMMA FpStep ==
  ASSUME CallFpStubsForOneName, IInv, IInv', FpInv, [Next]_vars
  PROVE  FpInv'
<1>1. pc' = "scan" => FpDropped' /\ EmittedOnly'
  BY DEF FpDropped, Visited, EmittedOnly, IInv, ResolvedLast
<1>2. pc' = "check" => EmittedOnly'
  BY DEF EmittedOnly, IInv, ResolvedLast
<1>3. ASSUME NEW b \in Bfds, LoadBfd(b) PROVE FpInv'
  <2>1. JumpsOfStubs'
    BY <1>3, JumpsKept DEF LoadBfd, FpInv
  <2>2. QED
    BY <1>1, <1>3, <2>1 DEF LoadBfd, FpInv
<1>4. ASSUME NEW h \in Syms, BecomeIndirect(h) PROVE FpInv'
  <2>1. JumpsOfStubs'
    BY <1>4, JumpsBecomeIndirect DEF FpInv
  <2>2. QED
    BY <1>1, <1>4, <2>1 DEF BecomeIndirect, FpInv
<1>5. ASSUME NEW r \in Ref, ScanReloc(r) PROVE FpInv'
  <2>1. \A g \in Syms : sym'[g].call_fp_stub = sym[g].call_fp_stub
    BY <1>5, ScanRelocEntries DEF Kinds, StubOf
  <2>2. JumpsOfStubs'
    BY <1>5, <2>1, JumpsKept DEF ScanReloc, FpInv
  <2>3. QED
    BY <1>1, <1>5, <2>2 DEF ScanReloc, FpInv
<1>6. ASSUME NEW s \in todo \cap link.stubs, ScanStub(s) PROVE FpInv'
  <2>1. JumpsOfStubs'
    BY <1>6, JumpsScanStub DEF FpInv
  <2>2. QED
    BY <1>1, <1>6, <2>1 DEF ScanStub, FpInv
<1>7. CASE EndScan
  <2>1. JumpsOfStubs'
    BY <1>7, JumpsKept DEF EndScan, FpInv
  <2>2. FpDropped'
    BY <1>7 DEF EndScan, FpDropped, Visited, Proper
  <2>3. QED
    BY <1>2, <1>7, <2>1, <2>2 DEF EndScan, FpInv
<1>8. ASSUME NEW h \in Syms, CheckSymbol(h) PROVE FpInv'
  <2>1. \A g \in Syms : sym'[g].call_fp_stub = sym[g].call_fp_stub
    BY <1>8, CheckSymbolEntries DEF Kinds, StubOf
  <2>2. JumpsOfStubs'
    BY <1>8, <2>1, JumpsKept DEF CheckSymbol, FpInv
  <2>3. FpDropped'
    BY <1>8, FpCheckSymbol DEF FpInv
  <2>4. EmittedOnly'
    BY <1>8 DEF CheckSymbol, EmittedOnly, IInv, ResolvedLast
  <2>5. QED
    BY <2>2, <2>3, <2>4 DEF FpInv
<1>9. ASSUME NEW b \in Bfds, Relocate(b) PROVE FpInv'
  <2>1. JumpsOfStubs'
    BY <1>9, JumpsKept DEF Relocate, FpInv
  <2>2. FpDropped'
    BY <1>9 DEF Relocate, FpInv, FpDropped, Visited, Proper, IsMips16
  <2>3. EmittedOnly'
    <3>1. \A r : Emitted(r)' = Emitted(r)
      BY <1>9 DEF Relocate, Emitted
    <3>2. \A x \in resolved' : x \in resolved \/ Emitted(x.ref)
      BY <1>9 DEF Relocate, Resolve
    <3>3. QED
      BY <3>1, <3>2 DEF FpInv, EmittedOnly
  <2>4. QED
    BY <2>1, <2>2, <2>3 DEF FpInv
<1>10. CASE UNCHANGED vars
  <2>1. JumpsOfStubs'
    BY <1>10, JumpsKept DEF vars, FpInv
  <2>2. FpDropped' /\ EmittedOnly'
    BY <1>10 DEF vars, FpInv, FpDropped, Visited, Proper, IsMips16, EmittedOnly, Emitted
  <2>3. QED
    BY <2>1, <2>2 DEF FpInv
<1>11. QED
  BY <1>3, <1>4, <1>5, <1>6, <1>7, <1>8, <1>9, <1>10 DEF Next

\* FpInv is inductive, given IInv.
LEMMA FpInvariance ==
  ASSUME CallFpStubsForOneName
  PROVE  Spec => []FpInv
<1>1. Init => FpInv
  BY DEF Init, FpInv, JumpsOfStubs, FpDropped, Visited, EmittedOnly
<1>2. FpInv /\ IInv /\ IInv' /\ [Next]_vars => FpInv'
  BY FpStep
<1>3. QED
  BY <1>1, <1>2, Invariance, PTL DEF Spec

\* A jump reaches MIPS16 code itself if it is no plain jump from the text that an
\* fn stub takes; with an la25 stub there is an fn stub.
LEMMA InvRightMode == IInv /\ CodeInv /\ FpInv => RightMode
<1> SUFFICES ASSUME IInv, CodeInv, FpInv, NEW x \in resolved, NEW r, r = x.ref,
                    NEW h, h = Target(x.ref.sym), r.type \in {"26", "16_26"}
             PROVE  x.cross <=> ((r.type = "16_26")
                                  # (x.dest.via = "none" /\ DefinedMips16(h)))
  BY DEF RightMode
<1>1. /\ x.dest = Destination(r, h) /\ x.cross = CrossModeJump(r, h)
      /\ h \in Syms /\ h \in Proper /\ r \in refs /\ Visited(h)
      /\ IsMips16(h) => DefinedMips16(h)
      /\ link.def[h].other # "none" => other[h] = link.def[h].other
  BY ResolvedCode
<1>2. IsMips16(h) <=> DefinedMips16(h)
  BY <1>1 DEF IsMips16, DefinedMips16
<1>3. CASE ~IsMips16(h)
  BY <1>1, <1>2, <1>3 DEF CrossModeJump
<1>4. CASE IsMips16(h) /\ UsesFnStub(r, h)
  <2>1. r.type = "26"
    BY <1>4 DEF UsesFnStub
  <2>2. x.dest = AtLa25(h) \/ x.dest = AtStub(sym[h].fn_stub, h)
    BY <1>1, <1>4 DEF Destination
  <2>3. x.dest.via # "none"
    BY <2>2 DEF AtLa25, AtStub
  <2>4. QED
    BY <1>1, <1>4, <2>1, <2>3 DEF CrossModeJump
<1>5. CASE IsMips16(h) /\ ~UsesFnStub(r, h)
  <2>1. la25[h] # None => ~NeedsLa25Stub(r, TRUE)
    <3> SUFFICES ASSUME la25[h] # None, r.type = "26"
                 PROVE  FALSE
      BY DEF NeedsLa25Stub
    <3>1. sym[h].fn_stub # NoStub
      BY <1>1, <1>5 DEF CodeInv, La25Made
    <3>2. r.sec # "text"
      BY <1>5, <3>1 DEF UsesFnStub, AllowsMips16Refs
    <3>3. r.sec = "call_fp" /\ sym[h].call_fp_stub = FpStub(r)
      BY <1>1, <3>2 DEF FpInv, JumpsOfStubs
    <3>4. FpStub(r) \in excluded
      BY <1>1, <1>5, <3>3, FpStubIsOne DEF FpInv, FpDropped
    <3>5. FpStub(r) \notin excluded
      BY <3>3 DEF FpInv, EmittedOnly, Emitted, FpStub
    <3>6. QED
      BY <3>4, <3>5
  <2>2. IsMips16(h) = TRUE
    BY <1>5 DEF IsMips16
  <2>3. x.dest = AtCode(h)
    BY <1>1, <1>5, <2>1, <2>2 DEF Destination, UsesCallStub
  <2>4. x.dest.via = "none"
    BY <2>3 DEF AtCode
  <2>5. QED
    BY <1>1, <1>2, <1>5, <2>4 DEF CrossModeJump
<1>6. QED
  BY <1>3, <1>4, <1>5

\* Standard code reaches MIPS16 functions by their fn stubs, and MIPS16 calls reach
\* standard functions by call stubs, when some object has one; for all links in
\* which a MIPS16 definition only gives way to one of its ISA.
THEOREM InterfacesMatch ==
  ASSUME ReplacedByItsIsa
  PROVE  Spec => []RightInterface
BY CodeInvariance, Invariance, InvRightInterface, PTL

\* No plain jump of code that does not set $25 reaches code that wants it; for all
\* links in which, besides, fn stubs are PIC code only if their function is.
THEOREM RegistersAreValid ==
  ASSUME ReplacedByItsIsa, FnStubsFollowDefinition
  PROVE  Spec => []RegisterValid
<1>1. IInv /\ CodeInv => RegisterValid
  BY InvRegisterValid
<1>2. QED
  BY <1>1, CodeInvariance, Invariance, PTL

\* A jump is a JALX exactly when it lands on code of the other ISA; for all links
\* in which, besides the first, no two names of a function have call.fp stubs.
THEOREM ModesAreRight ==
  ASSUME ReplacedByItsIsa, CallFpStubsForOneName
  PROVE  Spec => []RightMode
BY CodeInvariance, FpInvariance, Invariance, InvRightMode, PTL

=============================================================================
