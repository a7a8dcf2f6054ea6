--------------------------- MODULE MultiGotProofs ---------------------------
(***************************************************************************)
(* Theorems about MultiGot, for every set of bfds and symbols, every link  *)
(* and any limit of a GOT.                                                 *)
(*                                                                         *)
(* The invariant comes in layers, each proved from the ones before.  Base: *)
(* what a variable can hold, which GOTs are in line and who uses them      *)
(* (Shape), and what the counters of a GOT count (Counts).  AreasPlaced:   *)
(* which symbols are in the global area of the primary GOT.  StubsLost:    *)
(* which symbols have lost their stub.  Room: the pages that a GOT was     *)
(* charged, where its range lies and which local slots are in use.  Reach: *)
(* what the estimates of merging bound.  Placement: the slots that were    *)
(* given out.  Owned: whose entries a GOT holds.  Output: the relocations  *)
(* that were reserved and written, as sums over entries and GOTs.  For the *)
(* contract: SingleHeld, which TLS entries a single GOT holds; Line, GOTs  *)
(* do not overlap; Apart, slots do not overlap; Complete, what has its     *)
(* slots at which point.  The properties follow from them.                 *)
(***************************************************************************)
EXTENDS MultiGot, SumTheorems, SequenceTheorems, TLAPS

(***************************************************************************)
(* What a link determines: sets of its entries.                            *)
(***************************************************************************)
AllSyms == Syms \cup LocalSyms \cup {LdmModule}

\* The area of a symbol, from the layout on NONE or not for good.
AreaOf(l, s) ==
  IF s \in l.binds_local THEN "NONE"
  ELSE IF \E e \in l.entries : e.sym = s /\ ~IsTls(e) THEN "NORMAL"
  ELSE IF s \in l.reloc_only THEN "RELOC_ONLY" ELSE "NONE"

LocalOf(l, e) ==
  ~IsTls(e) /\ (e.sym \in LocalSyms \/ (e.sym \in Syms /\ AreaOf(l, e.sym) = "NONE"))

GlobalOf(l, e) == ~IsTls(e) /\ e.sym \in Syms /\ AreaOf(l, e.sym) # "NONE"

LocalIn(l, E) == {e \in E : LocalOf(l, e)}
GlobalIn(l, E) == {e \in E : GlobalOf(l, e)}
TlsIn(E) == {e \in E : IsTls(e)}

\* No two entries match.
KeysDiffer(E) == \A e, f \in E : Key(e) = Key(f) => e = f

\* Every entry of E matches one of F.
Covers(F, E) == \A e \in E : \E f \in F : Key(f) = Key(e)

-----------------------------------------------------------------------------
(***************************************************************************)
(* Entries and keys.                                                       *)
(***************************************************************************)

\* There are finitely many entries.
LEMMA EntryFinite == IsFiniteSet(Entry)
<1> DEFINE P == (Bfds \cup {OutputBfd}) \X (AllSyms \X TlsTypes)
           rec == [p \in P |-> [abfd |-> p[1], sym |-> p[2][1], tls |-> p[2][2]]]
<1>1. IsFiniteSet(Bfds \cup {OutputBfd}) /\ IsFiniteSet(AllSyms)
  <2>1. IsFiniteSet(Bfds) /\ IsFiniteSet(Syms) /\ IsFiniteSet(LocalSyms)
    BY NamesAssumption
  <2>2. IsFiniteSet(Syms \cup LocalSyms)
    BY <2>1, FS_Union
  <2>3. QED
    BY <2>1, <2>2, FS_AddElement DEF AllSyms
<1>2. IsFiniteSet(TlsTypes)
  <2>1. IsFiniteSet({{}}) /\ IsFiniteSet({{}} \cup {{GD}})
    BY FS_Singleton, FS_AddElement
  <2>2. IsFiniteSet(({{}} \cup {{GD}}) \cup {{IE}})
    BY <2>1, FS_AddElement
  <2>3. IsFiniteSet((({{}} \cup {{GD}}) \cup {{IE}}) \cup {{GD, IE}})
    BY <2>2, FS_AddElement
  <2>4. IsFiniteSet(((({{}} \cup {{GD}}) \cup {{IE}}) \cup {{GD, IE}}) \cup {{LDM}})
    BY <2>3, FS_AddElement
  <2>5. TlsTypes = ((({{}} \cup {{GD}}) \cup {{IE}}) \cup {{GD, IE}}) \cup {{LDM}}
    BY DEF TlsTypes
  <2>6. QED
    BY <2>4, <2>5
<1>3. IsFiniteSet(P)
  <2>1. IsFiniteSet(AllSyms \X TlsTypes)
    BY <1>1, <1>2, FS_Product
  <2>2. QED
    BY <1>1, <1>2, FS_Product
<1>4. IsFiniteSet({rec[p] : p \in P})
  <2> HIDE DEF P, rec
  <2>1. QED
    BY <1>3, ImageFinite
<1>5. Entry \subseteq {rec[p] : p \in P}
  <2> SUFFICES ASSUME NEW e \in Entry PROVE \E p \in P : e = rec[p]
    OBVIOUS
  <2>1. <<e.abfd, <<e.sym, e.tls>>>> \in P
    BY DEF Entry, AllSyms
  <2>2. rec[<<e.abfd, <<e.sym, e.tls>>>>] = e
    BY <2>1 DEF Entry
  <2>3. QED
    BY <2>1, <2>2
<1>6. QED
  BY <1>4, <1>5, FS_Subset

\* What the assumptions on links say.
LEMMA LinkFacts ==
  ASSUME NEW l \in Links
  PROVE  /\ l \in Link
         /\ l.entries \subseteq Entry /\ IsFiniteSet(l.entries)
         /\ l.page_gotno \in [Bfds -> Nat] /\ l.pages \in Nat
         /\ \A e \in l.entries : e.abfd \in Bfds /\ e.abfd # OutputBfd
<1>1. l \in Link
  BY LinksAssumption
<1>2. l.entries \subseteq Entry
  BY <1>1 DEF Link
<1>3. QED
  BY <1>1, <1>2, EntriesAssumption, NamesAssumption, EntryFinite, FS_Subset DEF Link

-----------------------------------------------------------------------------
(***************************************************************************)
(* Counting entries.                                                       *)
(***************************************************************************)
LEMMA UnionCard ==
  ASSUME NEW S, NEW T, IsFiniteSet(S), IsFiniteSet(T), S \cap T = {}
  PROVE  /\ IsFiniteSet(S \cup T)
         /\ Cardinality(S \cup T) = Cardinality(S) + Cardinality(T)
         /\ Cardinality(S) \in Nat /\ Cardinality(T) \in Nat
<1>1. Cardinality(S \cap T) = 0
  BY FS_EmptySet
<1>2. Cardinality(S) \in Nat /\ Cardinality(T) \in Nat
  BY FS_CardinalityType
<1>3. IsFiniteSet(S \cup T)
  BY FS_Union
<1>4. Cardinality(S \cup T) = Cardinality(S) + Cardinality(T) - Cardinality(S \cap T)
  BY FS_Union
<1> DEFINE s == Cardinality(S)
           t == Cardinality(T)
           u == Cardinality(S \cup T)
           i == Cardinality(S \cap T)
<1>5. u = s + t
  <2>1. u = s + t - i /\ i = 0 /\ s \in Nat /\ t \in Nat
    BY <1>1, <1>2, <1>4
  <2> HIDE DEF s, t, u, i
  <2>2. QED
    BY <2>1
<1>6. QED
  BY <1>2, <1>3, <1>5

\* GOT slots for TLS entries, in two parts.
DoubleIn(E) == {e \in E : e.tls \cap {GD, LDM} # {}}
IeIn(E) == {e \in E : IE \in e.tls}

\* TlsSlots in the words of this module.
LEMMA TlsSlotsIs ==
  ASSUME NEW E
  PROVE  TlsSlots(E) = 2 * Cardinality(DoubleIn(E)) + Cardinality(IeIn(E))
BY DEF TlsSlots, DoubleIn, IeIn

\* Subsets of a set of entries are finite.
LEMMA PartsFinite ==
  ASSUME NEW l, NEW E \in SUBSET Entry
  PROVE  /\ IsFiniteSet(E) /\ Cardinality(E) \in Nat
         /\ IsFiniteSet(LocalIn(l, E)) /\ IsFiniteSet(GlobalIn(l, E))
         /\ IsFiniteSet(DoubleIn(E)) /\ IsFiniteSet(IeIn(E)) /\ IsFiniteSet(TlsIn(E))
         /\ Cardinality(LocalIn(l, E)) \in Nat /\ Cardinality(GlobalIn(l, E)) \in Nat
         /\ Cardinality(DoubleIn(E)) \in Nat /\ Cardinality(IeIn(E)) \in Nat
         /\ TlsSlots(E) \in Nat
<1>1. IsFiniteSet(E)
  BY EntryFinite, FS_Subset
<1>2. /\ LocalIn(l, E) \subseteq E /\ GlobalIn(l, E) \subseteq E
      /\ DoubleIn(E) \subseteq E /\ IeIn(E) \subseteq E /\ TlsIn(E) \subseteq E
  BY DEF LocalIn, GlobalIn, DoubleIn, IeIn, TlsIn
<1>3. /\ IsFiniteSet(LocalIn(l, E)) /\ IsFiniteSet(GlobalIn(l, E))
      /\ IsFiniteSet(DoubleIn(E)) /\ IsFiniteSet(IeIn(E)) /\ IsFiniteSet(TlsIn(E))
  BY <1>1, <1>2, FS_Subset
<1>4. /\ Cardinality(E) \in Nat
      /\ Cardinality(LocalIn(l, E)) \in Nat /\ Cardinality(GlobalIn(l, E)) \in Nat
      /\ Cardinality(DoubleIn(E)) \in Nat /\ Cardinality(IeIn(E)) \in Nat
  BY <1>1, <1>3, FS_CardinalityType
<1>5. TlsSlots(E) \in Nat
  BY <1>4, TlsSlotsIs
<1>6. QED
  BY <1>1, <1>3, <1>4, <1>5

\* The counts of two sets of entries without a common one add up.
LEMMA PartsUnion ==
  ASSUME NEW l, NEW E \in SUBSET Entry, NEW F \in SUBSET Entry, E \cap F = {}
  PROVE  /\ Cardinality(LocalIn(l, E \cup F))
              = Cardinality(LocalIn(l, E)) + Cardinality(LocalIn(l, F))
         /\ Cardinality(GlobalIn(l, E \cup F))
              = Cardinality(GlobalIn(l, E)) + Cardinality(GlobalIn(l, F))
         /\ TlsSlots(E \cup F) = TlsSlots(E) + TlsSlots(F)
<1>1. /\ LocalIn(l, E \cup F) = LocalIn(l, E) \cup LocalIn(l, F)
      /\ GlobalIn(l, E \cup F) = GlobalIn(l, E) \cup GlobalIn(l, F)
      /\ DoubleIn(E \cup F) = DoubleIn(E) \cup DoubleIn(F)
      /\ IeIn(E \cup F) = IeIn(E) \cup IeIn(F)
  BY DEF LocalIn, GlobalIn, DoubleIn, IeIn
<1>2. /\ LocalIn(l, E) \cap LocalIn(l, F) = {}
      /\ GlobalIn(l, E) \cap GlobalIn(l, F) = {}
      /\ DoubleIn(E) \cap DoubleIn(F) = {}
      /\ IeIn(E) \cap IeIn(F) = {}
  BY DEF LocalIn, GlobalIn, DoubleIn, IeIn
<1>3. Cardinality(LocalIn(l, E) \cup LocalIn(l, F))
        = Cardinality(LocalIn(l, E)) + Cardinality(LocalIn(l, F))
  BY <1>2, PartsFinite, UnionCard
<1>4. Cardinality(GlobalIn(l, E) \cup GlobalIn(l, F))
        = Cardinality(GlobalIn(l, E)) + Cardinality(GlobalIn(l, F))
  BY <1>2, PartsFinite, UnionCard
<1>5. Cardinality(DoubleIn(E) \cup DoubleIn(F))
        = Cardinality(DoubleIn(E)) + Cardinality(DoubleIn(F))
  BY <1>2, PartsFinite, UnionCard
<1>6. Cardinality(IeIn(E) \cup IeIn(F)) = Cardinality(IeIn(E)) + Cardinality(IeIn(F))
  BY <1>2, PartsFinite, UnionCard
<1>7. /\ Cardinality(DoubleIn(E)) \in Nat /\ Cardinality(DoubleIn(F)) \in Nat
      /\ Cardinality(IeIn(E)) \in Nat /\ Cardinality(IeIn(F)) \in Nat
  BY PartsFinite
<1>8. /\ TlsSlots(E) = 2 * Cardinality(DoubleIn(E)) + Cardinality(IeIn(E))
      /\ TlsSlots(F) = 2 * Cardinality(DoubleIn(F)) + Cardinality(IeIn(F))
      /\ TlsSlots(E \cup F)
           = 2 * Cardinality(DoubleIn(E \cup F)) + Cardinality(IeIn(E \cup F))
  BY TlsSlotsIs
<1>9. TlsSlots(E \cup F) = TlsSlots(E) + TlsSlots(F)
  <2> DEFINE d == Cardinality(DoubleIn(E))
             i == Cardinality(IeIn(E))
             dd == Cardinality(DoubleIn(F))
             ii == Cardinality(IeIn(F))
  <2>1. TlsSlots(E \cup F) = 2 * (d + dd) + (i + ii)
    BY <1>1, <1>5, <1>6, <1>8
  <2>2. TlsSlots(E) = 2 * d + i /\ TlsSlots(F) = 2 * dd + ii
    BY <1>8
  <2>3. d \in Nat /\ i \in Nat /\ dd \in Nat /\ ii \in Nat
    BY <1>7
  <2> HIDE DEF d, i, dd, ii
  <2>4. QED
    BY <2>1, <2>2, <2>3
<1>10. QED
  BY <1>1, <1>3, <1>4, <1>9

\* The counts of a part of a set are bounded by those of the set.
LEMMA PartsBound ==
  ASSUME NEW l, NEW E \in SUBSET Entry, NEW F \in SUBSET E
  PROVE  /\ Cardinality(LocalIn(l, F)) <= Cardinality(LocalIn(l, E))
         /\ Cardinality(GlobalIn(l, F)) <= Cardinality(GlobalIn(l, E))
         /\ TlsSlots(F) <= TlsSlots(E)
<1>1. E \ F \in SUBSET Entry /\ F \in SUBSET Entry /\ (E \ F) \cap F = {}
      /\ (E \ F) \cup F = E
  OBVIOUS
<1>2. /\ Cardinality(LocalIn(l, E))
           = Cardinality(LocalIn(l, E \ F)) + Cardinality(LocalIn(l, F))
      /\ Cardinality(GlobalIn(l, E))
           = Cardinality(GlobalIn(l, E \ F)) + Cardinality(GlobalIn(l, F))
      /\ TlsSlots(E) = TlsSlots(E \ F) + TlsSlots(F)
  BY <1>1, PartsUnion
<1> DEFINE G == E \ F
<1>3. /\ Cardinality(LocalIn(l, G)) \in Nat /\ Cardinality(LocalIn(l, F)) \in Nat
      /\ Cardinality(GlobalIn(l, G)) \in Nat /\ Cardinality(GlobalIn(l, F)) \in Nat
      /\ TlsSlots(G) \in Nat /\ TlsSlots(F) \in Nat
  BY <1>1, PartsFinite
<1>4. QED
  BY <1>2, <1>3

\* The slots of a TLS entry.
LEMMA TlsSlotsOne ==
  ASSUME NEW E \in SUBSET Entry, NEW e \in E, IsTls(e)
  PROVE  /\ TlsSize(e.tls) \in 1..3
         /\ TlsSlots(E) = TlsSize(e.tls) + TlsSlots(E \ {e})
         /\ TlsSlots(E \ {e}) \in Nat
<1>1. e.tls \in {{GD}, {IE}, {GD, IE}, {LDM}}
  BY DEF Entry, TlsTypes, IsTls
<1>2. GD # IE /\ IE # LDM /\ GD # LDM
  BY DEF GD, IE, LDM
<1>3. TlsSlots({e}) = TlsSize(e.tls) /\ TlsSize(e.tls) \in 1..3
  <2>1. Cardinality({e}) = 1 /\ Cardinality({}) = 0
    BY FS_Singleton, FS_EmptySet
  <2>2. DoubleIn({e}) = IF e.tls \cap {GD, LDM} # {} THEN {e} ELSE {}
    BY DEF DoubleIn
  <2>3. IeIn({e}) = IF IE \in e.tls THEN {e} ELSE {}
    BY DEF IeIn
  <2>4. QED
    BY <1>1, <1>2, <2>1, <2>2, <2>3, TlsSlotsIs DEF TlsSize
<1>4. {e} \in SUBSET Entry /\ E \ {e} \in SUBSET Entry
      /\ {e} \cap (E \ {e}) = {} /\ {e} \cup (E \ {e}) = E
  OBVIOUS
<1>5. TlsSlots(E) = TlsSlots({e}) + TlsSlots(E \ {e})
  BY <1>4, PartsUnion
<1>6. TlsSlots(E \ {e}) \in Nat
  BY <1>4, PartsFinite
<1>7. QED
  BY <1>3, <1>5, <1>6

\* Entries without TLS entries need no TLS slots.
LEMMA TlsSlotsNone ==
  ASSUME NEW E, \A e \in E : ~IsTls(e)
  PROVE  TlsSlots(E) = 0
<1>1. DoubleIn(E) = {} /\ IeIn(E) = {}
  BY DEF DoubleIn, IeIn, IsTls
<1>2. QED
  BY <1>1, TlsSlotsIs, FS_EmptySet

\* Only TLS entries take TLS slots.
LEMMA TlsSlotsTls ==
  ASSUME NEW E
  PROVE  TlsSlots(TlsIn(E)) = TlsSlots(E)
<1>1. DoubleIn(TlsIn(E)) = DoubleIn(E) /\ IeIn(TlsIn(E)) = IeIn(E)
  BY DEF DoubleIn, IeIn, TlsIn, IsTls
<1>2. QED
  BY <1>1, TlsSlotsIs

\* Global entries of one GOT are for different symbols.
LEMMA GlobalSyms ==
  ASSUME NEW l, NEW E \in SUBSET Entry, KeysDiffer(E)
  PROVE  /\ IsFiniteSet({e.sym : e \in GlobalIn(l, E)})
         /\ Cardinality({e.sym : e \in GlobalIn(l, E)}) = Cardinality(GlobalIn(l, E))
<1> DEFINE G == GlobalIn(l, E)
           T == {e.sym : e \in G}
           f == [e \in G |-> e.sym]
<1>1. f \in Bijection(G, T)
  <2>1. f \in Surjection(G, T)
    BY DEF Surjection
  <2>2. f \in Injection(G, T)
    <3>1. f \in [G -> T]
      OBVIOUS
    <3>2. ASSUME NEW a \in G, NEW b \in G, a.sym = b.sym PROVE a = b
      <4>1. a \in E /\ b \in E /\ a.sym \in Syms /\ b.sym \in Syms
        BY DEF GlobalIn, GlobalOf
      <4>2. a.sym \notin LocalSyms
        BY <4>1, NamesAssumption
      <4>3. Key(a) = Key(b)
        BY <3>2, <4>2 DEF Key
      <4>4. QED
        BY <4>1, <4>3 DEF KeysDiffer
    <3>3. QED
      BY <3>1, <3>2 DEF Injection, IsInjective
  <2>3. QED
    BY <2>1, <2>2 DEF Bijection
<1>2. IsFiniteSet(G)
  BY PartsFinite
<1> HIDE DEF G, T, f
<1>3. IsFiniteSet(T) /\ Cardinality(T) = Cardinality(G)
  BY <1>1, <1>2, FS_Bijection DEF ExistsBijection
<1>4. QED
  BY <1>3 DEF G, T

-----------------------------------------------------------------------------
(***************************************************************************)
(* The GOT of a bfd, and two GOTs that become one.                         *)
(***************************************************************************)
Counted(l, got) ==
  /\ got \in GotInfo
  /\ KeysDiffer(got.entries)
  /\ got.local_gotno = Cardinality(LocalIn(l, got.entries))
  /\ got.global_gotno = Cardinality(GlobalIn(l, got.entries))
  /\ got.tls_gotno = TlsSlots(got.entries)

\* What AddEntries makes of got; Sum(a, b, c) says that c counts no more than a
\* and b do.
Absorbed(l, got, E, pages, r) ==
  /\ Counted(l, r)
  /\ r.entries \subseteq got.entries \cup E
  /\ Covers(r.entries, got.entries \cup E)
  /\ r.page_gotno = got.page_gotno + pages
  /\ r.local_gotno <= got.local_gotno + Cardinality(LocalIn(l, E))
  /\ r.global_gotno <= got.global_gotno + Cardinality(GlobalIn(l, E))
  /\ r.tls_gotno <= got.tls_gotno + TlsSlots(E)
  /\ r.assigned_gotno = got.assigned_gotno

\* The area of a symbol is settled.
AreasFinal(l, a) ==
  /\ a \in [Syms -> {"NONE", "NORMAL", "RELOC_ONLY"}]
  /\ \A s \in Syms : a[s] = "NONE" <=> AreaOf(l, s) = "NONE"

\* Once the areas are final, the areas of an entry are those that the link
\* determines.
LEMMA AreaFacts ==
  ASSUME AreasFinal(link, area), NEW e
  PROVE  /\ InLocalArea(e) <=> LocalOf(link, e)
         /\ InGlobalArea(e) <=> GlobalOf(link, e)
BY DEF AreasFinal, InLocalArea, InGlobalArea, LocalOf, GlobalOf

\* What AddEntries changes.
LEMMA AddEntriesFacts ==
  ASSUME AreasFinal(link, area), NEW got, Counted(link, got),
         NEW E \in SUBSET Entry, KeysDiffer(E), NEW pages \in Nat
  PROVE  Absorbed(link, got, E, pages, AddEntries(got, E, pages))
<1> DEFINE new == {e \in E : \A f \in got.entries : Key(e) # Key(f)}
           r == AddEntries(got, E, pages)
<1>1. /\ got \in GotInfo /\ got.entries \in SUBSET Entry
      /\ got.local_gotno \in Nat /\ got.global_gotno \in Nat
      /\ got.tls_gotno \in Nat /\ got.page_gotno \in Nat
  BY DEF Counted, GotInfo
<1>2. new \in SUBSET Entry /\ got.entries \cap new = {}
  OBVIOUS
<1>3. /\ {e \in new : InLocalArea(e)} = LocalIn(link, new)
      /\ {e \in new : InGlobalArea(e)} = GlobalIn(link, new)
  BY AreaFacts DEF LocalIn, GlobalIn
<1>4. /\ r.entries = got.entries \cup new
      /\ r.local_gotno = got.local_gotno + Cardinality(LocalIn(link, new))
      /\ r.global_gotno = got.global_gotno + Cardinality(GlobalIn(link, new))
      /\ r.tls_gotno = got.tls_gotno + TlsSlots(new)
      /\ r.page_gotno = got.page_gotno + pages
      /\ r.assigned_gotno = got.assigned_gotno
      /\ r.tls_assigned_gotno = got.tls_assigned_gotno
      /\ r = [got EXCEPT !.entries = r.entries, !.local_gotno = r.local_gotno,
                         !.global_gotno = r.global_gotno, !.tls_gotno = r.tls_gotno,
                         !.page_gotno = r.page_gotno]
  <2>1. r = [got EXCEPT
               !.entries = got.entries \cup new,
               !.local_gotno = got.local_gotno + Cardinality({e \in new : InLocalArea(e)}),
               !.global_gotno = got.global_gotno + Cardinality({e \in new : InGlobalArea(e)}),
               !.tls_gotno = got.tls_gotno + TlsSlots(new),
               !.page_gotno = got.page_gotno + pages]
    BY DEF AddEntries
  <2>2. r = [got EXCEPT
               !.entries = got.entries \cup new,
               !.local_gotno = got.local_gotno + Cardinality(LocalIn(link, new)),
               !.global_gotno = got.global_gotno + Cardinality(GlobalIn(link, new)),
               !.tls_gotno = got.tls_gotno + TlsSlots(new),
               !.page_gotno = got.page_gotno + pages]
    BY <1>3, <2>1
  <2> HIDE DEF new, r
  <2>3. QED
    BY <1>1, <2>2 DEF GotInfo
<1>5. /\ Cardinality(LocalIn(link, new)) \in Nat
      /\ Cardinality(GlobalIn(link, new)) \in Nat
      /\ TlsSlots(new) \in Nat
  BY <1>2, PartsFinite
<1>6. /\ r.entries \in SUBSET Entry
      /\ r.local_gotno \in Nat /\ r.global_gotno \in Nat /\ r.tls_gotno \in Nat
      /\ r.page_gotno \in Nat
  <2> HIDE DEF new, r
  <2>1. QED
    BY <1>1, <1>2, <1>4, <1>5
<1>7. r \in GotInfo
  <2> HIDE DEF new, r
  <2>1. QED
    BY <1>1, <1>4, <1>6 DEF GotInfo
<1>8. KeysDiffer(r.entries)
  <2> SUFFICES ASSUME NEW e \in r.entries, NEW f \in r.entries, Key(e) = Key(f)
               PROVE  e = f
    BY DEF KeysDiffer
  <2>1. CASE e \in got.entries /\ f \in got.entries
    BY <2>1 DEF Counted, KeysDiffer
  <2>2. CASE e \in new /\ f \in new
    BY <2>2 DEF KeysDiffer
  <2>3. QED
    BY <1>4, <2>1, <2>2
<1>9. /\ r.local_gotno = Cardinality(LocalIn(link, r.entries))
      /\ r.global_gotno = Cardinality(GlobalIn(link, r.entries))
      /\ r.tls_gotno = TlsSlots(r.entries)
  <2>1. /\ Cardinality(LocalIn(link, got.entries \cup new))
             = Cardinality(LocalIn(link, got.entries)) + Cardinality(LocalIn(link, new))
        /\ Cardinality(GlobalIn(link, got.entries \cup new))
             = Cardinality(GlobalIn(link, got.entries)) + Cardinality(GlobalIn(link, new))
        /\ TlsSlots(got.entries \cup new) = TlsSlots(got.entries) + TlsSlots(new)
    BY <1>1, <1>2, PartsUnion
  <2> HIDE DEF new, r
  <2>2. QED
    BY <1>4, <2>1 DEF Counted
<1>10. Covers(r.entries, got.entries \cup E)
  BY <1>4 DEF Covers
<1>11. /\ Cardinality(LocalIn(link, new)) <= Cardinality(LocalIn(link, E))
       /\ Cardinality(GlobalIn(link, new)) <= Cardinality(GlobalIn(link, E))
       /\ TlsSlots(new) <= TlsSlots(E)
  <2>1. new \in SUBSET E
    OBVIOUS
  <2> HIDE DEF new
  <2>2. QED
    BY <2>1, PartsBound
<1>12. /\ Cardinality(LocalIn(link, E)) \in Nat
       /\ Cardinality(GlobalIn(link, E)) \in Nat
       /\ TlsSlots(E) \in Nat
  BY PartsFinite
<1>13. /\ r.local_gotno <= got.local_gotno + Cardinality(LocalIn(link, E))
       /\ r.global_gotno <= got.global_gotno + Cardinality(GlobalIn(link, E))
       /\ r.tls_gotno <= got.tls_gotno + TlsSlots(E)
  <2> DEFINE a == Cardinality(LocalIn(link, new))
             b == Cardinality(GlobalIn(link, new))
             c == TlsSlots(new)
             aa == Cardinality(LocalIn(link, E))
             bb == Cardinality(GlobalIn(link, E))
             cc == TlsSlots(E)
  <2>1. /\ a \in Nat /\ b \in Nat /\ c \in Nat /\ aa \in Nat /\ bb \in Nat /\ cc \in Nat
        /\ a <= aa /\ b <= bb /\ c <= cc
        /\ r.local_gotno = got.local_gotno + a /\ r.global_gotno = got.global_gotno + b
        /\ r.tls_gotno = got.tls_gotno + c
    BY <1>4, <1>5, <1>11, <1>12
  <2> HIDE DEF new, r, a, b, c, aa, bb, cc
  <2>2. /\ r.local_gotno <= got.local_gotno + aa
        /\ r.global_gotno <= got.global_gotno + bb
        /\ r.tls_gotno <= got.tls_gotno + cc
    BY <1>1, <2>1
  <2>3. QED
    BY <2>2 DEF aa, bb, cc
<1>14. r.entries \subseteq got.entries \cup E
  BY <1>4
<1> HIDE DEF new, r
<1>15. Absorbed(link, got, E, pages, r)
  BY <1>4, <1>7, <1>8, <1>9, <1>10, <1>13, <1>14 DEF Absorbed, Counted
<1>16. QED
  BY <1>15 DEF r

\* The GOT that was made for a bfd, and the one that none was made for.
LEMMA EmptyGotCounted ==
  ASSUME NEW l
  PROVE  Counted(l, EmptyGot) /\ EmptyGot \in GotInfo
<1>1. LocalIn(l, {}) = {} /\ GlobalIn(l, {}) = {} /\ TlsSlots({}) = 0
  BY TlsSlotsNone DEF LocalIn, GlobalIn
<1>2. Cardinality({}) = 0
  BY FS_EmptySet
<1>3. EmptyGot \in GotInfo
  BY DEF EmptyGot, GotInfo
<1>4. EmptyGot.entries = {} /\ EmptyGot.local_gotno = 0 /\ EmptyGot.global_gotno = 0
      /\ EmptyGot.tls_gotno = 0
  BY DEF EmptyGot
<1>5. KeysDiffer({})
  BY DEF KeysDiffer
<1>6. QED
  BY <1>1, <1>2, <1>3, <1>4, <1>5 DEF Counted

\* The entries of one bfd do not match each other.
LEMMA OwnKeysDiffer ==
  ASSUME NEW l \in Links, NEW b
  PROVE  KeysDiffer({e \in l.entries : e.abfd = b})
<1> SUFFICES ASSUME NEW e \in l.entries, NEW f \in l.entries, e.abfd = b, f.abfd = b,
                    Key(e) = Key(f)
             PROVE  e = f
  BY DEF KeysDiffer
<1>1. e.sym = f.sym
  BY DEF Key
<1>2. QED
  BY <1>1, EntriesAssumption

-----------------------------------------------------------------------------
(***************************************************************************)
(* Lists of GOTs.                                                          *)
(***************************************************************************)
LEMMA RangeIs ==
  ASSUME NEW T, NEW s \in Seq(T)
  PROVE  /\ Range(s) = {s[i] : i \in 1..Len(s)}
         /\ \A i \in 1..Len(s) : s[i] \in T /\ s[i] \in Range(s)
         /\ Range(s) \subseteq T
         /\ IsInjective(s) <=> \A i, j \in 1..Len(s) : s[i] = s[j] => i = j
<1>1. DOMAIN s = 1..Len(s) /\ \A i \in 1..Len(s) : s[i] \in T
  OBVIOUS
<1>2. QED
  BY <1>1 DEF Range, IsInjective

\* A GOT put at the end of the line.
LEMMA AppendRange ==
  ASSUME NEW T, NEW s \in Seq(T), NEW x \in T, IsInjective(s), x \notin Range(s)
  PROVE  /\ Append(s, x) \in Seq(T)
         /\ Range(Append(s, x)) = Range(s) \cup {x}
         /\ IsInjective(Append(s, x))
<1> DEFINE r == Append(s, x)
<1>1. r \in Seq(T) /\ Len(r) = Len(s) + 1 /\ Len(s) \in Nat
  OBVIOUS
<1>2. \A i \in 1..Len(r) : r[i] = IF i = Len(s) + 1 THEN x ELSE s[i]
  OBVIOUS
<1> HIDE DEF r
<1>3. \A i \in 1..Len(s) : i \in 1..Len(r) /\ r[i] = s[i]
  BY <1>1, <1>2
<1>4. Len(r) \in 1..Len(r) /\ r[Len(r)] = x
  BY <1>1, <1>2
<1>5. \A i \in 1..Len(r) : i \in 1..Len(s) \/ i = Len(r)
  BY <1>1
<1>6. Range(r) = Range(s) \cup {x}
  <2>1. Range(r) = {r[i] : i \in 1..Len(r)} /\ Range(s) = {s[i] : i \in 1..Len(s)}
    BY <1>1, RangeIs
  <2>2. QED
    BY <2>1, <1>3, <1>4, <1>5
<1>7. IsInjective(r)
  <2> SUFFICES ASSUME NEW i \in 1..Len(r), NEW j \in 1..Len(r), r[i] = r[j] PROVE i = j
    BY <1>1, RangeIs
  <2>1. \A k \in 1..Len(s) : r[k] # x
    BY <1>3, RangeIs
  <2>2. \A k, m \in 1..Len(s) : s[k] = s[m] => k = m
    BY RangeIs
  <2>3. QED
    BY <1>3, <1>4, <1>5, <2>1, <2>2
<1>8. QED
  BY <1>1, <1>6, <1>7 DEF r

\* A GOT put before the others.
LEMMA ConsRange ==
  ASSUME NEW T, NEW s \in Seq(T), NEW x \in T, IsInjective(s), x \notin Range(s)
  PROVE  /\ <<x>> \o s \in Seq(T) /\ <<x>> \o s # <<>>
         /\ (<<x>> \o s)[1] = x /\ Head(<<x>> \o s) = x
         /\ Range(<<x>> \o s) = Range(s) \cup {x}
         /\ IsInjective(<<x>> \o s)
<1> DEFINE r == <<x>> \o s
<1>1. r \in Seq(T) /\ Len(r) = Len(s) + 1 /\ Len(s) \in Nat
  OBVIOUS
<1>2. \A i \in 1..Len(r) : r[i] = IF i = 1 THEN x ELSE s[i - 1]
  OBVIOUS
<1> HIDE DEF r
<1>3. \A i \in 1..Len(s) : i + 1 \in 1..Len(r) /\ r[i + 1] = s[i]
  <2> SUFFICES ASSUME NEW i \in 1..Len(s) PROVE i + 1 \in 1..Len(r) /\ r[i + 1] = s[i]
    OBVIOUS
  <2>1. i + 1 \in 1..Len(r) /\ i + 1 # 1 /\ (i + 1) - 1 = i
    BY <1>1
  <2>2. QED
    BY <1>2, <2>1
<1>4. 1 \in 1..Len(r) /\ r[1] = x
  BY <1>1, <1>2
<1>5. \A i \in 1..Len(r) : i = 1 \/ (i - 1 \in 1..Len(s) /\ r[i] = s[i - 1])
  BY <1>1, <1>2
<1>6. Range(r) = Range(s) \cup {x}
  <2>1. Range(r) = {r[i] : i \in 1..Len(r)} /\ Range(s) = {s[i] : i \in 1..Len(s)}
    BY <1>1, RangeIs
  <2>2. Range(r) \subseteq Range(s) \cup {x}
    BY <2>1, <1>4, <1>5
  <2>3. \A i \in 1..Len(s) : s[i] \in Range(r)
    BY <2>1, <1>3
  <2>4. QED
    BY <2>1, <2>2, <2>3, <1>4
<1>7. IsInjective(r)
  <2> SUFFICES ASSUME NEW i \in 1..Len(r), NEW j \in 1..Len(r), r[i] = r[j] PROVE i = j
    BY <1>1, RangeIs
  <2>1. \A k \in 1..Len(s) : s[k] # x
    BY RangeIs
  <2>2. \A k, m \in 1..Len(s) : s[k] = s[m] => k = m
    BY RangeIs
  <2>3. CASE i = 1 \/ j = 1
    BY <1>4, <1>5, <2>1, <2>3
  <2>4. CASE i # 1 /\ j # 1
    <3>1. i - 1 = j - 1
      BY <1>5, <2>2, <2>4
    <3>2. QED
      BY <3>1
  <2>5. QED
    BY <2>3, <2>4
<1>8. Head(r) = r[1] /\ r # <<>>
  BY <1>1
<1>9. QED
  BY <1>1, <1>4, <1>6, <1>7, <1>8 DEF r

\* The first GOT taken from the others.
LEMMA TailRange ==
  ASSUME NEW T, NEW s \in Seq(T), s # <<>>, IsInjective(s)
  PROVE  /\ Head(s) \in T /\ Head(s) \in Range(s) /\ Head(s) = s[1]
         /\ Tail(s) \in Seq(T)
         /\ Range(s) = Range(Tail(s)) \cup {Head(s)}
         /\ Head(s) \notin Range(Tail(s))
         /\ IsInjective(Tail(s))
<1> DEFINE r == Tail(s)
<1>1. r \in Seq(T) /\ Len(r) = Len(s) - 1 /\ Len(s) \in Nat /\ Len(s) >= 1
  OBVIOUS
<1>2. \A i \in 1..Len(r) : r[i] = s[i + 1]
  OBVIOUS
<1>3. Head(s) = s[1] /\ 1 \in 1..Len(s)
  BY <1>1
<1> HIDE DEF r
<1>4. \A i \in 1..Len(r) : i + 1 \in 1..Len(s) /\ r[i] = s[i + 1]
  BY <1>1, <1>2
<1>5. \A i \in 1..Len(s) : i = 1 \/ (i - 1 \in 1..Len(r) /\ s[i] = r[i - 1])
  <2> SUFFICES ASSUME NEW i \in 1..Len(s), i # 1
               PROVE  i - 1 \in 1..Len(r) /\ s[i] = r[i - 1]
    OBVIOUS
  <2>1. i - 1 \in 1..Len(r) /\ (i - 1) + 1 = i
    BY <1>1
  <2>2. QED
    BY <1>2, <2>1
<1>6. Range(r) = {r[i] : i \in 1..Len(r)} /\ Range(s) = {s[i] : i \in 1..Len(s)}
  BY <1>1, RangeIs
<1>7. \A k, m \in 1..Len(s) : s[k] = s[m] => k = m
  BY RangeIs
<1>8. Range(s) = Range(r) \cup {Head(s)}
  <2>1. Range(s) \subseteq Range(r) \cup {s[1]}
    BY <1>5, <1>6
  <2>2. Range(r) \subseteq Range(s)
    BY <1>4, <1>6
  <2>3. QED
    BY <1>3, <1>6, <2>1, <2>2
<1>9. Head(s) \notin Range(r)
  <2> SUFFICES ASSUME NEW i \in 1..Len(r), r[i] = s[1] PROVE FALSE
    BY <1>3, <1>6
  <2>1. i + 1 = 1
    BY <1>3, <1>4, <1>7
  <2>2. QED
    BY <2>1
<1>10. IsInjective(r)
  <2> SUFFICES ASSUME NEW i \in 1..Len(r), NEW j \in 1..Len(r), r[i] = r[j] PROVE i = j
    BY <1>1, RangeIs
  <2>1. i + 1 = j + 1
    BY <1>4, <1>7
  <2>2. QED
    BY <2>1
<1>11. Head(s) \in T /\ Head(s) \in Range(s)
  BY <1>3, RangeIs
<1>12. QED
  BY <1>1, <1>3, <1>8, <1>9, <1>10, <1>11 DEF r

-----------------------------------------------------------------------------
(***************************************************************************)
(* The single GOT.                                                         *)
(***************************************************************************)

\* FinalArea is what the link says.
LEMMA FinalAreaIs ==
  /\ FinalArea = [s \in Syms |-> AreaOf(link, s)]
  /\ AreasFinal(link, FinalArea)
BY DEF FinalArea, RecordedArea, AreaOf, AreasFinal

\* The object that holds a TLS entry of a single GOT is one for its symbol.
LEMMA SingleHolder ==
  ASSUME link \in Links, ~multi, NEW e \in TlsEntries
  PROVE  /\ Holder(e) \in Entry /\ IsTls(Holder(e))
         /\ Holder(e).sym = e.sym /\ Key(Holder(e)) = Key(e)
         /\ e.tls \subseteq Holder(e).tls
<1>1. e \in link.entries /\ IsTls(e) /\ e \in Entry
  BY LinkFacts DEF TlsEntries
<1>2. CASE e.sym \notin Syms
  <2>1. Holder(e) = e
    BY <1>2 DEF Holder
  <2>2. QED
    BY <1>1, <2>1
<1>3. CASE e.sym \in Syms
  <2> DEFINE F == {f \in link.entries : f.sym = e.sym}
             types == UNION {f.tls : f \in F}
  <2>1. Holder(e) = [e EXCEPT !.abfd = OutputBfd, !.tls = types]
    BY <1>3 DEF Holder
  <2>2. \A f \in F : f.tls \in {{GD}, {IE}, {GD, IE}}
    <3> SUFFICES ASSUME NEW f \in F PROVE f.tls \in {{GD}, {IE}, {GD, IE}}
      OBVIOUS
    <3>1. IsTls(f) /\ f.sym # LdmModule
      BY <1>1, <1>3, EntriesAssumption, NamesAssumption
    <3>2. f \in Entry /\ f.tls # {LDM}
      BY <3>1, EntriesAssumption, LinkFacts
    <3>3. QED
      BY <3>1, <3>2 DEF IsTls, Entry, TlsTypes
  <2>3. e \in F
    BY <1>1
  <2>4. types \in {{GD}, {IE}, {GD, IE}} /\ e.tls \subseteq types
    BY <2>2, <2>3
  <2> HIDE DEF types, F
  <2>5. types \in TlsTypes /\ types # {}
    BY <2>4 DEF TlsTypes
  <2>6. /\ Holder(e) \in Entry /\ Holder(e).sym = e.sym /\ Holder(e).tls = types
        /\ Holder(e).abfd = OutputBfd
    BY <1>1, <2>1, <2>5 DEF Entry
  <2>7. e.sym \notin LocalSyms
    BY <1>3, NamesAssumption
  <2>8. QED
    BY <2>4, <2>5, <2>6, <2>7 DEF IsTls, Key
<1>4. QED
  BY <1>2, <1>3

LdmEntry == [abfd |-> OutputBfd, sym |-> LdmModule, tls |-> {LDM}]

\* The TLS entries of a single GOT are entries, all of them TLS.
LEMMA SingleTlsIs ==
  ASSUME link \in Links, ~multi
  PROVE  /\ \A e \in SingleTls : e \in Entry /\ IsTls(e)
         /\ \A e \in SingleTls : e = LdmEntry \/ \E f \in TlsEntries : e = Holder(f)
         /\ \A e \in TlsEntries :
              \E f \in SingleTls : Key(f) = Key(e) /\ (e.sym # LdmModule => f = Holder(e))
<1>1. LdmEntry \in Entry /\ IsTls(LdmEntry)
  BY DEF LdmEntry, Entry, TlsTypes, IsTls
<1>2. \A e \in TlsEntries :
        Holder(e) \in Entry /\ IsTls(Holder(e)) /\ Key(Holder(e)) = Key(e)
  BY SingleHolder
<1>3. \A e \in SingleTls :
        \/ \E f \in TlsEntries : f.sym # LdmModule /\ e = Holder(f)
        \/ e = LdmEntry
  BY DEF SingleTls, LdmEntry
<1>4. ASSUME NEW e \in TlsEntries
      PROVE  \E f \in SingleTls : Key(f) = Key(e) /\ (e.sym # LdmModule => f = Holder(e))
  <2>1. CASE e.sym # LdmModule
    <3>1. Holder(e) \in SingleTls
      BY <2>1 DEF SingleTls
    <3>2. QED
      BY <1>2, <3>1
  <2>2. CASE e.sym = LdmModule
    <3>1. LdmEntry \in SingleTls
      BY <2>2 DEF SingleTls, LdmEntry
    <3>2. LdmModule \notin LocalSyms
      BY NamesAssumption
    <3>3. Key(LdmEntry) = Key(e)
      BY <2>2, <3>2 DEF LdmEntry, Key
    <3>4. QED
      BY <2>2, <3>1, <3>3
  <2>3. QED
    BY <2>1, <2>2
<1>5. QED
  BY <1>1, <1>2, <1>3, <1>4

\* The fields of the single GOT.
LEMMA SingleGotIs ==
  ASSUME link \in Links, ~multi
  PROVE  /\ SingleGot \in GotInfo
         /\ SingleGot.entries = {e \in link.entries : ~IsTls(e)} \cup SingleTls
         /\ SingleGot.local_gotno =
              Reserved + Cardinality({e \in link.entries : ~IsTls(e) /\ e.sym \in LocalSyms})
                + Cardinality({s \in link.binds_local : RecordedArea(s) = "NORMAL"})
                + link.pages
         /\ SingleGot.global_gotno = Cardinality({s \in Syms : FinalArea[s] # "NONE"})
         /\ SingleGot.tls_gotno = TlsSlots(SingleTls)
         /\ SingleGot.assigned_gotno = Reserved
         /\ Reserved <= SingleGot.local_gotno
<1> DEFINE E == {e \in link.entries : ~IsTls(e)} \cup SingleTls
           local == Cardinality({e \in link.entries : ~IsTls(e) /\ e.sym \in LocalSyms})
           bound == Cardinality({s \in link.binds_local : RecordedArea(s) = "NORMAL"})
           count == Reserved + local + bound + link.pages
           global == Cardinality({s \in Syms : FinalArea[s] # "NONE"})
           tls == TlsSlots(SingleTls)
<1>1. SingleGot = [EmptyGot EXCEPT !.entries = E, !.local_gotno = count,
                                   !.global_gotno = global, !.tls_gotno = tls,
                                   !.assigned_gotno = Reserved]
  BY DEF SingleGot
<1>2. E \subseteq Entry
  BY LinkFacts, SingleTlsIs
<1>3. local \in Nat /\ link.pages \in Nat
  <2>1. {e \in link.entries : ~IsTls(e) /\ e.sym \in LocalSyms} \subseteq link.entries
    OBVIOUS
  <2>2. QED
    BY <2>1, LinkFacts, FS_Subset, FS_CardinalityType
<1>4. bound \in Nat /\ global \in Nat
  <2>1. IsFiniteSet(Syms)
    BY NamesAssumption
  <2>2. /\ {s \in link.binds_local : RecordedArea(s) = "NORMAL"} \subseteq Syms
        /\ {s \in Syms : FinalArea[s] # "NONE"} \subseteq Syms
    BY LinkFacts DEF Link
  <2>3. QED
    BY <2>1, <2>2, FS_Subset, FS_CardinalityType
<1>5. tls \in Nat
  BY SingleTlsIs, PartsFinite
<1>6. Reserved \in Nat
  BY SizesAssumption
<1> HIDE DEF E, local, bound, global, tls
<1>7. count \in Nat /\ Reserved <= count
  BY <1>3, <1>4, <1>6
<1> HIDE DEF count
<1>8. /\ SingleGot \in GotInfo
      /\ SingleGot.entries = E /\ SingleGot.local_gotno = count
      /\ SingleGot.global_gotno = global /\ SingleGot.tls_gotno = tls
      /\ SingleGot.assigned_gotno = Reserved
  BY <1>1, <1>2, <1>4, <1>5, <1>6, <1>7, EmptyGotCounted DEF GotInfo, EmptyGot
<1>9. QED
  BY <1>7, <1>8 DEF E, count, local, bound, global, tls

-----------------------------------------------------------------------------
(***************************************************************************)
(* Shape: what the variables hold, and where each GOT is.                  *)
(***************************************************************************)
Early == {"layout", "split", "merge"}
Late == {"assign", "tls", "offsets", "relocate", "finished"}

\* The bfds that mips_elf_multi_got makes a GOT for.
WithGot(l) == {b \in Bfds : (\E e \in l.entries : e.abfd = b) \/ l.page_gotno[b] > 0}

Types ==
  /\ pc \in Early \cup Late
  /\ link \in Links
  /\ area \in [Syms -> {"NONE", "NORMAL", "RELOC_ONLY"}]
  /\ gots \in [GotIds -> GotInfo]
  /\ bfd2got \in [Bfds -> GotIds]
  /\ multi \in BOOLEAN
  /\ global_gotno \in Nat
  /\ primary \in GotIds
  /\ chain \in Seq(GotIds) /\ order \in Seq(GotIds)

AreaSettled == pc # "layout" => AreasFinal(link, area)

Beginning ==
  /\ pc \in {"layout", "split"} =>
       /\ chain = <<>> /\ primary = OutputBfd /\ todo = {}
       /\ gots = [g \in GotIds |-> EmptyGot]
       /\ \A b \in Bfds : bfd2got[b] = OutputBfd
  /\ pc \in Early =>
       /\ order = <<>> /\ slots = {} /\ local_entries = {} /\ done = {}
       /\ needed_relocs = 0 /\ reloc_count = 0

Kind ==
  /\ pc = "layout" => ~multi
  /\ pc \in {"split", "merge", "assign"} => multi

SingleShape ==
  pc # "layout" /\ ~multi =>
    /\ order = <<OutputBfd>> /\ chain = <<>> /\ primary = OutputBfd
    /\ \A b \in Bfds : bfd2got[b] = OutputBfd

\* While GOTs are merged: each bfd that has a GOT waits, or uses its own, the
\* primary one or another one that came before.
Merging ==
  pc = "merge" =>
    /\ todo \subseteq WithGot(link) /\ Range(chain) \subseteq WithGot(link) \ todo
    /\ IsInjective(chain) /\ primary \notin Range(chain)
    /\ primary \in {OutputBfd} \cup (WithGot(link) \ todo)
    /\ \A b \in todo : bfd2got[b] = b
    /\ \A b \in WithGot(link) \ todo :
         bfd2got[b] \in Range(chain) \cup ({primary} \ {OutputBfd})
    /\ \A b \in Range(chain) \cup ({primary} \ {OutputBfd}) : bfd2got[b] = b

\* Afterwards: the GOTs are in line, the primary one first.
InLine ==
  pc \in Late =>
    /\ IsInjective(order) /\ IsInjective(chain) /\ Range(order) \cap Range(chain) = {}
    /\ \A b \in Bfds : bfd2got[b] \in Range(order) \cup Range(chain)
    /\ IF order = <<>> THEN chain # <<>> /\ chain[1] = primary ELSE order[1] = primary
    /\ pc = "assign" => chain # <<>> /\ todo = {}
    /\ pc # "assign" => order # <<>>
    /\ pc = "tls" => todo \subseteq TlsIn(gots[order[Len(order)]].entries)
    /\ pc = "offsets" => chain = <<>> /\ todo \subseteq {order[i] : i \in 2..Len(order)}
    /\ pc = "relocate" => chain = <<>> /\ todo \subseteq Bfds
    /\ pc = "finished" => chain = <<>> /\ todo = {}

Shape ==
  Types /\ AreaSettled /\ Beginning /\ Kind /\ SingleShape /\ Merging /\ InLine

\* Shape, step by step.
LEMMA ShapeInit == Init => Shape
<1> SUFFICES ASSUME Init PROVE Shape
  OBVIOUS
<1>1. EmptyGot \in GotInfo
  BY EmptyGotCounted
<1>2. Types
  <2>1. \A s \in Syms : RecordedArea(s) \in {"NONE", "NORMAL", "RELOC_ONLY"}
    BY DEF RecordedArea
  <2>2. area \in [Syms -> {"NONE", "NORMAL", "RELOC_ONLY"}]
    BY <2>1 DEF Init
  <2>3. gots \in [GotIds -> GotInfo] /\ bfd2got \in [Bfds -> GotIds]
    BY <1>1 DEF Init, GotIds
  <2>4. /\ pc \in Early \cup Late /\ link \in Links /\ multi \in BOOLEAN
        /\ global_gotno \in Nat /\ primary \in GotIds
    BY DEF Init, Early, GotIds
  <2>5. chain \in Seq(GotIds) /\ order \in Seq(GotIds)
    BY DEF Init
  <2>6. QED
    BY <2>2, <2>3, <2>4, <2>5 DEF Types
<1>3. AreaSettled /\ Beginning /\ Kind /\ SingleShape /\ Merging /\ InLine
  BY DEF Init, AreaSettled, Beginning, Kind, SingleShape, Merging, InLine, Early, Late, GotIds
<1>4. QED
  BY <1>2, <1>3 DEF Shape

\* A single GOT.
LEMMA ShapeLayOutSingle == Shape /\ LayOutSingle => Shape'
<1> SUFFICES ASSUME Shape, LayOutSingle PROVE Shape'
  OBVIOUS
<1>1. /\ pc = "layout" /\ pc' = "tls" /\ ~multi /\ link \in Links
      /\ area' = FinalArea /\ order' = <<OutputBfd>> /\ todo' = SingleTls
      /\ global_gotno' = SingleGot.global_gotno
      /\ UNCHANGED <<link, bfd2got, multi, primary, chain, slots, reloc_count, done,
                     local_entries>>
  BY DEF LayOutSingle, LayOutGot, Shape, Kind, Types
<1> DEFINE got == [SingleGot EXCEPT !.tls_assigned_gotno =
                     SingleGot.local_gotno + SingleGot.global_gotno]
<1>2. gots' = [gots EXCEPT ![OutputBfd] = got]
  BY DEF LayOutSingle
<1>3. SingleGot \in GotInfo
  BY <1>1, SingleGotIs
<1>4. got \in GotInfo /\ got.entries = SingleGot.entries
  BY <1>3 DEF GotInfo
<1>5. TlsIn(SingleGot.entries) = SingleTls
  BY <1>1, SingleGotIs, SingleTlsIs DEF TlsIn
<1> HIDE DEF got
<1>6. chain = <<>> /\ primary = OutputBfd /\ order = <<>>
  BY <1>1 DEF Shape, Beginning, Early
<1>7. AreasFinal(link, FinalArea)
  BY FinalAreaIs
<1>8. Types'
  <2>1. gots' \in [GotIds -> GotInfo]
    BY <1>1, <1>2, <1>4 DEF Shape, Types, GotIds
  <2>2. order' \in Seq(GotIds)
    BY <1>1 DEF GotIds
  <2>3. area' \in [Syms -> {"NONE", "NORMAL", "RELOC_ONLY"}] /\ global_gotno' \in Nat
    BY <1>1, <1>3, <1>7 DEF AreasFinal, GotInfo
  <2>4. QED
    BY <1>1, <1>2, <2>1, <2>2, <2>3 DEF Shape, Types, Late
<1>9. AreaSettled'
  BY <1>1, <1>7 DEF AreaSettled
<1>10. Beginning' /\ Kind' /\ Merging'
  BY <1>1 DEF Shape, Beginning, Kind, Merging, Early
<1>11. \A b \in Bfds : bfd2got[b] = OutputBfd
  BY <1>1 DEF Shape, Beginning
<1>12. SingleShape'
  BY <1>1, <1>6, <1>11 DEF SingleShape
<1>13. gots'[OutputBfd].entries = SingleGot.entries
  BY <1>2, <1>4 DEF Shape, Types, GotIds
<1>14. InLine'
  <2>1. Range(order') = {OutputBfd} /\ IsInjective(order') /\ order'[1] = OutputBfd
        /\ Len(order') = 1 /\ order' # <<>>
    BY <1>1 DEF Range, IsInjective
  <2>2. Range(chain) = {} /\ IsInjective(chain)
    BY <1>6 DEF Range, IsInjective
  <2>3. todo' \subseteq TlsIn(gots'[order'[Len(order')]].entries)
    BY <1>1, <1>5, <1>13, <2>1
  <2>4. QED
    BY <1>1, <1>6, <1>11, <2>1, <2>2, <2>3 DEF InLine
<1>15. QED
  BY <1>8, <1>9, <1>10, <1>12, <1>14 DEF Shape

\* Several GOTs, none of them made yet.
LEMMA ShapeSplitGot == Shape /\ SplitGot => Shape'
<1> SUFFICES ASSUME Shape, SplitGot PROVE Shape'
  OBVIOUS
<1>1. /\ pc = "layout" /\ pc' = "split" /\ ~multi /\ multi' = TRUE /\ link \in Links
      /\ area' = FinalArea /\ global_gotno' = SingleGot.global_gotno
      /\ UNCHANGED <<link, gots, bfd2got, todo, primary, chain, order, slots,
                     needed_relocs, reloc_count, done, local_entries>>
  BY DEF SplitGot, LayOutGot, Shape, Kind, Types
<1>2. SingleGot.global_gotno \in Nat
  BY <1>1, SingleGotIs DEF GotInfo
<1>3. AreasFinal(link, FinalArea)
  BY FinalAreaIs
<1>4. Types'
  BY <1>1, <1>2, <1>3 DEF Shape, Types, Early, AreasFinal
<1>5. AreaSettled' /\ Kind' /\ Merging' /\ SingleShape' /\ InLine'
  BY <1>1, <1>3 DEF AreaSettled, Kind, Merging, SingleShape, InLine, Late
<1>6. Beginning'
  BY <1>1 DEF Shape, Beginning, Early
<1>7. QED
  BY <1>4, <1>5, <1>6 DEF Shape

\* The bfds that get a GOT are determined by the link.
LEMMA WithGotIs == BfdsWithGot = WithGot(link)
BY DEF BfdsWithGot, WithGot, EntriesOf

\* Each bfd uses the GOT made for it.
LEMMA ShapeMakeGotPerBfd == Shape /\ MakeGotPerBfd => Shape'
<1> SUFFICES ASSUME Shape, MakeGotPerBfd PROVE Shape'
  OBVIOUS
<1>1. /\ pc = "split" /\ pc' = "merge" /\ link \in Links /\ multi
      /\ gots' = [g \in DOMAIN gots |->
                    IF g \in Bfds
                    THEN AddEntries(EmptyGot, EntriesOf(g), link.page_gotno[g])
                    ELSE EmptyGot]
      /\ bfd2got' = [b \in Bfds |-> IF b \in WithGot(link) THEN b ELSE OutputBfd]
      /\ todo' = WithGot(link)
      /\ UNCHANGED <<link, area, multi, global_gotno, primary, chain, order, slots,
                     needed_relocs, reloc_count, done, local_entries>>
  BY WithGotIs DEF MakeGotPerBfd, Shape, Kind, Types
<1>2. AreasFinal(link, area)
  BY <1>1 DEF Shape, AreaSettled
<1>3. ASSUME NEW b \in Bfds
      PROVE  AddEntries(EmptyGot, EntriesOf(b), link.page_gotno[b]) \in GotInfo
  <2>1. Counted(link, EmptyGot)
    BY EmptyGotCounted
  <2>2. KeysDiffer(EntriesOf(b)) /\ EntriesOf(b) \in SUBSET Entry
        /\ link.page_gotno[b] \in Nat
    BY <1>1, LinkFacts, OwnKeysDiffer DEF EntriesOf
  <2>3. QED
    BY <1>2, <2>1, <2>2, AddEntriesFacts DEF Absorbed, Counted
<1>4. EmptyGot \in GotInfo
  BY EmptyGotCounted
<1>5. DOMAIN gots = GotIds /\ WithGot(link) \subseteq Bfds /\ OutputBfd \notin Bfds
  BY NamesAssumption DEF Shape, Types, WithGot
<1>6. gots' \in [GotIds -> GotInfo]
  BY <1>1, <1>3, <1>4, <1>5
<1>7. Types'
  BY <1>1, <1>5, <1>6 DEF Shape, Types, Early, GotIds
<1>8. AreaSettled' /\ Kind' /\ SingleShape' /\ InLine'
  BY <1>1, <1>2 DEF AreaSettled, Kind, SingleShape, InLine, Late
<1>9. Beginning'
  BY <1>1 DEF Shape, Beginning, Early
<1>10. chain = <<>> /\ primary = OutputBfd
  BY <1>1 DEF Shape, Beginning
<1>11. Range(chain) = {} /\ IsInjective(chain)
  BY <1>10 DEF Range, IsInjective
<1>12. Merging'
  BY <1>1, <1>5, <1>10, <1>11 DEF Merging
<1>13. QED
  BY <1>7, <1>8, <1>9, <1>12 DEF Shape

\* A bfd begins a GOT or moves to one that came before.
LEMMA ShapeMergeGot == ASSUME Shape, NEW b \in Bfds, MergeGot(b), Counted(link, gots[b]),
                              \A g \in GotIds : Counted(link, gots[g])
                       PROVE  Shape'
<1>1. /\ pc = "merge" /\ link \in Links /\ multi /\ b \in todo /\ todo' = todo \ {b}
      /\ UNCHANGED <<pc, link, area, multi, global_gotno, order, slots,
                     needed_relocs, reloc_count, done, local_entries>>
  BY DEF MergeGot, MergeUnchanged, Shape, Kind, Types
<1>2. /\ todo \subseteq WithGot(link) /\ Range(chain) \subseteq WithGot(link) \ todo
      /\ IsInjective(chain) /\ primary \notin Range(chain)
      /\ primary \in {OutputBfd} \cup (WithGot(link) \ todo)
      /\ \A c \in todo : bfd2got[c] = c
      /\ \A c \in WithGot(link) \ todo :
           bfd2got[c] \in Range(chain) \cup ({primary} \ {OutputBfd})
      /\ \A c \in Range(chain) \cup ({primary} \ {OutputBfd}) : bfd2got[c] = c
      /\ chain \in Seq(GotIds) /\ primary \in GotIds
      /\ bfd2got \in [Bfds -> GotIds] /\ gots \in [GotIds -> GotInfo]
  BY <1>1 DEF Shape, Merging, Types
<1>3. b \in GotIds /\ b # OutputBfd /\ b \notin Range(chain) /\ b # primary
      /\ WithGot(link) \subseteq Bfds /\ OutputBfd \notin WithGot(link)
  BY <1>1, <1>2, NamesAssumption DEF GotIds, WithGot
<1>4. AreaSettled' /\ Kind' /\ SingleShape' /\ InLine' /\ Beginning'
  BY <1>1 DEF Shape, AreaSettled, Kind, SingleShape, InLine, Beginning, Late
<1>5. CASE BecomePrimary(b)
  <2>1. /\ primary = OutputBfd /\ primary' = b
        /\ UNCHANGED <<gots, bfd2got, chain>>
    BY <1>5 DEF BecomePrimary
  <2>2. Types'
    BY <1>1, <1>3, <2>1 DEF Shape, Types
  <2>3. Merging'
    BY <1>1, <1>2, <1>3, <2>1 DEF Merging
  <2>4. QED
    BY <1>4, <2>2, <2>3 DEF Shape
<1>6. ASSUME NEW g \in Range(chain) \cup ({primary} \ {OutputBfd}), MergeInto(b, g)
      PROVE  Types' /\ Merging'
  <2>1. /\ gots' = [gots EXCEPT ![g] =
                      AddEntries(gots[g], gots[b].entries, gots[b].page_gotno)]
        /\ bfd2got' = [bfd2got EXCEPT ![b] = g]
        /\ UNCHANGED <<primary, chain>>
    BY <1>6 DEF MergeInto
  <2>2. g \in GotIds /\ g # b
    BY <1>2, <1>3, <1>6, RangeIs
  <2>3. AddEntries(gots[g], gots[b].entries, gots[b].page_gotno) \in GotInfo
    <3>1. AreasFinal(link, area)
      BY <1>1 DEF Shape, AreaSettled
    <3>2. /\ gots[b].entries \in SUBSET Entry /\ KeysDiffer(gots[b].entries)
          /\ gots[b].page_gotno \in Nat
      BY <1>3 DEF Counted, GotInfo
    <3>3. QED
      BY <2>2, <3>1, <3>2, AddEntriesFacts DEF Absorbed, Counted
  <2>4. Types'
    <3>1. gots' \in [GotIds -> GotInfo] /\ bfd2got' \in [Bfds -> GotIds]
      BY <1>2, <2>1, <2>2, <2>3
    <3>2. QED
      BY <1>1, <2>1, <3>1 DEF Shape, Types
  <2>5. \A c \in Bfds : bfd2got'[c] = IF c = b THEN g ELSE bfd2got[c]
    BY <1>2, <2>1
  <2>6. Merging'
    BY <1>1, <1>2, <1>3, <1>6, <2>1, <2>2, <2>5 DEF Merging
  <2>7. QED
    BY <2>4, <2>6
<1>7. CASE MergeWithPrimary(b)
  BY <1>4, <1>6, <1>7 DEF MergeWithPrimary, FitsPrimary, Shape
<1>8. CASE MergeWithCurrent(b)
  <2>1. chain # <<>> /\ MergeInto(b, Head(chain))
    BY <1>8 DEF MergeWithCurrent, FitsCurrent
  <2>2. Head(chain) \in Range(chain)
    BY <1>2, <2>1, TailRange
  <2>3. QED
    BY <1>4, <1>6, <2>1, <2>2 DEF Shape
<1>9. CASE BecomeCurrent(b)
  <2>1. /\ chain' = <<b>> \o chain
        /\ UNCHANGED <<gots, bfd2got, primary>>
    BY <1>9 DEF BecomeCurrent
  <2>2. /\ chain' \in Seq(GotIds) /\ IsInjective(chain')
        /\ Range(chain') = Range(chain) \cup {b}
    BY <1>2, <1>3, <2>1, ConsRange
  <2>3. Types'
    BY <1>1, <2>1, <2>2 DEF Shape, Types
  <2>4. Merging'
    BY <1>1, <1>2, <1>3, <2>1, <2>2 DEF Merging
  <2>5. QED
    BY <1>4, <2>3, <2>4 DEF Shape
<1>10. QED
  BY <1>5, <1>7, <1>8, <1>9 DEF MergeGot

-----------------------------------------------------------------------------
(***************************************************************************)
(* What the steps after merging do to the GOTs.                            *)
(***************************************************************************)
LEMMA PageEntriesNat ==
  ASSUME link \in Links, NEW p \in Nat
  PROVE  /\ PageEntries(p) \in Nat /\ PageEntries(p) <= p /\ PageEntries(p) <= link.pages
         /\ (p <= link.pages => PageEntries(p) = p)
BY LinkFacts DEF PageEntries, Min2

\* The end of a GOT is a number.
LEMMA EndOfNat ==
  ASSUME Shape
  PROVE  /\ \A g \in GotIds : EndOf(g) \in Nat
         /\ LastEnd \in Nat
<1>1. gots \in [GotIds -> GotInfo] /\ order \in Seq(GotIds)
  BY DEF Shape, Types
<1>2. \A g \in GotIds : EndOf(g) \in Nat
  BY <1>1 DEF EndOf, GotInfo
<1>3. order # <<>> => order[Len(order)] \in GotIds
  BY <1>1
<1>4. QED
  BY <1>2, <1>3 DEF LastEnd

\* got with other numbers, and the same entries and global, TLS and page counts.
Same(got, r) ==
  /\ r \in GotInfo
  /\ r.entries = got.entries /\ r.global_gotno = got.global_gotno
  /\ r.tls_gotno = got.tls_gotno /\ r.page_gotno = got.page_gotno

\* What ChoosePrimary changes, field by field.
LEMMA ChoosePrimaryStep ==
  ASSUME Shape, ChoosePrimary
  PROVE  /\ pc = "merge" /\ pc' = "assign" /\ link \in Links /\ multi /\ todo = {}
         /\ order = <<>> /\ order' = <<>>
         /\ chain' \in Seq(GotIds) /\ chain' # <<>> /\ chain'[1] = primary
         /\ Range(chain') = Range(chain) \cup {primary} /\ IsInjective(chain')
         /\ \A b \in Bfds :
              bfd2got'[b] = IF b \in WithGot(link) THEN bfd2got[b] ELSE primary
         /\ bfd2got' \in [Bfds -> GotIds]
         /\ gots' \in [GotIds -> GotInfo]
         /\ \A g \in GotIds : g # primary => gots'[g] = gots[g]
         /\ gots'[primary] = [gots[primary] EXCEPT !.global_gotno = global_gotno]
         /\ AreasFinal(link, area')
         /\ primary \in GotIds
         /\ UNCHANGED <<link, multi, global_gotno, todo, primary, order, slots, lazy,
                        lazy_stub_count, needed_relocs, reloc_count, done,
                        local_entries>>
<1>1. /\ pc = "merge" /\ pc' = "assign" /\ link \in Links /\ multi /\ todo = {}
      /\ bfd2got' = [b \in Bfds |-> IF b \in WithGot(link) THEN bfd2got[b] ELSE primary]
      /\ gots' = [gots EXCEPT ![primary].global_gotno = global_gotno]
      /\ chain' = <<primary>> \o chain
      /\ UNCHANGED <<link, multi, global_gotno, todo, primary, order, slots, lazy,
                     lazy_stub_count, needed_relocs, reloc_count, done, local_entries>>
  BY WithGotIs DEF ChoosePrimary, PrimaryGlobals, Shape, Types, Kind
<1>2. /\ IsInjective(chain) /\ primary \notin Range(chain) /\ order = <<>>
      /\ chain \in Seq(GotIds) /\ primary \in GotIds
      /\ bfd2got \in [Bfds -> GotIds] /\ gots \in [GotIds -> GotInfo]
      /\ global_gotno \in Nat /\ AreasFinal(link, area)
  BY <1>1 DEF Shape, Merging, Types, Beginning, Early, AreaSettled
<1>3. /\ chain' \in Seq(GotIds) /\ chain' # <<>> /\ chain'[1] = primary
      /\ Range(chain') = Range(chain) \cup {primary} /\ IsInjective(chain')
  BY <1>1, <1>2, ConsRange
<1>4. /\ \A b \in Bfds :
              bfd2got'[b] = IF b \in WithGot(link) THEN bfd2got[b] ELSE primary
      /\ bfd2got' \in [Bfds -> GotIds]
  BY <1>1, <1>2
<1>5. /\ gots' \in [GotIds -> GotInfo]
      /\ \A g \in GotIds : g # primary => gots'[g] = gots[g]
      /\ gots'[primary] = [gots[primary] EXCEPT !.global_gotno = global_gotno]
  <2>1. gots[primary] \in GotInfo
    BY <1>2
  <2>2. [gots[primary] EXCEPT !.global_gotno = global_gotno] \in GotInfo
    BY <1>2, <2>1 DEF GotInfo
  <2>3. gots' = [gots EXCEPT ![primary] = [gots[primary] EXCEPT !.global_gotno = global_gotno]]
    BY <1>1
  <2>4. QED
    BY <1>2, <2>2, <2>3
<1>6. AreasFinal(link, area')
  <2>1. area' = [s \in Syms |->
               IF s \in GlobalsOf(primary) THEN "NORMAL"
               ELSE IF area[s] # "NONE" THEN "RELOC_ONLY" ELSE "NONE"]
    BY DEF ChoosePrimary
  <2>2. \A s \in Syms : s \in GlobalsOf(primary) => area[s] # "NONE"
    BY DEF GlobalsOf, InGlobalArea
  <2>3. QED
    BY <1>2, <2>1, <2>2 DEF AreasFinal
<1>7. QED
  BY <1>1, <1>2, <1>3, <1>4, <1>5, <1>6

\* What AssignRange changes, field by field.
LEMMA AssignRangeStep ==
  ASSUME Shape, AssignRange, NEW g, g = Head(chain), NEW first, first = LastEnd + Reserved
  PROVE  /\ pc = "assign" /\ pc' = "tls" /\ link \in Links /\ multi /\ todo = {}
         /\ chain # <<>>
         /\ g \in GotIds /\ g \in Range(chain) /\ g \notin Range(order) /\ g = chain[1]
         /\ first \in Nat /\ LastEnd \in Nat
         /\ chain' \in Seq(GotIds) /\ order' \in Seq(GotIds) /\ order' = Append(order, g)
         /\ Range(chain) = Range(chain') \cup {g} /\ Range(order') = Range(order) \cup {g}
         /\ IsInjective(chain') /\ IsInjective(order') /\ g \notin Range(chain')
         /\ order # <<>> => order'[1] = order[1]
         /\ order' # <<>> /\ order'[Len(order')] = g /\ (order = <<>> => order'[1] = g)
         /\ Len(order') = Len(order) + 1 /\ \A i \in 1..Len(order) : order'[i] = order[i]
         /\ todo' = TlsIn(gots[g].entries)
         /\ gots' \in [GotIds -> GotInfo]
         /\ \A h \in GotIds : h # g => gots'[h] = gots[h]
         /\ Same(gots[g], gots'[g])
         /\ gots'[g].assigned_gotno = first
         /\ gots'[g].local_gotno
              = gots[g].local_gotno + first + PageEntries(gots[g].page_gotno)
         /\ gots'[g].tls_assigned_gotno = gots'[g].local_gotno + gots[g].global_gotno
         /\ UNCHANGED <<link, area, bfd2got, multi, global_gotno, reloc_only_gotno,
                        primary, slots, lazy, lazy_stub_count, needed_relocs,
                        reloc_count, done, local_entries>>
<1> DEFINE local == gots[g].local_gotno + first + PageEntries(gots[g].page_gotno)
           tls == local + gots[g].global_gotno
<1>1. /\ pc = "assign" /\ pc' = "tls" /\ link \in Links /\ multi /\ chain # <<>>
      /\ gots' = [gots EXCEPT ![g].assigned_gotno = first, ![g].local_gotno = local,
                              ![g].tls_assigned_gotno = tls]
      /\ order' = Append(order, g) /\ todo' = TlsIn(gots[g].entries)
      /\ chain' = Tail(chain)
      /\ UNCHANGED <<link, area, bfd2got, multi, global_gotno, reloc_only_gotno,
                     primary, slots, lazy, lazy_stub_count, needed_relocs,
                     reloc_count, done, local_entries>>
  BY DEF AssignRange, Shape, Types, Kind, TlsIn
<1>2. /\ IsInjective(order) /\ IsInjective(chain) /\ Range(order) \cap Range(chain) = {}
      /\ todo = {} /\ chain \in Seq(GotIds) /\ order \in Seq(GotIds)
      /\ gots \in [GotIds -> GotInfo]
  BY <1>1 DEF Shape, InLine, Types, Late
<1>3. /\ g \in GotIds /\ g \in Range(chain) /\ g = chain[1]
      /\ chain' \in Seq(GotIds) /\ Range(chain) = Range(chain') \cup {g}
      /\ g \notin Range(chain') /\ IsInjective(chain')
  BY <1>1, <1>2, TailRange
<1>4. g \notin Range(order)
  BY <1>2, <1>3
<1>5. /\ order' \in Seq(GotIds) /\ Range(order') = Range(order) \cup {g}
      /\ IsInjective(order')
  BY <1>1, <1>2, <1>3, <1>4, AppendRange
<1>6. /\ order # <<>> => order'[1] = order[1]
      /\ order' # <<>> /\ order'[Len(order')] = g /\ (order = <<>> => order'[1] = g)
      /\ Len(order') = Len(order) + 1 /\ \A i \in 1..Len(order) : order'[i] = order[i]
  BY <1>1, <1>2, <1>3
<1>7. first \in Nat /\ LastEnd \in Nat
  BY EndOfNat, SizesAssumption
<1>8. gots[g] \in GotInfo
  BY <1>2, <1>3
<1>9. local \in Nat /\ tls \in Nat
  <2>1. /\ gots[g].local_gotno \in Nat /\ gots[g].global_gotno \in Nat
        /\ gots[g].page_gotno \in Nat
    BY <1>8 DEF GotInfo
  <2>2. PageEntries(gots[g].page_gotno) \in Nat
    BY <1>1, <2>1, PageEntriesNat
  <2>3. QED
    BY <1>7, <2>1, <2>2
<1>10. /\ gots' \in [GotIds -> GotInfo]
       /\ \A h \in GotIds : h # g => gots'[h] = gots[h]
       /\ Same(gots[g], gots'[g])
       /\ gots'[g].assigned_gotno = first /\ gots'[g].local_gotno = local
       /\ gots'[g].tls_assigned_gotno = tls
  <2> HIDE DEF local, tls
  <2> DEFINE r == [gots[g] EXCEPT !.assigned_gotno = first, !.local_gotno = local,
                                  !.tls_assigned_gotno = tls]
  <2>1. gots' = [gots EXCEPT ![g] = r]
    BY <1>1, <1>2, <1>3
  <2>2. /\ Same(gots[g], r) /\ r.assigned_gotno = first /\ r.local_gotno = local
        /\ r.tls_assigned_gotno = tls
    BY <1>7, <1>8, <1>9 DEF GotInfo, Same
  <2> HIDE DEF r
  <2>3. gots'[g] = r /\ \A h \in GotIds : h # g => gots'[h] = gots[h]
    BY <1>2, <1>3, <2>1
  <2>4. QED
    BY <1>2, <1>3, <2>1, <2>2, <2>3 DEF Same
<1>11. QED
  BY <1>1, <1>2, <1>3, <1>4, <1>5, <1>6, <1>7, <1>10

\* What InitializeTlsIndex changes, field by field.
LEMMA InitializeTlsStep ==
  ASSUME Shape, NEW e \in todo, InitializeTlsIndex(e), NEW g, g = order[Len(order)]
  PROVE  /\ pc = "tls" /\ link \in Links
         /\ order # <<>> /\ order \in Seq(GotIds) /\ g \in GotIds /\ g \in Range(order)
         /\ todo \subseteq TlsIn(gots[g].entries) /\ todo' = todo \ {e}
         /\ e \in Entry /\ IsTls(e) /\ TlsSize(e.tls) \in 1..3
         /\ slots' = slots \cup
                      {Slot(g, Key(e), gots[g].tls_assigned_gotno, TlsSize(e.tls))}
         /\ gots' \in [GotIds -> GotInfo]
         /\ \A h \in GotIds : h # g => gots'[h] = gots[h]
         /\ Same(gots[g], gots'[g])
         /\ gots'[g].local_gotno = gots[g].local_gotno
         /\ gots'[g].assigned_gotno = gots[g].assigned_gotno
         /\ gots'[g].tls_assigned_gotno = gots[g].tls_assigned_gotno + TlsSize(e.tls)
         /\ UNCHANGED <<pc, link, area, bfd2got, multi, global_gotno, reloc_only_gotno,
                        primary, chain, order, lazy, lazy_stub_count, needed_relocs,
                        reloc_count, done, local_entries>>
<1>1. /\ pc = "tls" /\ link \in Links /\ todo' = todo \ {e}
      /\ slots' = slots \cup
                   {Slot(g, Key(e), gots[g].tls_assigned_gotno, TlsSize(e.tls))}
      /\ gots' = [gots EXCEPT ![g].tls_assigned_gotno = @ + TlsSize(e.tls)]
      /\ UNCHANGED <<pc, link, area, bfd2got, multi, global_gotno, reloc_only_gotno,
                     primary, chain, order, lazy, lazy_stub_count, needed_relocs,
                     reloc_count, done, local_entries>>
  BY DEF InitializeTlsIndex, Shape, Types
<1>2. /\ order # <<>> /\ order \in Seq(GotIds) /\ gots \in [GotIds -> GotInfo]
      /\ todo \subseteq TlsIn(gots[g].entries)
  BY <1>1 DEF Shape, Types, InLine, Late
<1>3. g \in GotIds /\ g \in Range(order)
  <2>1. Len(order) \in 1..Len(order)
    BY <1>2
  <2>2. QED
    BY <1>2, <2>1, RangeIs
<1>4. gots[g] \in GotInfo
  BY <1>2, <1>3
<1>5. e \in gots[g].entries /\ IsTls(e) /\ e \in Entry
  BY <1>2, <1>4 DEF TlsIn, GotInfo
<1>6. TlsSize(e.tls) \in 1..3
  <2>1. gots[g].entries \in SUBSET Entry
    BY <1>4 DEF GotInfo
  <2>2. QED
    BY <1>5, <2>1, TlsSlotsOne
<1> DEFINE size == TlsSize(e.tls)
           sum == gots[g].tls_assigned_gotno + size
           r == [gots[g] EXCEPT !.tls_assigned_gotno = sum]
<1>7. gots' = [gots EXCEPT ![g] = r]
  BY <1>1, <1>2, <1>3
<1> HIDE DEF size
<1>8. /\ Same(gots[g], r) /\ r.local_gotno = gots[g].local_gotno
      /\ r.assigned_gotno = gots[g].assigned_gotno
      /\ r.tls_assigned_gotno = gots[g].tls_assigned_gotno + size
  <2>1. sum \in Nat
    <3>1. size \in Nat
      BY <1>6 DEF size
    <3>2. gots[g].tls_assigned_gotno \in Nat
      BY <1>4 DEF GotInfo
    <3>3. QED
      BY <3>1, <3>2
  <2>2. sum = gots[g].tls_assigned_gotno + size
    OBVIOUS
  <2> HIDE DEF sum
  <2>3. QED
    BY <1>4, <2>1, <2>2 DEF GotInfo, Same
<1> HIDE DEF r
<1>9. gots'[g] = r /\ \A h \in GotIds : h # g => gots'[h] = gots[h]
  BY <1>2, <1>3, <1>7
<1>10. gots' \in [GotIds -> GotInfo]
  BY <1>2, <1>3, <1>7, <1>8 DEF Same
<1>11. QED
  BY <1>1, <1>2, <1>3, <1>5, <1>6, <1>8, <1>9, <1>10 DEF size

\* The addresses that the local relocations of a bfd want, and which are new.
Addresses(b, pages) ==
  {Key(e) : e \in {e \in EntriesOf(b) : InLocalArea(e)}} \cup {<<OutputBfd, p>> : p \in pages}

NewLocals(b, pages) ==
  {<<bfd2got[b], addr>> : addr \in Addresses(b, pages)} \ local_entries

\* The objects whose TLS slots are initialized for a bfd.
NewHolders(b) == {Holder(e) : e \in {e \in EntriesOf(b) : IsTls(e)}} \ done

\* What RelocateBfd changes in the GOT of the bfd: the assigned slots only.
LEMMA RelocateBfdStep ==
  ASSUME Shape, NEW b \in Bfds, RelocateBfd(b), NEW g, g = bfd2got[b]
  PROVE  /\ pc = "relocate" /\ link \in Links /\ b \in todo /\ todo' = todo \ {b}
         /\ g \in GotIds /\ g \in Range(order)
         /\ done' = done \cup NewHolders(b)
         /\ reloc_count' = reloc_count + SumTlsRelocs(NewHolders(b))
         /\ \E pages \in SUBSET (1..link.pages) :
              /\ Cardinality(pages) = PageEntries(link.page_gotno[b])
              /\ local_entries' = local_entries \cup NewLocals(b, pages)
              /\ IsFiniteSet(NewLocals(b, pages))
              /\ gots'[g].assigned_gotno
                   = gots[g].assigned_gotno + Cardinality(NewLocals(b, pages))
         /\ gots' \in [GotIds -> GotInfo]
         /\ \A h \in GotIds : h # g => gots'[h] = gots[h]
         /\ Same(gots[g], gots'[g])
         /\ gots'[g].local_gotno = gots[g].local_gotno
         /\ gots'[g].tls_assigned_gotno = gots[g].tls_assigned_gotno
         /\ UNCHANGED <<pc, link, area, bfd2got, multi, global_gotno, reloc_only_gotno,
                        primary, chain, order, slots, lazy, lazy_stub_count,
                        needed_relocs>>
<1>1. /\ pc = "relocate" /\ link \in Links /\ b \in todo /\ todo' = todo \ {b}
      /\ UNCHANGED <<pc, link, area, bfd2got, multi, global_gotno, reloc_only_gotno,
                     primary, chain, order, slots, lazy, lazy_stub_count,
                     needed_relocs>>
      /\ done' = done \cup NewHolders(b)
      /\ reloc_count' = reloc_count + SumTlsRelocs(NewHolders(b))
  BY DEF RelocateBfd, Shape, Types, NewHolders
<1> DEFINE new(P) == NewLocals(b, P)
<1>2. PICK pages \in SUBSET (1..link.pages) :
        /\ Cardinality(pages) = PageEntries(link.page_gotno[b])
        /\ local_entries' = local_entries \cup new(pages)
        /\ gots' = [gots EXCEPT ![g].assigned_gotno = @ + Cardinality(new(pages))]
  <2>1. \E P \in SUBSET (1..link.pages) :
          LET addresses == {Key(e) : e \in {e \in EntriesOf(b) : InLocalArea(e)}}
                             \cup {<<OutputBfd, p>> : p \in P}
              fresh == {<<bfd2got[b], addr>> : addr \in addresses} \ local_entries
          IN /\ Cardinality(P) = PageEntries(link.page_gotno[b])
             /\ local_entries' = local_entries \cup fresh
             /\ gots' = [gots EXCEPT ![bfd2got[b]].assigned_gotno
                                        = @ + Cardinality(fresh)]
    BY DEF RelocateBfd
  <2>2. \E P \in SUBSET (1..link.pages) :
          /\ Cardinality(P) = PageEntries(link.page_gotno[b])
          /\ local_entries' = local_entries \cup new(P)
          /\ gots' = [gots EXCEPT ![bfd2got[b]].assigned_gotno = @ + Cardinality(new(P))]
    BY <2>1, Zenon DEF Addresses, NewLocals
  <2>3. QED
    BY <2>2
<1>3. /\ gots \in [GotIds -> GotInfo] /\ g \in GotIds /\ g \in Range(order)
  <2>1. Range(chain) = {}
    BY <1>1 DEF Shape, InLine, Range, Late
  <2>2. QED
    BY <1>1, <2>1 DEF Shape, Types, InLine, Late
<1>4. IsFiniteSet(new(pages))
  <2> DEFINE E == {e \in EntriesOf(b) : InLocalArea(e)}
             key == [e \in E |-> Key(e)]
             page == [p \in pages |-> <<OutputBfd, p>>]
             A == Addresses(b, pages)
             pair == [a \in A |-> <<g, a>>]
  <2>1. IsFiniteSet(E)
    <3>1. E \in SUBSET link.entries
      BY DEF EntriesOf
    <3>2. QED
      BY <1>1, <3>1, LinkFacts, FS_Subset
  <2>2. IsFiniteSet(pages)
    <3>1. link.pages \in Int
      BY <1>1, LinkFacts
    <3>2. IsFiniteSet(1..link.pages)
      BY <3>1, FS_Interval
    <3>3. QED
      BY <3>2, FS_Subset
  <2>3. A = {key[e] : e \in E} \cup {page[p] : p \in pages}
    BY DEF Addresses
  <2>4. {<<g, addr>> : addr \in A} = {pair[a] : a \in A}
    OBVIOUS
  <2>10. new(pages) = {<<g, addr>> : addr \in A} \ local_entries
    BY DEF NewLocals
  <2> HIDE DEF E, key, page, A, pair, new
  <2>5. IsFiniteSet({key[e] : e \in E}) /\ IsFiniteSet({page[p] : p \in pages})
    BY <2>1, <2>2, ImageFinite
  <2>6. IsFiniteSet(A)
    BY <2>3, <2>5, FS_Union
  <2>7. IsFiniteSet({pair[a] : a \in A})
    BY <2>6, ImageFinite
  <2>8. new(pages) \in SUBSET {pair[a] : a \in A}
    BY <2>4, <2>10
  <2>9. QED
    BY <2>7, <2>8, FS_Subset
<1> DEFINE n == Cardinality(new(pages))
           r == [gots[g] EXCEPT !.assigned_gotno = gots[g].assigned_gotno + n]
<1>5. n \in Nat
  BY <1>4, FS_CardinalityType
<1>6. gots' = [gots EXCEPT ![g] = r]
  BY <1>2, <1>3
<1>7. gots[g] \in GotInfo
  BY <1>3
<1> HIDE DEF n, new
<1>8. /\ Same(gots[g], r) /\ r.local_gotno = gots[g].local_gotno
      /\ r.tls_assigned_gotno = gots[g].tls_assigned_gotno
      /\ r.assigned_gotno = gots[g].assigned_gotno + n
  BY <1>5, <1>7 DEF GotInfo, Same
<1> HIDE DEF r
<1>9. /\ gots'[g] = r /\ \A h \in GotIds : h # g => gots'[h] = gots[h]
      /\ gots' \in [GotIds -> GotInfo]
  BY <1>3, <1>6, <1>8 DEF Same
<1>10. \E P \in SUBSET (1..link.pages) :
         /\ Cardinality(P) = PageEntries(link.page_gotno[b])
         /\ local_entries' = local_entries \cup new(P)
         /\ IsFiniteSet(new(P))
         /\ gots'[g].assigned_gotno = gots[g].assigned_gotno + Cardinality(new(P))
  BY <1>2, <1>4, <1>8, <1>9 DEF n
<1>11. QED
  BY <1>1, <1>3, <1>8, <1>9, <1>10 DEF new

-----------------------------------------------------------------------------
(***************************************************************************)
(* Counts: what the counters of a GOT count, and that it has an entry for  *)
(* every reference of its bfds.                                            *)
(***************************************************************************)
EntriesIn(l, b) == {e \in l.entries : e.abfd = b}

InGlobalTable(l) == {s \in Syms : AreaOf(l, s) # "NONE"}

GlobalCount ==
  pc # "layout" => global_gotno = Cardinality(InGlobalTable(link))

MergeCounts ==
  pc = "merge" => \A g \in GotIds :
    Counted(link, gots[g]) /\ gots[g].entries \subseteq link.entries

LateCounts ==
  pc \in Late /\ multi => \A g \in GotIds :
    /\ KeysDiffer(gots[g].entries) /\ gots[g].entries \subseteq link.entries
    /\ gots[g].tls_gotno = TlsSlots(gots[g].entries)
    /\ gots[g].global_gotno = IF g = primary THEN global_gotno
                              ELSE Cardinality(GlobalIn(link, gots[g].entries))
    /\ g \notin Range(order) =>
         gots[g].local_gotno = Cardinality(LocalIn(link, gots[g].entries))

Covered ==
  pc \in {"merge"} \cup Late /\ multi =>
    \A b \in Bfds : Covers(gots[bfd2got[b]].entries, EntriesIn(link, b))

Counts == GlobalCount /\ MergeCounts /\ LateCounts /\ Covered

\* Matching is transitive.
LEMMA CoversTrans ==
  ASSUME NEW F, NEW G, NEW E, Covers(F, E), Covers(G, F)
  PROVE  Covers(G, E)
BY DEF Covers

\* A bfd without a GOT has no entries to be found.
LEMMA NoEntries ==
  ASSUME link \in Links, NEW b \in Bfds, b \notin WithGot(link), NEW F
  PROVE  Covers(F, EntriesIn(link, b))
BY DEF WithGot, EntriesIn, Covers

\* Counts, step by step: the global entries of the output.
LEMMA CountsLayOutSingle == Shape /\ Counts /\ LayOutSingle => Counts'
<1> SUFFICES ASSUME Shape, LayOutSingle PROVE Counts'
  OBVIOUS
<1>1. /\ pc = "layout" /\ pc' = "tls" /\ ~multi /\ multi' = multi /\ link \in Links
      /\ global_gotno' = SingleGot.global_gotno /\ link' = link
  BY DEF LayOutSingle, LayOutGot, Shape, Kind, Types
<1>2. global_gotno' = Cardinality(InGlobalTable(link))
  <2>1. {s \in Syms : FinalArea[s] # "NONE"} = InGlobalTable(link)
    BY FinalAreaIs DEF InGlobalTable
  <2>2. QED
    BY <1>1, <2>1, SingleGotIs
<1>3. QED
  BY <1>1, <1>2 DEF Counts, GlobalCount, MergeCounts, LateCounts, Covered

\* The same when the GOT is split.
LEMMA CountsSplitGot == Shape /\ Counts /\ SplitGot => Counts'
<1> SUFFICES ASSUME Shape, SplitGot PROVE Counts'
  OBVIOUS
<1>1. /\ pc = "layout" /\ pc' = "split" /\ ~multi /\ link \in Links
      /\ global_gotno' = SingleGot.global_gotno /\ link' = link
  BY DEF SplitGot, LayOutGot, Shape, Kind, Types
<1>2. global_gotno' = Cardinality(InGlobalTable(link))
  <2>1. {s \in Syms : FinalArea[s] # "NONE"} = InGlobalTable(link)
    BY FinalAreaIs DEF InGlobalTable
  <2>2. QED
    BY <1>1, <2>1, SingleGotIs
<1>3. QED
  BY <1>1, <1>2 DEF Counts, GlobalCount, MergeCounts, LateCounts, Covered, Late

\* Each bfd's GOT counts the bfd's own entries.
LEMMA CountsMakeGotPerBfd == Shape /\ Counts /\ MakeGotPerBfd => Counts'
<1> SUFFICES ASSUME Shape, Counts, MakeGotPerBfd PROVE Counts'
  OBVIOUS
<1>1. /\ pc = "split" /\ pc' = "merge" /\ link \in Links /\ multi
      /\ gots' = [g \in DOMAIN gots |->
                    IF g \in Bfds
                    THEN AddEntries(EmptyGot, EntriesIn(link, g), link.page_gotno[g])
                    ELSE EmptyGot]
      /\ bfd2got' = [b \in Bfds |-> IF b \in WithGot(link) THEN b ELSE OutputBfd]
      /\ link' = link /\ global_gotno' = global_gotno /\ DOMAIN gots = GotIds
      /\ AreasFinal(link, area)
  BY WithGotIs DEF MakeGotPerBfd, Shape, Kind, Types, EntriesOf, EntriesIn, AreaSettled
<1>2. ASSUME NEW b \in Bfds
      PROVE  Absorbed(link, EmptyGot, EntriesIn(link, b), link.page_gotno[b],
                      AddEntries(EmptyGot, EntriesIn(link, b), link.page_gotno[b]))
  <2>1. Counted(link, EmptyGot)
    BY EmptyGotCounted
  <2>2. KeysDiffer(EntriesIn(link, b)) /\ EntriesIn(link, b) \in SUBSET Entry
        /\ link.page_gotno[b] \in Nat
    BY <1>1, LinkFacts, OwnKeysDiffer DEF EntriesIn
  <2>3. QED
    BY <1>1, <2>1, <2>2, AddEntriesFacts
<1>3. EmptyGot.entries = {}
  BY DEF EmptyGot
<1>4. ASSUME NEW g \in GotIds
      PROVE  Counted(link, gots'[g]) /\ gots'[g].entries \subseteq link.entries
  <2>1. CASE g \in Bfds
    BY <1>1, <1>2, <1>3, <2>1 DEF Absorbed, EntriesIn
  <2>2. CASE g \notin Bfds
    BY <1>1, <1>3, <2>2, EmptyGotCounted
  <2>3. QED
    BY <2>1, <2>2
<1>5. ASSUME NEW b \in Bfds
      PROVE  Covers(gots'[bfd2got'[b]].entries, EntriesIn(link, b))
  <2>1. CASE b \in WithGot(link)
    <3>1. gots'[bfd2got'[b]]
            = AddEntries(EmptyGot, EntriesIn(link, b), link.page_gotno[b])
      BY <1>1, <2>1 DEF GotIds
    <3>2. QED
      BY <1>2, <1>3, <3>1 DEF Absorbed, Covers
  <2>2. QED
    BY <1>1, <2>1, NoEntries
<1>6. GlobalCount'
  BY <1>1 DEF Counts, GlobalCount
<1>7. MergeCounts' /\ LateCounts' /\ Covered'
  BY <1>1, <1>4, <1>5 DEF MergeCounts, LateCounts, Covered, Late
<1>8. QED
  BY <1>6, <1>7 DEF Counts

\* A merge: got b is absorbed by g, which its bfd uses from now on.
LEMMA MergeIntoStep ==
  ASSUME Shape, Counts, pc = "merge", NEW b \in todo,
         NEW g \in Range(chain) \cup ({primary} \ {OutputBfd}), MergeInto(b, g)
  PROVE  /\ b \in GotIds /\ b \in Bfds /\ g \in GotIds /\ g \in Bfds /\ g # b
         /\ bfd2got[b] = b /\ bfd2got[g] = g
         /\ Absorbed(link, gots[g], gots[b].entries, gots[b].page_gotno, gots'[g])
         /\ \A h \in GotIds : h # g => gots'[h] = gots[h]
         /\ \A c \in Bfds : bfd2got'[c] = IF c = b THEN g ELSE bfd2got[c]
         /\ UNCHANGED <<primary, chain>>
<1>1. /\ todo \subseteq WithGot(link) /\ Range(chain) \subseteq WithGot(link) \ todo
      /\ primary \in {OutputBfd} \cup (WithGot(link) \ todo)
      /\ bfd2got[b] = b /\ bfd2got[g] = g
      /\ bfd2got \in [Bfds -> GotIds] /\ gots \in [GotIds -> GotInfo]
      /\ AreasFinal(link, area)
  BY DEF Shape, Merging, Types, AreaSettled
<1>2. WithGot(link) \subseteq Bfds /\ WithGot(link) \subseteq GotIds
  BY DEF WithGot, GotIds
<1>3. /\ gots' = [gots EXCEPT ![g] =
                    AddEntries(gots[g], gots[b].entries, gots[b].page_gotno)]
      /\ bfd2got' = [bfd2got EXCEPT ![b] = g]
      /\ UNCHANGED <<primary, chain>>
  BY DEF MergeInto
<1>4. b \in GotIds /\ b \in Bfds /\ g \in GotIds /\ g \in Bfds /\ g # b
  BY <1>1, <1>2
<1>5. Counted(link, gots[g]) /\ Counted(link, gots[b])
  BY <1>4 DEF Counts, MergeCounts
<1>6. /\ gots[b].entries \in SUBSET Entry /\ KeysDiffer(gots[b].entries)
      /\ gots[b].page_gotno \in Nat
  BY <1>5 DEF Counted, GotInfo
<1>7. Absorbed(link, gots[g], gots[b].entries, gots[b].page_gotno,
               AddEntries(gots[g], gots[b].entries, gots[b].page_gotno))
  BY <1>1, <1>5, <1>6, AddEntriesFacts
<1>8. QED
  BY <1>1, <1>3, <1>4, <1>7

\* A GOT that takes over entries counts them, and covers both bfds.
LEMMA CountsMergeGot ==
  ASSUME Shape, Counts, NEW b \in Bfds, MergeGot(b)
  PROVE  Counts'
<1>1. /\ pc = "merge" /\ link \in Links /\ multi /\ b \in todo
      /\ UNCHANGED <<pc, link, global_gotno, multi>>
  BY DEF MergeGot, MergeUnchanged, Shape, Kind, Types
<1>2. GlobalCount' /\ LateCounts'
  BY <1>1 DEF Counts, GlobalCount, LateCounts, Late
<1>3. ASSUME gots' = gots, bfd2got' = bfd2got PROVE Counts'
  BY <1>1, <1>2, <1>3 DEF Counts, MergeCounts, Covered
<1>4. ASSUME NEW g \in Range(chain) \cup ({primary} \ {OutputBfd}), MergeInto(b, g)
      PROVE  Counts'
  <2>1. /\ b \in GotIds /\ g \in GotIds /\ g # b /\ bfd2got[b] = b
        /\ Absorbed(link, gots[g], gots[b].entries, gots[b].page_gotno, gots'[g])
        /\ \A h \in GotIds : h # g => gots'[h] = gots[h]
        /\ \A c \in Bfds : bfd2got'[c] = IF c = b THEN g ELSE bfd2got[c]
    BY <1>1, <1>4, MergeIntoStep
  <2>2. MergeCounts'
    BY <1>1, <2>1 DEF Counts, MergeCounts, Absorbed
  <2>3. ASSUME NEW h \in GotIds
        PROVE  Covers(gots'[h].entries, gots[h].entries)
    BY <2>1 DEF Covers, Absorbed
  <2>4. Covers(gots'[g].entries, gots[b].entries)
    BY <2>1 DEF Covers, Absorbed
  <2>5. ASSUME NEW c \in Bfds
        PROVE  Covers(gots'[bfd2got'[c]].entries, EntriesIn(link, c))
    <3>1. Covers(gots[bfd2got[c]].entries, EntriesIn(link, c))
      BY <1>1 DEF Counts, Covered
    <3>2. CASE c = b
      <4>1. gots'[bfd2got'[c]] = gots'[g] /\ gots[bfd2got[c]] = gots[b]
        BY <2>1, <3>2
      <4>2. QED
        BY <2>4, <3>1, <4>1, CoversTrans
    <3>3. CASE c # b
      <4>1. bfd2got'[c] = bfd2got[c] /\ bfd2got[c] \in GotIds
        BY <2>1, <3>3 DEF Shape, Types
      <4>2. Covers(gots'[bfd2got[c]].entries, gots[bfd2got[c]].entries)
        BY <2>3, <4>1
      <4>3. QED
        BY <3>1, <4>1, <4>2, CoversTrans
    <3>4. QED
      BY <3>2, <3>3
  <2>6. Covered'
    BY <1>1, <2>5 DEF Covered
  <2>7. QED
    BY <1>2, <2>2, <2>6 DEF Counts
<1>5. CASE BecomePrimary(b)
  BY <1>3, <1>5 DEF BecomePrimary
<1>6. CASE MergeWithPrimary(b)
  BY <1>4, <1>6 DEF MergeWithPrimary, FitsPrimary
<1>7. CASE MergeWithCurrent(b)
  <2>1. chain # <<>> /\ MergeInto(b, Head(chain))
    BY <1>7 DEF MergeWithCurrent, FitsCurrent
  <2>2. Head(chain) \in Range(chain)
    BY <1>1, <2>1, TailRange DEF Shape, Types, Merging
  <2>3. QED
    BY <1>4, <2>1, <2>2
<1>8. CASE BecomeCurrent(b)
  BY <1>3, <1>8 DEF BecomeCurrent
<1>9. QED
  BY <1>5, <1>6, <1>7, <1>8 DEF MergeGot

\* The primary GOT gets all global entries; nothing else is recounted.
LEMMA CountsChoosePrimary == Shape /\ Counts /\ ChoosePrimary => Counts'
<1> SUFFICES ASSUME Shape, Counts, ChoosePrimary PROVE Counts'
  OBVIOUS
<1>1. /\ pc = "merge" /\ pc' = "assign" /\ link \in Links /\ multi
      /\ order = <<>> /\ order' = <<>>
      /\ \A b \in Bfds :
           bfd2got'[b] = IF b \in WithGot(link) THEN bfd2got[b] ELSE primary
      /\ \A g \in GotIds : g # primary => gots'[g] = gots[g]
      /\ gots'[primary] = [gots[primary] EXCEPT !.global_gotno = global_gotno]
      /\ primary \in GotIds
      /\ UNCHANGED <<link, multi, global_gotno, primary>>
  BY ChoosePrimaryStep
<1>2. GlobalCount' /\ MergeCounts'
  BY <1>1 DEF Counts, GlobalCount, MergeCounts
<1>3. \A g \in GotIds : Counted(link, gots[g]) /\ gots[g].entries \subseteq link.entries
  BY <1>1 DEF Counts, MergeCounts
<1>4. /\ gots'[primary].entries = gots[primary].entries
      /\ gots'[primary].tls_gotno = gots[primary].tls_gotno
      /\ gots'[primary].local_gotno = gots[primary].local_gotno
      /\ gots'[primary].global_gotno = global_gotno
  BY <1>1 DEF Shape, Types, GotInfo
<1>5. LateCounts'
  BY <1>1, <1>3, <1>4 DEF LateCounts, Counted
<1>6. ASSUME NEW b \in Bfds
      PROVE  Covers(gots'[bfd2got'[b]].entries, EntriesIn(link, b))
  <2>1. CASE b \in WithGot(link)
    <3>1. bfd2got'[b] = bfd2got[b] /\ bfd2got[b] \in GotIds
      BY <1>1, <2>1 DEF Shape, Types
    <3>2. gots'[bfd2got[b]].entries = gots[bfd2got[b]].entries
      BY <1>1, <1>4, <3>1
    <3>3. Covers(gots[bfd2got[b]].entries, EntriesIn(link, b))
      BY <1>1 DEF Counts, Covered
    <3>4. QED
      BY <3>1, <3>2, <3>3
  <2>2. QED
    BY <1>1, <2>1, NoEntries
<1>7. Covered'
  BY <1>1, <1>6 DEF Covered
<1>8. QED
  BY <1>2, <1>5, <1>7 DEF Counts

\* A step that leaves the entries and counts of all GOTs as they are.
LEMMA CountsKept ==
  ASSUME Shape, Counts, pc \in Late, pc' \in Late,
         UNCHANGED <<link, bfd2got, multi, global_gotno, primary>>,
         \A h \in GotIds : Same(gots[h], gots'[h]),
         Range(order) \subseteq Range(order'),
         \A h \in GotIds : h \notin Range(order') => gots'[h] = gots[h]
  PROVE  Counts'
<1>1. GlobalCount' /\ MergeCounts'
  BY DEF Counts, GlobalCount, MergeCounts, Late
<1>2. LateCounts'
  BY DEF Counts, LateCounts, Same
<1>3. ASSUME multi, NEW b \in Bfds
      PROVE  Covers(gots'[bfd2got[b]].entries, EntriesIn(link, b))
  <2>1. bfd2got[b] \in GotIds
    BY DEF Shape, Types
  <2>2. QED
    BY <1>3, <2>1 DEF Counts, Covered, Same
<1>4. Covered'
  BY <1>3 DEF Covered
<1>5. QED
  BY <1>1, <1>2, <1>4 DEF Counts

-----------------------------------------------------------------------------
(***************************************************************************)
(* Every step keeps Shape and Counts.                                      *)
(***************************************************************************)
Base == Shape /\ Counts

\* A GOT keeps its contents when nothing happens.
LEMMA SameRefl ==
  ASSUME NEW got \in GotInfo
  PROVE  Same(got, got)
BY DEF Same

\* Base, step by step, after merging.
LEMMA BaseChoosePrimary == Base /\ ChoosePrimary => Base'
<1> SUFFICES ASSUME Base, ChoosePrimary PROVE Base'
  OBVIOUS
<1>0. Shape /\ Counts
  BY DEF Base
<1>1. /\ pc = "merge" /\ pc' = "assign" /\ link \in Links /\ multi /\ todo = {}
      /\ order = <<>> /\ order' = <<>>
      /\ chain' \in Seq(GotIds) /\ chain' # <<>> /\ chain'[1] = primary
      /\ Range(chain') = Range(chain) \cup {primary} /\ IsInjective(chain')
      /\ \A b \in Bfds :
           bfd2got'[b] = IF b \in WithGot(link) THEN bfd2got[b] ELSE primary
      /\ bfd2got' \in [Bfds -> GotIds]
      /\ gots' \in [GotIds -> GotInfo]
      /\ AreasFinal(link, area')
      /\ UNCHANGED <<link, multi, global_gotno, todo, primary, order, slots,
                     needed_relocs, reloc_count, done, local_entries>>
  BY <1>0, ChoosePrimaryStep
<1>2. Types'
  BY <1>0, <1>1 DEF Shape, Types, Late, AreasFinal
<1>3. AreaSettled' /\ Beginning' /\ Kind' /\ SingleShape' /\ Merging'
  BY <1>1 DEF AreaSettled, Beginning, Kind, SingleShape, Merging, Early
<1>4. \A b \in WithGot(link) : bfd2got[b] \in Range(chain) \cup {primary}
  BY <1>0, <1>1 DEF Shape, Merging
<1>5. Range(order') = {} /\ IsInjective(order')
  BY <1>1 DEF Range, IsInjective
<1>6. InLine'
  BY <1>1, <1>4, <1>5 DEF InLine
<1>7. Counts'
  BY <1>0, CountsChoosePrimary
<1>8. QED
  BY <1>2, <1>3, <1>6, <1>7 DEF Shape, Base

\* A GOT goes from the waiting ones to the end of the line.
LEMMA BaseAssignRange == Base /\ AssignRange => Base'
<1> SUFFICES ASSUME Base, AssignRange PROVE Base'
  OBVIOUS
<1>0. Shape /\ Counts
  BY DEF Base
<1> DEFINE g == Head(chain)
           first == LastEnd + Reserved
<1>1. /\ pc = "assign" /\ pc' = "tls" /\ link \in Links /\ multi /\ todo = {}
      /\ g \in GotIds /\ g \in Range(chain) /\ g \notin Range(order) /\ g = chain[1]
      /\ chain' \in Seq(GotIds) /\ order' \in Seq(GotIds)
      /\ Range(chain) = Range(chain') \cup {g} /\ Range(order') = Range(order) \cup {g}
      /\ IsInjective(chain') /\ IsInjective(order') /\ g \notin Range(chain')
      /\ order # <<>> => order'[1] = order[1]
      /\ order' # <<>> /\ order'[Len(order')] = g /\ (order = <<>> => order'[1] = g)
      /\ todo' = TlsIn(gots[g].entries)
      /\ gots' \in [GotIds -> GotInfo]
      /\ \A h \in GotIds : h # g => gots'[h] = gots[h]
      /\ Same(gots[g], gots'[g])
      /\ UNCHANGED <<link, area, bfd2got, multi, global_gotno, primary, slots,
                     needed_relocs, reloc_count, done, local_entries>>
  <2> HIDE DEF first
  <2>1. first = LastEnd + Reserved
    BY DEF first
  <2>2. QED
    BY <1>0, <2>1, AssignRangeStep
<1> HIDE DEF g, first
<1>2. Types'
  BY <1>0, <1>1 DEF Shape, Types, Late
<1>3. AreaSettled' /\ Beginning' /\ Kind' /\ SingleShape' /\ Merging'
  BY <1>0, <1>1 DEF Shape, AreaSettled, Beginning, Kind, SingleShape, Merging, Early
<1>4. /\ Range(order) \cap Range(chain) = {}
      /\ \A b \in Bfds : bfd2got[b] \in Range(order) \cup Range(chain)
      /\ IF order = <<>> THEN chain[1] = primary ELSE order[1] = primary
  BY <1>0, <1>1 DEF Shape, InLine, Late
<1>5. todo' \subseteq TlsIn(gots'[g].entries)
  BY <1>1 DEF Same
<1>6. order'[1] = primary
  BY <1>1, <1>4
<1>7. InLine'
  BY <1>1, <1>4, <1>5, <1>6 DEF InLine
<1>8. \A h \in GotIds : Same(gots[h], gots'[h])
  BY <1>0, <1>1, SameRefl DEF Shape, Types
<1>9. Counts'
  BY <1>0, <1>1, <1>8, CountsKept DEF Late
<1>10. QED
  BY <1>2, <1>3, <1>7, <1>9 DEF Shape, Base

\* A TLS entry of the last GOT is visited.
LEMMA BaseInitializeTls ==
  ASSUME Base, NEW e \in todo, InitializeTlsIndex(e)
  PROVE  Base'
<1>0. Shape /\ Counts
  BY DEF Base
<1> DEFINE g == order[Len(order)]
<1>1. /\ pc = "tls" /\ link \in Links /\ g \in GotIds /\ g \in Range(order)
      /\ todo \subseteq TlsIn(gots[g].entries) /\ todo' = todo \ {e}
      /\ gots' \in [GotIds -> GotInfo]
      /\ \A h \in GotIds : h # g => gots'[h] = gots[h]
      /\ Same(gots[g], gots'[g])
      /\ UNCHANGED <<pc, link, area, bfd2got, multi, global_gotno, primary, chain, order,
                     needed_relocs, reloc_count, done, local_entries>>
  BY <1>0, InitializeTlsStep
<1> HIDE DEF g
<1>2. Types'
  BY <1>0, <1>1 DEF Shape, Types
<1>3. AreaSettled' /\ Beginning' /\ Kind' /\ SingleShape' /\ Merging'
  BY <1>0, <1>1 DEF Shape, AreaSettled, Beginning, Kind, SingleShape, Merging, Early
<1>4. todo' \subseteq TlsIn(gots'[g].entries)
  BY <1>1 DEF Same
<1>5. InLine'
  BY <1>0, <1>1, <1>4 DEF Shape, InLine, g
<1>6. \A h \in GotIds : Same(gots[h], gots'[h])
  BY <1>0, <1>1, SameRefl DEF Shape, Types
<1>7. Counts'
  BY <1>0, <1>1, <1>6, CountsKept DEF Late
<1>8. QED
  BY <1>2, <1>3, <1>5, <1>7 DEF Shape, Base

\* Steps that do not touch the GOTs.
LEMMA BaseRest ==
  ASSUME Base, NextGot \/ (\E g \in GotIds : SetGlobalGotOffsets(g))
               \/ SortDynsyms \/ FinishLink
  PROVE  /\ Base'
         /\ pc \in Late /\ pc' \in Late
         /\ UNCHANGED <<link, area, gots, bfd2got, multi, global_gotno, reloc_only_gotno,
                        primary, chain, order, done, local_entries>>
<1>0. Shape /\ Counts
  BY DEF Base
<1>1. /\ pc \in Late /\ pc' \in Late
      /\ UNCHANGED <<link, area, gots, bfd2got, multi, global_gotno, reloc_only_gotno,
                     primary, chain, order, done, local_entries>>
  BY DEF NextGot, SetGlobalGotOffsets, SortDynsyms, FinishLink, Late
<1>2. Types'
  BY <1>0, <1>1 DEF Shape, Types
<1>3. AreaSettled' /\ Beginning' /\ SingleShape' /\ Merging'
  BY <1>0, <1>1 DEF Shape, AreaSettled, Beginning, SingleShape, Merging, Early, Late
<1>4. Kind' /\ InLine'
  <2>1. CASE NextGot
    <3>1. /\ pc = "tls" /\ todo = {}
          /\ IF chain # <<>> THEN pc' = "assign" /\ todo' = todo
             ELSE pc' = "offsets" /\ todo' = Secondary
      BY <2>1 DEF NextGot
    <3>2. ~multi => chain = <<>>
      BY <1>0, <3>1 DEF Shape, SingleShape
    <3>3. QED
      BY <1>0, <1>1, <3>1, <3>2 DEF Shape, Kind, InLine, Late, Secondary, Types
  <2>2. CASE \E g \in GotIds : SetGlobalGotOffsets(g)
    <3>1. pc = "offsets" /\ pc' = pc /\ todo' \subseteq todo
      BY <2>2 DEF SetGlobalGotOffsets
    <3>2. QED
      BY <1>0, <1>1, <3>1 DEF Shape, Kind, InLine
  <2>3. CASE SortDynsyms
    <3>1. pc = "offsets" /\ pc' = "relocate" /\ todo' = Bfds
      BY <2>3 DEF SortDynsyms
    <3>2. QED
      BY <1>0, <1>1, <3>1 DEF Shape, Kind, InLine
  <2>4. CASE FinishLink
    <3>1. pc = "relocate" /\ pc' = "finished" /\ todo = {} /\ todo' = todo
      BY <2>4 DEF FinishLink
    <3>2. QED
      BY <1>0, <1>1, <3>1 DEF Shape, Kind, InLine
  <2>5. QED
    BY <2>1, <2>2, <2>3, <2>4
<1>5. \A h \in GotIds : Same(gots[h], gots'[h])
  BY <1>0, <1>1, SameRefl DEF Shape, Types
<1>6. Counts'
  BY <1>0, <1>1, <1>5, CountsKept
<1>7. QED
  BY <1>1, <1>2, <1>3, <1>4, <1>6 DEF Shape, Base

\* Relocating uses up local slots and nothing else.
LEMMA BaseRelocateBfd ==
  ASSUME Base, NEW b \in Bfds, RelocateBfd(b)
  PROVE  Base'
<1>0. Shape /\ Counts
  BY DEF Base
<1> DEFINE g == bfd2got[b]
<1>1. /\ pc = "relocate" /\ link \in Links /\ todo' = todo \ {b}
      /\ g \in GotIds /\ g \in Range(order)
      /\ gots' \in [GotIds -> GotInfo]
      /\ \A h \in GotIds : h # g => gots'[h] = gots[h]
      /\ Same(gots[g], gots'[g])
      /\ UNCHANGED <<pc, link, area, bfd2got, multi, global_gotno, primary, chain, order,
                     slots, needed_relocs>>
  <2>1. g = bfd2got[b]
    OBVIOUS
  <2> HIDE DEF g
  <2>2. QED
    BY <1>0, <2>1, RelocateBfdStep
<1> HIDE DEF g
<1>2. Types'
  BY <1>0, <1>1 DEF Shape, Types
<1>3. AreaSettled' /\ Beginning' /\ Kind' /\ SingleShape' /\ Merging'
  BY <1>0, <1>1 DEF Shape, AreaSettled, Beginning, Kind, SingleShape, Merging, Early
<1>4. InLine'
  BY <1>0, <1>1 DEF Shape, InLine
<1>5. \A h \in GotIds : Same(gots[h], gots'[h])
  BY <1>0, <1>1, SameRefl DEF Shape, Types
<1>6. Counts'
  BY <1>0, <1>1, <1>5, CountsKept DEF Late
<1>7. QED
  BY <1>2, <1>3, <1>4, <1>6 DEF Shape, Base

\* Base at the beginning.
LEMMA BaseInit == Init => Base
<1> SUFFICES ASSUME Init PROVE Base
  OBVIOUS
<1>1. Counts
  BY DEF Init, Counts, GlobalCount, MergeCounts, LateCounts, Covered, Late
<1>2. QED
  BY <1>1, ShapeInit DEF Base

\* Base in every step.
LEMMA BaseNext == Base /\ [Next]_vars => Base'
<1> SUFFICES ASSUME Base, [Next]_vars PROVE Base'
  OBVIOUS
<1>0. Shape /\ Counts
  BY DEF Base
<1>1. CASE LayOutSingle
  BY <1>0, <1>1, ShapeLayOutSingle, CountsLayOutSingle DEF Base
<1>2. CASE SplitGot
  BY <1>0, <1>2, ShapeSplitGot, CountsSplitGot DEF Base
<1>3. CASE MakeGotPerBfd
  BY <1>0, <1>3, ShapeMakeGotPerBfd, CountsMakeGotPerBfd DEF Base
<1>4. ASSUME NEW b \in Bfds, MergeGot(b) PROVE Base'
  <2>1. \A g \in GotIds : Counted(link, gots[g])
    BY <1>0, <1>4 DEF Counts, MergeCounts, MergeGot
  <2>2. Counted(link, gots[b])
    BY <2>1 DEF GotIds
  <2>3. QED
    BY <1>0, <1>4, <2>1, <2>2, ShapeMergeGot, CountsMergeGot DEF Base
<1>5. CASE ChoosePrimary
  BY <1>5, BaseChoosePrimary
<1>6. CASE AssignRange
  BY <1>6, BaseAssignRange
<1>7. ASSUME NEW e \in todo, InitializeTlsIndex(e) PROVE Base'
  BY <1>7, BaseInitializeTls
<1>8. CASE NextGot \/ (\E g \in GotIds : SetGlobalGotOffsets(g)) \/ SortDynsyms \/ FinishLink
  BY <1>8, BaseRest
<1>9. ASSUME NEW b \in Bfds, RelocateBfd(b) PROVE Base'
  BY <1>9, BaseRelocateBfd
<1>10. CASE UNCHANGED vars
  BY <1>0, <1>10 DEF vars, Base, Shape, Types, AreaSettled, Beginning, Kind, SingleShape,
       Merging, InLine, Counts, GlobalCount, MergeCounts, LateCounts, Covered
<1>11. QED
  BY <1>1, <1>2, <1>3, <1>4, <1>5, <1>6, <1>7, <1>8, <1>9, <1>10 DEF Next, GotIds

\* Base is an invariant: the GOTs are in line with the primary one first, every
\* bfd uses one of them, and each GOT counts the entries that it has and has an
\* entry for every reference of its bfds (mips_elf_make_got_per_bfd,
\* mips_elf_merge_gots, mips_elf_multi_got).
THEOREM BaseInvariance == Spec => []Base
<1>1. Init => Base
  BY BaseInit
<1>2. Base /\ [Next]_vars => Base'
  BY BaseNext
<1>3. QED
  BY <1>1, <1>2, PTL DEF Spec

-----------------------------------------------------------------------------
(***************************************************************************)
(* The sizes of the two areas of the dynamic symbol table, and the stubs   *)
(* that symbols of secondary GOTs have lost.                               *)
(***************************************************************************)
PrimaryTable == GlobalIn(link, gots[primary].entries)

AreasPlaced ==
  /\ pc \in Late /\ multi =>
       /\ \A s \in Syms : area[s] = "NORMAL" <=> \E e \in PrimaryTable : e.sym = s
       /\ reloc_only_gotno = global_gotno - Cardinality(PrimaryTable)
  /\ pc # "layout" /\ ~multi =>
       /\ area = [s \in Syms |-> AreaOf(link, s)]
       /\ reloc_only_gotno = Cardinality({s \in Syms : AreaOf(link, s) = "RELOC_ONLY"})
  /\ reloc_only_gotno \in Nat

StubsLost ==
  /\ lazy \subseteq Syms /\ lazy_stub_count = Cardinality(lazy)
  /\ pc \in Late => \A i \in 2..Len(order) : \A e \in gots[order[i]].entries : e.sym \notin lazy
  /\ pc = "assign" /\ order # <<>> => \A e \in gots[chain[1]].entries : e.sym \notin lazy

\* The symbols of the primary GOT are among those with a global entry.
LEMMA PrimaryTableFits ==
  ASSUME Base, pc = "merge" \/ (pc \in Late /\ multi)
  PROVE  /\ IsFiniteSet({e.sym : e \in PrimaryTable})
         /\ Cardinality({e.sym : e \in PrimaryTable}) = Cardinality(PrimaryTable)
         /\ {e.sym : e \in PrimaryTable} \subseteq InGlobalTable(link)
         /\ IsFiniteSet(InGlobalTable(link))
         /\ Cardinality(PrimaryTable) \in Nat
         /\ Cardinality(PrimaryTable) <= Cardinality(InGlobalTable(link))
<1>1. primary \in GotIds /\ gots[primary] \in GotInfo
  BY DEF Base, Shape, Types
<1>2. KeysDiffer(gots[primary].entries)
  BY <1>1 DEF Base, Counts, MergeCounts, LateCounts, Counted
<1>3. gots[primary].entries \in SUBSET Entry
  BY <1>1 DEF GotInfo
<1> DEFINE T == {e.sym : e \in PrimaryTable}
<1>4. IsFiniteSet(T) /\ Cardinality(T) = Cardinality(PrimaryTable)
  BY <1>2, <1>3, GlobalSyms DEF PrimaryTable
<1>5. T \subseteq InGlobalTable(link)
  BY DEF PrimaryTable, GlobalIn, GlobalOf, InGlobalTable
<1>6. IsFiniteSet(InGlobalTable(link))
  BY NamesAssumption, FS_Subset DEF InGlobalTable
<1> HIDE DEF T
<1>7. Cardinality(T) <= Cardinality(InGlobalTable(link)) /\ Cardinality(T) \in Nat
  BY <1>4, <1>5, <1>6, FS_Subset, FS_CardinalityType
<1>8. QED
  BY <1>4, <1>5, <1>6, <1>7 DEF T

\* AreasPlaced at the beginning.
LEMMA AreasPlacedInit == Init => AreasPlaced
BY DEF Init, AreasPlaced, Late

\* AreasPlaced in every step.
LEMMA AreasPlacedNext == Base /\ AreasPlaced /\ [Next]_vars => AreasPlaced'
<1> SUFFICES ASSUME Base, AreasPlaced, [Next]_vars PROVE AreasPlaced'
  OBVIOUS
<1>0. Shape /\ Counts
  BY DEF Base
<1>1. CASE LayOutSingle \/ SplitGot
  <2>1. /\ pc = "layout" /\ ~multi /\ link' = link /\ area' = FinalArea
        /\ reloc_only_gotno' = Cardinality({s \in Syms : FinalArea[s] = "RELOC_ONLY"})
        /\ pc' \in Late => multi' = multi
        /\ pc' \in {"tls", "split"} /\ (pc' = "split" => multi')
    BY <1>0, <1>1 DEF Shape, Kind, LayOutSingle, SplitGot, LayOutGot, Late
  <2>2. area' = [s \in Syms |-> AreaOf(link, s)]
    BY <2>1, FinalAreaIs
  <2>3. {s \in Syms : FinalArea[s] = "RELOC_ONLY"}
          = {s \in Syms : AreaOf(link, s) = "RELOC_ONLY"}
    BY FinalAreaIs
  <2>4. Cardinality({s \in Syms : AreaOf(link, s) = "RELOC_ONLY"}) \in Nat
    BY NamesAssumption, FS_Subset, FS_CardinalityType
  <2> DEFINE AO == [s \in Syms |-> AreaOf(link, s)]
             RO == Cardinality({s \in Syms : AreaOf(link, s) = "RELOC_ONLY"})
  <2>5. area' = AO /\ reloc_only_gotno' = RO /\ RO \in Nat
    BY <2>1, <2>2, <2>3, <2>4
  <2>6. /\ AO = [s \in Syms |-> AreaOf(link', s)]
        /\ RO = Cardinality({s \in Syms : AreaOf(link', s) = "RELOC_ONLY"})
    BY <2>1
  <2> HIDE DEF AO, RO
  <2>7. QED
    BY <2>1, <2>5, <2>6 DEF AreasPlaced, Late
<1>2. CASE ChoosePrimary
  <2>1. /\ pc = "merge" /\ pc' = "assign" /\ multi /\ primary \in GotIds
        /\ gots'[primary] = [gots[primary] EXCEPT !.global_gotno = global_gotno]
        /\ UNCHANGED <<link, multi, global_gotno, primary>>
    BY <1>0, <1>2, ChoosePrimaryStep
  <2>2. gots'[primary].entries = gots[primary].entries
    BY <1>0, <2>1 DEF Shape, Types, GotInfo
  <2>3. /\ area' = [s \in Syms |-> IF s \in GlobalsOf(primary) THEN "NORMAL"
                                   ELSE IF area[s] # "NONE" THEN "RELOC_ONLY" ELSE "NONE"]
        /\ reloc_only_gotno' = global_gotno - gots[primary].global_gotno
    BY <1>2 DEF ChoosePrimary, RelocOnlyCount
  <2>4. GlobalsOf(primary) = {e.sym : e \in PrimaryTable}
    <3>1. AreasFinal(link, area)
      BY <1>0, <2>1 DEF Shape, AreaSettled
    <3>2. {e \in gots[primary].entries : InGlobalArea(e)} = PrimaryTable
      BY <3>1, AreaFacts DEF PrimaryTable, GlobalIn
    <3>3. QED
      BY <3>2 DEF GlobalsOf
  <2>5. gots[primary].global_gotno = Cardinality(PrimaryTable)
    BY <1>0, <2>1 DEF Counts, MergeCounts, Counted, PrimaryTable
  <2>6. PrimaryTable' = PrimaryTable
    BY <2>1, <2>2 DEF PrimaryTable
  <2>7. reloc_only_gotno' \in Nat
    <3>1. global_gotno = Cardinality(InGlobalTable(link))
      BY <1>0, <2>1 DEF Counts, GlobalCount
    <3>2. /\ Cardinality(PrimaryTable) \in Nat
          /\ Cardinality(PrimaryTable) <= Cardinality(InGlobalTable(link))
      BY <2>1, PrimaryTableFits
    <3>3. global_gotno \in Nat
      BY <1>0 DEF Shape, Types
    <3>4. QED
      BY <2>3, <2>5, <3>1, <3>2, <3>3
  <2>8. QED
    BY <2>1, <2>3, <2>4, <2>5, <2>6, <2>7 DEF AreasPlaced
<1>3. ASSUME UNCHANGED <<link, area, multi, global_gotno, reloc_only_gotno, primary>>,
             pc \in Late, pc' \in Late, \A h \in GotIds : Same(gots[h], gots'[h])
      PROVE  AreasPlaced'
  <2>1. PrimaryTable' = PrimaryTable
    BY <1>0, <1>3 DEF PrimaryTable, Same, Shape, Types
  <2>2. QED
    BY <1>3, <2>1 DEF AreasPlaced, Late
<1>4. CASE AssignRange
  <2> DEFINE g == Head(chain)
             first == LastEnd + Reserved
  <2>1. g = Head(chain) /\ first = LastEnd + Reserved
    OBVIOUS
  <2> HIDE DEF g, first
  <2>2. /\ UNCHANGED <<link, area, multi, global_gotno, reloc_only_gotno, primary>>
        /\ pc = "assign" /\ pc' = "tls"
        /\ \A h \in GotIds : h # g => gots'[h] = gots[h]
        /\ Same(gots[g], gots'[g])
    BY <1>0, <1>4, <2>1, AssignRangeStep
  <2>3. \A h \in GotIds : Same(gots[h], gots'[h])
    BY <1>0, <2>2, SameRefl DEF Shape, Types
  <2>4. QED
    BY <1>3, <2>2, <2>3 DEF Late
<1>5. ASSUME NEW e \in todo, InitializeTlsIndex(e) PROVE AreasPlaced'
  <2> DEFINE g == order[Len(order)]
  <2>1. /\ UNCHANGED <<pc, link, area, multi, global_gotno, reloc_only_gotno, primary>>
        /\ pc = "tls"
        /\ \A h \in GotIds : h # g => gots'[h] = gots[h]
        /\ Same(gots[g], gots'[g])
    BY <1>0, <1>5, InitializeTlsStep
  <2>2. \A h \in GotIds : Same(gots[h], gots'[h])
    BY <1>0, <2>1, SameRefl DEF Shape, Types
  <2>3. QED
    BY <1>3, <2>1, <2>2 DEF Late
<1>6. CASE NextGot \/ (\E g \in GotIds : SetGlobalGotOffsets(g)) \/ SortDynsyms \/ FinishLink
  <2>1. /\ pc \in Late /\ pc' \in Late
        /\ UNCHANGED <<link, area, gots, multi, global_gotno, reloc_only_gotno, primary>>
    BY <1>6, BaseRest
  <2>2. \A h \in GotIds : Same(gots[h], gots'[h])
    BY <1>0, <2>1, SameRefl DEF Shape, Types
  <2>3. QED
    BY <1>3, <2>1, <2>2
<1>7. ASSUME NEW b \in Bfds, RelocateBfd(b) PROVE AreasPlaced'
  <2> DEFINE g == bfd2got[b]
  <2>1. g = bfd2got[b]
    OBVIOUS
  <2> HIDE DEF g
  <2>2. /\ UNCHANGED <<pc, link, area, multi, global_gotno, reloc_only_gotno, primary>>
        /\ pc = "relocate"
        /\ \A h \in GotIds : h # g => gots'[h] = gots[h]
        /\ Same(gots[g], gots'[g])
    BY <1>0, <1>7, <2>1, RelocateBfdStep
  <2>3. \A h \in GotIds : Same(gots[h], gots'[h])
    BY <1>0, <2>2, SameRefl DEF Shape, Types
  <2>4. QED
    BY <1>3, <2>2, <2>3 DEF Late
<1>8. CASE MakeGotPerBfd \/ (\E b \in Bfds : MergeGot(b))
  <2>1. /\ pc' = "merge" /\ pc \in {"split", "merge"}
        /\ UNCHANGED <<multi, reloc_only_gotno>>
    BY <1>8 DEF MakeGotPerBfd, MergeGot, MergeUnchanged
  <2>2. multi
    BY <1>0, <2>1 DEF Shape, Kind
  <2>3. QED
    BY <2>1, <2>2 DEF AreasPlaced, Late
<1>9. CASE UNCHANGED vars
  BY <1>9 DEF vars, AreasPlaced, PrimaryTable
<1>10. QED
  BY <1>1, <1>2, <1>4, <1>5, <1>6, <1>7, <1>8, <1>9 DEF Next, GotIds

\* AreasPlaced is an invariant.
LEMMA AreasPlacedInvariance == Spec => []AreasPlaced
<1>1. Init => AreasPlaced
  BY AreasPlacedInit
<1>2. Base /\ AreasPlaced /\ [Next]_vars => AreasPlaced'
  BY AreasPlacedNext
<1>3. QED
  BY <1>1, <1>2, BaseInvariance, PTL DEF Spec

\* The counters are the sizes of the areas.
LEMMA SortAssertsHold == Base /\ AreasPlaced => SortAsserts
<1> SUFFICES ASSUME Base, AreasPlaced, pc \in {"offsets", "relocate", "finished"}
             PROVE  /\ Cardinality(RelocOnly) = reloc_only_gotno
                    /\ Cardinality(Normal) + Cardinality(RelocOnly) = global_gotno
  BY DEF SortAsserts
<1>0. pc \in Late /\ pc # "layout"
  BY DEF Late
<1>1. area \in [Syms -> {"NONE", "NORMAL", "RELOC_ONLY"}] /\ AreasFinal(link, area)
  BY <1>0 DEF Base, Shape, Types, AreaSettled
<1>2. Normal \cap RelocOnly = {} /\ Normal \cup RelocOnly = InGlobalTable(link)
  BY <1>1 DEF Normal, RelocOnly, InGlobalTable, AreasFinal
<1>3. IsFiniteSet(Normal) /\ IsFiniteSet(RelocOnly)
  BY NamesAssumption, FS_Subset DEF Normal, RelocOnly
<1>4. /\ Cardinality(InGlobalTable(link)) = Cardinality(Normal) + Cardinality(RelocOnly)
      /\ Cardinality(Normal) \in Nat /\ Cardinality(RelocOnly) \in Nat
  BY <1>2, <1>3, UnionCard
<1>5. global_gotno = Cardinality(InGlobalTable(link))
  BY <1>0 DEF Base, Counts, GlobalCount
<1>6. CASE multi
  <2>1. Normal = {e.sym : e \in PrimaryTable}
    <3>1. \A e \in PrimaryTable : e.sym \in Syms
      BY DEF PrimaryTable, GlobalIn, GlobalOf
    <3>2. QED
      BY <1>0, <1>6, <3>1 DEF AreasPlaced, Normal
  <2>2. Cardinality(Normal) = Cardinality(PrimaryTable)
    BY <1>0, <1>6, <2>1, PrimaryTableFits
  <2>3. reloc_only_gotno = global_gotno - Cardinality(PrimaryTable)
    BY <1>0, <1>6 DEF AreasPlaced
  <2> DEFINE n == Cardinality(Normal)
             r == Cardinality(RelocOnly)
  <2>4. n \in Nat /\ r \in Nat /\ global_gotno = n + r /\ reloc_only_gotno = global_gotno - n
    BY <1>4, <1>5, <2>2, <2>3
  <2> HIDE DEF n, r
  <2>5. r = reloc_only_gotno /\ n + r = global_gotno
    BY <2>4
  <2>6. QED
    BY <2>5 DEF n, r
<1>7. CASE ~multi
  <2>1. RelocOnly = {s \in Syms : AreaOf(link, s) = "RELOC_ONLY"}
    BY <1>0, <1>7 DEF AreasPlaced, RelocOnly
  <2>2. Cardinality(RelocOnly) = reloc_only_gotno
    BY <1>0, <1>7, <2>1 DEF AreasPlaced
  <2>3. QED
    BY <1>4, <1>5, <2>2
<1>8. QED
  BY <1>6, <1>7

\* The assertions of mips_elf_sort_hash_table hold for every link, whatever was
\* merged with the primary GOT and in whatever order: the area of the symbols
\* that this GOT refers to and that of the others are as large as the counters
\* that were adjusted when it was chosen.
THEOREM AreasMatchTheirCounts == Spec => []SortAsserts
BY SortAssertsHold, BaseInvariance, AreasPlacedInvariance, PTL

\* StubsLost at the beginning.
LEMMA StubsLostInit == Init => StubsLost
<1> SUFFICES ASSUME Init PROVE StubsLost
  OBVIOUS
<1>1. pc = "layout" /\ lazy = link.lazy_stubs /\ link \in Links
      /\ lazy_stub_count = Cardinality(lazy)
  BY DEF Init
<1>2. lazy \subseteq Syms
  BY <1>1, LinkFacts DEF Link
<1>3. QED
  BY <1>1, <1>2 DEF StubsLost, Late

\* Nothing of what StubsLost says about the GOTs in line has changed.
LEMMA StubsLostKept ==
  ASSUME Base, StubsLost, UNCHANGED <<lazy, lazy_stub_count, order>>,
         pc' \in Late => pc \in Late, pc' = "assign" => pc = "assign" /\ chain' = chain,
         \A g \in GotIds : gots'[g].entries = gots[g].entries
  PROVE  StubsLost'
<1>1. order \in Seq(GotIds) /\ chain \in Seq(GotIds) /\ (pc = "assign" => chain # <<>>)
  BY DEF Base, Shape, Types, InLine, Late
<1>2. \A i \in 2..Len(order) : order[i] \in GotIds
  BY <1>1
<1>3. pc = "assign" => chain[1] \in GotIds
  BY <1>1
<1>4. lazy' \subseteq Syms /\ lazy_stub_count' = Cardinality(lazy')
  BY DEF StubsLost
<1>5. pc' \in Late =>
        \A i \in 2..Len(order') : \A e \in gots'[order'[i]].entries : e.sym \notin lazy'
  BY <1>2 DEF StubsLost
<1>6. pc' = "assign" /\ order' # <<>> =>
        \A e \in gots'[chain'[1]].entries : e.sym \notin lazy'
  BY <1>3 DEF StubsLost
<1>7. QED
  BY <1>4, <1>5, <1>6 DEF StubsLost

\* StubsLost in every step.
LEMMA StubsLostNext == Base /\ StubsLost /\ [Next]_vars => StubsLost'
<1> SUFFICES ASSUME Base, StubsLost, [Next]_vars PROVE StubsLost'
  OBVIOUS
<1>0. Shape /\ Counts
  BY DEF Base
<1>1. CASE \/ MakeGotPerBfd \/ (\E b \in Bfds : MergeGot(b))
           \/ LayOutSingle \/ SplitGot
  <2>1. /\ pc' \in {"merge", "split", "tls"} /\ pc \in {"layout", "split", "merge"}
        /\ pc' = "tls" => order' = <<OutputBfd>>
        /\ UNCHANGED <<lazy, lazy_stub_count>>
    BY <1>1 DEF MakeGotPerBfd, MergeGot, MergeUnchanged, LayOutSingle, SplitGot, LayOutGot
  <2>2. pc' = "tls" => Len(order') = 1
    BY <2>1
  <2>3. QED
    BY <2>1, <2>2 DEF StubsLost, Late
<1>2. CASE ChoosePrimary
  <2>1. /\ pc' = "assign" /\ order' = <<>>
        /\ UNCHANGED <<lazy, lazy_stub_count>>
    BY <1>0, <1>2, ChoosePrimaryStep
  <2>2. QED
    BY <2>1 DEF StubsLost
<1>3. CASE AssignRange
  <2> DEFINE g == Head(chain)
             first == LastEnd + Reserved
  <2>1. first = LastEnd + Reserved /\ g = Head(chain)
    OBVIOUS
  <2> HIDE DEF g, first
  <2>2. /\ pc = "assign" /\ pc' = "tls" /\ g \in GotIds /\ g = chain[1]
        /\ order \in Seq(GotIds)
        /\ order' = Append(order, g)
        /\ Len(order') = Len(order) + 1 /\ \A i \in 1..Len(order) : order'[i] = order[i]
        /\ order'[Len(order')] = g
        /\ \A h \in GotIds : h # g => gots'[h] = gots[h]
        /\ Same(gots[g], gots'[g])
        /\ UNCHANGED <<lazy, lazy_stub_count>>
    BY <1>0, <1>3, <2>1, AssignRangeStep DEF Shape, Types
  <2>3. \A h \in GotIds : gots'[h].entries = gots[h].entries
    BY <2>2 DEF Same
  <2>4. ASSUME NEW i \in 2..Len(order') PROVE \A e \in gots'[order'[i]].entries : e.sym \notin lazy
    <3>1. CASE i \in 2..Len(order)
      BY <2>2, <2>3, <3>1 DEF StubsLost, Late
    <3>2. CASE i = Len(order')
      <4>1. order # <<>> /\ order'[i] = g
        BY <2>2, <3>2
      <4>2. QED
        BY <2>2, <2>3, <4>1 DEF StubsLost
    <3>3. QED
      BY <2>2, <3>1, <3>2
  <2>5. QED
    BY <2>2, <2>4 DEF StubsLost
<1>4. CASE NextGot
  <2>1. CASE chain = <<>>
    <3>1. pc' = "offsets" /\ pc = "tls"
          /\ UNCHANGED <<lazy, lazy_stub_count, gots, order>>
      BY <1>4, <2>1 DEF NextGot
    <3>2. QED
      BY <3>1, StubsLostKept DEF Late
  <2>2. CASE chain # <<>>
    <3> DEFINE bound == ForbidLazyStubs(Head(chain))
    <3>1. /\ pc' = "assign" /\ pc = "tls" /\ UNCHANGED <<chain, gots, order>>
          /\ lazy' = lazy \ bound /\ lazy_stub_count' = lazy_stub_count - Cardinality(bound)
      BY <1>4, <2>2 DEF NextGot
    <3>2. bound \subseteq lazy /\ IsFiniteSet(lazy) /\ lazy \subseteq Syms
      BY NamesAssumption, FS_Subset DEF StubsLost, ForbidLazyStubs
    <3>3. \A e \in gots[chain[1]].entries : e.sym \notin lazy'
      <4>1. Head(chain) = chain[1]
        BY <2>2, <1>0 DEF Shape, Types
      <4>2. QED
        BY <3>1, <4>1 DEF ForbidLazyStubs
    <3> HIDE DEF bound
    <3>4. /\ IsFiniteSet(bound) /\ IsFiniteSet(lazy \ bound)
          /\ bound \cap (lazy \ bound) = {} /\ bound \cup (lazy \ bound) = lazy
      BY <3>2, FS_Subset
    <3>5. /\ Cardinality(lazy) = Cardinality(bound) + Cardinality(lazy \ bound)
          /\ Cardinality(bound) \in Nat /\ Cardinality(lazy \ bound) \in Nat
      BY <3>4, UnionCard
    <3>6. lazy_stub_count' = Cardinality(lazy')
      BY <3>1, <3>5 DEF StubsLost
    <3>7. lazy' \subseteq lazy
      BY <3>1
    <3>8. QED
      BY <3>1, <3>2, <3>3, <3>6, <3>7 DEF StubsLost, Late
  <2>3. QED
    BY <2>1, <2>2
<1>5. CASE (\E g \in GotIds : SetGlobalGotOffsets(g)) \/ SortDynsyms \/ FinishLink
  <2>1. UNCHANGED <<lazy, lazy_stub_count, gots, order>> /\ pc \in Late /\ pc' # "assign"
    BY <1>5 DEF SetGlobalGotOffsets, SortDynsyms, FinishLink, Late
  <2>2. QED
    BY <2>1, StubsLostKept
<1>6. ASSUME NEW e \in todo, InitializeTlsIndex(e) PROVE StubsLost'
  <2> DEFINE g == order[Len(order)]
  <2>1. g = order[Len(order)]
    OBVIOUS
  <2> HIDE DEF g
  <2>2. /\ UNCHANGED <<pc, chain, order, lazy, lazy_stub_count>>
        /\ \A h \in GotIds : h # g => gots'[h] = gots[h]
        /\ Same(gots[g], gots'[g])
    BY <1>0, <1>6, <2>1, InitializeTlsStep
  <2>3. \A h \in GotIds : gots'[h].entries = gots[h].entries
    BY <2>2 DEF Same
  <2>4. QED
    BY <2>2, <2>3, StubsLostKept
<1>7. ASSUME NEW b \in Bfds, RelocateBfd(b) PROVE StubsLost'
  <2> DEFINE g == bfd2got[b]
  <2>1. g = bfd2got[b]
    OBVIOUS
  <2> HIDE DEF g
  <2>2. /\ UNCHANGED <<pc, chain, order, lazy, lazy_stub_count>>
        /\ \A h \in GotIds : h # g => gots'[h] = gots[h]
        /\ Same(gots[g], gots'[g])
    BY <1>0, <1>7, <2>1, RelocateBfdStep
  <2>3. \A h \in GotIds : gots'[h].entries = gots[h].entries
    BY <2>2 DEF Same
  <2>4. QED
    BY <2>2, <2>3, StubsLostKept
<1>8. CASE UNCHANGED vars
  BY <1>8, StubsLostKept DEF vars
<1>9. QED
  BY <1>1, <1>2, <1>3, <1>4, <1>5, <1>6, <1>7, <1>8 DEF Next, GotIds

\* StubsLost is an invariant.
LEMMA StubsLostInvariance == Spec => []StubsLost
<1>1. Init => StubsLost
  BY StubsLostInit
<1>2. Base /\ StubsLost /\ [Next]_vars => StubsLost'
  BY StubsLostNext
<1>3. QED
  BY <1>1, <1>2, BaseInvariance, PTL DEF Spec

\* No symbol that some bfd's secondary GOT holds keeps its lazy-binding stub,
\* and the stubs that are left are counted: a symbol that several secondary
\* GOTs hold is taken off the count once.
THEOREM NoLazySymbolInSecondary == Spec => []NoLazySecondary
<1>1. Base /\ StubsLost => NoLazySecondary
  <2> SUFFICES ASSUME Base, StubsLost, LaidOut,
                      NEW e \in link.entries, bfd2got[e.abfd] # order[1]
               PROVE  e.sym \notin lazy
    BY DEF StubsLost, NoLazySecondary
  <2>1. pc \in Late /\ chain = <<>> /\ pc # "layout"
    BY DEF LaidOut, Late, Base, Shape, InLine
  <2>2. link \in Links /\ e.abfd \in Bfds /\ order \in Seq(GotIds)
    BY LinkFacts DEF Base, Shape, Types
  <2>3. multi
    <3>1. ~multi => bfd2got[e.abfd] = OutputBfd /\ order = <<OutputBfd>>
      BY <2>1, <2>2 DEF Base, Shape, SingleShape
    <3>2. QED
      BY <3>1
  <2>4. bfd2got[e.abfd] \in Range(order)
    <3>1. Range(chain) = {}
      BY <2>1 DEF Range
    <3>2. bfd2got[e.abfd] \in Range(order) \cup Range(chain)
      BY <2>1, <2>2 DEF Base, Shape, InLine
    <3>3. QED
      BY <3>1, <3>2
  <2>5. PICK i \in 2..Len(order) : bfd2got[e.abfd] = order[i]
    <3>1. PICK i \in 1..Len(order) : bfd2got[e.abfd] = order[i]
      BY <2>2, <2>4, RangeIs
    <3>2. QED
      BY <2>2, <3>1
  <2>6. PICK f \in gots[bfd2got[e.abfd]].entries : Key(f) = Key(e)
    BY <2>1, <2>2, <2>3 DEF Base, Counts, Covered, Covers, EntriesIn
  <2>7. f.sym \notin lazy /\ lazy \subseteq Syms
    BY <2>1, <2>5, <2>6 DEF StubsLost
  <2>8. f.sym = e.sym
    BY <2>6 DEF Key
  <2>9. QED
    BY <2>7, <2>8
<1>2. QED
  BY <1>1, BaseInvariance, StubsLostInvariance, PTL

-----------------------------------------------------------------------------
(***************************************************************************)
(* Page entries: a GOT is charged for those of all bfds that use it.       *)
(***************************************************************************)
PagesCharged ==
  pc \in {"merge"} \cup Late /\ multi =>
    \A g \in GotIds : SumFunctionOnSet(link.page_gotno, Users(g)) <= gots[g].page_gotno

\* Sums of the page estimates of some bfds.
LEMMA PageSum ==
  ASSUME NEW l \in Links, NEW U \in SUBSET Bfds
  PROVE  /\ IsFiniteSet(U) /\ SumFunctionOnSet(l.page_gotno, U) \in Nat
         /\ \A b \in U : l.page_gotno[b] \in Nat /\ l.page_gotno[b] <= SumFunctionOnSet(l.page_gotno, U)
         /\ \A V \in SUBSET U :
              /\ SumFunctionOnSet(l.page_gotno, V) <= SumFunctionOnSet(l.page_gotno, U)
              /\ (\A b \in U \ V : l.page_gotno[b] = 0) =>
                   SumFunctionOnSet(l.page_gotno, U) = SumFunctionOnSet(l.page_gotno, V)
         /\ \A b \in Bfds \ U :
              SumFunctionOnSet(l.page_gotno, U \cup {b})
                = l.page_gotno[b] + SumFunctionOnSet(l.page_gotno, U)
<1> DEFINE f == l.page_gotno
<1>1. IsFiniteSet(U)
  BY NamesAssumption, FS_Subset
<1>2. \A b \in Bfds : f[b] \in Nat
  BY LinkFacts
<1> HIDE DEF f
<1>3. SumFunctionOnSet(f, U) \in Nat
  BY <1>1, <1>2, SumNat
<1>4. ASSUME NEW V \in SUBSET U
      PROVE  /\ SumFunctionOnSet(f, V) <= SumFunctionOnSet(f, U)
             /\ (\A b \in U \ V : f[b] = 0) => SumFunctionOnSet(f, U) = SumFunctionOnSet(f, V)
  <2>1. \A b \in U : f[b] \in Nat /\ f[b] \in Int
    BY <1>2
  <2>2. SumFunctionOnSet(f, V) <= SumFunctionOnSet(f, U)
    BY <1>1, <2>1, SumSubset
  <2>3. (\A b \in U \ V : f[b] = 0) => SumFunctionOnSet(f, U) = SumFunctionOnSet(f, V)
    BY <1>1, <2>1, SumPositive
  <2>4. QED
    BY <2>2, <2>3
<1>5. ASSUME NEW b \in Bfds \ U
      PROVE  SumFunctionOnSet(f, U \cup {b}) = f[b] + SumFunctionOnSet(f, U)
  <2>1. \A x \in U \cup {b} : f[x] \in Int
    BY <1>2
  <2>2. QED
    BY <1>1, <2>1, SumAdd
<1>6. ASSUME NEW b \in U PROVE f[b] \in Nat /\ f[b] <= SumFunctionOnSet(f, U)
  <2>1. {b} \in SUBSET U /\ b \notin {} /\ \A x \in {} \cup {b} : f[x] \in Int
    BY <1>2
  <2>2. SumFunctionOnSet(f, {b}) <= SumFunctionOnSet(f, U)
    BY <1>4, <2>1
  <2>3. SumFunctionOnSet(f, {} \cup {b}) = f[b] + SumFunctionOnSet(f, {})
    BY <2>1, SumAdd, FS_EmptySet
  <2>4. SumFunctionOnSet(f, {b}) = f[b] + SumFunctionOnSet(f, {})
    BY <2>3
  <2>5. SumFunctionOnSet(f, {b}) = f[b]
    BY <1>2, <2>4, SumEmpty
  <2>6. QED
    BY <1>2, <2>2, <2>5
<1>7. QED
  BY <1>1, <1>3, <1>4, <1>5, <1>6 DEF f

\* PagesCharged in every step.
LEMMA PagesChargedNext == Base /\ PagesCharged /\ [Next]_vars => PagesCharged'
<1> SUFFICES ASSUME Base, PagesCharged, [Next]_vars PROVE PagesCharged'
  OBVIOUS
<1>0. Shape /\ Counts /\ Base' /\ link \in Links
  BY BaseNext DEF Base, Shape, Types
<1>1. CASE LayOutSingle \/ SplitGot
  BY <1>0, <1>1 DEF LayOutSingle, SplitGot, LayOutGot, PagesCharged, Late, Shape, Kind
<1>2. CASE MakeGotPerBfd
  <2>1. /\ pc = "split" /\ pc' = "merge" /\ multi /\ link' = link
        /\ gots' = [g \in DOMAIN gots |->
                      IF g \in Bfds
                      THEN AddEntries(EmptyGot, EntriesOf(g), link.page_gotno[g])
                      ELSE EmptyGot]
        /\ bfd2got' = [b \in Bfds |-> IF b \in WithGot(link) THEN b ELSE OutputBfd]
        /\ DOMAIN gots = GotIds
    BY <1>0, <1>2, WithGotIs DEF MakeGotPerBfd, Shape, Kind, Types
  <2>2. ASSUME NEW g \in GotIds
        PROVE  SumFunctionOnSet(link.page_gotno, Users(g)') <= gots'[g].page_gotno
    <3>1. CASE g \in Bfds
      <4>1. gots'[g].page_gotno = link.page_gotno[g]
        <5>1. gots'[g] = AddEntries(EmptyGot, EntriesOf(g), link.page_gotno[g])
          BY <2>1, <3>1
        <5>2. AddEntries(EmptyGot, EntriesOf(g), link.page_gotno[g]).page_gotno
                = EmptyGot.page_gotno + link.page_gotno[g]
          <6>1. EntriesOf(g) \in SUBSET Entry /\ KeysDiffer(EntriesOf(g))
                /\ link.page_gotno[g] \in Nat
            BY <1>0, <3>1, LinkFacts, OwnKeysDiffer DEF EntriesOf
          <6>2. AreasFinal(link, area) /\ Counted(link, EmptyGot)
            BY <1>0, <2>1, EmptyGotCounted DEF Shape, AreaSettled
          <6>3. QED
            BY <6>1, <6>2, AddEntriesFacts DEF Absorbed
        <5>3. link.page_gotno[g] \in Nat
          BY <1>0, <3>1, LinkFacts
        <5>4. QED
          BY <5>1, <5>2, <5>3 DEF EmptyGot
      <4>2. Users(g)' \in SUBSET {g}
        BY <2>1, <3>1, NamesAssumption DEF Users
      <4>3. {g} \in SUBSET Bfds /\ {} \in SUBSET Bfds /\ g \notin {} /\ {} \cup {g} = {g}
        BY <3>1
      <4>4. /\ SumFunctionOnSet(link.page_gotno, {g})
                 = link.page_gotno[g] + SumFunctionOnSet(link.page_gotno, {})
            /\ link.page_gotno[g] \in Nat
        <5>1. g \in Bfds \ {}
          BY <3>1
        <5>2. SumFunctionOnSet(link.page_gotno, {} \cup {g})
                = link.page_gotno[g] + SumFunctionOnSet(link.page_gotno, {})
          BY <1>0, <4>3, <5>1, PageSum
        <5>3. link.page_gotno[g] \in Nat
          BY <1>0, <3>1, LinkFacts
        <5>4. QED
          BY <4>3, <5>2, <5>3
      <4>5. SumFunctionOnSet(link.page_gotno, {g}) = link.page_gotno[g]
        BY <4>4, SumEmpty
      <4>6. SumFunctionOnSet(link.page_gotno, Users(g)') <= SumFunctionOnSet(link.page_gotno, {g})
        BY <1>0, <4>2, <4>3, PageSum
      <4>7. QED
        BY <4>1, <4>5, <4>6
    <3>2. CASE g \notin Bfds
      <4>1. gots'[g].page_gotno = 0
        BY <2>1, <3>2 DEF EmptyGot
      <4>2. Users(g)' \subseteq Bfds \ WithGot(link)
        BY <2>1, <3>2 DEF Users
      <4>3. \A b \in Users(g)' : link.page_gotno[b] = 0 /\ b \in Bfds
        BY <1>0, <4>2, LinkFacts DEF WithGot
      <4>4. SumFunctionOnSet(link.page_gotno, Users(g)') = 0
        <5>1. IsFiniteSet(Users(g)')
          BY <4>3, NamesAssumption, FS_Subset
        <5>2. QED
          BY <4>3, <5>1, SumZero
      <4>5. QED
        BY <4>1, <4>4
    <3>3. QED
      BY <3>1, <3>2
  <2>3. QED
    BY <2>1, <2>2 DEF PagesCharged
<1>3. ASSUME NEW b \in Bfds, MergeGot(b) PROVE PagesCharged'
  <2>1. /\ pc = "merge" /\ multi /\ b \in todo /\ UNCHANGED <<pc, link, multi>>
        /\ \A g \in GotIds : SumFunctionOnSet(link.page_gotno, Users(g)) <= gots[g].page_gotno
    BY <1>0, <1>3 DEF MergeGot, MergeUnchanged, Shape, Kind, PagesCharged
  <2>2. CASE BecomePrimary(b) \/ BecomeCurrent(b)
    <3>1. gots' = gots /\ bfd2got' = bfd2got
      BY <2>2 DEF BecomePrimary, BecomeCurrent
    <3>2. ASSUME NEW g \in GotIds
          PROVE  SumFunctionOnSet(link.page_gotno, Users(g)') <= gots'[g].page_gotno
      <4>1. Users(g)' = Users(g)
        BY <3>1 DEF Users
      <4>2. QED
        BY <2>1, <3>1, <4>1
    <3>3. QED
      BY <2>1, <3>2 DEF PagesCharged
  <2>3. ASSUME NEW g \in Range(chain) \cup ({primary} \ {OutputBfd}), MergeInto(b, g)
        PROVE  PagesCharged'
    <3>1. /\ b \in GotIds /\ g \in GotIds /\ g # b
          /\ bfd2got[b] = b /\ bfd2got[g] = g
          /\ gots'[g].page_gotno = gots[g].page_gotno + gots[b].page_gotno
          /\ \A h \in GotIds : h # g => gots'[h] = gots[h]
          /\ \A c \in Bfds : bfd2got'[c] = IF c = b THEN g ELSE bfd2got[c]
      <4>1. /\ b \in GotIds /\ g \in GotIds /\ g # b
            /\ bfd2got[b] = b /\ bfd2got[g] = g
            /\ Absorbed(link, gots[g], gots[b].entries, gots[b].page_gotno, gots'[g])
            /\ \A h \in GotIds : h # g => gots'[h] = gots[h]
            /\ \A c \in Bfds : bfd2got'[c] = IF c = b THEN g ELSE bfd2got[c]
        BY <1>0, <2>1, <2>3, MergeIntoStep
      <4>2. QED
        BY <4>1 DEF Absorbed
    <3>2. /\ gots[g].page_gotno \in Nat /\ gots[b].page_gotno \in Nat
      BY <1>0, <3>1 DEF Shape, Types, GotInfo
    <3>3. ASSUME NEW h \in GotIds
          PROVE  SumFunctionOnSet(link.page_gotno, Users(h)') <= gots'[h].page_gotno
      <4>1. CASE h # g
        <5>1. Users(h)' \in SUBSET Users(h) /\ Users(h) \in SUBSET Bfds
          BY <3>1, <4>1 DEF Users
        <5>2. SumFunctionOnSet(link.page_gotno, Users(h)')
                <= SumFunctionOnSet(link.page_gotno, Users(h))
          BY <1>0, <5>1, PageSum
        <5>3. /\ SumFunctionOnSet(link.page_gotno, Users(h)') \in Nat
              /\ SumFunctionOnSet(link.page_gotno, Users(h)) \in Nat
              /\ gots[h].page_gotno \in Nat
          BY <1>0, <5>1, PageSum DEF Shape, Types, GotInfo
        <5>4. SumFunctionOnSet(link.page_gotno, Users(h)) <= gots[h].page_gotno
              /\ gots'[h] = gots[h]
          BY <2>1, <3>1, <4>1
        <5> HIDE DEF Users
        <5>5. QED
          BY <5>2, <5>3, <5>4
      <4>2. CASE h = g
        <5>1. /\ Users(g)' = Users(g) \cup {b} /\ b \in Bfds \ Users(g)
              /\ Users(g) \in SUBSET Bfds /\ b \in Users(b) /\ Users(b) \in SUBSET Bfds
          BY <3>1 DEF Users
        <5>2. SumFunctionOnSet(link.page_gotno, Users(g) \cup {b})
                = link.page_gotno[b] + SumFunctionOnSet(link.page_gotno, Users(g))
          BY <1>0, <5>1, PageSum
        <5>3. /\ link.page_gotno[b] <= SumFunctionOnSet(link.page_gotno, Users(b))
              /\ link.page_gotno[b] \in Nat
              /\ SumFunctionOnSet(link.page_gotno, Users(b)) \in Nat
              /\ SumFunctionOnSet(link.page_gotno, Users(g)) \in Nat
          BY <1>0, <5>1, PageSum
        <5>4. /\ SumFunctionOnSet(link.page_gotno, Users(g)) <= gots[g].page_gotno
              /\ SumFunctionOnSet(link.page_gotno, Users(b)) <= gots[b].page_gotno
          BY <2>1, <3>1
        <5> DEFINE ub == SumFunctionOnSet(link.page_gotno, Users(b))
                   ug == SumFunctionOnSet(link.page_gotno, Users(g))
                   pb == link.page_gotno[b]
        <5>5. /\ pb \in Nat /\ ub \in Nat /\ ug \in Nat /\ pb <= ub
              /\ ug <= gots[g].page_gotno /\ ub <= gots[b].page_gotno
              /\ SumFunctionOnSet(link.page_gotno, Users(g)') = pb + ug
          BY <5>1, <5>2, <5>3, <5>4
        <5> HIDE DEF ub, ug, pb
        <5>6. QED
          BY <3>1, <3>2, <4>2, <5>5
      <4>3. QED
        BY <4>1, <4>2
    <3>4. QED
      BY <2>1, <3>3 DEF PagesCharged
  <2>4. CASE MergeWithPrimary(b)
    BY <2>3, <2>4 DEF MergeWithPrimary, FitsPrimary
  <2>5. CASE MergeWithCurrent(b)
    <3>1. chain # <<>> /\ MergeInto(b, Head(chain))
      BY <2>5 DEF MergeWithCurrent, FitsCurrent
    <3>2. Head(chain) \in Range(chain)
      BY <1>0, <2>1, <3>1, TailRange DEF Shape, Types, Merging
    <3>3. QED
      BY <2>3, <3>1, <3>2
  <2>6. QED
    BY <1>3, <2>2, <2>4, <2>5 DEF MergeGot
<1>4. CASE ChoosePrimary
  <2>1. /\ pc = "merge" /\ pc' = "assign" /\ multi /\ primary \in GotIds
        /\ \A b \in Bfds :
             bfd2got'[b] = IF b \in WithGot(link) THEN bfd2got[b] ELSE primary
        /\ \A g \in GotIds : g # primary => gots'[g] = gots[g]
        /\ gots'[primary] = [gots[primary] EXCEPT !.global_gotno = global_gotno]
        /\ UNCHANGED <<link, multi>>
    BY <1>0, <1>4, ChoosePrimaryStep
  <2>2. \A g \in GotIds : gots'[g].page_gotno = gots[g].page_gotno
    <3>1. gots'[primary].page_gotno = gots[primary].page_gotno
      BY <1>0, <2>1 DEF Shape, Types, GotInfo
    <3>2. QED
      BY <2>1, <3>1
  <2>3. ASSUME NEW g \in GotIds
        PROVE  SumFunctionOnSet(link.page_gotno, Users(g)') <= gots'[g].page_gotno
    <3> DEFINE V == Users(g)' \cap Users(g)
    <3>1. Users(g)' \in SUBSET Bfds /\ V \in SUBSET Users(g)' /\ V \in SUBSET Users(g)
          /\ Users(g) \in SUBSET Bfds
      BY DEF Users
    <3>2. \A b \in Users(g)' \ V : link.page_gotno[b] = 0
      <4>1. \A b \in Users(g)' \ V : b \in Bfds \ WithGot(link)
        BY <2>1 DEF Users
      <4>2. QED
        BY <1>0, <4>1, LinkFacts DEF WithGot
    <3>3. SumFunctionOnSet(link.page_gotno, Users(g)') = SumFunctionOnSet(link.page_gotno, V)
      BY <1>0, <3>1, <3>2, PageSum
    <3>4. SumFunctionOnSet(link.page_gotno, V) <= SumFunctionOnSet(link.page_gotno, Users(g))
      BY <1>0, <3>1, PageSum
    <3>5. SumFunctionOnSet(link.page_gotno, Users(g)) <= gots[g].page_gotno
      BY <2>1 DEF PagesCharged
    <3>6. /\ SumFunctionOnSet(link.page_gotno, V) \in Nat
          /\ SumFunctionOnSet(link.page_gotno, Users(g)) \in Nat
          /\ gots[g].page_gotno \in Nat
      <4>1. V \in SUBSET Bfds
        BY <3>1
      <4>2. QED
        BY <1>0, <3>1, <4>1, PageSum DEF Shape, Types, GotInfo
    <3> HIDE DEF V
    <3>7. QED
      BY <2>2, <3>3, <3>4, <3>5, <3>6
  <2>4. QED
    BY <2>1, <2>3 DEF PagesCharged
<1>5. ASSUME pc \in Late, pc' \in Late, UNCHANGED <<link, multi, bfd2got>>,
             \A h \in GotIds : Same(gots[h], gots'[h])
      PROVE  PagesCharged'
  BY <1>5 DEF PagesCharged, Users, Same
<1>6. \A h \in GotIds : Same(gots[h], gots[h])
  BY <1>0, SameRefl DEF Shape, Types
<1>7. CASE AssignRange
  <2> DEFINE g == Head(chain)
             first == LastEnd + Reserved
  <2>1. first = LastEnd + Reserved /\ g = Head(chain)
    OBVIOUS
  <2> HIDE DEF g, first
  <2>2. /\ pc = "assign" /\ pc' = "tls" /\ UNCHANGED <<link, multi, bfd2got>>
        /\ \A h \in GotIds : h # g => gots'[h] = gots[h]
        /\ Same(gots[g], gots'[g])
    BY <1>0, <1>7, <2>1, AssignRangeStep
  <2>3. QED
    BY <1>5, <1>6, <2>2 DEF Late
<1>8. ASSUME NEW e \in todo, InitializeTlsIndex(e) PROVE PagesCharged'
  <2> DEFINE g == order[Len(order)]
  <2>1. g = order[Len(order)]
    OBVIOUS
  <2> HIDE DEF g
  <2>2. /\ pc = "tls" /\ UNCHANGED <<pc, link, multi, bfd2got>>
        /\ \A h \in GotIds : h # g => gots'[h] = gots[h]
        /\ Same(gots[g], gots'[g])
    BY <1>0, <1>8, <2>1, InitializeTlsStep
  <2>3. QED
    BY <1>5, <1>6, <2>2 DEF Late
<1>9. CASE NextGot \/ (\E g \in GotIds : SetGlobalGotOffsets(g)) \/ SortDynsyms \/ FinishLink
  <2>1. pc \in Late /\ pc' \in Late /\ UNCHANGED <<link, multi, bfd2got, gots>>
    BY <1>9, BaseRest
  <2>2. QED
    BY <1>5, <1>6, <2>1
<1>10. ASSUME NEW b \in Bfds, RelocateBfd(b) PROVE PagesCharged'
  <2> DEFINE g == bfd2got[b]
  <2>1. g = bfd2got[b]
    OBVIOUS
  <2> HIDE DEF g
  <2>2. /\ pc = "relocate" /\ UNCHANGED <<pc, link, multi, bfd2got>>
        /\ \A h \in GotIds : h # g => gots'[h] = gots[h]
        /\ Same(gots[g], gots'[g])
    BY <1>0, <1>10, <2>1, RelocateBfdStep
  <2>3. QED
    BY <1>5, <1>6, <2>2 DEF Late
<1>11. CASE UNCHANGED vars
  BY <1>11 DEF vars, PagesCharged, Users
<1>12. QED
  BY <1>1, <1>2, <1>3, <1>4, <1>7, <1>8, <1>9, <1>10, <1>11 DEF Next, GotIds

-----------------------------------------------------------------------------
(***************************************************************************)
(* Ranges: each GOT in line begins where the one before it ends, and its   *)
(* local area has room for its local entries and its pages.                *)
(***************************************************************************)
EndIn(G, g) == G[g].local_gotno + G[g].global_gotno + G[g].tls_gotno

BaseIn(G, o, i) == IF i = 1 THEN 0 ELSE EndIn(G, o[i - 1])

\* The local slots of a GOT that are in use.
LocalsOf(L, g) == {p \in L : p[1] = g}

\* What the local area of a single GOT is for.
LocalNames(l) == {e \in l.entries : ~IsTls(e) /\ e.sym \in LocalSyms}
BoundIn(l) == {s \in l.binds_local : \E e \in l.entries : e.sym = s /\ ~IsTls(e)}

Ranges ==
  /\ IsFiniteSet(local_entries)
  /\ pc \notin {"relocate", "finished"} => local_entries = {}
  /\ pc \in Late => \A i \in 1..Len(order) :
       gots[order[i]].assigned_gotno
         = BaseIn(gots, order, i) + Reserved + Cardinality(LocalsOf(local_entries, order[i]))
  /\ pc \in Late /\ multi => \A i \in 1..Len(order) :
       gots[order[i]].local_gotno
         = BaseIn(gots, order, i) + Reserved + Cardinality(LocalIn(link, gots[order[i]].entries))
             + Min2(link.pages, gots[order[i]].page_gotno)
  /\ pc # "layout" /\ ~multi =>
       gots[OutputBfd].local_gotno
         = Reserved + Cardinality(LocalNames(link)) + Cardinality(BoundIn(link)) + link.pages

\* Ends and beginnings are numbers.
LEMMA EndInNat ==
  ASSUME NEW G \in [GotIds -> GotInfo]
  PROVE  /\ \A g \in GotIds : EndIn(G, g) \in Nat /\ G[g] \in GotInfo
         /\ \A o \in Seq(GotIds) : \A i \in 1..Len(o) : BaseIn(G, o, i) \in Nat
<1>1. \A g \in GotIds : EndIn(G, g) \in Nat /\ G[g] \in GotInfo
  BY DEF EndIn, GotInfo
<1>2. ASSUME NEW o \in Seq(GotIds), NEW i \in 1..Len(o) PROVE BaseIn(G, o, i) \in Nat
  <2>1. i # 1 => o[i - 1] \in GotIds
    OBVIOUS
  <2>2. QED
    BY <1>1, <2>1 DEF BaseIn
<1>3. QED
  BY <1>1, <1>2

\* The local slots of a GOT that are in use are finitely many.
LEMMA LocalsCount ==
  ASSUME NEW L, IsFiniteSet(L), NEW g
  PROVE  /\ IsFiniteSet(LocalsOf(L, g)) /\ Cardinality(LocalsOf(L, g)) \in Nat
         /\ L = {} => Cardinality(LocalsOf(L, g)) = 0
<1>1. LocalsOf(L, g) \subseteq L
  BY DEF LocalsOf
<1>2. IsFiniteSet(LocalsOf(L, g)) /\ Cardinality(LocalsOf(L, g)) \in Nat
  BY <1>1, FS_Subset, FS_CardinalityType
<1>3. ASSUME L = {} PROVE Cardinality(LocalsOf(L, g)) = 0
  <2>1. LocalsOf(L, g) = {}
    BY <1>3 DEF LocalsOf
  <2>2. QED
    BY <2>1, FS_EmptySet
<1>4. QED
  BY <1>2, <1>3

\* A step that moves no range and counts the local slots that it takes.
LEMMA RangesKept ==
  ASSUME Base, Ranges, pc \in Late, pc' \in Late, UNCHANGED <<link, multi, order>>,
         gots' \in [GotIds -> GotInfo],
         \A h \in GotIds : /\ Same(gots[h], gots'[h])
                           /\ gots'[h].local_gotno = gots[h].local_gotno,
         \A h \in GotIds :
           gots'[h].assigned_gotno + Cardinality(LocalsOf(local_entries, h))
             = gots[h].assigned_gotno + Cardinality(LocalsOf(local_entries', h)),
         IsFiniteSet(local_entries'),
         pc' \notin {"relocate", "finished"} => local_entries' = {}
  PROVE  Ranges'
<1>1. /\ order \in Seq(GotIds) /\ gots \in [GotIds -> GotInfo]
      /\ IsFiniteSet(local_entries)
  BY DEF Base, Shape, Types, Ranges
<1>2. \A h \in GotIds : EndIn(gots', h) = EndIn(gots, h)
  BY DEF EndIn, Same
<1>3. ASSUME NEW i \in 1..Len(order)
      PROVE  /\ BaseIn(gots', order, i) = BaseIn(gots, order, i)
             /\ BaseIn(gots, order, i) \in Nat /\ order[i] \in GotIds
  <2>1. i # 1 => order[i - 1] \in GotIds
    BY <1>1
  <2>2. BaseIn(gots', order, i) = BaseIn(gots, order, i)
    BY <1>2, <2>1 DEF BaseIn
  <2>3. QED
    BY <1>1, <2>2, EndInNat
<1>4. ASSUME NEW i \in 1..Len(order)
      PROVE  gots'[order[i]].assigned_gotno
               = BaseIn(gots', order, i) + Reserved
                   + Cardinality(LocalsOf(local_entries', order[i]))
  <2> DEFINE b == BaseIn(gots, order, i)
             n == Cardinality(LocalsOf(local_entries, order[i]))
             m == Cardinality(LocalsOf(local_entries', order[i]))
  <2>1. n \in Nat /\ m \in Nat /\ b \in Nat /\ Reserved \in Nat
    BY <1>1, <1>3, LocalsCount, SizesAssumption
  <2>2. gots[order[i]].assigned_gotno = b + Reserved + n
    BY DEF Ranges
  <2>3. /\ gots'[order[i]].assigned_gotno + n = gots[order[i]].assigned_gotno + m
        /\ gots'[order[i]].assigned_gotno \in Nat
    BY <1>1, <1>3, EndInNat DEF GotInfo
  <2> HIDE DEF b, n, m
  <2>4. gots'[order[i]].assigned_gotno = b + Reserved + m
    BY <2>1, <2>2, <2>3
  <2>5. QED
    BY <1>3, <2>4 DEF b, m
<1>5. ASSUME multi, NEW i \in 1..Len(order)
      PROVE  gots'[order[i]].local_gotno
               = BaseIn(gots', order, i) + Reserved
                   + Cardinality(LocalIn(link, gots'[order[i]].entries))
                   + Min2(link.pages, gots'[order[i]].page_gotno)
  BY <1>3, <1>5 DEF Ranges, Same
<1>6. ~multi => gots'[OutputBfd].local_gotno
                  = Reserved + Cardinality(LocalNames(link)) + Cardinality(BoundIn(link))
                      + link.pages
  BY DEF Ranges, Late, GotIds
<1>7. QED
  BY <1>4, <1>5, <1>6 DEF Ranges

\* A range is given out: it begins where the last one ends.
LEMMA RangesAssign == Base /\ Ranges /\ AssignRange => Ranges'
<1> SUFFICES ASSUME Base, Ranges, AssignRange PROVE Ranges'
  OBVIOUS
<1>0. Shape /\ Counts
  BY DEF Base
<1> DEFINE g == Head(chain)
           first == LastEnd + Reserved
<1>1. first = LastEnd + Reserved /\ g = Head(chain)
  OBVIOUS
<1> HIDE DEF g, first
<1>2. /\ pc = "assign" /\ pc' = "tls" /\ link \in Links /\ multi
      /\ g \in GotIds /\ g \notin Range(order)
      /\ first \in Nat /\ LastEnd \in Nat
      /\ order' \in Seq(GotIds)
      /\ order' = Append(order, g)
      /\ order'[Len(order')] = g
      /\ Len(order') = Len(order) + 1 /\ \A i \in 1..Len(order) : order'[i] = order[i]
      /\ gots' \in [GotIds -> GotInfo]
      /\ \A h \in GotIds : h # g => gots'[h] = gots[h]
      /\ Same(gots[g], gots'[g])
      /\ gots'[g].assigned_gotno = first
      /\ gots'[g].local_gotno
           = gots[g].local_gotno + first + PageEntries(gots[g].page_gotno)
      /\ UNCHANGED <<link, multi, local_entries>>
  BY <1>0, <1>1, AssignRangeStep
<1>3. order \in Seq(GotIds) /\ \A i \in 1..Len(order) : order[i] \in GotIds /\ order[i] # g
  BY <1>0, <1>2, RangeIs DEF Shape, Types
<1>4. local_entries = {} /\ local_entries' = {} /\ IsFiniteSet(local_entries')
  BY <1>2, FS_EmptySet DEF Ranges
<1>5. gots[g].local_gotno = Cardinality(LocalIn(link, gots[g].entries))
  BY <1>0, <1>2 DEF Counts, LateCounts, Late
<1>6. ASSUME NEW i \in 1..Len(order)
      PROVE  BaseIn(gots', order', i) = BaseIn(gots, order, i)
  <2>1. i # 1 => order[i - 1] \in GotIds /\ order[i - 1] # g /\ order'[i - 1] = order[i - 1]
    BY <1>2, <1>3
  <2>2. QED
    BY <1>2, <2>1 DEF BaseIn, EndIn
<1>7. BaseIn(gots', order', Len(order')) = LastEnd
  <2>1. CASE order = <<>>
    <3>1. Len(order') = 1
      BY <1>2, <2>1
    <3>2. QED
      BY <2>1, <3>1 DEF BaseIn, LastEnd
  <2>2. CASE order # <<>>
    <3>1. Len(order') # 1 /\ Len(order') - 1 = Len(order) /\ Len(order) \in 1..Len(order)
      BY <1>2, <1>3, <2>2
    <3>2. order'[Len(order') - 1] = order[Len(order)] /\ order[Len(order)] # g
          /\ order[Len(order)] \in GotIds
      BY <1>2, <1>3, <3>1
    <3>3. QED
      BY <1>2, <2>2, <3>1, <3>2 DEF BaseIn, EndIn, LastEnd, EndOf
  <2>3. QED
    BY <2>1, <2>2
<1>8. ASSUME NEW i \in 1..Len(order')
      PROVE  /\ gots'[order'[i]].assigned_gotno
                  = BaseIn(gots', order', i) + Reserved
                      + Cardinality(LocalsOf(local_entries', order'[i]))
             /\ gots'[order'[i]].local_gotno
                  = BaseIn(gots', order', i) + Reserved
                      + Cardinality(LocalIn(link, gots'[order'[i]].entries))
                      + Min2(link.pages, gots'[order'[i]].page_gotno)
  <2>1. CASE i \in 1..Len(order)
    <3>1. /\ BaseIn(gots', order', i) = BaseIn(gots, order, i)
          /\ order'[i] = order[i] /\ gots'[order[i]] = gots[order[i]]
      BY <1>2, <1>3, <1>6, <2>1
    <3>2. QED
      BY <1>2, <1>4, <2>1, <3>1 DEF Ranges, Late
  <2>2. CASE i = Len(order')
    <3>1. order'[i] = g /\ BaseIn(gots', order', i) = LastEnd
      BY <1>2, <1>7, <2>2
    <3>2. Cardinality(LocalsOf(local_entries', g)) = 0
      BY <1>4, LocalsCount
    <3>3. gots'[g].assigned_gotno = LastEnd + Reserved + 0
      BY <1>1, <1>2, SizesAssumption
    <3> DEFINE n == Cardinality(LocalIn(link, gots[g].entries))
               m == Min2(link.pages, gots[g].page_gotno)
    <3>4. /\ n \in Nat /\ m \in Nat
          /\ gots'[g].local_gotno = n + (LastEnd + Reserved) + m
      <4>1. gots[g].local_gotno \in Nat /\ gots[g].page_gotno \in Nat
        BY <1>0, <1>2 DEF Shape, Types, GotInfo
      <4>2. PageEntries(gots[g].page_gotno) = m /\ m \in Nat
        BY <1>2, <4>1, PageEntriesNat DEF PageEntries
      <4>3. n \in Nat /\ gots[g].local_gotno = n
        BY <1>5, <4>1
      <4> HIDE DEF m, n
      <4>4. QED
        BY <1>1, <1>2, <4>2, <4>3
    <3> HIDE DEF n, m
    <3>5. gots'[g].local_gotno = LastEnd + Reserved + n + m
      BY <1>2, <3>4, SizesAssumption
    <3>6. QED
      BY <1>2, <3>1, <3>2, <3>3, <3>5 DEF n, m, Same
  <2>3. QED
    BY <1>2, <2>1, <2>2
<1>9. QED
  BY <1>2, <1>4, <1>8 DEF Ranges

\* The range of a single GOT.
LEMMA RangesLayOutSingle == Base /\ Ranges /\ LayOutSingle => Ranges'
<1> SUFFICES ASSUME Base, Ranges, LayOutSingle PROVE Ranges'
  OBVIOUS
<1>0. Shape /\ link \in Links /\ gots \in [GotIds -> GotInfo] /\ OutputBfd \in GotIds
  BY DEF Base, Shape, Types, GotIds
<1>1. /\ pc = "layout" /\ pc' = "tls" /\ ~multi /\ order' = <<OutputBfd>>
      /\ UNCHANGED <<link, multi, local_entries>>
  BY <1>0 DEF LayOutSingle, LayOutGot, Shape, Kind
<1> DEFINE end == SingleGot.local_gotno + SingleGot.global_gotno
<1>2. gots' = [gots EXCEPT ![OutputBfd] = [SingleGot EXCEPT !.tls_assigned_gotno = end]]
  BY DEF LayOutSingle
<1>3. SingleGot \in GotInfo /\ SingleGot.assigned_gotno = Reserved
  BY <1>0, <1>1, SingleGotIs
<1> HIDE DEF end
<1>4. /\ gots'[OutputBfd].assigned_gotno = Reserved
      /\ gots'[OutputBfd].local_gotno = SingleGot.local_gotno
  BY <1>0, <1>2, <1>3 DEF GotInfo
<1>5. {s \in link.binds_local : RecordedArea(s) = "NORMAL"} = BoundIn(link)
  BY DEF RecordedArea, BoundIn
<1>6. SingleGot.local_gotno
        = Reserved + Cardinality(LocalNames(link)) + Cardinality(BoundIn(link)) + link.pages
  BY <1>0, <1>1, <1>5, SingleGotIs DEF LocalNames
<1>7. local_entries' = {} /\ IsFiniteSet(local_entries')
  BY <1>1, FS_EmptySet DEF Ranges
<1>8. ASSUME NEW i \in 1..Len(order')
      PROVE  gots'[order'[i]].assigned_gotno
               = BaseIn(gots', order', i) + Reserved
                   + Cardinality(LocalsOf(local_entries', order'[i]))
  <2>1. i = 1 /\ order'[i] = OutputBfd
    BY <1>1
  <2>2. Cardinality(LocalsOf(local_entries', order'[i])) = 0
    BY <1>7, LocalsCount
  <2>3. BaseIn(gots', order', i) = 0
    BY <2>1 DEF BaseIn
  <2>4. QED
    BY <1>4, <2>1, <2>2, <2>3, SizesAssumption
<1>9. QED
  BY <1>1, <1>4, <1>6, <1>7, <1>8 DEF Ranges

\* Local slots are used up.
LEMMA RangesRelocate ==
  ASSUME Base, Ranges, NEW b \in Bfds, RelocateBfd(b)
  PROVE  Ranges'
<1>0. Shape
  BY DEF Base
<1> DEFINE g == bfd2got[b]
<1>1. g = bfd2got[b]
  OBVIOUS
<1> HIDE DEF g
<1>2. /\ pc = "relocate" /\ g \in GotIds
      /\ gots' \in [GotIds -> GotInfo]
      /\ \A h \in GotIds : h # g => gots'[h] = gots[h]
      /\ Same(gots[g], gots'[g])
      /\ gots'[g].local_gotno = gots[g].local_gotno
      /\ UNCHANGED <<pc, link, multi, order>>
  BY <1>0, <1>1, RelocateBfdStep
<1>3. PICK pages \in SUBSET (1..link.pages) :
        /\ local_entries' = local_entries \cup NewLocals(b, pages)
        /\ IsFiniteSet(NewLocals(b, pages))
        /\ gots'[g].assigned_gotno
             = gots[g].assigned_gotno + Cardinality(NewLocals(b, pages))
  BY <1>0, <1>1, RelocateBfdStep
<1> DEFINE N == NewLocals(b, pages)
<1>4. N \cap local_entries = {} /\ \A p \in N : p[1] = g
  BY <1>1 DEF NewLocals
<1>5. /\ IsFiniteSet(N) /\ local_entries' = local_entries \cup N
      /\ gots'[g].assigned_gotno = gots[g].assigned_gotno + Cardinality(N)
  BY <1>3
<1> HIDE DEF N
<1>6. IsFiniteSet(local_entries) /\ IsFiniteSet(local_entries')
  BY <1>5, FS_Union DEF Ranges
<1>7. \A h \in GotIds : Same(gots[h], gots'[h]) /\ gots'[h].local_gotno = gots[h].local_gotno
  BY <1>0, <1>2, SameRefl DEF Shape, Types
<1>8. ASSUME NEW h \in GotIds
      PROVE  gots'[h].assigned_gotno + Cardinality(LocalsOf(local_entries, h))
               = gots[h].assigned_gotno + Cardinality(LocalsOf(local_entries', h))
  <2>1. CASE h # g
    <3>1. LocalsOf(local_entries', h) = LocalsOf(local_entries, h)
      BY <1>4, <1>5, <2>1 DEF LocalsOf
    <3>2. QED
      BY <1>2, <2>1, <3>1
  <2>2. CASE h = g
    <3>1. /\ LocalsOf(local_entries', g) = LocalsOf(local_entries, g) \cup N
          /\ LocalsOf(local_entries, g) \cap N = {}
      BY <1>4, <1>5 DEF LocalsOf
    <3>2. IsFiniteSet(LocalsOf(local_entries, g))
      BY <1>6, LocalsCount
    <3> DEFINE m == Cardinality(LocalsOf(local_entries, g))
               n == Cardinality(N)
    <3>3. Cardinality(LocalsOf(local_entries', g)) = m + n /\ m \in Nat /\ n \in Nat
      BY <1>5, <3>1, <3>2, UnionCard
    <3>4. gots[g].assigned_gotno \in Nat /\ gots'[g].assigned_gotno = gots[g].assigned_gotno + n
      BY <1>0, <1>2, <1>5 DEF Shape, Types, GotInfo
    <3> HIDE DEF m, n
    <3>5. gots'[g].assigned_gotno + m = gots[g].assigned_gotno + (m + n)
      BY <3>3, <3>4
    <3>6. QED
      BY <2>2, <3>3, <3>5 DEF m
  <2>3. QED
    BY <2>1, <2>2
<1>9. QED
  BY <1>2, <1>6, <1>7, <1>8, RangesKept DEF Late

\* Ranges in every step.
LEMMA RangesNext == Base /\ Ranges /\ [Next]_vars => Ranges'
<1> SUFFICES ASSUME Base, Ranges, [Next]_vars PROVE Ranges'
  OBVIOUS
<1>0. Shape /\ Counts /\ gots \in [GotIds -> GotInfo]
  BY DEF Base, Shape, Types
<1>1. CASE SplitGot
  <2>1. /\ pc = "layout" /\ pc' = "split" /\ multi' /\ UNCHANGED local_entries
    BY <1>1 DEF SplitGot, LayOutGot
  <2>2. QED
    BY <2>1 DEF Ranges, Late
<1>2. CASE MakeGotPerBfd \/ (\E b \in Bfds : MergeGot(b))
  <2>1. pc \in {"split", "merge"} /\ pc' = "merge" /\ UNCHANGED <<local_entries, multi>>
    BY <1>2 DEF MakeGotPerBfd, MergeGot, MergeUnchanged
  <2>2. multi
    BY <1>0, <2>1 DEF Shape, Kind
  <2>3. QED
    BY <2>1, <2>2 DEF Ranges, Late
<1>3. CASE ChoosePrimary
  <2>1. /\ pc = "merge" /\ pc' = "assign" /\ multi /\ multi' = multi /\ order' = <<>>
        /\ UNCHANGED local_entries
    BY <1>0, <1>3, ChoosePrimaryStep
  <2>2. QED
    BY <2>1 DEF Ranges
<1>4. ASSUME NEW e \in todo, InitializeTlsIndex(e) PROVE Ranges'
  <2> DEFINE g == order[Len(order)]
  <2>1. g = order[Len(order)]
    OBVIOUS
  <2> HIDE DEF g
  <2>2. /\ pc = "tls" /\ UNCHANGED <<pc, link, multi, order, local_entries>>
        /\ gots' \in [GotIds -> GotInfo]
        /\ \A h \in GotIds : h # g => gots'[h] = gots[h]
        /\ Same(gots[g], gots'[g])
        /\ gots'[g].local_gotno = gots[g].local_gotno
        /\ gots'[g].assigned_gotno = gots[g].assigned_gotno
    BY <1>0, <1>4, <2>1, InitializeTlsStep
  <2>3. /\ \A h \in GotIds : Same(gots[h], gots'[h])
        /\ \A h \in GotIds : gots'[h].local_gotno = gots[h].local_gotno
        /\ \A h \in GotIds : gots'[h].assigned_gotno = gots[h].assigned_gotno
    BY <1>0, <2>2, SameRefl
  <2>4. IsFiniteSet(local_entries') /\ local_entries' = {}
    BY <2>2 DEF Ranges
  <2>5. \A h \in GotIds :
          gots'[h].assigned_gotno + Cardinality(LocalsOf(local_entries, h))
            = gots[h].assigned_gotno + Cardinality(LocalsOf(local_entries', h))
    BY <2>2, <2>3
  <2>6. QED
    BY <2>2, <2>3, <2>4, <2>5, RangesKept DEF Late
<1>5. ASSUME pc \in Late, pc' \in Late, UNCHANGED <<link, multi, order, gots, local_entries>>,
             pc' \notin {"relocate", "finished"} => pc \notin {"relocate", "finished"}
      PROVE  Ranges'
  <2>1. \A h \in GotIds : Same(gots[h], gots'[h]) /\ gots'[h].local_gotno = gots[h].local_gotno
    BY <1>0, <1>5, SameRefl
  <2>2. \A h \in GotIds :
          gots'[h].assigned_gotno + Cardinality(LocalsOf(local_entries, h))
            = gots[h].assigned_gotno + Cardinality(LocalsOf(local_entries', h))
    BY <1>5
  <2>3. /\ IsFiniteSet(local_entries')
        /\ pc' \notin {"relocate", "finished"} => local_entries' = {}
    BY <1>5 DEF Ranges
  <2>4. QED
    BY <1>0, <1>5, <2>1, <2>2, <2>3, RangesKept
<1>6. CASE NextGot \/ (\E g \in GotIds : SetGlobalGotOffsets(g)) \/ SortDynsyms \/ FinishLink
  <2>1. /\ pc \in Late /\ pc' \in Late
        /\ UNCHANGED <<link, multi, order, gots, local_entries>>
    BY <1>6, BaseRest
  <2>2. pc' \notin {"relocate", "finished"} => pc \notin {"relocate", "finished"}
    BY <1>6 DEF NextGot, SetGlobalGotOffsets, SortDynsyms, FinishLink
  <2>3. QED
    BY <1>5, <2>1, <2>2
<1>7. ASSUME UNCHANGED vars PROVE Ranges'
  BY <1>7 DEF vars, Ranges
<1>8. QED
  BY <1>1, <1>2, <1>3, <1>4, <1>6, <1>7, RangesLayOutSingle, RangesAssign, RangesRelocate
     DEF Next, GotIds

\* Ranges at the beginning.
LEMMA RangesInit == Init => Ranges
BY FS_EmptySet DEF Init, Ranges, Late

-----------------------------------------------------------------------------
(***************************************************************************)
(* What takes the local slots: entries that the GOT has counted, and no    *)
(* more pages than its bfds have announced.                                *)
(***************************************************************************)
LocalKeys(l, E) == {Key(e) : e \in LocalIn(l, E)}

PagesTaken ==
  pc \in {"relocate", "finished"} => \A g \in GotIds :
    \E P \in SUBSET (1..link.pages) :
      /\ Cardinality(P) <= SumFunctionOnSet(link.page_gotno, Users(g) \ todo)
      /\ \A p \in local_entries : p[1] = g =>
           \E a \in LocalKeys(link, IF multi THEN gots[g].entries ELSE link.entries)
                      \cup {<<OutputBfd, q>> : q \in P} : p = <<g, a>>

\* The GOT of a bfd has an entry for each of its local addresses.
LEMMA LocalsCovered ==
  ASSUME Base, pc = "relocate", NEW b \in Bfds, NEW e \in link.entries, e.abfd = b,
         InLocalArea(e)
  PROVE  Key(e) \in LocalKeys(link, IF multi THEN gots[bfd2got[b]].entries ELSE link.entries)
<1>1. link \in Links /\ AreasFinal(link, area) /\ pc \in Late /\ bfd2got[b] \in GotIds
  BY DEF Base, Shape, Types, AreaSettled, Late
<1>2. LocalOf(link, e)
  BY <1>1, AreaFacts
<1>3. CASE ~multi
  BY <1>2, <1>3 DEF LocalKeys, LocalIn
<1>4. CASE multi
  <2>1. PICK f \in gots[bfd2got[b]].entries : Key(f) = Key(e)
    BY <1>1, <1>4 DEF Base, Counts, Covered, Covers, EntriesIn
  <2>2. f \in link.entries
    BY <1>1, <1>4, <2>1 DEF Base, Counts, LateCounts
  <2>3. f.sym = e.sym /\ (e.sym \in LocalSyms => f.abfd = e.abfd)
    BY <2>1 DEF Key
  <2>4. ~IsTls(f)
    <3>1. CASE e.sym \in LocalSyms
      BY <1>1, <1>2, <2>2, <2>3, <3>1, EntriesAssumption DEF LocalOf
    <3>2. CASE e.sym \in Syms
      BY <1>1, <1>2, <2>2, <2>3, <3>2, EntriesAssumption DEF LocalOf
    <3>3. QED
      BY <1>2, <3>1, <3>2 DEF LocalOf
  <2>5. LocalOf(link, f)
    BY <1>2, <2>3, <2>4 DEF LocalOf
  <2>6. QED
    BY <1>4, <2>1, <2>5 DEF LocalKeys, LocalIn
<1>5. QED
  BY <1>3, <1>4

\* Pages are as many as announced when the last of the bfds has been relocated.
LEMMA PagesTakenKept ==
  ASSUME PagesTaken, pc \in {"relocate", "finished"}, UNCHANGED <<link, bfd2got, multi, todo>>,
         local_entries' = local_entries,
         \A g \in GotIds : gots'[g].entries = gots[g].entries
  PROVE  PagesTaken'
BY DEF PagesTaken, Users

\* The pages of a bfd that is relocated.
LEMMA PagesTakenRelocate ==
  ASSUME Base, PagesTaken, NEW b \in Bfds, RelocateBfd(b)
  PROVE  PagesTaken'
<1>0. Shape
  BY DEF Base
<1> DEFINE g == bfd2got[b]
<1>1. g = bfd2got[b]
  OBVIOUS
<1> HIDE DEF g
<1>2. /\ pc = "relocate" /\ g \in GotIds /\ link \in Links /\ b \in todo /\ todo' = todo \ {b}
      /\ \A h \in GotIds : h # g => gots'[h] = gots[h]
      /\ Same(gots[g], gots'[g])
      /\ UNCHANGED <<pc, link, multi, bfd2got>>
  BY <1>0, <1>1, RelocateBfdStep
<1>3. PICK pages \in SUBSET (1..link.pages) :
        /\ Cardinality(pages) = PageEntries(link.page_gotno[b])
        /\ local_entries' = local_entries \cup NewLocals(b, pages)
  BY <1>0, <1>1, RelocateBfdStep
<1>4. \A h \in GotIds : gots'[h].entries = gots[h].entries
  BY <1>2 DEF Same
<1> DEFINE keys(h) == LocalKeys(link, IF multi THEN gots[h].entries ELSE link.entries)
<1>5. \A h \in GotIds :
        LocalKeys(link, IF multi THEN gots'[h].entries ELSE link.entries) = keys(h)
  BY <1>4
<1>6. \A a \in Addresses(b, pages) : a \in keys(g) \cup {<<OutputBfd, q>> : q \in pages}
  <2>1. \A e \in EntriesOf(b) : InLocalArea(e) => Key(e) \in keys(g)
    BY <1>1, <1>2, LocalsCovered DEF EntriesOf
  <2> HIDE DEF keys
  <2>2. QED
    BY <2>1 DEF Addresses
<1>7. link.pages \in Nat /\ link.page_gotno[b] \in Nat
  BY <1>2, LinkFacts
<1>8. IsFiniteSet(1..link.pages)
  BY <1>7, FS_Interval
<1> HIDE DEF keys
<1> DEFINE ok(P, h) ==
             /\ Cardinality(P) <= SumFunctionOnSet(link.page_gotno, Users(h)' \ todo')
             /\ \A p \in local_entries' : p[1] = h =>
                  \E a \in keys(h) \cup {<<OutputBfd, q>> : q \in P} : p = <<h, a>>
<1>9. ASSUME NEW h \in GotIds
      PROVE  \E P \in SUBSET (1..link.pages) : ok(P, h)
  <2>1. PICK P \in SUBSET (1..link.pages) :
          /\ Cardinality(P) <= SumFunctionOnSet(link.page_gotno, Users(h) \ todo)
          /\ \A p \in local_entries : p[1] = h =>
               \E a \in keys(h) \cup {<<OutputBfd, q>> : q \in P} : p = <<h, a>>
    BY <1>2 DEF PagesTaken, keys
  <2>2. Users(h)' = Users(h) /\ Users(h) \in SUBSET Bfds
    BY <1>2 DEF Users
  <2>3. CASE h # g
    <3>1. Users(h)' \ todo' = Users(h) \ todo
      BY <1>1, <1>2, <2>2, <2>3 DEF Users
    <3>2. \A p \in local_entries' : p[1] = h => p \in local_entries
      BY <1>1, <1>3, <2>3 DEF NewLocals
    <3>3. QED
      BY <2>1, <3>1, <3>2
  <2>4. CASE h = g
    <3> DEFINE Q == P \cup pages
               U == Users(h) \ todo
    <3>1. Users(h)' \ todo' = U \cup {b} /\ U \in SUBSET Bfds /\ b \in Bfds \ U
      <4>1. Users(h)' = Users(h) /\ b \in Users(h) /\ Users(h) \in SUBSET Bfds
        BY <1>1, <2>2, <2>4 DEF Users
      <4>2. QED
        BY <1>2, <4>1
    <3>2. SumFunctionOnSet(link.page_gotno, U \cup {b})
            = link.page_gotno[b] + SumFunctionOnSet(link.page_gotno, U)
      BY <1>2, <3>1, PageSum
    <3>3. Cardinality(Q) <= Cardinality(P) + Cardinality(pages)
          /\ Cardinality(P) \in Nat /\ Cardinality(pages) \in Nat /\ Cardinality(Q) \in Nat
      <4>1. IsFiniteSet(P) /\ IsFiniteSet(pages)
        BY <1>8, FS_Subset
      <4>2. /\ IsFiniteSet(P \cup pages) /\ IsFiniteSet(P \cap pages)
            /\ Cardinality(P \cup pages)
                 = Cardinality(P) + Cardinality(pages) - Cardinality(P \cap pages)
        BY <4>1, FS_Union, FS_Subset
      <4>3. /\ Cardinality(P) \in Nat /\ Cardinality(pages) \in Nat
            /\ Cardinality(P \cap pages) \in Nat /\ Cardinality(P \cup pages) \in Nat
        BY <4>1, <4>2, FS_CardinalityType
      <4> DEFINE cp == Cardinality(P)
                 cg == Cardinality(pages)
                 ci == Cardinality(P \cap pages)
                 cu == Cardinality(P \cup pages)
      <4>4. cu = cp + cg - ci /\ cp \in Nat /\ cg \in Nat /\ ci \in Nat /\ cu \in Nat
        BY <4>2, <4>3
      <4> HIDE DEF cp, cg, ci, cu
      <4>5. cu <= cp + cg
        BY <4>4
      <4>6. QED
        BY <4>4, <4>5 DEF cp, cg, cu
    <3>4. Cardinality(pages) <= link.page_gotno[b]
      BY <1>2, <1>3, <1>7, PageEntriesNat
    <3>5. SumFunctionOnSet(link.page_gotno, U) \in Nat
      BY <1>2, <3>1, PageSum
    <3>6. Cardinality(P) <= SumFunctionOnSet(link.page_gotno, U)
      BY <2>1
    <3> HIDE DEF U
    <3>7. Cardinality(Q) <= SumFunctionOnSet(link.page_gotno, Users(h)' \ todo')
      <4> DEFINE cq == Cardinality(Q)
                 cp == Cardinality(P)
                 cg == Cardinality(pages)
                 su == SumFunctionOnSet(link.page_gotno, U)
                 pb == link.page_gotno[b]
      <4>1. /\ cq <= cp + cg /\ cg <= pb /\ cp <= su /\ cp \in Nat /\ cg \in Nat /\ cq \in Nat
            /\ su \in Nat /\ pb \in Nat
            /\ SumFunctionOnSet(link.page_gotno, Users(h)' \ todo') = pb + su
        BY <1>7, <3>1, <3>2, <3>3, <3>4, <3>5, <3>6
      <4> HIDE DEF cq, cp, cg, su, pb
      <4>2. cq <= SumFunctionOnSet(link.page_gotno, Users(h)' \ todo')
        BY <4>1
      <4>3. QED
        BY <4>2 DEF cq
    <3>8. \A p \in local_entries' : p[1] = h =>
            \E a \in keys(h) \cup {<<OutputBfd, q>> : q \in Q} : p = <<h, a>>
      <4>1. ASSUME NEW p \in local_entries', p[1] = h, p \in local_entries
            PROVE  \E a \in keys(h) \cup {<<OutputBfd, q>> : q \in Q} : p = <<h, a>>
        BY <2>1, <4>1
      <4>2. ASSUME NEW p \in NewLocals(b, pages)
            PROVE  \E a \in keys(h) \cup {<<OutputBfd, q>> : q \in Q} : p = <<h, a>>
        <5>1. PICK a \in Addresses(b, pages) : p = <<h, a>>
          BY <1>1, <2>4, <4>2 DEF NewLocals
        <5>2. a \in keys(h) \cup {<<OutputBfd, q>> : q \in Q}
          BY <1>6, <2>4, <5>1
        <5>3. QED
          BY <5>1, <5>2
      <4>3. QED
        BY <1>3, <4>1, <4>2
    <3>9. Q \in SUBSET (1..link.pages)
      OBVIOUS
    <3>10. ok(Q, h)
      BY <3>7, <3>8
    <3> HIDE DEF Q, ok
    <3>11. QED
      BY <3>9, <3>10
  <2>5. QED
    BY <2>3, <2>4
<1>10. QED
  BY <1>2, <1>5, <1>9 DEF PagesTaken

\* PagesTaken in every step.
LEMMA PagesTakenNext == Base /\ Ranges /\ PagesTaken /\ [Next]_vars => PagesTaken'
<1> SUFFICES ASSUME Base, Ranges, PagesTaken, [Next]_vars PROVE PagesTaken'
  OBVIOUS
<1>1. CASE \/ LayOutSingle \/ SplitGot \/ MakeGotPerBfd \/ (\E b \in Bfds : MergeGot(b))
           \/ ChoosePrimary \/ AssignRange \/ (\E e \in todo : InitializeTlsIndex(e))
           \/ NextGot \/ (\E g \in GotIds : SetGlobalGotOffsets(g))
  <2>1. pc' \notin {"relocate", "finished"}
    BY <1>1 DEF LayOutSingle, SplitGot, MakeGotPerBfd, MergeGot, MergeUnchanged, ChoosePrimary,
                AssignRange, InitializeTlsIndex, NextGot, SetGlobalGotOffsets
  <2>2. QED
    BY <2>1 DEF PagesTaken
<1>2. CASE SortDynsyms
  <2>1. pc = "offsets" /\ todo' = Bfds /\ local_entries' = local_entries /\ link' = link
    BY <1>2 DEF SortDynsyms
  <2>2. local_entries' = {}
    BY <2>1 DEF Ranges
  <2>3. ASSUME NEW g \in GotIds
        PROVE  /\ {} \in SUBSET (1..link.pages)
               /\ Cardinality({}) <= SumFunctionOnSet(link.page_gotno, Users(g)' \ todo')
    <3>1. Users(g)' \ todo' = {}
      BY <2>1 DEF Users
    <3>2. QED
      BY <3>1, SumEmpty, FS_EmptySet
  <2>4. QED
    BY <2>1, <2>2, <2>3 DEF PagesTaken
<1>3. CASE FinishLink
  <2>1. pc = "relocate" /\ UNCHANGED <<link, bfd2got, multi, todo, gots, local_entries>>
    BY <1>3 DEF FinishLink
  <2>2. QED
    BY <2>1, PagesTakenKept
<1>4. CASE UNCHANGED vars
  <2>1. UNCHANGED <<pc, link, bfd2got, multi, todo, gots, local_entries>>
    BY <1>4 DEF vars
  <2>2. CASE pc \in {"relocate", "finished"}
    BY <2>1, <2>2, PagesTakenKept
  <2>3. CASE pc \notin {"relocate", "finished"}
    BY <2>1, <2>3 DEF PagesTaken
  <2>4. QED
    BY <2>2, <2>3
<1>5. QED
  BY <1>1, <1>2, <1>3, <1>4, PagesTakenRelocate DEF Next, GotIds

\* PagesTaken at the beginning.
LEMMA PagesTakenInit == Init => PagesTaken
BY DEF Init, PagesTaken

\* Counts of images and unions of two finite sets.
LEMMA UnionLeq ==
  ASSUME NEW S, IsFiniteSet(S), NEW T, IsFiniteSet(T)
  PROVE  /\ IsFiniteSet(S \cup T) /\ Cardinality(S \cup T) <= Cardinality(S) + Cardinality(T)
         /\ Cardinality(S) \in Nat /\ Cardinality(T) \in Nat /\ Cardinality(S \cup T) \in Nat
<1>1. /\ IsFiniteSet(S \cup T) /\ IsFiniteSet(S \cap T)
      /\ Cardinality(S \cup T) = Cardinality(S) + Cardinality(T) - Cardinality(S \cap T)
  BY FS_Union, FS_Subset
<1>2. /\ Cardinality(S) \in Nat /\ Cardinality(T) \in Nat
      /\ Cardinality(S \cap T) \in Nat /\ Cardinality(S \cup T) \in Nat
  BY <1>1, FS_CardinalityType
<1> DEFINE s == Cardinality(S)
           t == Cardinality(T)
           i == Cardinality(S \cap T)
           u == Cardinality(S \cup T)
<1>3. u = s + t - i /\ s \in Nat /\ t \in Nat /\ i \in Nat /\ u \in Nat
  BY <1>1, <1>2
<1> HIDE DEF s, t, i, u
<1>4. u <= s + t
  BY <1>3
<1>5. QED
  BY <1>1, <1>2, <1>4 DEF s, t, u

\* The pages that the bfds of a GOT use are as many as were charged.
LEMMA TakenBound ==
  ASSUME NEW L, NEW g, NEW K, IsFiniteSet(K), NEW P, IsFiniteSet(P),
         \A p \in LocalsOf(L, g) : \E a \in K \cup {<<OutputBfd, q>> : q \in P} : p = <<g, a>>
  PROVE  Cardinality(LocalsOf(L, g)) <= Cardinality(K) + Cardinality(P)
<1> DEFINE Q == {<<OutputBfd, q>> : q \in P}
           A == K \cup Q
           I == {<<g, a>> : a \in A}
           fq == [q \in P |-> <<OutputBfd, q>>]
           fa == [a \in A |-> <<g, a>>]
<1>1. Q = {fq[q] : q \in P} /\ I = {fa[a] : a \in A}
  OBVIOUS
<1>2. IsFiniteSet(Q) /\ Cardinality(Q) <= Cardinality(P)
  <2> HIDE DEF fq, Q
  <2>1. IsFiniteSet({fq[q] : q \in P}) /\ Cardinality({fq[q] : q \in P}) <= Cardinality(P)
    BY ImageFinite
  <2>2. QED
    BY <1>1, <2>1
<1>3. LocalsOf(L, g) \subseteq I
  OBVIOUS
<1> HIDE DEF Q
<1>4. /\ IsFiniteSet(A) /\ Cardinality(A) <= Cardinality(K) + Cardinality(Q)
      /\ Cardinality(K) \in Nat /\ Cardinality(Q) \in Nat /\ Cardinality(A) \in Nat
  BY <1>2, UnionLeq
<1> HIDE DEF A
<1>5. IsFiniteSet(I) /\ Cardinality(I) <= Cardinality(A)
  <2> HIDE DEF fa, I
  <2>1. IsFiniteSet({fa[a] : a \in A}) /\ Cardinality({fa[a] : a \in A}) <= Cardinality(A)
    BY <1>4, ImageFinite
  <2>2. QED
    BY <1>1, <2>1
<1> HIDE DEF I
<1>6. Cardinality(LocalsOf(L, g)) <= Cardinality(I)
  BY <1>3, <1>5, FS_Subset
<1>7. /\ Cardinality(LocalsOf(L, g)) \in Nat /\ Cardinality(I) \in Nat
      /\ Cardinality(P) \in Nat
  BY <1>3, <1>5, FS_Subset, FS_CardinalityType
<1> DEFINE n == Cardinality(LocalsOf(L, g))
           i == Cardinality(I)
           c == Cardinality(A)
           q == Cardinality(Q)
           k == Cardinality(K)
           p == Cardinality(P)
<1>8. /\ n <= i /\ i <= c /\ c <= k + q /\ q <= p
      /\ n \in Nat /\ i \in Nat /\ c \in Nat /\ k \in Nat /\ q \in Nat /\ p \in Nat
  BY <1>2, <1>4, <1>5, <1>6, <1>7
<1> HIDE DEF n, i, c, q, k, p
<1>9. n <= k + p
  BY <1>8
<1>10. QED
  BY <1>9 DEF n, k, p

\* The local addresses of the bfds of a GOT are no more than its local entries.
LEMMA LocalKeysBound ==
  ASSUME NEW l \in Links, NEW E \in SUBSET Entry
  PROVE  /\ IsFiniteSet(LocalKeys(l, E))
         /\ Cardinality(LocalKeys(l, E)) <= Cardinality(LocalIn(l, E))
<1> DEFINE F == LocalIn(l, E)
           f == [e \in F |-> Key(e)]
<1>1. IsFiniteSet(F)
  <2>1. F \subseteq Entry
    BY DEF LocalIn
  <2>2. QED
    BY <2>1, EntryFinite, FS_Subset
<1>2. LocalKeys(l, E) = {f[e] : e \in F}
  BY DEF LocalKeys
<1> HIDE DEF F, f
<1>3. IsFiniteSet({f[e] : e \in F}) /\ Cardinality({f[e] : e \in F}) <= Cardinality(F)
  BY <1>1, ImageFinite
<1>4. QED
  BY <1>2, <1>3 DEF F

\* In a single GOT, several bfds share the slot of a symbol that binds locally.
LEMMA SingleKeysBound ==
  ASSUME NEW l \in Links
  PROVE  /\ IsFiniteSet(LocalKeys(l, l.entries))
         /\ Cardinality(LocalKeys(l, l.entries))
              <= Cardinality(LocalNames(l)) + Cardinality(BoundIn(l))
         /\ Cardinality(LocalNames(l)) \in Nat /\ Cardinality(BoundIn(l)) \in Nat
<1> DEFINE N == LocalNames(l)
           B == BoundIn(l)
           fn == [e \in N |-> Key(e)]
           fb == [s \in B |-> <<OutputBfd, s>>]
           IN1 == {fn[e] : e \in N}
           IB == {fb[s] : s \in B}
<1>1. IsFiniteSet(N) /\ IsFiniteSet(B)
  <2>1. N \subseteq l.entries /\ B \subseteq Syms
    BY LinkFacts DEF LocalNames, BoundIn, Link
  <2>2. QED
    BY <2>1, LinkFacts, NamesAssumption, FS_Subset
<1>2. LocalKeys(l, l.entries) \subseteq IN1 \cup IB
  <2> SUFFICES ASSUME NEW e \in l.entries, LocalOf(l, e)
               PROVE  Key(e) \in IN1 \cup IB
    BY DEF LocalKeys, LocalIn
  <2>1. CASE e.sym \in LocalSyms
    BY <2>1 DEF LocalOf, LocalNames
  <2>2. CASE e.sym \notin LocalSyms
    <3>1. e.sym \in Syms /\ AreaOf(l, e.sym) = "NONE" /\ ~IsTls(e)
      BY <2>2 DEF LocalOf
    <3>2. e.sym \in B
      BY <3>1 DEF AreaOf, BoundIn
    <3>3. Key(e) = fb[e.sym]
      BY <2>2, <3>2 DEF Key
    <3> HIDE DEF fb, B
    <3>4. QED
      BY <3>2, <3>3
  <2>3. QED
    BY <2>1, <2>2
<1> HIDE DEF N, B, fn, fb
<1>3. /\ IsFiniteSet(IN1) /\ Cardinality(IN1) <= Cardinality(N)
      /\ IsFiniteSet(IB) /\ Cardinality(IB) <= Cardinality(B)
  BY <1>1, ImageFinite
<1> HIDE DEF IN1, IB
<1>4. /\ IsFiniteSet(IN1 \cup IB)
      /\ Cardinality(IN1 \cup IB) <= Cardinality(IN1) + Cardinality(IB)
      /\ Cardinality(IN1) \in Nat /\ Cardinality(IB) \in Nat /\ Cardinality(IN1 \cup IB) \in Nat
  BY <1>3, UnionLeq
<1>5. /\ IsFiniteSet(LocalKeys(l, l.entries))
      /\ Cardinality(LocalKeys(l, l.entries)) <= Cardinality(IN1 \cup IB)
      /\ Cardinality(LocalKeys(l, l.entries)) \in Nat
      /\ Cardinality(N) \in Nat /\ Cardinality(B) \in Nat
  BY <1>1, <1>2, <1>4, FS_Subset, FS_CardinalityType
<1> DEFINE k == Cardinality(LocalKeys(l, l.entries))
           u == Cardinality(IN1 \cup IB)
           i == Cardinality(IN1)
           j == Cardinality(IB)
           n == Cardinality(N)
           b == Cardinality(B)
<1>6. /\ k <= u /\ u <= i + j /\ i <= n /\ j <= b
      /\ k \in Nat /\ u \in Nat /\ i \in Nat /\ j \in Nat /\ n \in Nat /\ b \in Nat
  BY <1>3, <1>4, <1>5
<1> HIDE DEF k, u, i, j, n, b
<1>7. k <= n + b
  BY <1>6
<1>8. QED
  BY <1>5, <1>7 DEF k, n, b, N, B

Room == PagesCharged /\ Ranges /\ PagesTaken

\* There are n numbers from 1 to n.
LEMMA Numbered ==
  ASSUME NEW n \in Nat
  PROVE  IsFiniteSet(1..n) /\ Cardinality(1..n) = n
<1>1. /\ IsFiniteSet(1..n)
      /\ Cardinality(1..n) = IF 1 > n THEN 0 ELSE n - 1 + 1
  BY FS_Interval
<1>2. QED
  BY <1>1

\* What is used of the local area fits in it.
LEMMA RoomFits ==
  ASSUME Base, Room, LaidOut, NEW i \in 1..Len(order)
  PROVE  gots[order[i]].assigned_gotno <= gots[order[i]].local_gotno
<1> DEFINE g == order[i]
<1>1. /\ link \in Links /\ g \in GotIds /\ pc \in Late /\ pc # "layout"
      /\ pc \in {"relocate", "finished"} /\ gots \in [GotIds -> GotInfo]
      /\ order \in Seq(GotIds)
  BY DEF Base, Shape, Types, LaidOut, Late
<1> DEFINE E == IF multi THEN gots[g].entries ELSE link.entries
           K == LocalKeys(link, E)
<1>2. PICK P \in SUBSET (1..link.pages) :
        /\ Cardinality(P) <= SumFunctionOnSet(link.page_gotno, Users(g) \ todo)
        /\ \A p \in local_entries : p[1] = g =>
             \E a \in K \cup {<<OutputBfd, q>> : q \in P} : p = <<g, a>>
  BY <1>1 DEF Room, PagesTaken
<1>3. E \in SUBSET Entry
  BY <1>1, LinkFacts DEF GotInfo
<1>4. IsFiniteSet(K) /\ IsFiniteSet(P) /\ link.pages \in Nat /\ Cardinality(P) <= link.pages
      /\ Cardinality(P) \in Nat
  <2>1. link.pages \in Nat
    BY <1>1, LinkFacts
  <2>2. IsFiniteSet(1..link.pages) /\ Cardinality(1..link.pages) = link.pages
    BY <2>1, Numbered
  <2>3. IsFiniteSet(P) /\ Cardinality(P) <= Cardinality(1..link.pages)
    BY <2>2, FS_Subset
  <2>4. IsFiniteSet(K)
    BY <1>1, <1>3, LocalKeysBound
  <2>5. QED
    BY <2>1, <2>2, <2>3, <2>4, FS_CardinalityType
<1>5. Cardinality(LocalsOf(local_entries, g)) <= Cardinality(K) + Cardinality(P)
  <2>1. \A p \in LocalsOf(local_entries, g) :
          \E a \in K \cup {<<OutputBfd, q>> : q \in P} : p = <<g, a>>
    BY <1>2 DEF LocalsOf
  <2> HIDE DEF g, E, K
  <2>2. QED
    BY <1>4, <2>1, TakenBound
<1>6. /\ Cardinality(LocalsOf(local_entries, g)) \in Nat
      /\ Cardinality(K) \in Nat /\ BaseIn(gots, order, i) \in Nat /\ Reserved \in Nat
  BY <1>1, <1>4, LocalsCount, FS_CardinalityType, EndInNat, SizesAssumption DEF Room, Ranges
<1>7. gots[g].assigned_gotno
        = BaseIn(gots, order, i) + Reserved + Cardinality(LocalsOf(local_entries, g))
  BY <1>1 DEF Room, Ranges
<1> DEFINE base == BaseIn(gots, order, i)
           n == Cardinality(LocalsOf(local_entries, g))
           k == Cardinality(K)
           p == Cardinality(P)
<1>8. CASE multi
  <2> DEFINE c == Cardinality(LocalIn(link, gots[g].entries))
             all == gots[g].page_gotno
  <2>1. gots[g].local_gotno = base + Reserved + c + Min2(link.pages, all)
    BY <1>1, <1>8 DEF Room, Ranges
  <2>2. k <= c /\ c \in Nat
    BY <1>1, <1>3, <1>8, LocalKeysBound, PartsFinite
  <2>3. p <= all /\ all \in Nat
    <3>1. /\ SumFunctionOnSet(link.page_gotno, Users(g) \ todo)
               <= SumFunctionOnSet(link.page_gotno, Users(g))
          /\ SumFunctionOnSet(link.page_gotno, Users(g) \ todo) \in Nat
          /\ SumFunctionOnSet(link.page_gotno, Users(g)) \in Nat
      <4>1. Users(g) \in SUBSET Bfds /\ Users(g) \ todo \in SUBSET Users(g)
            /\ Users(g) \ todo \in SUBSET Bfds
        BY DEF Users
      <4>2. QED
        BY <1>1, <4>1, PageSum
    <3>2. SumFunctionOnSet(link.page_gotno, Users(g)) <= gots[g].page_gotno
      BY <1>1, <1>8 DEF Room, PagesCharged
    <3>3. all \in Nat
      BY <1>1 DEF GotInfo
    <3> DEFINE s == SumFunctionOnSet(link.page_gotno, Users(g) \ todo)
               t == SumFunctionOnSet(link.page_gotno, Users(g))
    <3>4. p <= s /\ s <= t /\ t <= all /\ s \in Nat /\ t \in Nat /\ p \in Nat
      BY <1>2, <1>4, <3>1, <3>2
    <3> HIDE DEF p, s, t, all
    <3>5. QED
      BY <3>3, <3>4 DEF all
  <2>4. /\ n <= k + p /\ p <= link.pages /\ link.pages \in Nat
        /\ n \in Nat /\ k \in Nat /\ p \in Nat /\ base \in Nat /\ Reserved \in Nat
        /\ gots[g].assigned_gotno = base + Reserved + n
    BY <1>4, <1>5, <1>6, <1>7
  <2> HIDE DEF g, n, k, p, base, c, all
  <2>5. Min2(link.pages, all) \in Nat /\ p <= Min2(link.pages, all)
    BY <2>3, <2>4 DEF Min2
  <2>6. gots[g].assigned_gotno <= gots[g].local_gotno
    BY <2>1, <2>2, <2>4, <2>5
  <2>7. QED
    BY <2>6 DEF g
<1>9. CASE ~multi
  <2> DEFINE a == Cardinality(LocalNames(link))
             b == Cardinality(BoundIn(link))
  <2>1. order = <<OutputBfd>> /\ i = 1 /\ g = OutputBfd
    <3>1. order = <<OutputBfd>>
      BY <1>1, <1>9 DEF Base, Shape, SingleShape
    <3>2. QED
      BY <3>1
  <2>2. gots[g].local_gotno = Reserved + a + b + link.pages
    BY <1>1, <1>9, <2>1 DEF Room, Ranges
  <2>3. base = 0
    BY <2>1 DEF BaseIn
  <2>4. k <= a + b /\ a \in Nat /\ b \in Nat
    BY <1>1, <1>9, SingleKeysBound
  <2>5. /\ n <= k + p /\ p <= link.pages /\ link.pages \in Nat
        /\ n \in Nat /\ k \in Nat /\ p \in Nat /\ Reserved \in Nat
        /\ gots[g].assigned_gotno = base + Reserved + n
    BY <1>4, <1>5, <1>6, <1>7
  <2> HIDE DEF g, n, k, p, base, a, b
  <2>6. gots[g].assigned_gotno <= gots[g].local_gotno
    BY <2>2, <2>3, <2>4, <2>5
  <2>7. QED
    BY <2>6 DEF g
<1>10. QED
  BY <1>8, <1>9

\* Room is an invariant.
LEMMA RoomInvariance == Spec => []Room
<1>1. Init => Room
  BY RangesInit, PagesTakenInit DEF Room, Init, PagesCharged
<1>2. Base /\ Room /\ [Next]_vars => Room'
  BY PagesChargedNext, RangesNext, PagesTakenNext DEF Room
<1>3. QED
  BY <1>1, <1>2, BaseInvariance, PTL DEF Spec

\* "Not enough GOT space for local GOT entries" is not reported, whichever
\* bfds were merged into a GOT and whichever pages their relocations turn out
\* to need: its local area was laid out for the distinct local entries and for
\* the pages that its bfds announced, or for all pages of the output.
THEOREM LocalEntriesFit == Spec => []LocalsFit
<1>1. Base /\ Room => LocalsFit
  BY RoomFits DEF LocalsFit
<1>2. QED
  BY <1>1, BaseInvariance, RoomInvariance, PTL

-----------------------------------------------------------------------------
(***************************************************************************)
(* The estimates of merging: what a GOT that was merged needs.             *)
(***************************************************************************)

\* The entries of a GOT, global ones excepted, and its global ones.
Need(l, got) ==
  Cardinality(LocalIn(l, got.entries)) + Min2(l.pages, got.page_gotno) + got.tls_gotno

GlobalsIn(l, got) == Cardinality(GlobalIn(l, got.entries))

\* The primary GOT is charged for all global entries if TLS entries follow them.
Charge(l, got, all) ==
  Need(l, got) + (IF got.tls_gotno > 0 THEN all ELSE GlobalsIn(l, got))

Reach ==
  /\ pc = "merge" =>
       /\ gots[OutputBfd] = EmptyGot
       /\ \A b \in Bfds \ WithGot(link) : bfd2got[b] = OutputBfd
  /\ pc \in {"merge"} \cup Late /\ multi =>
       /\ Charge(link, gots[primary], global_gotno) <= MaxGotNo - Reserved
       /\ \A g \in GotIds \ {primary} :
            (\E b \in Bfds \ {g} : bfd2got[b] = g) =>
               Need(link, gots[g]) + GlobalsIn(link, gots[g]) <= MaxGotNo - Reserved
  /\ pc # "layout" /\ ~multi =>
       EndIn(gots, OutputBfd) <= MaxGotNo /\ gots[OutputBfd].global_gotno = global_gotno

\* Needs are numbers.
LEMMA NeedNat ==
  ASSUME NEW l \in Links, NEW got \in GotInfo
  PROVE  Need(l, got) \in Nat /\ GlobalsIn(l, got) \in Nat
<1>1. got.entries \in SUBSET Entry /\ got.page_gotno \in Nat /\ got.tls_gotno \in Nat
  BY DEF GotInfo
<1>2. /\ Cardinality(LocalIn(l, got.entries)) \in Nat
      /\ Cardinality(GlobalIn(l, got.entries)) \in Nat
  BY <1>1, PartsFinite
<1>3. Min2(l.pages, got.page_gotno) \in Nat
  BY <1>1, LinkFacts DEF Min2
<1>4. QED
  BY <1>1, <1>2, <1>3 DEF Need, GlobalsIn

\* A GOT that keeps its contents keeps its needs.
LEMMA NeedSame ==
  ASSUME NEW l, NEW got, NEW r, Same(got, r)
  PROVE  /\ Need(l, r) = Need(l, got) /\ GlobalsIn(l, r) = GlobalsIn(l, got)
         /\ \A n : Charge(l, r, n) = Charge(l, got, n)
BY DEF Same, Need, GlobalsIn, Charge

\* An empty GOT needs nothing.
LEMMA NoNeed ==
  ASSUME NEW l \in Links
  PROVE  /\ Need(l, EmptyGot) = 0 /\ GlobalsIn(l, EmptyGot) = 0
         /\ \A n : Charge(l, EmptyGot, n) = 0
<1>1. /\ EmptyGot.entries = {} /\ EmptyGot.page_gotno = 0 /\ EmptyGot.tls_gotno = 0
  BY DEF EmptyGot
<1>2. LocalIn(l, {}) = {} /\ GlobalIn(l, {}) = {}
  BY DEF LocalIn, GlobalIn
<1>3. Min2(l.pages, 0) = 0
  BY LinkFacts DEF Min2
<1>4. Need(l, EmptyGot) = 0 /\ GlobalsIn(l, EmptyGot) = 0
  BY <1>1, <1>2, <1>3, FS_EmptySet DEF Need, GlobalsIn
<1>5. QED
  BY <1>1, <1>4 DEF Charge

\* The entries of one GOT are for different symbols of the global table.
LEMMA GlobalsBound ==
  ASSUME NEW l \in Links, NEW E \in SUBSET Entry, KeysDiffer(E)
  PROVE  Cardinality(GlobalIn(l, E)) <= Cardinality(InGlobalTable(l))
<1> DEFINE T == {e.sym : e \in GlobalIn(l, E)}
<1>1. IsFiniteSet(T) /\ Cardinality(T) = Cardinality(GlobalIn(l, E))
  BY GlobalSyms
<1>2. T \subseteq InGlobalTable(l)
  BY DEF GlobalIn, GlobalOf, InGlobalTable
<1>3. IsFiniteSet(InGlobalTable(l))
  BY NamesAssumption, FS_Subset DEF InGlobalTable
<1> HIDE DEF T
<1>4. QED
  BY <1>1, <1>2, <1>3, FS_Subset

\* What mips_elf_merge_gots compares with the limit.
LEMMA OwnEstimateIs ==
  ASSUME link \in Links, NEW got, Counted(link, got)
  PROVE  OwnEstimate(got) = Charge(link, got, global_gotno)
<1> DEFINE lo == Cardinality(LocalIn(link, got.entries))
           gl == Cardinality(GlobalIn(link, got.entries))
           pg == Min2(link.pages, got.page_gotno)
<1>1. /\ got.local_gotno = lo /\ got.global_gotno = gl /\ got.tls_gotno \in Nat
      /\ lo \in Nat /\ gl \in Nat
  BY DEF Counted, GotInfo
<1>2. pg \in Nat
  BY LinkFacts DEF Min2, Counted, GotInfo
<1>3. /\ OwnEstimate(got) = pg + got.local_gotno + got.tls_gotno
                              + (IF got.tls_gotno > 0 THEN global_gotno ELSE got.global_gotno)
      /\ Charge(link, got, global_gotno)
           = lo + pg + got.tls_gotno + (IF got.tls_gotno > 0 THEN global_gotno ELSE gl)
  BY DEF OwnEstimate, PageEntries, Charge, Need, GlobalsIn
<1> HIDE DEF lo, gl, pg
<1>4. QED
  BY <1>1, <1>2, <1>3

\* The estimate for two GOTs is no less than what they need together.
LEMMA MergedEstimateIs ==
  ASSUME link \in Links, NEW from, Counted(link, from), NEW to, Counted(link, to),
         NEW r, Absorbed(link, to, from.entries, from.page_gotno, r), NEW n \in Nat
  PROVE  /\ Need(link, r) + n <= MergedEstimate(from, to, n)
         /\ GlobalsIn(link, r) <= from.global_gotno + to.global_gotno
         /\ MergedEstimate(from, to, n) \in Nat
<1> DEFINE rl == Cardinality(LocalIn(link, r.entries))
           rg == Cardinality(GlobalIn(link, r.entries))
           pg == Min2(link.pages, from.page_gotno + to.page_gotno)
<1>1. /\ from.local_gotno = Cardinality(LocalIn(link, from.entries))
      /\ from.global_gotno = Cardinality(GlobalIn(link, from.entries))
      /\ from.tls_gotno = TlsSlots(from.entries)
      /\ from.local_gotno \in Nat /\ from.global_gotno \in Nat /\ from.tls_gotno \in Nat
      /\ from.page_gotno \in Nat
  BY DEF Counted, GotInfo
<1>2. /\ to.local_gotno \in Nat /\ to.global_gotno \in Nat /\ to.tls_gotno \in Nat
      /\ to.page_gotno \in Nat
  BY DEF Counted, GotInfo
<1>3. /\ r.local_gotno = rl /\ r.global_gotno = rg /\ rl \in Nat /\ rg \in Nat
      /\ r.tls_gotno \in Nat
  BY DEF Absorbed, Counted, GotInfo
<1>4. /\ r.page_gotno = to.page_gotno + from.page_gotno
      /\ r.local_gotno <= to.local_gotno + Cardinality(LocalIn(link, from.entries))
      /\ r.global_gotno <= to.global_gotno + Cardinality(GlobalIn(link, from.entries))
      /\ r.tls_gotno <= to.tls_gotno + TlsSlots(from.entries)
  BY DEF Absorbed
<1>5. rl <= to.local_gotno + from.local_gotno /\ rg <= from.global_gotno + to.global_gotno
      /\ r.tls_gotno <= to.tls_gotno + from.tls_gotno
  BY <1>1, <1>2, <1>3, <1>4
<1>6. r.page_gotno = from.page_gotno + to.page_gotno
  BY <1>1, <1>2, <1>4
<1>7. pg \in Nat
  BY <1>1, <1>2, LinkFacts DEF Min2
<1>8. /\ Need(link, r) = rl + pg + r.tls_gotno /\ GlobalsIn(link, r) = rg
      /\ MergedEstimate(from, to, n)
           = pg + from.local_gotno + to.local_gotno + from.tls_gotno + to.tls_gotno + n
  BY <1>6 DEF Need, GlobalsIn, MergedEstimate, PageEntries
<1> HIDE DEF rl, rg, pg
<1>9. QED
  BY <1>1, <1>2, <1>3, <1>5, <1>7, <1>8

\* Steps that move no bfd and leave the contents of GOTs alone.
LEMMA ReachKept ==
  ASSUME Base, Reach, pc \in Late, pc' \in Late,
         UNCHANGED <<link, multi, primary, bfd2got, global_gotno>>,
         \A h \in GotIds : Same(gots[h], gots'[h]),
         ~multi => gots'[OutputBfd].local_gotno = gots[OutputBfd].local_gotno
  PROVE  Reach'
<1>1. primary \in GotIds /\ OutputBfd \in GotIds
  BY DEF Base, Shape, Types, GotIds
<1>2. /\ \A h \in GotIds : /\ Need(link, gots'[h]) = Need(link, gots[h])
                           /\ GlobalsIn(link, gots'[h]) = GlobalsIn(link, gots[h])
      /\ Charge(link, gots'[primary], global_gotno) = Charge(link, gots[primary], global_gotno)
  BY <1>1, NeedSame
<1>3. multi => /\ Charge(link, gots'[primary], global_gotno) <= MaxGotNo - Reserved
               /\ \A g \in GotIds \ {primary} :
                    (\E b \in Bfds \ {g} : bfd2got[b] = g) =>
                      Need(link, gots'[g]) + GlobalsIn(link, gots'[g]) <= MaxGotNo - Reserved
  BY <1>2 DEF Reach
<1>4. ~multi => EndIn(gots', OutputBfd) <= MaxGotNo
                /\ gots'[OutputBfd].global_gotno = global_gotno
  BY <1>1 DEF Reach, Late, EndIn, Same
<1>5. pc' # "merge"
  BY DEF Late
<1>6. QED
  BY <1>3, <1>4, <1>5 DEF Reach

\* The estimates of a merge bound what the merged GOT needs.
LEMMA ReachMerge ==
  ASSUME Base, Reach, NEW b \in Bfds, MergeGot(b)
  PROVE  Reach'
<1>0. Shape /\ Counts /\ link \in Links /\ bfd2got \in [Bfds -> GotIds] /\ b \in GotIds
      /\ b # OutputBfd /\ OutputBfd \in GotIds /\ primary \in GotIds
  BY NamesAssumption DEF Base, Shape, Types, GotIds
<1>1. /\ pc = "merge" /\ multi /\ b \in todo
      /\ UNCHANGED <<pc, link, multi, global_gotno>>
  BY <1>0 DEF MergeGot, MergeUnchanged, Shape, Kind
<1>2. /\ gots[OutputBfd] = EmptyGot
      /\ \A c \in Bfds \ WithGot(link) : bfd2got[c] = OutputBfd
      /\ Charge(link, gots[primary], global_gotno) <= MaxGotNo - Reserved
      /\ \A g \in GotIds \ {primary} :
            (\E c \in Bfds \ {g} : bfd2got[c] = g) =>
               Need(link, gots[g]) + GlobalsIn(link, gots[g]) <= MaxGotNo - Reserved
  BY <1>1 DEF Reach
<1>3. \A g \in GotIds : Counted(link, gots[g]) /\ gots[g].entries \in SUBSET Entry
  BY <1>0, <1>1, LinkFacts DEF Counts, MergeCounts
<1>4. \A c \in Bfds \ {b} : bfd2got[c] # b
  BY <1>0, <1>1, <1>2 DEF Shape, Merging
<1>5. global_gotno = Cardinality(InGlobalTable(link)) /\ global_gotno \in Nat
  BY <1>0, <1>1 DEF Counts, GlobalCount, Shape, Types
<1>6. MaxGotNo \in Nat /\ Reserved \in Nat /\ Reserved <= MaxGotNo /\ MaxCount = MaxGotNo - Reserved
  BY SizesAssumption DEF MaxCount
<1>7. CASE BecomePrimary(b)
  <2>1. /\ OwnEstimate(gots[b]) <= MaxCount /\ primary = OutputBfd
        /\ primary' = b /\ UNCHANGED <<gots, bfd2got>>
    BY <1>7 DEF BecomePrimary
  <2>2. Charge(link, gots[b], global_gotno) <= MaxGotNo - Reserved
    BY <1>0, <1>3, <1>6, <2>1, OwnEstimateIs
  <2>3. Need(link, gots[OutputBfd]) + GlobalsIn(link, gots[OutputBfd]) <= MaxGotNo - Reserved
    BY <1>0, <1>2, <1>6, NoNeed
  <2>4. QED
    BY <1>1, <1>2, <2>1, <2>2, <2>3 DEF Reach
<1>8. CASE BecomeCurrent(b)
  BY <1>1, <1>2, <1>8 DEF Reach, BecomeCurrent
<1>9. ASSUME NEW g \in Range(chain) \cup ({primary} \ {OutputBfd}), MergeInto(b, g)
      PROVE  /\ b \in GotIds /\ g \in GotIds /\ g # b /\ g # OutputBfd
             /\ bfd2got[b] = b
             /\ Absorbed(link, gots[g], gots[b].entries, gots[b].page_gotno, gots'[g])
             /\ \A h \in GotIds : h # g => gots'[h] = gots[h]
             /\ \A c \in Bfds : bfd2got'[c] = IF c = b THEN g ELSE bfd2got[c]
             /\ UNCHANGED <<primary, chain>>
             /\ gots'[OutputBfd] = EmptyGot
             /\ \A c \in Bfds \ WithGot(link) : bfd2got'[c] = OutputBfd
             /\ \A h \in GotIds \ {primary, g} :
                  (\E c \in Bfds \ {h} : bfd2got'[c] = h) =>
                    Need(link, gots'[h]) + GlobalsIn(link, gots'[h]) <= MaxGotNo - Reserved
  <2>1. /\ b \in GotIds /\ g \in GotIds /\ g \in Bfds /\ g # b /\ bfd2got[b] = b
        /\ Absorbed(link, gots[g], gots[b].entries, gots[b].page_gotno, gots'[g])
        /\ \A h \in GotIds : h # g => gots'[h] = gots[h]
        /\ \A c \in Bfds : bfd2got'[c] = IF c = b THEN g ELSE bfd2got[c]
        /\ UNCHANGED <<primary, chain>>
    BY <1>0, <1>1, <1>9, MergeIntoStep
  <2>2. g # OutputBfd /\ b \in WithGot(link)
    BY <1>0, <1>1, <2>1, NamesAssumption DEF Shape, Merging
  <2>3. gots'[OutputBfd] = EmptyGot /\ \A c \in Bfds \ WithGot(link) : bfd2got'[c] = OutputBfd
    BY <1>0, <1>2, <2>1, <2>2
  <2>4. ASSUME NEW h \in GotIds \ {primary, g}, NEW c \in Bfds \ {h}, bfd2got'[c] = h
        PROVE  Need(link, gots'[h]) + GlobalsIn(link, gots'[h]) <= MaxGotNo - Reserved
    <3>1. c # b /\ bfd2got[c] = h /\ gots'[h] = gots[h]
      BY <2>1, <2>4
    <3>2. QED
      BY <1>2, <2>4, <3>1
  <2>5. QED
    BY <2>1, <2>2, <2>3, <2>4
<1>10. CASE MergeWithPrimary(b)
  <2>1. /\ primary # OutputBfd /\ MergeInto(b, primary)
        /\ MergedEstimate(gots[b], gots[primary], global_gotno) <= MaxCount
    BY <1>10 DEF MergeWithPrimary, FitsPrimary
  <2>2. /\ Absorbed(link, gots[primary], gots[b].entries, gots[b].page_gotno, gots'[primary])
        /\ primary' = primary
        /\ gots'[OutputBfd] = EmptyGot
        /\ \A c \in Bfds \ WithGot(link) : bfd2got'[c] = OutputBfd
        /\ \A h \in GotIds \ {primary} :
             (\E c \in Bfds \ {h} : bfd2got'[c] = h) =>
               Need(link, gots'[h]) + GlobalsIn(link, gots'[h]) <= MaxGotNo - Reserved
    BY <1>9, <2>1
  <2> DEFINE r == gots'[primary]
             m == MergedEstimate(gots[b], gots[primary], global_gotno)
  <2>3. Need(link, r) + global_gotno <= m /\ m \in Nat
    BY <1>0, <1>3, <1>5, <2>2, MergedEstimateIs
  <2>4. r \in GotInfo /\ KeysDiffer(r.entries)
    BY <2>2 DEF Absorbed, Counted
  <2>5. GlobalsIn(link, r) <= global_gotno
    BY <1>0, <1>5, <2>4, GlobalsBound DEF GlobalsIn, GotInfo
  <2>6. Need(link, r) \in Nat /\ GlobalsIn(link, r) \in Nat
    BY <1>0, <2>4, NeedNat
  <2>7. m <= MaxGotNo - Reserved
    BY <1>6, <2>1
  <2>8. Charge(link, r, global_gotno) <= Need(link, r) + global_gotno
    BY <1>5, <2>5, <2>6 DEF Charge
  <2>9. Charge(link, r, global_gotno) \in Nat
    BY <1>5, <2>6 DEF Charge
  <2> HIDE DEF r, m
  <2>10. Charge(link, r, global_gotno) <= MaxGotNo - Reserved
    BY <1>5, <1>6, <2>3, <2>6, <2>7, <2>8, <2>9
  <2>11. QED
    BY <1>1, <2>2, <2>10 DEF Reach, r
<1>11. CASE MergeWithCurrent(b)
  <2> DEFINE g == Head(chain)
  <2>1. /\ chain # <<>> /\ MergeInto(b, g)
        /\ MergedEstimate(gots[b], gots[g], gots[b].global_gotno + gots[g].global_gotno)
             <= MaxCount
    BY <1>11 DEF MergeWithCurrent, FitsCurrent
  <2>2. g \in Range(chain) /\ primary \notin Range(chain)
    BY <1>0, <1>1, <2>1, TailRange DEF Shape, Types, Merging
  <2> HIDE DEF g
  <2>3. /\ g \in GotIds /\ g # primary /\ g # OutputBfd
        /\ Absorbed(link, gots[g], gots[b].entries, gots[b].page_gotno, gots'[g])
        /\ \A h \in GotIds : h # g => gots'[h] = gots[h]
        /\ primary' = primary
        /\ gots'[OutputBfd] = EmptyGot
        /\ \A c \in Bfds \ WithGot(link) : bfd2got'[c] = OutputBfd
        /\ \A h \in GotIds \ {primary, g} :
             (\E c \in Bfds \ {h} : bfd2got'[c] = h) =>
               Need(link, gots'[h]) + GlobalsIn(link, gots'[h]) <= MaxGotNo - Reserved
    BY <1>9, <2>1, <2>2
  <2> DEFINE r == gots'[g]
             n == gots[b].global_gotno + gots[g].global_gotno
             m == MergedEstimate(gots[b], gots[g], n)
  <2>4. n \in Nat
    BY <1>0, <1>3, <2>3 DEF Counted, GotInfo
  <2>5. m <= MaxGotNo - Reserved
    BY <1>6, <2>1
  <2>6. r \in GotInfo
    BY <2>3 DEF Absorbed, Counted
  <2>7. Need(link, r) \in Nat /\ GlobalsIn(link, r) \in Nat
    BY <1>0, <2>6, NeedNat
  <2>8. GlobalsIn(link, r) <= n
    BY <1>0, <1>3, <2>3, <2>4, MergedEstimateIs
  <2> HIDE DEF n
  <2>9. Need(link, r) + n <= m /\ m \in Nat
    BY <1>0, <1>3, <2>3, <2>4, MergedEstimateIs
  <2> HIDE DEF r, m
  <2>10. Need(link, r) + GlobalsIn(link, r) <= MaxGotNo - Reserved
    BY <1>6, <2>4, <2>5, <2>7, <2>8, <2>9
  <2>11. Charge(link, gots'[primary], global_gotno) <= MaxGotNo - Reserved
    BY <1>0, <1>2, <2>3
  <2>12. QED
    BY <1>1, <2>3, <2>10, <2>11 DEF Reach, r
<1>12. QED
  BY <1>7, <1>8, <1>10, <1>11 DEF MergeGot

\* Reach in every step.
LEMMA ReachNext == Base /\ Reach /\ [Next]_vars => Reach'
<1> SUFFICES ASSUME Base, Reach, [Next]_vars PROVE Reach'
  OBVIOUS
<1>0. /\ Shape /\ Counts /\ link \in Links /\ gots \in [GotIds -> GotInfo]
      /\ OutputBfd \in GotIds /\ primary \in GotIds /\ OutputBfd \notin Bfds
  BY NamesAssumption DEF Base, Shape, Types, GotIds
<1>1. MaxGotNo \in Nat /\ Reserved \in Nat /\ Reserved <= MaxGotNo
  BY SizesAssumption
<1>2. CASE LayOutSingle
  <2> DEFINE end == SingleGot.local_gotno + SingleGot.global_gotno
  <2>1. /\ pc = "layout" /\ pc' = "tls" /\ ~multi /\ UNCHANGED <<multi, link>>
        /\ global_gotno' = SingleGot.global_gotno
        /\ SizeOf(SingleGot) <= MaxGotNo
        /\ gots' = [gots EXCEPT ![OutputBfd] = [SingleGot EXCEPT !.tls_assigned_gotno = end]]
    BY <1>0, <1>2 DEF LayOutSingle, LayOutGot, Shape, Kind
  <2>2. SingleGot \in GotInfo
    BY <1>0, <2>1, SingleGotIs
  <2> HIDE DEF end
  <2>3. /\ gots'[OutputBfd].local_gotno = SingleGot.local_gotno
        /\ gots'[OutputBfd].global_gotno = SingleGot.global_gotno
        /\ gots'[OutputBfd].tls_gotno = SingleGot.tls_gotno
    BY <1>0, <2>1, <2>2 DEF GotInfo
  <2>4. EndIn(gots', OutputBfd) = SizeOf(SingleGot)
    BY <2>3 DEF EndIn, SizeOf
  <2>5. QED
    BY <2>1, <2>3, <2>4 DEF Reach
<1>3. CASE SplitGot
  <2>1. pc' = "split" /\ multi'
    BY <1>3 DEF SplitGot
  <2>2. QED
    BY <2>1 DEF Reach, Late
<1>4. CASE MakeGotPerBfd
  <2>1. /\ pc = "split" /\ pc' = "merge" /\ multi /\ UNCHANGED <<link, multi, primary, global_gotno>>
        /\ gots' = [g \in DOMAIN gots |->
                      IF g \in Bfds
                      THEN AddEntries(EmptyGot, EntriesOf(g), link.page_gotno[g])
                      ELSE EmptyGot]
        /\ bfd2got' = [b \in Bfds |-> IF b \in WithGot(link) THEN b ELSE OutputBfd]
        /\ DOMAIN gots = GotIds
        /\ primary = OutputBfd
    BY <1>0, <1>4, WithGotIs DEF MakeGotPerBfd, Shape, Kind, Types, Beginning
  <2>2. gots'[OutputBfd] = EmptyGot
    BY <1>0, <2>1
  <2>3. Charge(link, EmptyGot, global_gotno) <= MaxGotNo - Reserved
    BY <1>0, <1>1, NoNeed
  <2>4. \A g \in GotIds \ {primary} : \A b \in Bfds \ {g} : bfd2got'[b] # g
    BY <2>1 DEF GotIds
  <2>5. QED
    BY <1>0, <2>1, <2>2, <2>3, <2>4 DEF Reach
<1>5. CASE ChoosePrimary
  <2>1. /\ pc = "merge" /\ pc' = "assign" /\ multi /\ primary \in GotIds
        /\ \A b \in Bfds :
             bfd2got'[b] = IF b \in WithGot(link) THEN bfd2got[b] ELSE primary
        /\ \A g \in GotIds : g # primary => gots'[g] = gots[g]
        /\ gots'[primary] = [gots[primary] EXCEPT !.global_gotno = global_gotno]
        /\ UNCHANGED <<link, multi, primary, global_gotno>>
    BY <1>0, <1>5, ChoosePrimaryStep
  <2>2. /\ gots'[primary].entries = gots[primary].entries
        /\ gots'[primary].page_gotno = gots[primary].page_gotno
        /\ gots'[primary].tls_gotno = gots[primary].tls_gotno
    BY <1>0, <2>1 DEF GotInfo
  <2>3. Charge(link, gots'[primary], global_gotno) = Charge(link, gots[primary], global_gotno)
    BY <2>2 DEF Charge, Need, GlobalsIn
  <2>4. QED
    BY <2>1, <2>3 DEF Reach
<1>6. \A h \in GotIds : Same(gots[h], gots[h])
  BY <1>0, SameRefl
<1>7. CASE AssignRange
  <2> DEFINE g == Head(chain)
             first == LastEnd + Reserved
  <2>1. first = LastEnd + Reserved /\ g = Head(chain)
    OBVIOUS
  <2> HIDE DEF g, first
  <2>2. /\ pc = "assign" /\ pc' = "tls" /\ multi
        /\ UNCHANGED <<link, multi, primary, bfd2got, global_gotno>>
        /\ \A h \in GotIds : h # g => gots'[h] = gots[h]
        /\ Same(gots[g], gots'[g])
    BY <1>0, <1>7, <2>1, AssignRangeStep
  <2>3. QED
    BY <1>6, <2>2, ReachKept DEF Late
<1>8. ASSUME NEW e \in todo, InitializeTlsIndex(e) PROVE Reach'
  <2> DEFINE g == order[Len(order)]
  <2>1. g = order[Len(order)]
    OBVIOUS
  <2> HIDE DEF g
  <2>2. /\ pc = "tls" /\ UNCHANGED <<pc, link, multi, primary, bfd2got, global_gotno>>
        /\ \A h \in GotIds : h # g => gots'[h] = gots[h]
        /\ gots'[g].local_gotno = gots[g].local_gotno
        /\ Same(gots[g], gots'[g])
    BY <1>0, <1>8, <2>1, InitializeTlsStep
  <2>3. QED
    BY <1>0, <1>6, <2>2, ReachKept DEF Late
<1>9. CASE NextGot \/ (\E g \in GotIds : SetGlobalGotOffsets(g)) \/ SortDynsyms \/ FinishLink
  <2>1. /\ pc \in Late /\ pc' \in Late
        /\ UNCHANGED <<link, multi, primary, bfd2got, global_gotno, gots>>
    BY <1>9, BaseRest
  <2>2. QED
    BY <1>6, <2>1, ReachKept
<1>10. ASSUME NEW b \in Bfds, RelocateBfd(b) PROVE Reach'
  <2> DEFINE g == bfd2got[b]
  <2>1. g = bfd2got[b]
    OBVIOUS
  <2> HIDE DEF g
  <2>2. /\ pc = "relocate" /\ UNCHANGED <<pc, link, multi, primary, bfd2got, global_gotno>>
        /\ \A h \in GotIds : h # g => gots'[h] = gots[h]
        /\ gots'[g].local_gotno = gots[g].local_gotno
        /\ Same(gots[g], gots'[g])
    BY <1>0, <1>10, <2>1, RelocateBfdStep
  <2>3. QED
    BY <1>0, <1>6, <2>2, ReachKept DEF Late
<1>11. CASE UNCHANGED vars
  BY <1>11 DEF vars, Reach
<1>12. QED
  BY <1>2, <1>3, <1>4, <1>5, <1>7, <1>8, <1>9, <1>10, <1>11, ReachMerge DEF Next, GotIds

\* Reach is an invariant.
LEMMA ReachInvariance == Spec => []Reach
<1>1. Init => Reach
  BY DEF Init, Reach, Late
<1>2. Base /\ Reach /\ [Next]_vars => Reach'
  BY ReachNext
<1>3. QED
  BY <1>1, <1>2, BaseInvariance, PTL DEF Spec

-----------------------------------------------------------------------------
(***************************************************************************)
(* Slots: where the three passes that give indices place the entries.      *)
(***************************************************************************)
SlotType == [got : GotIds, key : GotIds \X AllSyms, first : Nat, size : 1..3]

\* Within the GOT, and not in its local area.
SlotFits(G, sl) ==
  G[sl.got].local_gotno <= sl.first /\ sl.first + sl.size <= EndIn(G, sl.got)

\* Slots of the primary GOT that may be further away than its own entries.
SlotFar(G, a, g, sl) ==
  sl.got = g => G[g].tls_gotno > 0 \/ \E s \in Syms : a[s] = "RELOC_ONLY" /\ sl.key = <<OutputBfd, s>>

\* Up to the end of the entries that the primary GOT uses itself.
SlotNear(G, l, g, sl) ==
  sl.first + sl.size <= G[g].local_gotno + GlobalsIn(l, G[g])

Placement ==
  /\ slots \subseteq SlotType
  /\ \A sl \in slots : pc \in Late /\ sl.got \in Range(order) /\ SlotFits(gots, sl)
  /\ pc = "tls" =>
       LET g == order[Len(order)] IN
       /\ gots[g].local_gotno <= gots[g].tls_assigned_gotno
       /\ gots[g].tls_assigned_gotno + TlsSlots(todo) = EndIn(gots, g)
  /\ multi => \A sl \in slots :
       SlotFar(gots, area, primary, sl) \/ SlotNear(gots, link, primary, sl)

\* Keys have their type.
LEMMA KeyType ==
  ASSUME NEW e \in Entry
  PROVE  Key(e) \in GotIds \X AllSyms
BY DEF Key, Entry, GotIds, AllSyms

\* The fields of a slot.
LEMMA SlotIs ==
  ASSUME NEW g \in GotIds, NEW key \in GotIds \X AllSyms, NEW first \in Nat, NEW size \in 1..3
  PROVE  /\ Slot(g, key, first, size) \in SlotType
         /\ Slot(g, key, first, size).got = g /\ Slot(g, key, first, size).key = key
         /\ Slot(g, key, first, size).first = first /\ Slot(g, key, first, size).size = size
BY DEF Slot, SlotType

\* Slots stay where they are as long as the ranges do.
LEMMA SlotsStay ==
  ASSUME Base, Placement, pc \in Late, pc' \in Late,
         UNCHANGED <<link, multi, primary, area>>,
         Range(order) \subseteq Range(order'), Range(order) \subseteq GotIds,
         \A h \in GotIds : Same(gots[h], gots'[h]),
         \A h \in Range(order) : gots'[h].local_gotno = gots[h].local_gotno
  PROVE  /\ \A sl \in slots : /\ sl \in SlotType
                              /\ pc' \in Late /\ sl.got \in Range(order') /\ SlotFits(gots', sl)
         /\ multi => \A sl \in slots :
              SlotFar(gots', area', primary', sl) \/ SlotNear(gots', link', primary', sl)
<1>1. \A h \in Range(order) : EndIn(gots', h) = EndIn(gots, h)
  BY DEF EndIn, Same
<1>2. \A sl \in slots : /\ sl \in SlotType
                        /\ pc' \in Late /\ sl.got \in Range(order') /\ SlotFits(gots', sl)
  BY <1>1 DEF Placement, SlotFits
<1>3. ASSUME multi, NEW sl \in slots
      PROVE  SlotFar(gots', area', primary', sl) \/ SlotNear(gots', link', primary', sl)
  <2>1. primary \in GotIds
    BY DEF Base, Shape, Types
  <2>2. CASE sl.got # primary
    BY <2>2 DEF SlotFar
  <2>3. CASE sl.got = primary
    <3>1. /\ gots'[primary].local_gotno = gots[primary].local_gotno
          /\ gots'[primary].tls_gotno = gots[primary].tls_gotno
          /\ GlobalsIn(link, gots'[primary]) = GlobalsIn(link, gots[primary])
      BY <2>1, <2>3, NeedSame DEF Placement, Same
    <3>2. SlotFar(gots, area, primary, sl) \/ SlotNear(gots, link, primary, sl)
      BY <1>3 DEF Placement
    <3>3. QED
      BY <3>1, <3>2 DEF SlotFar, SlotNear
  <2>4. QED
    BY <2>2, <2>3
<1>4. QED
  BY <1>2, <1>3

\* No slot is given out before there are ranges.
LEMMA NoSlotsEarly ==
  ASSUME Base, pc \in Early
  PROVE  slots = {}
BY DEF Base, Shape, Beginning

\* The TLS entries of a single GOT follow its global ones.
LEMMA PlacementLayOutSingle == Base /\ LayOutSingle => Placement'
<1> SUFFICES ASSUME Base, LayOutSingle PROVE Placement'
  OBVIOUS
<1>0. /\ Shape /\ link \in Links /\ gots \in [GotIds -> GotInfo] /\ OutputBfd \in GotIds
  BY DEF Base, Shape, Types, GotIds
<1> DEFINE end == SingleGot.local_gotno + SingleGot.global_gotno
<1>1. /\ pc = "layout" /\ pc' = "tls" /\ ~multi /\ multi' = multi
      /\ order' = <<OutputBfd>> /\ todo' = SingleTls /\ slots' = slots
      /\ gots' = [gots EXCEPT ![OutputBfd] = [SingleGot EXCEPT !.tls_assigned_gotno = end]]
  BY <1>0 DEF LayOutSingle, LayOutGot, Shape, Kind
<1>2. slots' = {}
  BY <1>1, NoSlotsEarly DEF Early
<1>3. SingleGot \in GotInfo /\ SingleGot.tls_gotno = TlsSlots(SingleTls)
  BY <1>0, <1>1, SingleGotIs
<1> DEFINE lo == SingleGot.local_gotno
           gl == SingleGot.global_gotno
           tl == SingleGot.tls_gotno
<1>4. lo \in Nat /\ gl \in Nat /\ tl \in Nat /\ end = lo + gl
  BY <1>3 DEF GotInfo
<1> HIDE DEF end, lo, gl, tl
<1>5. /\ gots'[OutputBfd].local_gotno = lo
      /\ gots'[OutputBfd].global_gotno = gl
      /\ gots'[OutputBfd].tls_gotno = tl
      /\ gots'[OutputBfd].tls_assigned_gotno = end
  BY <1>0, <1>1, <1>3 DEF GotInfo, lo, gl, tl
<1>6. order'[Len(order')] = OutputBfd
  BY <1>1
<1>7. /\ gots'[OutputBfd].local_gotno <= gots'[OutputBfd].tls_assigned_gotno
      /\ gots'[OutputBfd].tls_assigned_gotno + TlsSlots(todo') = EndIn(gots', OutputBfd)
  <2>1. TlsSlots(todo') = tl
    BY <1>1, <1>3 DEF tl
  <2>2. EndIn(gots', OutputBfd) = lo + gl + tl
    BY <1>5 DEF EndIn
  <2>3. QED
    BY <1>4, <1>5, <2>1, <2>2
<1>8. QED
  BY <1>1, <1>2, <1>6, <1>7 DEF Placement

\* A new range has room for its TLS entries, and moves no slot.
LEMMA PlacementAssign == Base /\ Placement /\ AssignRange => Placement'
<1> SUFFICES ASSUME Base, Placement, AssignRange PROVE Placement'
  OBVIOUS
<1>0. Shape /\ Counts /\ gots \in [GotIds -> GotInfo] /\ order \in Seq(GotIds)
  BY DEF Base, Shape, Types
<1> DEFINE g == Head(chain)
           first == LastEnd + Reserved
<1>1. first = LastEnd + Reserved /\ g = Head(chain)
  OBVIOUS
<1> HIDE DEF g, first
<1>2. /\ pc = "assign" /\ pc' = "tls" /\ link \in Links /\ multi
      /\ g \in GotIds /\ g \notin Range(order)
      /\ Range(order') = Range(order) \cup {g}
      /\ order'[Len(order')] = g
      /\ todo' = TlsIn(gots[g].entries)
      /\ gots' \in [GotIds -> GotInfo]
      /\ \A h \in GotIds : h # g => gots'[h] = gots[h]
      /\ Same(gots[g], gots'[g])
      /\ gots'[g].tls_assigned_gotno = gots'[g].local_gotno + gots[g].global_gotno
      /\ UNCHANGED <<link, area, multi, primary, slots>>
  BY <1>0, <1>1, AssignRangeStep
<1>3. Range(order) \subseteq GotIds
  BY <1>0, RangeIs
<1>4. \A h \in GotIds : Same(gots[h], gots'[h])
  BY <1>0, <1>2, SameRefl
<1>5. /\ \A sl \in slots : /\ sl \in SlotType
                           /\ pc' \in Late /\ sl.got \in Range(order') /\ SlotFits(gots', sl)
      /\ multi => \A sl \in slots :
           SlotFar(gots', area', primary', sl) \/ SlotNear(gots', link', primary', sl)
  BY <1>2, <1>3, <1>4, SlotsStay DEF Late
<1>6. /\ gots'[g].local_gotno <= gots'[g].tls_assigned_gotno
      /\ gots'[g].tls_assigned_gotno + TlsSlots(todo') = EndIn(gots', g)
  <2>1. gots'[g].tls_gotno = TlsSlots(gots[g].entries)
    BY <1>0, <1>2 DEF Counts, LateCounts, Late, Same
  <2>2. TlsSlots(todo') = gots'[g].tls_gotno
    BY <1>2, <2>1, TlsSlotsTls
  <2>3. /\ gots'[g].local_gotno \in Nat /\ gots'[g].global_gotno \in Nat
        /\ gots'[g].tls_gotno \in Nat /\ gots'[g].global_gotno = gots[g].global_gotno
    BY <1>2 DEF Same, GotInfo
  <2>4. QED
    BY <1>2, <2>2, <2>3 DEF EndIn
<1>7. QED
  BY <1>2, <1>5, <1>6 DEF Placement

\* A TLS entry takes the next slots of the GOT assigned last.
LEMMA PlacementTls ==
  ASSUME Base, Placement, NEW e \in todo, InitializeTlsIndex(e)
  PROVE  Placement'
<1>0. Shape /\ Counts /\ gots \in [GotIds -> GotInfo] /\ order \in Seq(GotIds)
  BY DEF Base, Shape, Types
<1> DEFINE g == order[Len(order)]
<1>1. g = order[Len(order)]
  OBVIOUS
<1> HIDE DEF g
<1> DEFINE size == TlsSize(e.tls)
           at == gots[g].tls_assigned_gotno
           new == Slot(g, Key(e), at, size)
<1>2. /\ pc = "tls" /\ link \in Links /\ g \in GotIds /\ g \in Range(order)
      /\ todo \subseteq TlsIn(gots[g].entries) /\ todo' = todo \ {e}
      /\ e \in Entry /\ IsTls(e) /\ size \in 1..3
      /\ slots' = slots \cup {new}
      /\ gots' \in [GotIds -> GotInfo]
      /\ \A h \in GotIds : h # g => gots'[h] = gots[h]
      /\ Same(gots[g], gots'[g])
      /\ gots'[g].local_gotno = gots[g].local_gotno
      /\ gots'[g].tls_assigned_gotno = at + size
      /\ UNCHANGED <<pc, link, area, multi, primary, order>>
  BY <1>0, <1>1, InitializeTlsStep
<1>3. Range(order) \subseteq GotIds
  BY <1>0, RangeIs
<1>4. /\ \A h \in GotIds : Same(gots[h], gots'[h])
      /\ \A h \in GotIds : gots'[h].local_gotno = gots[h].local_gotno
  BY <1>0, <1>2, SameRefl
<1>5. /\ \A sl \in slots : /\ sl \in SlotType
                           /\ pc' \in Late /\ sl.got \in Range(order') /\ SlotFits(gots', sl)
      /\ multi => \A sl \in slots :
           SlotFar(gots', area', primary', sl) \/ SlotNear(gots', link', primary', sl)
  BY <1>2, <1>3, <1>4, SlotsStay DEF Late
<1>6. todo \in SUBSET Entry
  <2>1. gots[g].entries \subseteq Entry
    BY <1>0, <1>2 DEF GotInfo
  <2>2. QED
    BY <1>2, <2>1 DEF TlsIn
<1>7. TlsSlots(todo) = size + TlsSlots(todo \ {e}) /\ TlsSlots(todo \ {e}) \in Nat
  BY <1>2, <1>6, TlsSlotsOne
<1>8. /\ gots[g].local_gotno <= at /\ at + TlsSlots(todo) = EndIn(gots, g)
      /\ at \in Nat /\ gots[g].local_gotno \in Nat
  BY <1>0, <1>1, <1>2 DEF Placement, GotInfo
<1>9. EndIn(gots', g) = EndIn(gots, g) /\ EndIn(gots, g) \in Nat
  BY <1>0, <1>2, EndInNat DEF EndIn, Same
<1> DEFINE rest == TlsSlots(todo \ {e})
           end == EndIn(gots, g)
<1>10. /\ rest \in Nat /\ at \in Nat /\ size \in 1..3 /\ end \in Nat
       /\ at + (size + rest) = end /\ gots[g].local_gotno <= at /\ gots[g].local_gotno \in Nat
  BY <1>2, <1>7, <1>8, <1>9
<1>11. /\ new \in SlotType /\ new.got = g /\ new.first = at /\ new.size = size
  <2>1. Key(e) \in GotIds \X AllSyms
    BY <1>2, KeyType
  <2> HIDE DEF at, size
  <2>2. QED
    BY <1>2, <1>10, <2>1, SlotIs
<1> HIDE DEF rest, end, at, size, new
<1>12. gots[g].local_gotno <= at /\ at + size <= end
       /\ gots[g].local_gotno <= at + size /\ (at + size) + rest = end
  BY <1>10
<1>13. SlotFits(gots', new)
  BY <1>2, <1>9, <1>11, <1>12 DEF SlotFits, end
<1>14. multi => SlotFar(gots', area', primary', new)
  <2>1. ASSUME multi, g = primary PROVE gots'[g].tls_gotno > 0
    <3>1. gots'[g].tls_gotno = TlsSlots(gots[g].entries)
      BY <1>0, <1>2, <2>1 DEF Counts, LateCounts, Late, Same
    <3>2. e \in gots[g].entries /\ gots[g].entries \in SUBSET Entry
      BY <1>0, <1>2 DEF TlsIn, GotInfo
    <3>3. /\ TlsSlots(gots[g].entries) = TlsSize(e.tls) + TlsSlots(gots[g].entries \ {e})
          /\ TlsSlots(gots[g].entries \ {e}) \in Nat /\ TlsSize(e.tls) \in 1..3
      BY <1>2, <3>2, TlsSlotsOne
    <3>4. QED
      BY <3>1, <3>3
  <2>2. QED
    BY <1>2, <1>11, <2>1 DEF SlotFar
<1>15. /\ gots'[g].local_gotno <= gots'[g].tls_assigned_gotno
       /\ gots'[g].tls_assigned_gotno + TlsSlots(todo') = EndIn(gots', g)
  BY <1>2, <1>9, <1>12 DEF rest, end
<1>16. order'[Len(order')] = g
  BY <1>1, <1>2
<1>17. \A sl \in slots' : sl \in slots \/ sl = new
  BY <1>2
<1>18. slots' \subseteq SlotType
  BY <1>5, <1>11, <1>17
<1>19. \A sl \in slots' : pc' \in Late /\ sl.got \in Range(order') /\ SlotFits(gots', sl)
  BY <1>2, <1>5, <1>11, <1>13, <1>17 DEF Late
<1>20. multi' => \A sl \in slots' :
         SlotFar(gots', area', primary', sl) \/ SlotNear(gots', link', primary', sl)
  BY <1>2, <1>5, <1>14, <1>17
<1>21. QED
  BY <1>15, <1>16, <1>18, <1>19, <1>20 DEF Placement

\* Values of the indices that a pass hands out.
LEMMA BijectionValue ==
  ASSUME NEW S, NEW T, NEW f \in Bijections(S, T), NEW s \in S
  PROVE  f[s] \in T
BY DEF Bijections

\* New slots of the GOTs in line, next to the old ones.
LEMMA PlacementAdds ==
  ASSUME Base, Placement, pc \in Late, pc' \in Late, pc' # "tls",
         UNCHANGED <<link, multi, primary, area, order, gots>>,
         NEW N, slots' = slots \cup N,
         \A sl \in N : /\ sl \in SlotType /\ sl.got \in Range(order) /\ SlotFits(gots, sl)
                       /\ multi => SlotFar(gots, area, primary, sl)
                                   \/ SlotNear(gots, link, primary, sl)
  PROVE  Placement'
<1>1. \A sl \in slots' : /\ sl \in SlotType /\ sl.got \in Range(order) /\ SlotFits(gots, sl)
                         /\ multi => SlotFar(gots, area, primary, sl)
                                     \/ SlotNear(gots, link, primary, sl)
  BY DEF Placement
<1>2. slots' \subseteq SlotType
  BY <1>1
<1>3. \A sl \in slots' : pc' \in Late /\ sl.got \in Range(order') /\ SlotFits(gots', sl)
  BY <1>1
<1>4. multi' => \A sl \in slots' :
        SlotFar(gots', area', primary', sl) \/ SlotNear(gots', link', primary', sl)
  BY <1>1
<1>5. QED
  BY <1>2, <1>3, <1>4 DEF Placement

\* The global entries of a secondary GOT fill its global area.
LEMMA PlacementGlobals ==
  ASSUME Base, Placement, NEW g \in GotIds, SetGlobalGotOffsets(g)
  PROVE  Placement'
<1>0. /\ Shape /\ Counts /\ gots \in [GotIds -> GotInfo] /\ order \in Seq(GotIds)
      /\ link \in Links
  BY DEF Base, Shape, Types
<1>1. /\ pc = "offsets" /\ pc' = pc /\ pc \in Late /\ g \in todo
      /\ UNCHANGED <<link, multi, primary, area, order, gots>>
      /\ \E pos \in Bijections(GlobalEntries(g), 0..(Cardinality(GlobalEntries(g)) - 1)) :
           slots' = slots \cup
             {Slot(g, Key(e), gots[g].local_gotno + pos[e], 1) : e \in GlobalEntries(g)}
  BY DEF SetGlobalGotOffsets, Late
<1>2. PICK pos \in Bijections(GlobalEntries(g), 0..(Cardinality(GlobalEntries(g)) - 1)) :
        slots' = slots \cup
          {Slot(g, Key(e), gots[g].local_gotno + pos[e], 1) : e \in GlobalEntries(g)}
  BY <1>1
<1>3. PICK i \in 2..Len(order) : g = order[i]
  BY <1>0, <1>1 DEF Shape, InLine
<1>4. g \in Range(order) /\ order # <<>> /\ g # order[1] /\ 1 \in 1..Len(order)
  <2>1. IsInjective(order)
    BY <1>0, <1>1 DEF Shape, InLine
  <2>2. i \in 1..Len(order) /\ 1 \in 1..Len(order) /\ i # 1
    BY <1>0, <1>3
  <2>3. QED
    BY <1>0, <1>3, <2>1, <2>2, RangeIs
<1>5. multi /\ g # primary
  <2>1. ~multi => order = <<OutputBfd>>
    BY <1>0, <1>1 DEF Shape, SingleShape
  <2>2. multi
    BY <1>3, <2>1
  <2>3. QED
    BY <1>0, <1>1, <1>4, <2>2 DEF Shape, InLine
<1>6. GlobalEntries(g) = GlobalIn(link, gots[g].entries)
  <2>1. AreasFinal(link, area)
    BY <1>0, <1>1 DEF Shape, AreaSettled
  <2>2. QED
    BY <2>1, AreaFacts DEF GlobalEntries, GlobalIn
<1>7. gots[g].global_gotno = Cardinality(GlobalEntries(g))
  BY <1>0, <1>1, <1>5, <1>6 DEF Counts, LateCounts
<1>8. ASSUME NEW e \in GlobalEntries(g)
      PROVE  LET sl == Slot(g, Key(e), gots[g].local_gotno + pos[e], 1) IN
             /\ sl \in SlotType /\ sl.got = g /\ SlotFits(gots, sl)
  <2> DEFINE n == gots[g].global_gotno
             lo == gots[g].local_gotno
             tl == gots[g].tls_gotno
             at == lo + pos[e]
             sl == Slot(g, Key(e), at, 1)
  <2>1. n \in Nat /\ lo \in Nat /\ tl \in Nat
    BY <1>0 DEF GotInfo
  <2>2. pos[e] \in 0..(n - 1)
    BY <1>7, <1>8, BijectionValue
  <2>3. e \in Entry
    BY <1>0, <1>8 DEF GlobalEntries, GotInfo
  <2>4. EndIn(gots, g) = lo + n + tl
    BY DEF EndIn
  <2> DEFINE p == pos[e]
  <2> HIDE DEF n, lo, tl, p
  <2>5. at \in Nat /\ lo <= at /\ at + 1 <= lo + n + tl
    BY <2>1, <2>2 DEF p
  <2>6. Key(e) \in GotIds \X AllSyms /\ 1 \in 1..3
    BY <2>3, KeyType
  <2> HIDE DEF at
  <2>7. sl \in SlotType /\ sl.got = g /\ sl.first = at /\ sl.size = 1
    BY <2>5, <2>6, SlotIs
  <2> HIDE DEF sl
  <2>8. SlotFits(gots, sl)
    BY <2>4, <2>5, <2>7 DEF SlotFits, lo
  <2>9. QED
    BY <2>7, <2>8 DEF sl, at, lo
<1> DEFINE N == {Slot(g, Key(e), gots[g].local_gotno + pos[e], 1) : e \in GlobalEntries(g)}
<1>9. \A sl \in N : sl \in SlotType /\ sl.got = g /\ SlotFits(gots, sl)
  BY <1>8
<1>10. slots' = slots \cup N
  BY <1>2
<1> HIDE DEF N
<1>11. \A sl \in N : /\ sl \in SlotType /\ sl.got \in Range(order) /\ SlotFits(gots, sl)
                     /\ multi => SlotFar(gots, area, primary, sl)
                                 \/ SlotNear(gots, link, primary, sl)
  BY <1>4, <1>5, <1>9 DEF SlotFar
<1>12. QED
  BY <1>1, <1>10, <1>11, PlacementAdds

\* The dynamic symbols: those of the primary GOT first.
LEMMA PlacementSort == Base /\ AreasPlaced /\ Reach /\ Placement /\ SortDynsyms => Placement'
<1> SUFFICES ASSUME Base, AreasPlaced, Reach, Placement, SortDynsyms PROVE Placement'
  OBVIOUS
<1>0. /\ Shape /\ Counts /\ gots \in [GotIds -> GotInfo] /\ order \in Seq(GotIds)
      /\ link \in Links
  BY DEF Base, Shape, Types
<1> DEFINE g == order[1]
           n == Cardinality(Normal)
           r == Cardinality(RelocOnly)
           lo == gots[g].local_gotno
           tl == gots[g].tls_gotno
<1>1. /\ pc = "offsets" /\ pc' = "relocate" /\ pc \in Late
      /\ UNCHANGED <<link, multi, primary, area, order, gots>>
      /\ \E down \in Bijections(Normal, 1..n), up \in Bijections(RelocOnly, 0..(r - 1)) :
           slots' = slots
             \cup {Slot(g, <<OutputBfd, s>>, (lo + n) - down[s], 1) : s \in Normal}
             \cup {Slot(g, <<OutputBfd, s>>, (lo + n) + up[s], 1) : s \in RelocOnly}
  BY DEF SortDynsyms, Late
<1>2. PICK down \in Bijections(Normal, 1..n), up \in Bijections(RelocOnly, 0..(r - 1)) :
        slots' = slots
          \cup {Slot(g, <<OutputBfd, s>>, (lo + n) - down[s], 1) : s \in Normal}
          \cup {Slot(g, <<OutputBfd, s>>, (lo + n) + up[s], 1) : s \in RelocOnly}
  BY <1>1
<1>3. order # <<>> /\ g = primary
  <2>1. order # <<>> /\ (IF order = <<>> THEN chain # <<>> /\ chain[1] = primary
                         ELSE order[1] = primary)
    BY <1>0, <1>1 DEF Shape, InLine
  <2>2. QED
    BY <2>1
<1>4. g \in GotIds /\ g \in Range(order)
  BY <1>0, <1>3, RangeIs
<1>5. n \in Nat /\ r \in Nat /\ n + r = global_gotno
  <2>1. IsFiniteSet(Normal) /\ IsFiniteSet(RelocOnly)
    BY NamesAssumption, FS_Subset DEF Normal, RelocOnly
  <2>2. QED
    BY <1>1, <2>1, SortAssertsHold, FS_CardinalityType DEF SortAsserts
<1>6. gots[g].global_gotno = global_gotno
  <2>1. CASE multi
    BY <1>0, <1>1, <1>3, <1>4, <2>1 DEF Counts, LateCounts
  <2>2. CASE ~multi
    <3>1. order = <<OutputBfd>>
      BY <1>0, <1>1, <2>2 DEF Shape, SingleShape
    <3>2. QED
      BY <1>1, <2>2, <3>1 DEF Reach
  <2>3. QED
    BY <2>1, <2>2
<1>7. lo \in Nat /\ tl \in Nat /\ EndIn(gots, g) = lo + (n + r) + tl
  BY <1>0, <1>4, <1>5, <1>6 DEF EndIn, GotInfo
<1>8. multi => n = GlobalsIn(link, gots[primary])
  <2> SUFFICES ASSUME multi PROVE n = GlobalsIn(link, gots[primary])
    OBVIOUS
  <2>1. Normal = {e.sym : e \in PrimaryTable}
    <3>1. \A e \in PrimaryTable : e.sym \in Syms
      BY DEF PrimaryTable, GlobalIn, GlobalOf
    <3>2. QED
      BY <1>1, <3>1 DEF AreasPlaced, Normal
  <2>2. QED
    BY <1>1, <2>1, PrimaryTableFits DEF GlobalsIn, PrimaryTable
<1>9. \A s \in Syms : <<OutputBfd, s>> \in GotIds \X AllSyms
  BY DEF GotIds, AllSyms
<1>10. 1 \in 1..3
  OBVIOUS
<1> HIDE DEF g, n, r, lo, tl
<1>11. ASSUME NEW s \in Normal
       PROVE  LET sl == Slot(g, <<OutputBfd, s>>, (lo + n) - down[s], 1) IN
              /\ sl \in SlotType /\ sl.got \in Range(order) /\ SlotFits(gots, sl)
              /\ multi => SlotFar(gots, area, primary, sl) \/ SlotNear(gots, link, primary, sl)
  <2> DEFINE d == down[s]
             at == (lo + n) - d
             sl == Slot(g, <<OutputBfd, s>>, at, 1)
  <2>1. d \in 1..n
    BY BijectionValue
  <2> HIDE DEF d
  <2>2. at \in Nat /\ lo <= at /\ at + 1 <= lo + n /\ at + 1 <= lo + (n + r) + tl
    BY <1>5, <1>7, <2>1
  <2> HIDE DEF at
  <2>3. s \in Syms
    BY DEF Normal
  <2>4. sl \in SlotType /\ sl.got = g /\ sl.first = at /\ sl.size = 1
    BY <1>4, <1>9, <1>10, <2>2, <2>3, SlotIs
  <2> HIDE DEF sl
  <2>5. SlotFits(gots, sl)
    BY <1>7, <2>2, <2>4 DEF SlotFits, lo
  <2>6. multi => SlotNear(gots, link, primary, sl)
    BY <1>3, <1>8, <2>2, <2>4 DEF SlotNear, lo
  <2>7. QED
    BY <1>4, <2>4, <2>5, <2>6 DEF sl, at, d
<1>12. ASSUME NEW s \in RelocOnly
       PROVE  LET sl == Slot(g, <<OutputBfd, s>>, (lo + n) + up[s], 1) IN
              /\ sl \in SlotType /\ sl.got \in Range(order) /\ SlotFits(gots, sl)
              /\ multi => SlotFar(gots, area, primary, sl) \/ SlotNear(gots, link, primary, sl)
  <2> DEFINE d == up[s]
             at == (lo + n) + d
             sl == Slot(g, <<OutputBfd, s>>, at, 1)
  <2>1. d \in 0..(r - 1)
    BY BijectionValue
  <2> HIDE DEF d
  <2>2. at \in Nat /\ lo <= at /\ at + 1 <= lo + (n + r) + tl
    BY <1>5, <1>7, <2>1
  <2> HIDE DEF at
  <2>3. s \in Syms /\ area[s] = "RELOC_ONLY"
    BY DEF RelocOnly
  <2>4. /\ sl \in SlotType /\ sl.got = g /\ sl.first = at /\ sl.size = 1
        /\ sl.key = <<OutputBfd, s>>
    BY <1>4, <1>9, <1>10, <2>2, <2>3, SlotIs
  <2> HIDE DEF sl
  <2>5. SlotFits(gots, sl)
    BY <1>7, <2>2, <2>4 DEF SlotFits, lo
  <2>6. SlotFar(gots, area, primary, sl)
    BY <2>3, <2>4 DEF SlotFar
  <2>7. QED
    BY <1>4, <2>4, <2>5, <2>6 DEF sl, at, d
<1> DEFINE A == {Slot(g, <<OutputBfd, s>>, (lo + n) - down[s], 1) : s \in Normal}
           B == {Slot(g, <<OutputBfd, s>>, (lo + n) + up[s], 1) : s \in RelocOnly}
<1>13. \A sl \in A \cup B :
         /\ sl \in SlotType /\ sl.got \in Range(order) /\ SlotFits(gots, sl)
         /\ multi => SlotFar(gots, area, primary, sl) \/ SlotNear(gots, link, primary, sl)
  BY <1>11, <1>12
<1>14. slots' = slots \cup (A \cup B)
  BY <1>2
<1> HIDE DEF A, B
<1>15. pc' \in Late /\ pc' # "tls"
  BY <1>1 DEF Late
<1>16. QED
  BY <1>1, <1>13, <1>14, <1>15, PlacementAdds

\* Placement in every step.
LEMMA PlacementNext ==
  Base /\ AreasPlaced /\ Reach /\ Placement /\ [Next]_vars => Placement'
<1> SUFFICES ASSUME Base, AreasPlaced, Reach, Placement, [Next]_vars PROVE Placement'
  OBVIOUS
<1>0. /\ Shape /\ gots \in [GotIds -> GotInfo] /\ order \in Seq(GotIds)
  BY DEF Base, Shape, Types
<1>1. CASE SplitGot \/ MakeGotPerBfd \/ (\E b \in Bfds : MergeGot(b)) \/ ChoosePrimary
  <2>1. pc \in Early /\ pc' # "tls" /\ slots' = slots
    BY <1>1 DEF SplitGot, MakeGotPerBfd, MergeGot, MergeUnchanged, ChoosePrimary, LayOutGot,
                Early
  <2>2. slots' = {}
    BY <2>1, NoSlotsEarly
  <2>3. QED
    BY <2>1, <2>2 DEF Placement
<1>2. \A h \in GotIds : Same(gots[h], gots[h])
  BY <1>0, SameRefl
<1>3. CASE NextGot \/ FinishLink
  <2>1. /\ pc \in Late /\ pc' \in Late
        /\ UNCHANGED <<link, area, gots, multi, primary, order>>
    BY <1>3, BaseRest
  <2>2. CASE pc' = "assign" \/ pc' = "offsets" \/ pc' = "finished"
    <3>1. pc' # "tls" /\ slots' = slots
      BY <1>3, <2>2 DEF NextGot, FinishLink
    <3> DEFINE N == {}
    <3>2. /\ slots' = slots \cup N
          /\ \A sl \in N : /\ sl \in SlotType /\ sl.got \in Range(order)
                           /\ SlotFits(gots, sl)
                           /\ multi => SlotFar(gots, area, primary, sl)
                                       \/ SlotNear(gots, link, primary, sl)
      BY <3>1
    <3> HIDE DEF N
    <3>3. QED
      BY <2>1, <3>1, <3>2, PlacementAdds
  <2>3. QED
    BY <1>3, <2>2 DEF NextGot, FinishLink
<1>4. ASSUME NEW b \in Bfds, RelocateBfd(b) PROVE Placement'
  <2> DEFINE g == bfd2got[b]
  <2>1. g = bfd2got[b]
    OBVIOUS
  <2> HIDE DEF g
  <2>2. /\ pc = "relocate" /\ UNCHANGED <<pc, link, multi, primary, area, order, slots>>
        /\ \A h \in GotIds : h # g => gots'[h] = gots[h]
        /\ gots'[g].local_gotno = gots[g].local_gotno
        /\ Same(gots[g], gots'[g])
    BY <1>0, <1>4, <2>1, RelocateBfdStep
  <2>3. /\ \A h \in GotIds : Same(gots[h], gots'[h])
        /\ \A h \in GotIds : gots'[h].local_gotno = gots[h].local_gotno
        /\ Range(order) \subseteq GotIds
    BY <1>0, <1>2, <2>2, RangeIs
  <2>4. /\ \A sl \in slots : /\ sl \in SlotType
                             /\ pc' \in Late /\ sl.got \in Range(order') /\ SlotFits(gots', sl)
        /\ multi => \A sl \in slots :
             SlotFar(gots', area', primary', sl) \/ SlotNear(gots', link', primary', sl)
    BY <2>2, <2>3, SlotsStay DEF Late
  <2>5. QED
    BY <2>2, <2>4 DEF Placement
<1>5. CASE UNCHANGED vars
  BY <1>5 DEF vars, Placement
<1>6. QED
  BY <1>1, <1>3, <1>4, <1>5, PlacementLayOutSingle, PlacementAssign, PlacementTls,
     PlacementGlobals, PlacementSort DEF Next, GotIds

\* Placement is an invariant.
LEMMA PlacementInvariance == Spec => []Placement
<1>1. Init => Placement
  BY DEF Init, Placement
<1>2. Base /\ AreasPlaced /\ Reach /\ Placement /\ [Next]_vars => Placement'
  BY PlacementNext
<1>3. QED
  BY <1>1, <1>2, BaseInvariance, AreasPlacedInvariance, ReachInvariance, PTL DEF Spec

-----------------------------------------------------------------------------
(***************************************************************************)
(* Everything is within reach.                                             *)
(***************************************************************************)

\* Base is where a GOT begins: there is one place in line for each.
LEMMA BaseIs ==
  ASSUME order \in Seq(GotIds), IsInjective(order), NEW i \in 1..Len(order)
  PROVE  BaseOf(order[i]) = BaseIn(gots, order, i)
<1>1. (CHOOSE j \in 1..Len(order) : order[j] = order[i]) = i
  BY DEF IsInjective
<1>2. QED
  BY <1>1 DEF BaseOf, BaseIn, EndOf, EndIn

\* A GOT that several bfds use has a user that it was not made for.
LEMMA SharedGot ==
  ASSUME NEW g \in GotIds, Cardinality(Users(g)) > 1
  PROVE  \E b \in Bfds \ {g} : bfd2got[b] = g
<1>1. SUFFICES ASSUME Users(g) \subseteq {g} PROVE FALSE
  BY DEF Users
<1>2. IsFiniteSet({g}) /\ Cardinality({g}) = 1
  BY FS_Singleton
<1>3. Cardinality(Users(g)) <= 1 /\ Cardinality(Users(g)) \in Nat
  BY <1>1, <1>2, FS_Subset, FS_CardinalityType
<1>4. QED
  BY <1>3

\* A symbol that the bfds of the primary GOT refer to is not among those whose
\* entries follow those that the GOT uses itself.
LEMMA UsedIsNormal ==
  ASSUME Base, AreasPlaced, multi, pc \in Late,
         NEW e \in link.entries, bfd2got[e.abfd] = primary,
         NEW s \in Syms, Key(e) = <<OutputBfd, s>>
  PROVE  area[s] # "RELOC_ONLY"
<1>1. SUFFICES ASSUME area[s] = "RELOC_ONLY" PROVE FALSE
  OBVIOUS
<1>2. link \in Links /\ e.abfd \in Bfds
  BY LinkFacts DEF Base, Shape, Types
<1>3. PICK f \in gots[primary].entries : Key(f) = Key(e)
  BY <1>2 DEF Base, Counts, Covered, Covers, EntriesIn
<1>4. f.sym = s
  BY <1>3 DEF Key
<1>5. f \in link.entries
  BY <1>3 DEF Base, Counts, LateCounts, Shape, Types
<1>6. AreaOf(link, s) # "NONE"
  BY <1>1 DEF Base, Shape, AreaSettled, AreasFinal, Late
<1>7. ~IsTls(f)
  <2>1. SUFFICES ASSUME IsTls(f) PROVE FALSE
    OBVIOUS
  <2>2. s \notin link.reloc_only /\ \A h \in link.entries : h.sym = s => IsTls(h)
    BY <1>2, <1>4, <1>5, <2>1, EntriesAssumption
  <2>3. QED
    BY <1>6, <2>2 DEF AreaOf
<1>8. f \in PrimaryTable
  BY <1>3, <1>4, <1>6, <1>7 DEF PrimaryTable, GlobalIn, GlobalOf
<1>9. area[s] = "NORMAL"
  BY <1>4, <1>8 DEF AreasPlaced
<1>10. QED
  BY <1>1, <1>9

\* The reach of the GOT in place i, from where it begins.
InReach(g, base) ==
  /\ gots[g].local_gotno - base <= MaxGotNo
  /\ \A e \in link.entries, sl \in slots :
       bfd2got[e.abfd] = g /\ sl.got = g /\ sl.key = Key(e) =>
         sl.first + sl.size - base <= MaxGotNo

\* A GOT of at most MaxGotNo entries is within reach.
LEMMA FitsInReach ==
  ASSUME Base, Placement, NEW g \in GotIds, NEW base \in Nat,
         EndIn(gots, g) - base <= MaxGotNo
  PROVE  InReach(g, base)
<1>1. gots[g] \in GotInfo
  BY DEF Base, Shape, Types
<1>2. /\ gots[g].local_gotno \in Nat /\ gots[g].global_gotno \in Nat
      /\ gots[g].tls_gotno \in Nat /\ MaxGotNo \in Nat
  BY <1>1, SizesAssumption DEF GotInfo
<1>3. gots[g].local_gotno - base <= MaxGotNo
  BY <1>2 DEF EndIn
<1>4. ASSUME NEW sl \in slots, sl.got = g
      PROVE  sl.first + sl.size - base <= MaxGotNo
  <2>1. sl.first \in Nat /\ sl.size \in Nat
    BY DEF Placement, SlotType
  <2>2. sl.first + sl.size <= EndIn(gots, g)
    BY <1>4 DEF Placement, SlotFits
  <2>3. EndIn(gots, g) \in Nat
    BY <1>2 DEF EndIn
  <2>4. QED
    BY <1>2, <2>1, <2>2, <2>3
<1>5. QED
  BY <1>3, <1>4 DEF InReach

\* A link with one GOT.
LEMMA SingleInReach ==
  ASSUME Base, Reach, Placement, ~multi, pc \in Late
  PROVE  InReach(OutputBfd, 0)
<1>1. EndIn(gots, OutputBfd) <= MaxGotNo /\ OutputBfd \in GotIds
  BY DEF Reach, Late, GotIds
<1>2. EndIn(gots, OutputBfd) \in Nat
  BY <1>1, EndInNat DEF Base, Shape, Types
<1>3. QED
  BY <1>1, <1>2, FitsInReach

\* The primary GOT of several: either all global entries were charged, or those
\* that its bfds use come first.
LEMMA PrimaryInReach ==
  ASSUME Base, AreasPlaced, Ranges, Reach, Placement, multi, pc \in Late,
         order # <<>>, order[1] = primary
  PROVE  InReach(primary, 0)
<1>0. /\ link \in Links /\ primary \in GotIds /\ gots[primary] \in GotInfo
      /\ order \in Seq(GotIds) /\ 1 \in 1..Len(order)
  BY DEF Base, Shape, Types
<1> DEFINE got == gots[primary]
           here == Cardinality(LocalIn(link, got.entries))
           paged == Min2(link.pages, got.page_gotno)
           named == GlobalsIn(link, got)
<1>1. got.local_gotno = 0 + Reserved + here + paged
  BY <1>0 DEF Ranges, BaseIn
<1>2. Need(link, got) = here + paged + got.tls_gotno
  BY DEF Need
<1>3. Charge(link, got, global_gotno) <= MaxGotNo - Reserved
  BY DEF Reach
<1>4. /\ here \in Nat /\ paged \in Nat /\ named \in Nat /\ got.tls_gotno \in Nat
      /\ got.local_gotno \in Nat /\ got.global_gotno \in Nat
  <2>1. got.entries \in SUBSET Entry /\ link.pages \in Nat
    BY <1>0, LinkFacts DEF GotInfo
  <2>2. QED
    BY <1>0, <2>1, PartsFinite, NeedNat DEF GotInfo, Min2
<1>5. MaxGotNo \in Nat /\ Reserved \in Nat
  BY SizesAssumption
<1>6. CASE got.tls_gotno > 0
  <2>1. got.global_gotno = global_gotno
    BY <1>0 DEF Base, Counts, LateCounts
  <2>2. Charge(link, got, global_gotno) = Need(link, got) + global_gotno
    BY <1>6 DEF Charge
  <2>3. EndIn(gots, primary) = got.local_gotno + got.global_gotno + got.tls_gotno
    BY DEF EndIn
  <2> DEFINE c == Charge(link, got, global_gotno)
             n == Need(link, got)
             end == EndIn(gots, primary)
  <2> HIDE DEF c, n, end, got, here, paged, named
  <2>4. end - 0 <= MaxGotNo
    BY <1>1, <1>2, <1>3, <1>4, <1>5, <2>1, <2>2, <2>3 DEF c, n, end
  <2>5. QED
    BY <1>0, <2>4, FitsInReach DEF end
<1>7. CASE ~ (got.tls_gotno > 0)
  <2>1. Charge(link, got, global_gotno) = Need(link, got) + named
    BY <1>7 DEF Charge
  <2>2. got.local_gotno + named <= MaxGotNo
    <3> DEFINE c == Charge(link, got, global_gotno)
               n == Need(link, got)
    <3> HIDE DEF c, n, got, here, paged, named
    <3>1. QED
      BY <1>1, <1>2, <1>3, <1>4, <1>5, <2>1 DEF c, n
  <2>3. ASSUME NEW e \in link.entries, NEW sl \in slots,
               bfd2got[e.abfd] = primary, sl.got = primary, sl.key = Key(e)
        PROVE  sl.first + sl.size - 0 <= MaxGotNo
    <3>1. ~ SlotFar(gots, area, primary, sl)
      BY <1>7, <2>3, UsedIsNormal DEF SlotFar
    <3>2. sl.first + sl.size <= got.local_gotno + named
      BY <3>1 DEF Placement, SlotNear
    <3>3. sl.first \in Nat /\ sl.size \in Nat
      BY DEF Placement, SlotType
    <3> HIDE DEF got, here, paged, named
    <3>4. QED
      BY <1>4, <1>5, <2>2, <3>2, <3>3
  <2>4. gots[primary].local_gotno - 0 <= MaxGotNo
    <3>1. got.local_gotno - 0 <= MaxGotNo
      <4> HIDE DEF got, here, paged, named
      <4>1. QED
        BY <1>4, <1>5, <2>2
    <3>2. QED
      BY <3>1
  <2>5. QED
    BY <2>3, <2>4 DEF InReach
<1>8. QED
  BY <1>6, <1>7

\* A secondary GOT that several bfds share.
LEMMA SecondaryInReach ==
  ASSUME Base, Ranges, Reach, Placement, multi, pc \in Late,
         NEW i \in 1..Len(order), order[i] # primary, Cardinality(Users(order[i])) > 1
  PROVE  InReach(order[i], BaseIn(gots, order, i))
<1> DEFINE g == order[i]
           base == BaseIn(gots, order, i)
<1>0. /\ link \in Links /\ g \in GotIds /\ gots[g] \in GotInfo
      /\ order \in Seq(GotIds) /\ gots \in [GotIds -> GotInfo]
  BY DEF Base, Shape, Types
<1> DEFINE got == gots[g]
           here == Cardinality(LocalIn(link, got.entries))
           paged == Min2(link.pages, got.page_gotno)
<1>1. got.local_gotno = base + Reserved + here + paged
  BY DEF Ranges
<1>2. Need(link, got) = here + paged + got.tls_gotno
  BY DEF Need
<1>3. Need(link, got) + GlobalsIn(link, got) <= MaxGotNo - Reserved
  <2>1. \E b \in Bfds \ {g} : bfd2got[b] = g
    BY <1>0, SharedGot
  <2>2. QED
    BY <1>0, <2>1 DEF Reach
<1>4. got.global_gotno = GlobalsIn(link, got)
  BY <1>0 DEF Base, Counts, LateCounts, GlobalsIn
<1>5. /\ here \in Nat /\ paged \in Nat /\ got.tls_gotno \in Nat /\ base \in Nat
      /\ got.local_gotno \in Nat /\ got.global_gotno \in Nat
  <2>1. got.entries \in SUBSET Entry /\ link.pages \in Nat
    BY <1>0, LinkFacts DEF GotInfo
  <2>2. base \in Nat
    BY <1>0, EndInNat
  <2>3. QED
    BY <1>0, <2>1, <2>2, PartsFinite DEF GotInfo, Min2
<1>6. EndIn(gots, g) = got.local_gotno + got.global_gotno + got.tls_gotno
  BY DEF EndIn
<1>7. MaxGotNo \in Nat /\ Reserved \in Nat
  BY SizesAssumption
<1>8. EndIn(gots, g) - base <= MaxGotNo
  <2> DEFINE n == Need(link, got)
             k == GlobalsIn(link, got)
             end == EndIn(gots, g)
  <2> HIDE DEF n, k, end, got, here, paged, base
  <2>1. end - base <= MaxGotNo
    BY <1>1, <1>2, <1>3, <1>4, <1>5, <1>6, <1>7 DEF n, k, end
  <2>2. QED
    BY <2>1 DEF end
<1>9. QED
  BY <1>0, <1>5, <1>8, FitsInReach

\* All of them.
LEMMA WithinReachHolds ==
  Base /\ AreasPlaced /\ Ranges /\ Reach /\ Placement => WithinReach
<1> SUFFICES ASSUME Base, AreasPlaced, Ranges, Reach, Placement, LaidOut,
                    NEW i \in 1..Len(order)
             PROVE  /\ order[i] = order[1] \/ Cardinality(Users(order[i])) > 1 =>
                         InReach(order[i], BaseOf(order[i]))
                    /\ \A sl \in slots : sl.got = order[i] =>
                         /\ gots[order[i]].local_gotno <= sl.first
                         /\ sl.first + sl.size <= EndOf(order[i])
  BY DEF WithinReach, InReach
<1>1. /\ pc \in Late /\ pc # "layout" /\ pc # "assign"
      /\ order \in Seq(GotIds) /\ IsInjective(order)
      /\ order # <<>> /\ order[1] = primary /\ 1 \in 1..Len(order)
  BY DEF LaidOut, Late, Base, Shape, Types, InLine
<1>2. BaseOf(order[i]) = BaseIn(gots, order, i) /\ BaseOf(order[1]) = 0
  BY <1>1, BaseIs DEF BaseIn
<1>3. \A sl \in slots : sl.got = order[i] =>
        gots[order[i]].local_gotno <= sl.first /\ sl.first + sl.size <= EndOf(order[i])
  BY DEF Placement, SlotFits, EndIn, EndOf
<1>4. CASE ~multi
  <2>0. order = <<OutputBfd>>
    BY <1>1, <1>4 DEF Base, Shape, SingleShape
  <2>1. i = 1 /\ order[i] = OutputBfd
    <3>1. Len(order) = 1 /\ order[1] = OutputBfd
      BY <2>0
    <3>2. QED
      BY <3>1
  <2>2. InReach(OutputBfd, 0)
    BY <1>1, <1>4, SingleInReach
  <2>3. QED
    BY <1>2, <1>3, <2>1, <2>2
<1>5. CASE multi /\ order[i] = order[1]
  BY <1>1, <1>2, <1>3, <1>5, PrimaryInReach
<1>6. CASE multi /\ order[i] # order[1]
  <2>1. order[i] # primary
    BY <1>1, <1>6
  <2>2. ASSUME Cardinality(Users(order[i])) > 1
        PROVE  InReach(order[i], BaseIn(gots, order, i))
    BY <1>1, <1>6, <2>1, <2>2, SecondaryInReach
  <2>3. QED
    BY <1>2, <1>3, <1>6, <2>2
<1>7. QED
  BY <1>4, <1>5, <1>6

\* "Each one 16-bit addressable" (mips_elf_multi_got): whatever the order in
\* which the hash tables are visited, the primary GOT and every GOT that
\* several bfds share hold what their bfds refer to within MaxGotNo entries of
\* their start, and no slot is in a local area or past the end of its GOT.
THEOREM EntriesWithinReach == Spec => []WithinReach
<1>1. Room => Ranges
  BY DEF Room
<1>2. QED
  BY <1>1, BaseInvariance, AreasPlacedInvariance, RoomInvariance, ReachInvariance,
     PlacementInvariance, WithinReachHolds, PTL

-----------------------------------------------------------------------------
(***************************************************************************)
(* Owned: the GOTs that are in use have entries of their own users only,   *)
(* so that no two of them have an entry in common.                         *)
(***************************************************************************)
Owns(G, B, g) == \A e \in G[g].entries : B[e.abfd] = g

Owned ==
  /\ pc = "merge" =>
       /\ gots[OutputBfd].entries = {}
       /\ \A g \in todo : \A e \in gots[g].entries : e.abfd = g
       /\ \A g \in Range(chain) \cup {primary} : Owns(gots, bfd2got, g)
  /\ pc \in Late /\ multi =>
       /\ \A g \in Range(order) \cup Range(chain) : Owns(gots, bfd2got, g)
       /\ OutputBfd \in Range(order) \cup Range(chain) => primary = OutputBfd

\* A merge takes over entries of a bfd that moves with them.
LEMMA OwnedMergeInto ==
  ASSUME Base, Owned, pc = "merge", NEW b \in todo, todo' = todo \ {b},
         UNCHANGED <<pc, link, multi>>,
         NEW g \in Range(chain) \cup ({primary} \ {OutputBfd}), MergeInto(b, g)
  PROVE  Owned'
<1>0. Shape /\ Counts /\ chain \in Seq(GotIds) /\ primary \in GotIds /\ link \in Links
  BY DEF Base, Shape, Types
<1>1. /\ b \in Bfds /\ g \in GotIds /\ g \in Bfds /\ g # b
      /\ bfd2got[b] = b /\ bfd2got[g] = g
      /\ gots'[g].entries \subseteq gots[g].entries \cup gots[b].entries
      /\ \A h \in GotIds : h # g => gots'[h] = gots[h]
      /\ \A c \in Bfds : bfd2got'[c] = IF c = b THEN g ELSE bfd2got[c]
      /\ UNCHANGED <<primary, chain>>
  <2>1. /\ b \in Bfds /\ g \in GotIds /\ g \in Bfds /\ g # b
        /\ bfd2got[b] = b /\ bfd2got[g] = g
        /\ Absorbed(link, gots[g], gots[b].entries, gots[b].page_gotno, gots'[g])
        /\ \A h \in GotIds : h # g => gots'[h] = gots[h]
        /\ \A c \in Bfds : bfd2got'[c] = IF c = b THEN g ELSE bfd2got[c]
        /\ UNCHANGED <<primary, chain>>
    BY <1>0, MergeIntoStep
  <2>2. gots'[g].entries \subseteq gots[g].entries \cup gots[b].entries
    BY <2>1 DEF Absorbed
  <2>3. QED
    BY <2>1, <2>2
<1>2. /\ gots[OutputBfd].entries = {}
      /\ \A h \in todo : \A e \in gots[h].entries : e.abfd = h
      /\ \A h \in Range(chain) \cup {primary} : Owns(gots, bfd2got, h)
  BY DEF Owned
<1>3. \A h \in GotIds : \A e \in gots[h].entries : e.abfd \in Bfds
  BY <1>0, LinkFacts DEF Counts, MergeCounts
<1>4. /\ todo \subseteq Bfds /\ Range(chain) \subseteq GotIds
      /\ b \notin Range(chain) /\ b # primary /\ g \notin todo
  BY <1>0, <1>1, RangeIs, NamesAssumption DEF Shape, Merging, WithGot
<1>5. gots'[OutputBfd].entries = {}
  BY <1>1, <1>2, NamesAssumption DEF GotIds
<1>6. \A h \in todo' : \A e \in gots'[h].entries : e.abfd = h
  BY <1>1, <1>2, <1>4 DEF GotIds
<1>7. ASSUME NEW h \in Range(chain) \cup {primary} PROVE Owns(gots', bfd2got', h)
  <2>1. \A e \in gots[h].entries : e.abfd \in Bfds /\ bfd2got[e.abfd] = h /\ e.abfd # b
    BY <1>0, <1>1, <1>2, <1>3, <1>4 DEF Owns
  <2>2. CASE h # g
    BY <1>0, <1>1, <1>4, <2>1, <2>2 DEF Owns
  <2>3. CASE h = g
    BY <1>1, <1>2, <2>1, <2>3 DEF Owns
  <2>4. QED
    BY <2>2, <2>3
<1>8. QED
  BY <1>1, <1>5, <1>6, <1>7 DEF Owned, Late

\* Owned when a bfd is visited by the merge.
LEMMA OwnedMerge ==
  ASSUME Base, Owned, NEW b \in Bfds, MergeGot(b)
  PROVE  Owned'
<1>0. Shape /\ Counts /\ chain \in Seq(GotIds) /\ primary \in GotIds
  BY DEF Base, Shape, Types
<1>1. /\ pc = "merge" /\ b \in todo /\ todo' = todo \ {b} /\ bfd2got[b] = b
      /\ b \in GotIds /\ b \notin Range(chain) /\ IsInjective(chain)
      /\ UNCHANGED <<pc, link, multi>>
  BY <1>0 DEF MergeGot, MergeUnchanged, Shape, Merging, GotIds
<1>2. Owns(gots, bfd2got, b)
  BY <1>1 DEF Owned, Owns
<1>3. CASE BecomePrimary(b)
  BY <1>1, <1>2, <1>3 DEF BecomePrimary, Owned, Late
<1>4. CASE BecomeCurrent(b)
  <2>1. chain' = <<b>> \o chain /\ UNCHANGED <<gots, bfd2got, primary>>
    BY <1>4 DEF BecomeCurrent
  <2>2. Range(chain') = Range(chain) \cup {b}
    BY <1>0, <1>1, <2>1, ConsRange
  <2>3. QED
    BY <1>1, <1>2, <2>1, <2>2 DEF Owned, Late
<1>5. CASE MergeWithPrimary(b)
  <2>1. primary # OutputBfd /\ MergeInto(b, primary)
    BY <1>5 DEF MergeWithPrimary, FitsPrimary
  <2>2. QED
    BY <1>1, <2>1, OwnedMergeInto
<1>6. CASE MergeWithCurrent(b)
  <2> DEFINE g == Head(chain)
  <2>1. chain # <<>> /\ MergeInto(b, g)
    BY <1>6 DEF MergeWithCurrent, FitsCurrent
  <2>2. g \in Range(chain)
    BY <1>0, <1>1, <2>1, TailRange
  <2> HIDE DEF g
  <2>3. QED
    BY <1>1, <2>1, <2>2, OwnedMergeInto
<1>7. QED
  BY <1>3, <1>4, <1>5, <1>6 DEF MergeGot

\* Owned when the primary GOT is chosen.
LEMMA OwnedChoosePrimary == Base /\ Owned /\ ChoosePrimary => Owned'
<1> SUFFICES ASSUME Base, Owned, ChoosePrimary PROVE Owned'
  OBVIOUS
<1>0. Shape /\ Counts /\ chain \in Seq(GotIds) /\ gots \in [GotIds -> GotInfo]
  BY DEF Base, Shape, Types
<1>1. /\ pc = "merge" /\ pc' = "assign" /\ link \in Links /\ primary \in GotIds
      /\ order' = <<>>
      /\ Range(chain') = Range(chain) \cup {primary}
      /\ \A b \in Bfds :
           bfd2got'[b] = IF b \in WithGot(link) THEN bfd2got[b] ELSE primary
      /\ \A g \in GotIds : g # primary => gots'[g] = gots[g]
      /\ gots'[primary] = [gots[primary] EXCEPT !.global_gotno = global_gotno]
      /\ primary' = primary
  BY <1>0, ChoosePrimaryStep
<1>2. \A g \in GotIds : gots'[g].entries = gots[g].entries
  <2>1. gots'[primary].entries = gots[primary].entries
    BY <1>0, <1>1 DEF GotInfo
  <2>2. QED
    BY <1>1, <2>1
<1>3. Range(chain) \subseteq GotIds /\ Range(order') = {}
  BY <1>0, <1>1, RangeIs DEF Range
<1>4. ASSUME NEW g \in Range(chain) \cup {primary} PROVE Owns(gots', bfd2got', g)
  <2>1. g \in GotIds /\ Owns(gots, bfd2got, g)
    BY <1>1, <1>3 DEF Owned
  <2>2. \A e \in gots[g].entries : e.abfd \in WithGot(link)
    BY <1>0, <1>1, <2>1, LinkFacts DEF Counts, MergeCounts, WithGot
  <2>3. WithGot(link) \subseteq Bfds
    BY DEF WithGot
  <2>4. QED
    BY <1>1, <1>2, <2>1, <2>2, <2>3 DEF Owns
<1>5. OutputBfd \notin Range(chain)
  BY <1>0, <1>1, NamesAssumption DEF Shape, Merging, WithGot
<1>6. QED
  BY <1>1, <1>3, <1>4, <1>5 DEF Owned

\* Later steps that keep the entries and only move GOTs within the line.
LEMMA OwnedKept ==
  ASSUME Base, Owned, pc \in Late, pc' \in Late,
         UNCHANGED <<multi, primary, bfd2got>>,
         Range(order') \cup Range(chain') = Range(order) \cup Range(chain),
         \A h \in GotIds : gots'[h].entries = gots[h].entries
  PROVE  Owned'
<1>1. Range(order) \cup Range(chain) \subseteq GotIds
  BY RangeIs DEF Base, Shape, Types
<1>2. pc' # "merge"
  BY DEF Late
<1>3. ASSUME multi
      PROVE  /\ \A g \in Range(order') \cup Range(chain') : Owns(gots', bfd2got', g)
             /\ OutputBfd \in Range(order') \cup Range(chain') => primary' = OutputBfd
  BY <1>1, <1>3 DEF Owned, Owns
<1>4. QED
  BY <1>2, <1>3 DEF Owned

\* Owned in every step.
LEMMA OwnedNext == Base /\ Owned /\ [Next]_vars => Owned'
<1> SUFFICES ASSUME Base, Owned, [Next]_vars PROVE Owned'
  OBVIOUS
<1>0. /\ Shape /\ Counts /\ link \in Links /\ gots \in [GotIds -> GotInfo]
      /\ OutputBfd \in GotIds /\ primary \in GotIds /\ OutputBfd \notin Bfds
  BY NamesAssumption DEF Base, Shape, Types, GotIds
<1>1. CASE LayOutSingle \/ SplitGot
  <2>1. (pc' = "tls" /\ ~multi') \/ pc' = "split"
    BY <1>0, <1>1 DEF LayOutSingle, SplitGot, LayOutGot, Shape, Kind
  <2>2. QED
    BY <2>1 DEF Owned, Late
<1>2. CASE MakeGotPerBfd
  <2>1. /\ pc = "split" /\ pc' = "merge" /\ primary' = OutputBfd /\ chain' = <<>>
        /\ todo' \subseteq Bfds
        /\ gots' = [g \in DOMAIN gots |->
                      IF g \in Bfds
                      THEN AddEntries(EmptyGot, EntriesOf(g), link.page_gotno[g])
                      ELSE EmptyGot]
        /\ DOMAIN gots = GotIds
    BY <1>0, <1>2 DEF MakeGotPerBfd, Shape, Types, Beginning, BfdsWithGot
  <2>2. gots'[OutputBfd].entries = {}
    BY <1>0, <2>1 DEF EmptyGot
  <2>3. ASSUME NEW b \in Bfds PROVE \A e \in gots'[b].entries : e.abfd = b
    <3>1. gots'[b].entries = AddEntries(EmptyGot, EntriesOf(b), link.page_gotno[b]).entries
      BY <2>1 DEF GotIds
    <3>2. gots'[b].entries \subseteq EntriesOf(b)
      BY <3>1 DEF AddEntries, EmptyGot
    <3>3. QED
      BY <3>2 DEF EntriesOf
  <2>4. Owns(gots', bfd2got', OutputBfd) /\ Range(chain') = {}
    BY <2>1, <2>2 DEF Owns, Range
  <2>5. QED
    BY <2>1, <2>2, <2>3, <2>4 DEF Owned, Late
<1>3. \A h \in GotIds : Same(gots[h], gots[h])
  BY <1>0, SameRefl
<1>4. CASE AssignRange
  <2> DEFINE g == Head(chain)
             first == LastEnd + Reserved
  <2>1. first = LastEnd + Reserved /\ g = Head(chain)
    OBVIOUS
  <2> HIDE DEF g, first
  <2>2. /\ pc = "assign" /\ pc' = "tls" /\ UNCHANGED <<multi, primary, bfd2got>>
        /\ Range(chain) = Range(chain') \cup {g} /\ Range(order') = Range(order) \cup {g}
        /\ \A h \in GotIds : h # g => gots'[h] = gots[h]
        /\ Same(gots[g], gots'[g])
    BY <1>0, <1>4, <2>1, AssignRangeStep
  <2>3. /\ \A h \in GotIds : gots'[h].entries = gots[h].entries
        /\ Range(order') \cup Range(chain') = Range(order) \cup Range(chain)
    BY <2>2 DEF Same
  <2>4. QED
    BY <2>2, <2>3, OwnedKept DEF Late
<1>5. ASSUME NEW e \in todo, InitializeTlsIndex(e) PROVE Owned'
  <2> DEFINE g == order[Len(order)]
  <2>1. g = order[Len(order)]
    OBVIOUS
  <2> HIDE DEF g
  <2>2. /\ pc = "tls" /\ UNCHANGED <<pc, multi, primary, bfd2got, order, chain>>
        /\ \A h \in GotIds : h # g => gots'[h] = gots[h]
        /\ Same(gots[g], gots'[g])
    BY <1>0, <1>5, <2>1, InitializeTlsStep
  <2>3. \A h \in GotIds : gots'[h].entries = gots[h].entries
    BY <2>2 DEF Same
  <2>4. QED
    BY <2>2, <2>3, OwnedKept DEF Late
<1>6. CASE NextGot \/ (\E g \in GotIds : SetGlobalGotOffsets(g)) \/ SortDynsyms \/ FinishLink
  <2>1. /\ pc \in Late /\ pc' \in Late
        /\ UNCHANGED <<multi, primary, bfd2got, gots, order, chain>>
    BY <1>6, BaseRest
  <2>2. QED
    BY <2>1, OwnedKept
<1>7. ASSUME NEW b \in Bfds, RelocateBfd(b) PROVE Owned'
  <2> DEFINE g == bfd2got[b]
  <2>1. g = bfd2got[b]
    OBVIOUS
  <2> HIDE DEF g
  <2>2. /\ pc = "relocate" /\ UNCHANGED <<pc, multi, primary, bfd2got, order, chain>>
        /\ \A h \in GotIds : h # g => gots'[h] = gots[h]
        /\ Same(gots[g], gots'[g])
    BY <1>0, <1>7, <2>1, RelocateBfdStep
  <2>3. \A h \in GotIds : gots'[h].entries = gots[h].entries
    BY <2>2 DEF Same
  <2>4. QED
    BY <2>2, <2>3, OwnedKept DEF Late
<1>8. CASE UNCHANGED vars
  BY <1>8 DEF vars, Owned
<1>9. QED
  BY <1>1, <1>2, <1>4, <1>5, <1>6, <1>7, <1>8, OwnedMerge, OwnedChoosePrimary
  DEF Next, GotIds

\* Owned is an invariant.
LEMMA OwnedInvariance == Spec => []Owned
<1>1. Init => Owned
  BY DEF Init, Owned, Late
<1>2. Base /\ Owned /\ [Next]_vars => Owned'
  BY OwnedNext
<1>3. QED
  BY <1>1, <1>2, BaseInvariance, PTL DEF Spec

-----------------------------------------------------------------------------
(***************************************************************************)
(* Dynamic relocations: those that were counted and those that are output. *)
(***************************************************************************)

\* What mips_tls_got_relocs and the last loop of mips_elf_multi_got count, from
\* the link and the entries alone.
TlsRelocsOf(l, e) ==
  LET named == e.sym \in l.preemptible IN
  IF l.shared \/ named
  THEN Cardinality(e.tls) + (IF named /\ GD \in e.tls THEN 1 ELSE 0)
  ELSE 0

RelocsOf(l) == [e \in Entry |-> TlsRelocsOf(l, e)]

SumOf(l, E) == SumFunctionOnSet(RelocsOf(l), E)

\* Access types are few.
LEMMA RelocsOfNat ==
  ASSUME NEW l, NEW e \in Entry
  PROVE  RelocsOf(l)[e] \in Nat
<1>1. Cardinality(e.tls) \in Nat
  <2>1. e.tls \subseteq {GD} \cup ({IE} \cup {LDM})
    BY DEF Entry, TlsTypes
  <2>2. IsFiniteSet({GD}) /\ IsFiniteSet({IE}) /\ IsFiniteSet({LDM})
    BY FS_Singleton
  <2>3. IsFiniteSet({IE} \cup {LDM})
    BY <2>2, FS_Union
  <2>4. IsFiniteSet({GD} \cup ({IE} \cup {LDM}))
    BY <2>2, <2>3, FS_Union
  <2>5. QED
    BY <2>1, <2>4, FS_Subset, FS_CardinalityType
<1>2. RelocsOf(l)[e] = TlsRelocsOf(l, e)
  BY DEF RelocsOf
<1>3. QED
  BY <1>1, <1>2 DEF TlsRelocsOf

\* The sum that the model takes.
LEMMA SumTlsRelocsIs ==
  ASSUME NEW E \in SUBSET Entry
  PROVE  SumTlsRelocs(E) = SumOf(link, E) /\ SumOf(link, E) \in Nat
<1> DEFINE f == [e \in E |-> TlsRelocs(e)]
           g == RelocsOf(link)
<1>1. IsFiniteSet(E)
  BY EntryFinite, FS_Subset
<1>2. \A e \in E : g[e] \in Nat
  BY RelocsOfNat
<1>3. \A e \in E : f[e] = g[e]
  BY DEF TlsRelocs, RelocsOf, TlsRelocsOf
<1>4. SumTlsRelocs(E) = SumFunctionOnSet(f, E)
  BY DEF SumTlsRelocs
<1>5. SumOf(link, E) = SumFunctionOnSet(g, E)
  BY DEF SumOf
<1> HIDE DEF f, g
<1>6. \A e \in E : f[e] \in Int /\ f[e] = g[e]
  BY <1>2, <1>3
<1>7. SumFunctionOnSet(f, E) = SumFunctionOnSet(g, E)
  BY <1>1, <1>6, SumSame
<1>8. SumFunctionOnSet(g, E) \in Nat
  BY <1>1, <1>2, SumNat
<1>9. QED
  BY <1>4, <1>5, <1>7, <1>8

\* Sums over entries add up, and grow with the set.
LEMMA SumOfUnion ==
  ASSUME NEW l, NEW E \in SUBSET Entry, NEW F \in SUBSET Entry
  PROVE  /\ SumOf(l, E) \in Nat /\ SumOf(l, F) \in Nat
         /\ E \cap F = {} => SumOf(l, E \cup F) = SumOf(l, E) + SumOf(l, F)
         /\ E \subseteq F => SumOf(l, E) <= SumOf(l, F)
<1> DEFINE f == RelocsOf(l)
<1>1. IsFiniteSet(E) /\ IsFiniteSet(F)
  BY EntryFinite, FS_Subset
<1>2. \A e \in Entry : f[e] \in Nat
  BY RelocsOfNat
<1> HIDE DEF f
<1>3. SumFunctionOnSet(f, E) \in Nat /\ SumFunctionOnSet(f, F) \in Nat
  BY <1>1, <1>2, SumNat
<1>4. ASSUME E \cap F = {}
      PROVE  SumFunctionOnSet(f, E \cup F) = SumFunctionOnSet(f, E) + SumFunctionOnSet(f, F)
  <2>1. \A x \in E \cup F : f[x] \in Int
    BY <1>2
  <2>2. QED
    BY <1>1, <1>4, <2>1, SumUnion
<1>5. ASSUME E \subseteq F PROVE SumFunctionOnSet(f, E) <= SumFunctionOnSet(f, F)
  <2>1. \A x \in F : f[x] \in Nat
    BY <1>2
  <2>2. QED
    BY <1>1, <1>5, <2>1, SumSubset
<1>6. QED
  BY <1>3, <1>4, <1>5 DEF SumOf, f

-----------------------------------------------------------------------------
(***************************************************************************)
(* The objects whose TLS slots are initialized.                            *)
(***************************************************************************)
HolderOf(l, m, E, e) ==
  IF m THEN CHOOSE f \in E : Key(f) = Key(e)
  ELSE IF e.sym \in Syms
  THEN [e EXCEPT !.abfd = OutputBfd,
                 !.tls = UNION {f.tls : f \in {f \in l.entries : f.sym = e.sym}}]
  ELSE e

HoldersOf(l, m, G, B, D) ==
  {HolderOf(l, m, G[B[e.abfd]].entries, e) : e \in {e \in TlsIn(l.entries) : e.abfd \in D}}

\* In terms of the entries of one GOT: what a TLS relocation reads and updates.
LEMMA HolderIs ==
  ASSUME NEW e
  PROVE  Holder(e) = HolderOf(link, multi, gots[bfd2got[e.abfd]].entries, e)
BY DEF Holder, HolderOf

\* Those of one bfd are initialized with it, unless they are already.
LEMMA NewHoldersIs ==
  ASSUME NEW b
  PROVE  NewHolders(b) = HoldersOf(link, multi, gots, bfd2got, {b}) \ done
<1>1. {e \in EntriesOf(b) : IsTls(e)} = {e \in TlsIn(link.entries) : e.abfd \in {b}}
  BY DEF EntriesOf, TlsIn
<1>2. QED
  BY <1>1, HolderIs DEF NewHolders, HoldersOf

\* What holds a TLS entry is a TLS entry of the GOT of its bfd.
LEMMA HolderInGot ==
  ASSUME Base, multi, pc \in Late, NEW e \in TlsIn(link.entries)
  PROVE  LET f == HolderOf(link, multi, gots[bfd2got[e.abfd]].entries, e) IN
         /\ f \in gots[bfd2got[e.abfd]].entries /\ f \in Entry /\ IsTls(f)
         /\ Key(f) = Key(e)
<1> DEFINE E == gots[bfd2got[e.abfd]].entries
           f == HolderOf(link, multi, E, e)
<1>1. link \in Links /\ e \in link.entries /\ IsTls(e) /\ e.abfd \in Bfds /\ e \in Entry
  BY LinkFacts DEF Base, Shape, Types, TlsIn
<1>2. bfd2got[e.abfd] \in GotIds
  BY <1>1 DEF Base, Shape, Types
<1>3. E \subseteq link.entries /\ E \subseteq Entry
  BY <1>1, <1>2, LinkFacts DEF Base, Counts, LateCounts
<1>4. \E h \in E : Key(h) = Key(e)
  BY <1>1 DEF Base, Counts, Covered, Covers, EntriesIn
<1>5. f = CHOOSE h \in E : Key(h) = Key(e)
  BY DEF HolderOf
<1> HIDE DEF E, f
<1>6. f \in E /\ Key(f) = Key(e)
  BY <1>4, <1>5
<1>7. f.sym = e.sym /\ (e.sym \in LocalSyms => f.abfd = e.abfd)
  <2>2. f \in link.entries /\ f.abfd \in Bfds
    BY <1>1, <1>3, <1>6, LinkFacts
  <2>3. f.abfd # OutputBfd /\ e.abfd # OutputBfd
    BY <1>1, <2>2, NamesAssumption
  <2>4. QED
    BY <1>6, <2>3 DEF Key
<1>8. IsTls(f)
  <2>1. f \in link.entries
    BY <1>3, <1>6
  <2>2. CASE e.sym \in LocalSyms
    <3>1. f = e
      BY <1>1, <1>7, <2>1, <2>2, EntriesAssumption
    <3>2. QED
      BY <1>1, <3>1
  <2>3. CASE e.sym \in Syms
    BY <1>1, <1>7, <2>1, <2>3, EntriesAssumption
  <2>4. CASE e.sym = LdmModule
    <3>1. f.tls = {LDM}
      BY <1>1, <1>7, <2>1, <2>4, EntriesAssumption
    <3>2. QED
      BY <3>1 DEF IsTls
  <2>5. QED
    BY <1>1, <2>2, <2>3, <2>4 DEF Entry
<1>9. QED
  BY <1>3, <1>6, <1>8 DEF E, f

\* The TLS entries of some GOTs.
TlsOf(G, S) == UNION {TlsIn(G[g].entries) : g \in S}

\* Every TLS entry of a GOT in use is its own holder.
LEMMA OwnHolder ==
  ASSUME Base, Owned, multi, pc \in Late, NEW g \in Range(order) \cup Range(chain),
         NEW f \in TlsIn(gots[g].entries)
  PROVE  /\ f \in TlsIn(link.entries) /\ f.abfd \in Bfds /\ bfd2got[f.abfd] = g
         /\ HolderOf(link, multi, gots[bfd2got[f.abfd]].entries, f) = f
<1>1. g \in GotIds /\ link \in Links
  BY RangeIs DEF Base, Shape, Types
<1>2. /\ f \in gots[g].entries /\ f \in TlsIn(link.entries)
      /\ KeysDiffer(gots[g].entries)
  BY <1>1 DEF Base, Counts, LateCounts, TlsIn
<1>3. f.abfd \in Bfds
  BY <1>1, <1>2, LinkFacts DEF TlsIn
<1>4. bfd2got[f.abfd] = g
  BY <1>2 DEF Owned, Owns
<1> DEFINE h == HolderOf(link, multi, gots[bfd2got[f.abfd]].entries, f)
<1>5. h \in gots[bfd2got[f.abfd]].entries /\ Key(h) = Key(f)
  BY <1>2, HolderInGot
<1> HIDE DEF h
<1>6. h = f
  BY <1>2, <1>4, <1>5 DEF KeysDiffer
<1>7. QED
  BY <1>2, <1>3, <1>4, <1>6 DEF h

\* The holders of all bfds are the TLS entries of all GOTs.
LEMMA AllHolders ==
  ASSUME Base, Owned, multi, pc \in Late, NEW D \in SUBSET Bfds
  PROVE  LET U == TlsOf(gots, Range(order) \cup Range(chain)) IN
         /\ HoldersOf(link, multi, gots, bfd2got, D) \subseteq U
         /\ D = Bfds => HoldersOf(link, multi, gots, bfd2got, D) = U
<1> DEFINE U == TlsOf(gots, Range(order) \cup Range(chain))
           H == HoldersOf(link, multi, gots, bfd2got, D)
<1>1. \A b \in Bfds : bfd2got[b] \in Range(order) \cup Range(chain)
  BY DEF Base, Shape, InLine
<1>2. ASSUME NEW e \in TlsIn(link.entries)
      PROVE  HolderOf(link, multi, gots[bfd2got[e.abfd]].entries, e) \in U
  <2>1. e.abfd \in Bfds
    BY LinkFacts DEF Base, Shape, Types, TlsIn
  <2>2. HolderOf(link, multi, gots[bfd2got[e.abfd]].entries, e)
          \in TlsIn(gots[bfd2got[e.abfd]].entries)
    BY HolderInGot DEF TlsIn
  <2>3. QED
    BY <1>1, <2>1, <2>2 DEF TlsOf
<1>3. H \subseteq U
  BY <1>2 DEF HoldersOf
<1>4. ASSUME D = Bfds, NEW f \in U PROVE f \in H
  <2>1. PICK g \in Range(order) \cup Range(chain) : f \in TlsIn(gots[g].entries)
    BY DEF TlsOf
  <2>2. /\ f \in TlsIn(link.entries) /\ f.abfd \in Bfds
        /\ HolderOf(link, multi, gots[bfd2got[f.abfd]].entries, f) = f
    BY <2>1, OwnHolder
  <2>3. QED
    BY <1>4, <2>2 DEF HoldersOf
<1>5. QED
  BY <1>3, <1>4

-----------------------------------------------------------------------------
(***************************************************************************)
(* Output: what was reserved, and what has been output so far.             *)
(***************************************************************************)
Others(o) == {o[i] : i \in 2..Len(o)}

Filled(l, E) == {e \in GlobalIn(l, E) : l.shared \/ e.sym \in l.def_dynamic}

\* Relocations for the global and local entries of a secondary GOT: room for
\* them, and those that are output.
RestAt(l, got) ==
  Cardinality(Filled(l, got.entries))
    + (IF l.shared THEN Cardinality(LocalIn(l, got.entries)) + Min2(l.pages, got.page_gotno)
       ELSE 0)

FinishAt(l, got, L, g) ==
  Cardinality(Filled(l, got.entries))
    + (IF l.shared THEN Cardinality(LocalsOf(L, g)) ELSE 0)

RestOf(l, G, S) == SumFunctionOnSet([g \in GotIds |-> RestAt(l, G[g])], S)
FinishOf(l, G, L, S) == SumFunctionOnSet([g \in GotIds |-> FinishAt(l, G[g], L, g)], S)

Output ==
  /\ ~LaidOut => done = {} /\ reloc_count = 0
  /\ LaidOut =>
       /\ done = HoldersOf(link, multi, gots, bfd2got, Bfds \ todo)
       /\ reloc_count = SumOf(link, done)
            + (IF pc = "finished" THEN FinishOf(link, gots, local_entries, Others(order)) ELSE 0)
  /\ pc \in Late /\ ~multi =>
       needed_relocs = SumOf(link, HoldersOf(link, multi, gots, bfd2got, Bfds))
  /\ pc \in {"assign", "tls"} /\ multi => needed_relocs = 0
  /\ pc = "offsets" /\ multi =>
       needed_relocs = SumOf(link, TlsOf(gots, Others(order) \ todo))
                         + RestOf(link, gots, Others(order) \ todo)
  /\ LaidOut /\ multi =>
       needed_relocs = SumOf(link, TlsOf(gots, Others(order))) + RestOf(link, gots, Others(order))

\* Holders are entries.
LEMMA HoldersEntry ==
  ASSUME Base, pc \in Late \/ ~multi, NEW D
  PROVE  HoldersOf(link, multi, gots, bfd2got, D) \subseteq Entry
<1>1. ASSUME NEW e \in TlsIn(link.entries)
      PROVE  HolderOf(link, multi, gots[bfd2got[e.abfd]].entries, e) \in Entry
  <2>1. CASE multi
    BY <2>1, HolderInGot
  <2>2. CASE ~multi
    <3>1. e \in TlsEntries /\ link \in Links
      BY DEF TlsEntries, TlsIn, Base, Shape, Types
    <3>2. QED
      BY <2>2, <3>1, SingleHolder, HolderIs
  <2>3. QED
    BY <2>1, <2>2
<1>2. QED
  BY <1>1 DEF HoldersOf

\* Holders depend on the entries of the GOTs only, and in a single GOT not even
\* on these.
LEMMA HoldersKept ==
  ASSUME Base, NEW G, NEW H, NEW D,
         ~multi \/ \A g \in GotIds : H[g].entries = G[g].entries
  PROVE  HoldersOf(link, multi, H, bfd2got, D) = HoldersOf(link, multi, G, bfd2got, D)
<1>1. ASSUME NEW e \in TlsIn(link.entries)
      PROVE  HolderOf(link, multi, H[bfd2got[e.abfd]].entries, e)
               = HolderOf(link, multi, G[bfd2got[e.abfd]].entries, e)
  <2>1. CASE \A g \in GotIds : H[g].entries = G[g].entries
    <3>1. bfd2got[e.abfd] \in GotIds
      BY LinkFacts DEF TlsIn, Base, Shape, Types
    <3>2. H[bfd2got[e.abfd]].entries = G[bfd2got[e.abfd]].entries
      BY <2>1, <3>1
    <3>3. QED
      BY <3>2
  <2>2. CASE ~multi
    BY <2>2 DEF HolderOf
  <2>3. QED
    BY <2>1, <2>2
<1>2. QED
  BY <1>1 DEF HoldersOf

\* The holders of more bfds.
LEMMA HoldersMore ==
  ASSUME NEW l, NEW m, NEW G, NEW B, NEW D, NEW F
  PROVE  /\ HoldersOf(l, m, G, B, D \cup F) = HoldersOf(l, m, G, B, D) \cup HoldersOf(l, m, G, B, F)
         /\ HoldersOf(l, m, G, B, {}) = {}
BY DEF HoldersOf

\* The rest of a GOT is a number, and stays what it is.
LEMMA RestNat ==
  ASSUME NEW l \in Links, NEW got \in GotInfo
  PROVE  /\ RestAt(l, got) \in Nat /\ Cardinality(Filled(l, got.entries)) \in Nat
         /\ Cardinality(LocalIn(l, got.entries)) \in Nat
         /\ Min2(l.pages, got.page_gotno) \in Nat
<1>1. got.entries \in SUBSET Entry /\ got.page_gotno \in Nat /\ l.pages \in Nat
  BY LinkFacts DEF GotInfo
<1>2. Filled(l, got.entries) \subseteq GlobalIn(l, got.entries)
  BY DEF Filled
<1>3. /\ Cardinality(Filled(l, got.entries)) \in Nat
      /\ Cardinality(LocalIn(l, got.entries)) \in Nat
  BY <1>1, <1>2, PartsFinite, FS_Subset, FS_CardinalityType
<1>4. Min2(l.pages, got.page_gotno) \in Nat
  BY <1>1 DEF Min2
<1>5. QED
  BY <1>3, <1>4 DEF RestAt

\* Relocations of a GOT depend on its entries and the number of its locals.
LEMMA RestKept ==
  ASSUME NEW l, NEW G, NEW H, \A g \in GotIds : Same(G[g], H[g]), NEW S \in SUBSET GotIds
  PROVE  TlsOf(H, S) = TlsOf(G, S) /\ RestOf(l, H, S) = RestOf(l, G, S)
<1>1. \A g \in GotIds : H[g].entries = G[g].entries /\ RestAt(l, H[g]) = RestAt(l, G[g])
  BY DEF Same, RestAt
<1>2. TlsOf(H, S) = TlsOf(G, S)
  BY <1>1 DEF TlsOf
<1>3. [g \in GotIds |-> RestAt(l, H[g])] = [g \in GotIds |-> RestAt(l, G[g])]
  BY <1>1
<1>4. QED
  BY <1>2, <1>3 DEF RestOf

\* Steps after the layout that relocate nothing and reserve nothing.
LEMMA OutputKept ==
  ASSUME Base, Output, pc \in {"assign", "tls"}, pc' \in {"assign", "tls"},
         UNCHANGED <<link, multi, bfd2got, done, reloc_count, needed_relocs>>
  PROVE  Output'
<1>1. ~LaidOut /\ ~LaidOut' /\ pc' # "offsets" /\ pc \in Late
  BY DEF LaidOut, Late
<1>2. done' = {} /\ reloc_count' = 0
  BY <1>1 DEF Output
<1>3. ASSUME ~multi
      PROVE  needed_relocs' = SumOf(link', HoldersOf(link', multi', gots', bfd2got', Bfds))
  <2>1. HoldersOf(link, multi, gots', bfd2got, Bfds) = HoldersOf(link, multi, gots, bfd2got, Bfds)
    BY <1>3, HoldersKept
  <2>2. QED
    BY <1>1, <1>3, <2>1 DEF Output
<1>4. QED
  BY <1>1, <1>2, <1>3 DEF Output

\* The layout of a single GOT reserves for the holders of all bfds.
LEMMA OutputLayOutSingle == Base /\ Output /\ LayOutSingle => Output'
<1> SUFFICES ASSUME Base, Output, LayOutSingle PROVE Output'
  OBVIOUS
<1>1. /\ pc = "layout" /\ pc' = "tls" /\ ~multi /\ link \in Links
      /\ needed_relocs' = SumTlsRelocs({Holder(e) : e \in TlsEntries})
      /\ UNCHANGED <<link, bfd2got, multi, done, reloc_count>>
  BY DEF LayOutSingle, LayOutGot, Base, Shape, Kind, Types
<1>2. ~LaidOut /\ ~LaidOut' /\ done = {} /\ reloc_count = 0
  BY <1>1 DEF LaidOut, Output
<1>3. {Holder(e) : e \in TlsEntries} = HoldersOf(link, multi, gots, bfd2got, Bfds)
  <2>1. TlsEntries = {e \in TlsIn(link.entries) : e.abfd \in Bfds}
    BY <1>1, LinkFacts DEF TlsEntries, TlsIn
  <2>2. QED
    BY <2>1, HolderIs DEF HoldersOf
<1>4. HoldersOf(link, multi, gots, bfd2got, Bfds) \subseteq Entry
  BY <1>1, HoldersEntry
<1>5. needed_relocs' = SumOf(link, HoldersOf(link, multi, gots, bfd2got, Bfds))
  BY <1>1, <1>3, <1>4, SumTlsRelocsIs
<1>6. HoldersOf(link, multi, gots', bfd2got, Bfds) = HoldersOf(link, multi, gots, bfd2got, Bfds)
  BY <1>1, HoldersKept
<1>7. needed_relocs' = SumOf(link', HoldersOf(link', multi', gots', bfd2got', Bfds))
  BY <1>1, <1>5, <1>6
<1>8. QED
  BY <1>1, <1>2, <1>7 DEF Output

\* No other GOT: nothing is reserved for any.
LEMMA NothingReserved ==
  ASSUME NEW l, NEW G
  PROVE  SumOf(l, TlsOf(G, {})) = 0 /\ RestOf(l, G, {}) = 0
<1>1. TlsOf(G, {}) = {}
  BY DEF TlsOf
<1>2. QED
  BY <1>1, SumEmpty DEF SumOf, RestOf

\* The last GOT has its TLS indices.
LEMMA OutputNextGot == Base /\ Output /\ NextGot => Output'
<1> SUFFICES ASSUME Base, Output, NextGot PROVE Output'
  OBVIOUS
<1>1. /\ pc = "tls" /\ pc' \in {"assign", "offsets"}
      /\ pc' = "offsets" => todo' = Others(order)
      /\ UNCHANGED <<link, gots, bfd2got, multi, order, done, reloc_count, needed_relocs>>
  BY DEF NextGot, Secondary, Others
<1>2. CASE pc' = "assign"
  BY <1>1, <1>2, OutputKept
<1>3. CASE pc' = "offsets"
  <2>1. ~LaidOut /\ ~LaidOut' /\ pc \in Late
    BY <1>1, <1>3 DEF LaidOut, Late
  <2>2. Others(order') \ todo' = {}
    BY <1>1, <1>3
  <2>3. multi => needed_relocs' = SumOf(link', TlsOf(gots', Others(order') \ todo'))
                                    + RestOf(link', gots', Others(order') \ todo')
    BY <1>1, <2>2, NothingReserved DEF Output
  <2>4. QED
    BY <1>1, <1>3, <2>1, <2>3 DEF Output
<1>4. QED
  BY <1>1, <1>2, <1>3

\* The GOTs after the first are in line once.
LEMMA OthersIs ==
  ASSUME Base, pc \in Late, multi, order # <<>>
  PROVE  /\ Others(order) \subseteq Range(order) /\ Others(order) \subseteq GotIds
         /\ Range(order) = Others(order) \cup {primary} /\ primary \notin Others(order)
         /\ IsFiniteSet(Others(order))
<1>1. order \in Seq(GotIds) /\ IsInjective(order) /\ order[1] = primary
  BY DEF Base, Shape, Types, InLine
<1>2. /\ Range(order) = {order[i] : i \in 1..Len(order)} /\ Range(order) \subseteq GotIds
      /\ \A i, j \in 1..Len(order) : order[i] = order[j] => i = j
  BY <1>1, RangeIs
<1>3. Len(order) \in Nat /\ Len(order) >= 1
  BY <1>1
<1>4. 1..Len(order) = (2..Len(order)) \cup {1}
  BY <1>3
<1>5. /\ Others(order) \subseteq Range(order)
      /\ Range(order) = Others(order) \cup {primary} /\ primary \notin Others(order)
  BY <1>1, <1>2, <1>3, <1>4 DEF Others
<1>6. IsFiniteSet(GotIds)
  BY NamesAssumption, FS_AddElement DEF GotIds
<1>7. QED
  BY <1>2, <1>5, <1>6, FS_Subset

\* One more GOT: its TLS entries belong to no other.
LEMMA ReservedMore ==
  ASSUME Base, Owned, pc \in Late, multi, NEW S \in SUBSET Range(order),
         NEW g \in Range(order), g \notin S, IsFiniteSet(S)
  PROVE  /\ SumOf(link, TlsOf(gots, S \cup {g}))
              = SumOf(link, TlsOf(gots, S)) + SumOf(link, TlsIn(gots[g].entries))
         /\ RestOf(link, gots, S \cup {g}) = RestOf(link, gots, S) + RestAt(link, gots[g])
         /\ RestOf(link, gots, S) \in Nat
         /\ SumOf(link, TlsOf(gots, S)) \in Nat
         /\ TlsOf(gots, S) \subseteq Entry
         /\ TlsIn(gots[g].entries) \subseteq Entry
<1>1. /\ link \in Links /\ gots \in [GotIds -> GotInfo] /\ Range(order) \subseteq GotIds
  BY RangeIs DEF Base, Shape, Types
<1>2. g \in GotIds /\ S \subseteq GotIds
  BY <1>1
<1> DEFINE T == TlsOf(gots, S)
           E == TlsIn(gots[g].entries)
<1>3. T \subseteq Entry /\ E \subseteq Entry
  <2>1. \A h \in GotIds : TlsIn(gots[h].entries) \subseteq Entry
    BY <1>1 DEF GotInfo, TlsIn
  <2>2. QED
    BY <1>2, <2>1 DEF TlsOf
<1>4. T \cap E = {}
  <2> SUFFICES ASSUME NEW e \in T, e \in E PROVE FALSE
    OBVIOUS
  <2>1. PICK h \in S : e \in TlsIn(gots[h].entries)
    BY DEF TlsOf
  <2>2. bfd2got[e.abfd] = h /\ bfd2got[e.abfd] = g
    BY <2>1 DEF Owned, Owns, TlsIn
  <2>3. QED
    BY <2>1, <2>2
<1>5. TlsOf(gots, S \cup {g}) = T \cup E
  BY DEF TlsOf
<1> DEFINE f == [h \in GotIds |-> RestAt(link, gots[h])]
<1>6. \A h \in GotIds : f[h] = RestAt(link, gots[h]) /\ f[h] \in Nat
  BY <1>1, RestNat
<1>7. /\ RestOf(link, gots, S \cup {g}) = SumFunctionOnSet(f, S \cup {g})
      /\ RestOf(link, gots, S) = SumFunctionOnSet(f, S)
  BY DEF RestOf
<1> HIDE DEF f, T, E
<1>8. SumFunctionOnSet(f, S \cup {g}) = f[g] + SumFunctionOnSet(f, S)
  <2>1. \A h \in S \cup {g} : f[h] \in Int
    BY <1>2, <1>6
  <2>2. QED
    BY <2>1, SumAdd
<1>9. SumFunctionOnSet(f, S) \in Nat
  BY <1>2, <1>6, SumNat
<1>10. f[g] = RestAt(link, gots[g]) /\ f[g] \in Nat
  BY <1>2, <1>6
<1>11. /\ SumOf(link, T \cup E) = SumOf(link, T) + SumOf(link, E)
       /\ SumOf(link, T) \in Nat
  BY <1>3, <1>4, SumOfUnion
<1>12. RestOf(link, gots, S \cup {g}) = RestOf(link, gots, S) + RestAt(link, gots[g])
  BY <1>7, <1>8, <1>9, <1>10
<1>13. QED
  BY <1>3, <1>5, <1>7, <1>9, <1>11, <1>12 DEF T, E

\* What a secondary GOT is expected to need.
LEMMA SecondaryRelocsIs ==
  ASSUME Base, Ranges, multi, pc = "offsets", NEW i \in 2..Len(order), NEW g, g = order[i]
  PROVE  SecondaryRelocs(g) = SumOf(link, TlsIn(gots[g].entries)) + RestAt(link, gots[g])
<1>1. /\ link \in Links /\ gots \in [GotIds -> GotInfo] /\ order \in Seq(GotIds)
      /\ g \in GotIds /\ i \in 1..Len(order) /\ pc \in Late /\ AreasFinal(link, area)
  BY DEF Base, Shape, Types, Late, AreaSettled
<1>2. gots[g] \in GotInfo
  BY <1>1
<1>3. {e \in gots[g].entries : IsTls(e)} = TlsIn(gots[g].entries)
      /\ TlsIn(gots[g].entries) \in SUBSET Entry
  BY <1>2 DEF TlsIn, GotInfo
<1>4. SumTlsRelocs({e \in gots[g].entries : IsTls(e)}) = SumOf(link, TlsIn(gots[g].entries))
      /\ SumOf(link, TlsIn(gots[g].entries)) \in Nat
  BY <1>3, SumTlsRelocsIs
<1>5. {e \in GlobalEntries(g) : NeedsRel32(e)} = Filled(link, gots[g].entries)
  BY <1>1, AreaFacts DEF GlobalEntries, NeedsRel32, Filled, GlobalIn
<1> DEFINE here == Cardinality(LocalIn(link, gots[g].entries))
           paged == Min2(link.pages, gots[g].page_gotno)
           base == BaseIn(gots, order, i)
           filled == Cardinality(Filled(link, gots[g].entries))
<1>6. here \in Nat /\ paged \in Nat /\ filled \in Nat /\ base \in Nat /\ Reserved \in Nat
  BY <1>1, <1>2, RestNat, EndInNat, SizesAssumption
<1>7. gots[g].local_gotno = base + Reserved + here + paged
  BY <1>1 DEF Ranges
<1>8. gots[g].assigned_gotno = base + Reserved + Cardinality(LocalsOf(local_entries, g))
      /\ Cardinality(LocalsOf(local_entries, g)) = 0
  BY <1>1, LocalsCount DEF Ranges
<1>9. RestAt(link, gots[g]) = filled + (IF link.shared THEN here + paged ELSE 0)
  BY DEF RestAt
<1>10. SecondaryRelocs(g) = SumTlsRelocs({e \in gots[g].entries : IsTls(e)})
         + Cardinality({e \in GlobalEntries(g) : NeedsRel32(e)})
         + (IF link.shared THEN gots[g].local_gotno - gots[g].assigned_gotno ELSE 0)
  BY DEF SecondaryRelocs
<1> DEFINE tls == SumOf(link, TlsIn(gots[g].entries))
           loc == gots[g].local_gotno
           asg == gots[g].assigned_gotno
           all == SecondaryRelocs(g)
           rest == RestAt(link, gots[g])
<1> DEFINE used == Cardinality(LocalsOf(local_entries, g))
<1>11. tls \in Nat
  BY <1>4
<1>12. all = tls + filled + (IF link.shared THEN loc - asg ELSE 0)
  BY <1>4, <1>5, <1>10
<1>13. loc = base + Reserved + here + paged
  BY <1>7
<1>14. asg = base + Reserved + used /\ used = 0
  BY <1>8
<1>15. rest = filled + (IF link.shared THEN here + paged ELSE 0)
  BY <1>9
<1> HIDE DEF tls, loc, asg, all, rest, here, paged, base, filled, used
<1>16. all = tls + rest
  BY <1>6, <1>11, <1>12, <1>13, <1>14, <1>15
<1>17. QED
  BY <1>16 DEF all, tls, rest

\* A secondary GOT gets its global entries, and room for its relocations.
LEMMA OutputSetGlobal ==
  ASSUME Base, Owned, Ranges, Output, NEW g \in GotIds, SetGlobalGotOffsets(g)
  PROVE  Output'
<1>1. /\ pc = "offsets" /\ pc' = "offsets" /\ g \in todo /\ todo' = todo \ {g}
      /\ needed_relocs' = needed_relocs + SecondaryRelocs(g)
      /\ UNCHANGED <<link, gots, bfd2got, multi, order, done, reloc_count>>
  BY DEF SetGlobalGotOffsets
<1>2. /\ todo \subseteq Others(order) /\ order # <<>> /\ pc \in Late
      /\ order \in Seq(GotIds)
  BY <1>1 DEF Base, Shape, Types, InLine, Others, Late
<1>3. multi
  <2>1. SUFFICES ASSUME ~multi PROVE FALSE
    OBVIOUS
  <2>2. order = <<OutputBfd>>
    BY <1>1, <2>1 DEF Base, Shape, SingleShape
  <2>3. Len(order) = 1
    BY <2>2
  <2>4. Others(order) = {}
    BY <2>3 DEF Others
  <2>5. QED
    BY <1>1, <1>2, <2>4
<1> DEFINE S == Others(order) \ todo
<1>4. /\ S \in SUBSET Range(order) /\ IsFiniteSet(S) /\ g \in Range(order) /\ g \notin S
      /\ Others(order) \ todo' = S \cup {g}
  <2>1. /\ Others(order) \subseteq Range(order) /\ IsFiniteSet(Others(order))
    BY <1>2, <1>3, OthersIs
  <2>2. IsFiniteSet(S)
    BY <2>1, FS_Subset
  <2>3. QED
    BY <1>1, <1>2, <2>1, <2>2
<1>5. SecondaryRelocs(g) = SumOf(link, TlsIn(gots[g].entries)) + RestAt(link, gots[g])
  <2>1. PICK i \in 2..Len(order) : g = order[i]
    BY <1>1, <1>2 DEF Others
  <2>2. QED
    BY <1>1, <1>3, <2>1, SecondaryRelocsIs
<1>6. needed_relocs = SumOf(link, TlsOf(gots, S)) + RestOf(link, gots, S)
  BY <1>1, <1>3 DEF Output
<1> HIDE DEF S
<1>7. /\ SumOf(link, TlsOf(gots, S \cup {g}))
           = SumOf(link, TlsOf(gots, S)) + SumOf(link, TlsIn(gots[g].entries))
      /\ RestOf(link, gots, S \cup {g}) = RestOf(link, gots, S) + RestAt(link, gots[g])
      /\ RestOf(link, gots, S) \in Nat
      /\ SumOf(link, TlsOf(gots, S)) \in Nat
      /\ TlsIn(gots[g].entries) \subseteq Entry
  BY <1>2, <1>3, <1>4, ReservedMore
<1>8. SumOf(link, TlsIn(gots[g].entries)) \in Nat /\ RestAt(link, gots[g]) \in Nat
  <2>1. link \in Links /\ gots[g] \in GotInfo
    BY DEF Base, Shape, Types
  <2>2. QED
    BY <1>7, <2>1, SumOfUnion, RestNat
<1> DEFINE a == SumOf(link, TlsOf(gots, S))
           b == RestOf(link, gots, S)
           c == SumOf(link, TlsIn(gots[g].entries))
           d == RestAt(link, gots[g])
           aa == SumOf(link, TlsOf(gots, S \cup {g}))
           bb == RestOf(link, gots, S \cup {g})
           m == SecondaryRelocs(g)
<1>9. aa = a + c /\ bb = b + d /\ needed_relocs = a + b /\ m = c + d
      /\ a \in Nat /\ b \in Nat /\ c \in Nat /\ d \in Nat /\ needed_relocs' = needed_relocs + m
  BY <1>1, <1>5, <1>6, <1>7, <1>8
<1> HIDE DEF a, b, c, d, aa, bb, m
<1>10. needed_relocs' = aa + bb
  BY <1>9
<1>11. needed_relocs' = SumOf(link', TlsOf(gots', Others(order') \ todo'))
                          + RestOf(link', gots', Others(order') \ todo')
  BY <1>1, <1>4, <1>10 DEF aa, bb
<1>12. ~LaidOut /\ ~LaidOut'
  BY <1>1 DEF LaidOut
<1>13. QED
  BY <1>1, <1>3, <1>11, <1>12 DEF Output

\* The sort: all secondary GOTs have their room, and nothing is output yet.
LEMMA OutputSort == Base /\ Output /\ SortDynsyms => Output'
<1> SUFFICES ASSUME Base, Output, SortDynsyms PROVE Output'
  OBVIOUS
<1>1. /\ pc = "offsets" /\ pc' = "relocate" /\ todo = {} /\ todo' = Bfds
      /\ UNCHANGED <<link, gots, bfd2got, multi, order, done, reloc_count, needed_relocs>>
  BY DEF SortDynsyms
<1>2. ~LaidOut /\ LaidOut' /\ pc \in Late
  BY <1>1 DEF LaidOut, Late
<1>3. done' = {} /\ reloc_count' = 0
  BY <1>1, <1>2 DEF Output
<1>4. HoldersOf(link', multi', gots', bfd2got', Bfds \ todo') = {}
  BY <1>1 DEF HoldersOf
<1>5. SumOf(link', done') = 0
  BY <1>3, SumEmpty DEF SumOf
<1>6. multi => Others(order) \ todo = Others(order)
  BY <1>1
<1>7. QED
  BY <1>1, <1>2, <1>3, <1>4, <1>5, <1>6 DEF Output

\* A bfd is relocated: its holders that have not been output yet are.
LEMMA OutputRelocate ==
  ASSUME Base, Output, NEW b \in Bfds, RelocateBfd(b)
  PROVE  Output'
<1>0. Shape
  BY DEF Base
<1> DEFINE g == bfd2got[b]
<1>1. g = bfd2got[b]
  OBVIOUS
<1> HIDE DEF g
<1>2. /\ pc = "relocate" /\ g \in GotIds /\ link \in Links /\ b \in todo /\ todo' = todo \ {b}
      /\ gots \in [GotIds -> GotInfo] /\ order \in Seq(GotIds)
      /\ done' = done \cup NewHolders(b)
      /\ reloc_count' = reloc_count + SumTlsRelocs(NewHolders(b))
      /\ \A h \in GotIds : h # g => gots'[h] = gots[h]
      /\ Same(gots[g], gots'[g])
      /\ UNCHANGED <<pc, link, multi, bfd2got, order, needed_relocs>>
  BY <1>0, <1>1, RelocateBfdStep DEF Shape, Types
<1>3. \A h \in GotIds : Same(gots[h], gots'[h])
  BY <1>2, SameRefl
<1>4. LaidOut /\ LaidOut' /\ pc \in Late
  BY <1>2 DEF LaidOut, Late
<1> DEFINE H(D) == HoldersOf(link, multi, gots, bfd2got, D)
<1>5. /\ done = H(Bfds \ todo) /\ reloc_count = SumOf(link, done)
      /\ done \subseteq Entry /\ H({b}) \subseteq Entry
  <2>1. done = H(Bfds \ todo) /\ reloc_count = SumOf(link, done) + 0
    BY <1>2, <1>4 DEF Output
  <2>2. H(Bfds \ todo) \subseteq Entry /\ H({b}) \subseteq Entry
    BY <1>4, HoldersEntry
  <2>3. SumOf(link, done) \in Nat
    BY <2>1, <2>2, SumOfUnion
  <2> DEFINE r == SumOf(link, done)
  <2>4. reloc_count = r + 0 /\ r \in Nat
    BY <2>1, <2>3
  <2> HIDE DEF r
  <2>5. reloc_count = r
    BY <2>4
  <2>6. QED
    BY <2>1, <2>2, <2>5 DEF r
<1>6. NewHolders(b) = H({b}) \ done
  BY NewHoldersIs
<1>7. H(Bfds \ todo') = H(Bfds \ todo) \cup H({b})
  <2>1. Bfds \ todo' = (Bfds \ todo) \cup {b}
    BY <1>2
  <2>2. QED
    BY <2>1 DEF HoldersOf
<1>8. HoldersOf(link, multi, gots', bfd2got, Bfds \ todo') = H(Bfds \ todo')
  <2>1. \A h \in GotIds : gots'[h].entries = gots[h].entries
    BY <1>3 DEF Same
  <2>2. QED
    BY <2>1, HoldersKept
<1> HIDE DEF H
<1>9. done' = HoldersOf(link', multi', gots', bfd2got', Bfds \ todo')
  BY <1>2, <1>5, <1>6, <1>7, <1>8
<1> DEFINE N == H({b}) \ done
<1>10. /\ N \in SUBSET Entry /\ done \in SUBSET Entry /\ done \cap N = {}
       /\ done' = done \cup N /\ NewHolders(b) = N
  BY <1>2, <1>5, <1>6
<1> HIDE DEF N
<1>11. SumTlsRelocs(N) = SumOf(link, N)
  BY <1>10, SumTlsRelocsIs
<1>12. SumOf(link, done \cup N) = SumOf(link, done) + SumOf(link, N)
  BY <1>10, SumOfUnion
<1>13. reloc_count' = SumOf(link', done')
  BY <1>2, <1>5, <1>10, <1>11, <1>12
<1>14. reloc_count' \in Nat
  BY <1>2, <1>10, <1>13, SumOfUnion
<1>15. Others(order) \in SUBSET GotIds
  BY <1>2 DEF Others
<1>16. TlsOf(gots', Others(order)) = TlsOf(gots, Others(order))
       /\ RestOf(link, gots', Others(order)) = RestOf(link, gots, Others(order))
  BY <1>3, <1>15, RestKept
<1>17. multi => needed_relocs' = SumOf(link', TlsOf(gots', Others(order')))
                                  + RestOf(link', gots', Others(order'))
  BY <1>2, <1>4, <1>16 DEF Output
<1>18. ~multi => HoldersOf(link, multi, gots', bfd2got, Bfds) = H(Bfds)
  BY HoldersKept DEF H
<1>19. ~multi => needed_relocs' = SumOf(link', HoldersOf(link', multi', gots', bfd2got', Bfds))
  BY <1>2, <1>4, <1>18 DEF Output, H
<1> DEFINE total == SumOf(link', done')
<1>20. reloc_count' = total /\ total \in Nat
  BY <1>13, <1>14
<1> HIDE DEF total
<1>21. reloc_count' = total + 0
  BY <1>20
<1>22. reloc_count' = SumOf(link', done') + 0 /\ pc' = "relocate"
  BY <1>2, <1>21 DEF total
<1>23. pc' # "offsets" /\ pc' \notin {"assign", "tls"} /\ pc' # "finished" /\ multi' = multi
  BY <1>2, <1>22
<1>24. reloc_count' = SumOf(link', done')
         + (IF pc' = "finished" THEN FinishOf(link', gots', local_entries', Others(order')) ELSE 0)
  BY <1>22, <1>23
<1>25. QED
  BY <1>4, <1>9, <1>17, <1>19, <1>23, <1>24 DEF Output

\* The link is finished: the relocations of the other entries of the secondary
\* GOTs are output.
LEMMA OutputFinish == Base /\ Ranges /\ Output /\ FinishLink => Output'
<1> SUFFICES ASSUME Base, Ranges, Output, FinishLink PROVE Output'
  OBVIOUS
<1>1. /\ pc = "relocate" /\ pc' = "finished" /\ todo = {} /\ todo' = todo
      /\ reloc_count' = reloc_count
           + SumFunctionOnSet([g \in Secondary |-> FinishRelocs(g)], Secondary)
      /\ UNCHANGED <<link, gots, bfd2got, multi, order, done, needed_relocs, local_entries>>
  BY DEF FinishLink
<1>2. /\ LaidOut /\ LaidOut' /\ pc \in Late /\ link \in Links /\ order \in Seq(GotIds)
      /\ gots \in [GotIds -> GotInfo] /\ AreasFinal(link, area) /\ IsInjective(order)
  BY <1>1 DEF LaidOut, Late, Base, Shape, Types, AreaSettled, InLine
<1> DEFINE S == Others(order)
           f == [g \in S |-> FinishRelocs(g)]
           h == [g \in GotIds |-> FinishAt(link, gots[g], local_entries, g)]
<1>3. S \subseteq GotIds /\ IsFiniteSet(S) /\ S = Secondary
  <2>1. IsFiniteSet(GotIds)
    BY NamesAssumption, FS_AddElement DEF GotIds
  <2>2. S \subseteq GotIds /\ S = Secondary
    BY <1>2 DEF Others, Secondary
  <2>3. QED
    BY <2>1, <2>2, FS_Subset
<1>4. ASSUME NEW g \in S
      PROVE  f[g] \in Int /\ f[g] = h[g]
  <2>1. PICK i \in 2..Len(order) : g = order[i]
    BY DEF Others
  <2>2. i \in 1..Len(order) /\ g \in GotIds
    BY <1>2, <2>1
  <2>3. BaseOf(g) = BaseIn(gots, order, i)
    BY <1>2, <2>1, <2>2, BaseIs
  <2>4. gots[g].assigned_gotno
          = BaseIn(gots, order, i) + Reserved + Cardinality(LocalsOf(local_entries, g))
    BY <1>2, <2>1, <2>2 DEF Ranges
  <2>5. {e \in GlobalEntries(g) : NeedsRel32(e)} = Filled(link, gots[g].entries)
    BY <1>2, <2>2, AreaFacts DEF GlobalEntries, NeedsRel32, Filled, GlobalIn
  <2> DEFINE filled == Cardinality(Filled(link, gots[g].entries))
             asg == gots[g].assigned_gotno
             base == BaseIn(gots, order, i)
             used == Cardinality(LocalsOf(local_entries, g))
             fr == FinishRelocs(g)
             fa == FinishAt(link, gots[g], local_entries, g)
  <2>6. fr = filled + (IF link.shared THEN asg - (base + Reserved) ELSE 0)
    BY <2>3, <2>5 DEF FinishRelocs
  <2>7. fa = filled + (IF link.shared THEN used ELSE 0)
    BY DEF FinishAt
  <2>8. asg = base + Reserved + used
    BY <2>4
  <2>9. filled \in Nat /\ base \in Nat /\ used \in Nat /\ Reserved \in Nat
    BY <1>2, <2>2, RestNat, EndInNat, LocalsCount, SizesAssumption DEF Ranges
  <2> HIDE DEF filled, asg, base, used, fr, fa
  <2>10. fr = fa /\ fr \in Int
    BY <2>6, <2>7, <2>8, <2>9
  <2>11. f[g] = fr /\ h[g] = fa
    BY <2>2 DEF fr, fa
  <2>12. QED
    BY <2>10, <2>11
<1>5. SumFunctionOnSet(f, S) = SumFunctionOnSet(h, S)
  <2> HIDE DEF f, h
  <2>1. QED
    BY <1>3, <1>4, SumSame
<1>6. SumFunctionOnSet(h, S) = FinishOf(link, gots, local_entries, Others(order))
  BY DEF FinishOf
<1>7. reloc_count' = reloc_count + FinishOf(link, gots, local_entries, Others(order))
  BY <1>1, <1>3, <1>5, <1>6
<1>8. done = HoldersOf(link, multi, gots, bfd2got, Bfds \ todo)
      /\ reloc_count = SumOf(link, done) + 0
  BY <1>1, <1>2 DEF Output
<1>9. SumOf(link, done) \in Nat
  <2>1. done \in SUBSET Entry
    BY <1>2, <1>8, HoldersEntry
  <2>2. QED
    BY <2>1, SumOfUnion
<1>10. reloc_count' = SumOf(link, done) + FinishOf(link, gots, local_entries, Others(order))
  <2> DEFINE r == SumOf(link, done)
  <2>1. reloc_count = r + 0 /\ r \in Nat
    BY <1>8, <1>9
  <2> HIDE DEF r
  <2>2. reloc_count = r
    BY <2>1
  <2>3. QED
    BY <1>7, <2>2 DEF r
<1>11. reloc_count' = SumOf(link', done')
         + (IF pc' = "finished" THEN FinishOf(link', gots', local_entries', Others(order')) ELSE 0)
  BY <1>1, <1>10
<1>12. pc' # "offsets" /\ pc' \notin {"assign", "tls"} /\ multi' = multi
  BY <1>1
<1>13. done' = HoldersOf(link', multi', gots', bfd2got', Bfds \ todo')
  BY <1>1, <1>8
<1>14. /\ multi => needed_relocs' = SumOf(link', TlsOf(gots', Others(order')))
                                     + RestOf(link', gots', Others(order'))
       /\ ~multi => needed_relocs' = SumOf(link', HoldersOf(link', multi', gots', bfd2got', Bfds))
  BY <1>1, <1>2 DEF Output
<1>15. QED
  BY <1>2, <1>11, <1>12, <1>13, <1>14 DEF Output

\* Output in every step.
LEMMA OutputNext == Base /\ Owned /\ Ranges /\ Output /\ [Next]_vars => Output'
<1> SUFFICES ASSUME Base, Owned, Ranges, Output, [Next]_vars PROVE Output'
  OBVIOUS
<1>0. Shape
  BY DEF Base
<1>1. ASSUME pc \in Early, pc' \in Early, UNCHANGED <<done, reloc_count>>
      PROVE  Output'
  <2>1. done' = {} /\ reloc_count' = 0 /\ pc' \notin Late /\ ~LaidOut'
    BY <1>0, <1>1 DEF Shape, Beginning, Early, Late, LaidOut
  <2>2. QED
    BY <2>1 DEF Output, Late
<1>2. CASE SplitGot \/ MakeGotPerBfd \/ (\E b \in Bfds : MergeGot(b))
  BY <1>1, <1>2 DEF SplitGot, LayOutGot, MakeGotPerBfd, MergeGot, MergeUnchanged, Early
<1>3. CASE ChoosePrimary
  <2>1. /\ pc = "merge" /\ pc' = "assign" /\ multi /\ multi' = multi
        /\ UNCHANGED <<needed_relocs, reloc_count, done>>
    BY <1>0, <1>3, ChoosePrimaryStep
  <2>2. done' = {} /\ reloc_count' = 0 /\ needed_relocs' = 0 /\ ~LaidOut' /\ multi'
    BY <1>0, <2>1 DEF Shape, Beginning, Early, LaidOut
  <2>3. QED
    BY <2>1, <2>2 DEF Output
<1>4. CASE AssignRange
  <2>1. pc = "assign" /\ pc' = "tls"
        /\ UNCHANGED <<link, multi, bfd2got, done, reloc_count, needed_relocs>>
    BY <1>4 DEF AssignRange
  <2>2. QED
    BY <2>1, OutputKept
<1>5. ASSUME NEW e \in todo, InitializeTlsIndex(e) PROVE Output'
  <2>1. pc = "tls" /\ pc' = "tls"
        /\ UNCHANGED <<link, multi, bfd2got, done, reloc_count, needed_relocs>>
    BY <1>5 DEF InitializeTlsIndex
  <2>2. QED
    BY <2>1, OutputKept
<1>6. CASE UNCHANGED vars
  BY <1>6 DEF vars, Output, LaidOut
<1>7. QED
  BY <1>2, <1>3, <1>4, <1>5, <1>6, OutputLayOutSingle, OutputNextGot, OutputSetGlobal,
     OutputSort, OutputRelocate, OutputFinish
  DEF Next, GotIds

\* Output is an invariant.
LEMMA OutputInvariance == Spec => []Output
<1>1. Init => Output
  BY DEF Init, Output, LaidOut, Late
<1>2. Base /\ Owned /\ Room /\ Output /\ [Next]_vars => Output'
  BY OutputNext DEF Room
<1>3. QED
  BY <1>1, <1>2, BaseInvariance, OwnedInvariance, RoomInvariance, PTL DEF Spec

\* What is output for the other entries of the secondary GOTs is no more than
\* was reserved, and as much if local slots need no relocation.
LEMMA FinishFits ==
  ASSUME Base, Room, LaidOut, multi
  PROVE  /\ FinishOf(link, gots, local_entries, Others(order)) \in Nat
         /\ RestOf(link, gots, Others(order)) \in Nat
         /\ FinishOf(link, gots, local_entries, Others(order)) <= RestOf(link, gots, Others(order))
         /\ ~link.shared =>
              FinishOf(link, gots, local_entries, Others(order)) = RestOf(link, gots, Others(order))
<1>1. /\ pc \in Late /\ link \in Links /\ order \in Seq(GotIds) /\ order # <<>>
      /\ gots \in [GotIds -> GotInfo] /\ Ranges
  BY DEF LaidOut, Late, Base, Shape, Types, InLine, Room
<1> DEFINE S == Others(order)
           f == [g \in GotIds |-> FinishAt(link, gots[g], local_entries, g)]
           h == [g \in GotIds |-> RestAt(link, gots[g])]
<1>2. S \subseteq GotIds /\ IsFiniteSet(S)
  BY <1>1, OthersIs
<1>3. ASSUME NEW g \in S
      PROVE  f[g] \in Nat /\ h[g] \in Nat /\ f[g] <= h[g] /\ (~link.shared => f[g] = h[g])
  <2>1. PICK i \in 2..Len(order) : g = order[i]
    BY DEF Others
  <2>2. i \in 1..Len(order) /\ g \in GotIds
    BY <1>1, <2>1
  <2> DEFINE filled == Cardinality(Filled(link, gots[g].entries))
             here == Cardinality(LocalIn(link, gots[g].entries))
             paged == Min2(link.pages, gots[g].page_gotno)
             asg == gots[g].assigned_gotno
             loc == gots[g].local_gotno
             base == BaseIn(gots, order, i)
             used == Cardinality(LocalsOf(local_entries, g))
             fa == FinishAt(link, gots[g], local_entries, g)
             ra == RestAt(link, gots[g])
  <2>3. asg = base + Reserved + used
    BY <1>1, <2>1, <2>2 DEF Ranges
  <2>4. loc = base + Reserved + here + paged
    BY <1>1, <2>1, <2>2 DEF Ranges
  <2>5. asg <= loc
    BY <2>1, <2>2, RoomFits
  <2>6. fa = filled + (IF link.shared THEN used ELSE 0)
    BY DEF FinishAt
  <2>7. ra = filled + (IF link.shared THEN here + paged ELSE 0)
    BY DEF RestAt
  <2>8. /\ filled \in Nat /\ base \in Nat /\ used \in Nat /\ Reserved \in Nat
        /\ here \in Nat /\ paged \in Nat
    BY <1>1, <2>2, RestNat, EndInNat, LocalsCount, SizesAssumption DEF Ranges
  <2>9. f[g] = fa /\ h[g] = ra
    BY <2>2
  <2> HIDE DEF filled, here, paged, asg, loc, base, used, fa, ra, f, h
  <2>10. used <= here + paged
    BY <2>3, <2>4, <2>5, <2>8
  <2>11. fa \in Nat /\ ra \in Nat /\ fa <= ra /\ (~link.shared => fa = ra)
    BY <2>6, <2>7, <2>8, <2>10
  <2>12. QED
    BY <2>9, <2>11
<1>4. /\ FinishOf(link, gots, local_entries, Others(order)) = SumFunctionOnSet(f, S)
      /\ RestOf(link, gots, Others(order)) = SumFunctionOnSet(h, S)
  BY DEF FinishOf, RestOf
<1> HIDE DEF f, h, S
<1>5. SumFunctionOnSet(f, S) \in Nat /\ SumFunctionOnSet(h, S) \in Nat
  BY <1>2, <1>3, SumNat
<1>6. SumFunctionOnSet(f, S) <= SumFunctionOnSet(h, S)
  <2>1. \A x \in S : f[x] \in Int /\ h[x] \in Int /\ f[x] <= h[x]
    BY <1>3
  <2>2. QED
    BY <1>2, <2>1, SumLeq
<1>7. ASSUME ~link.shared PROVE SumFunctionOnSet(f, S) = SumFunctionOnSet(h, S)
  <2>1. \A x \in S : f[x] \in Int /\ f[x] = h[x]
    BY <1>3, <1>7
  <2>2. QED
    BY <1>2, <2>1, SumSame
<1>8. QED
  BY <1>4, <1>5, <1>6, <1>7

\* The TLS entries of all GOTs are those of the secondary GOTs and those of the
\* primary one, and what has been output is for some of them.
LEMMA TlsOutput ==
  ASSUME Base, Owned, Output, LaidOut, multi
  PROVE  /\ SumOf(link, done) \in Nat
         /\ SumOf(link, TlsOf(gots, Others(order))) \in Nat
         /\ PrimaryTlsRelocs \in Nat
         /\ SumOf(link, done) <= SumOf(link, TlsOf(gots, Others(order))) + PrimaryTlsRelocs
         /\ todo = {} =>
              SumOf(link, done) = SumOf(link, TlsOf(gots, Others(order))) + PrimaryTlsRelocs
<1>1. /\ pc \in Late /\ order # <<>> /\ chain = <<>> /\ order \in Seq(GotIds)
      /\ gots \in [GotIds -> GotInfo]
  BY DEF LaidOut, Late, Base, Shape, Types, InLine
<1>2. /\ Range(order) = Others(order) \cup {primary} /\ primary \notin Others(order)
      /\ Others(order) \subseteq Range(order) /\ IsFiniteSet(Others(order))
      /\ Range(chain) = {} /\ primary \in Range(order)
  BY <1>1, OthersIs DEF Range
<1> DEFINE T == TlsOf(gots, Others(order))
           P == TlsIn(gots[primary].entries)
           U == TlsOf(gots, Others(order) \cup {primary})
<1>3. /\ SumOf(link, U) = SumOf(link, T) + SumOf(link, P)
      /\ SumOf(link, T) \in Nat /\ P \subseteq Entry
  BY <1>1, <1>2, ReservedMore
<1>4. U \subseteq Entry /\ SumOf(link, P) \in Nat
  <2>1. \A g \in GotIds : TlsIn(gots[g].entries) \subseteq Entry
    BY <1>1 DEF GotInfo, TlsIn
  <2>2. Range(order) \subseteq GotIds
    BY <1>1, RangeIs
  <2>3. U \subseteq Entry
    BY <1>2, <2>1, <2>2 DEF TlsOf
  <2>4. QED
    BY <1>3, <2>3, SumOfUnion
<1>5. PrimaryTlsRelocs = SumOf(link, P)
  <2>1. P \in SUBSET Entry /\ P = {e \in gots[primary].entries : IsTls(e)}
    BY <1>3 DEF TlsIn
  <2>2. PrimaryTlsRelocs = SumTlsRelocs(P)
    BY <2>1 DEF PrimaryTlsRelocs
  <2>3. SumTlsRelocs(P) = SumOf(link, P)
    BY <2>1, SumTlsRelocsIs
  <2>4. QED
    BY <2>2, <2>3
<1>6. done = HoldersOf(link, multi, gots, bfd2got, Bfds \ todo)
  BY DEF Output
<1>7. done \subseteq U /\ (todo = {} => done = U)
  <2> DEFINE D == Bfds \ todo
             V == TlsOf(gots, Range(order) \cup Range(chain))
             H == HoldersOf(link, multi, gots, bfd2got, D)
  <2>1. V = U
    BY <1>2
  <2>2. D \in SUBSET Bfds /\ (todo = {} => D = Bfds)
    OBVIOUS
  <2>3. done = H
    BY <1>6
  <2> HIDE DEF D, U
  <2>4. H \subseteq V /\ (D = Bfds => H = V)
    BY <1>1, <2>2, AllHolders
  <2>5. QED
    BY <2>1, <2>2, <2>3, <2>4
<1> HIDE DEF T, P, U
<1>8. done \in SUBSET Entry /\ U \in SUBSET Entry
  BY <1>4, <1>7
<1>9. SumOf(link, done) \in Nat /\ SumOf(link, done) <= SumOf(link, U)
  BY <1>7, <1>8, SumOfUnion
<1>10. todo = {} => SumOf(link, done) = SumOf(link, U)
  BY <1>7
<1> DEFINE t == SumOf(link, T)
           p == SumOf(link, P)
           u == SumOf(link, U)
           d == SumOf(link, done)
<1>11. /\ u = t + p /\ t \in Nat /\ p \in Nat /\ d \in Nat /\ d <= u
       /\ todo = {} => d = u
       /\ PrimaryTlsRelocs = p
  BY <1>3, <1>4, <1>5, <1>9, <1>10
<1> HIDE DEF t, p, u, d
<1>12. /\ d \in Nat /\ t \in Nat /\ PrimaryTlsRelocs \in Nat
       /\ d <= t + PrimaryTlsRelocs
       /\ todo = {} => d = t + PrimaryTlsRelocs
  BY <1>11
<1>13. QED
  BY <1>12 DEF d, t, T

\* The sums of some GOTs are numbers.
LEMMA SumsOfGots ==
  ASSUME Base, NEW S \in SUBSET GotIds
  PROVE  SumOf(link, TlsOf(gots, S)) \in Nat /\ RestOf(link, gots, S) \in Nat
<1>1. link \in Links /\ gots \in [GotIds -> GotInfo]
  BY DEF Base, Shape, Types
<1>2. TlsOf(gots, S) \in SUBSET Entry
  <2>1. \A g \in GotIds : TlsIn(gots[g].entries) \subseteq Entry
    BY <1>1 DEF GotInfo, TlsIn
  <2>2. QED
    BY <2>1 DEF TlsOf
<1>3. IsFiniteSet(S)
  <2>1. IsFiniteSet(GotIds)
    BY NamesAssumption, FS_AddElement DEF GotIds
  <2>2. QED
    BY <2>1, FS_Subset
<1> DEFINE h == [g \in GotIds |-> RestAt(link, gots[g])]
<1>4. \A g \in S : h[g] \in Nat
  BY <1>1, RestNat
<1>5. SumFunctionOnSet(h, S) = RestOf(link, gots, S)
  BY DEF RestOf
<1> HIDE DEF h
<1>6. SumFunctionOnSet(h, S) \in Nat
  BY <1>3, <1>4, SumNat
<1>7. SumOf(link, TlsOf(gots, S)) \in Nat
  BY <1>2, SumOfUnion
<1>8. QED
  BY <1>5, <1>6, <1>7

\* What is reserved is a number throughout.
LEMMA NeededNat == Base /\ Output => needed_relocs \in Nat
<1> SUFFICES ASSUME Base, Output PROVE needed_relocs \in Nat
  OBVIOUS
<1>1. CASE pc \in Early
  BY <1>1 DEF Base, Shape, Beginning
<1>2. CASE pc \in Late /\ ~multi
  <2>1. HoldersOf(link, multi, gots, bfd2got, Bfds) \in SUBSET Entry
    BY <1>2, HoldersEntry
  <2>2. SumOf(link, HoldersOf(link, multi, gots, bfd2got, Bfds)) \in Nat
    BY <2>1, SumOfUnion
  <2>3. QED
    BY <1>2, <2>2 DEF Output
<1>3. CASE pc \in {"assign", "tls"} /\ multi
  BY <1>3 DEF Output
<1>4. CASE pc \in {"offsets", "relocate", "finished"} /\ multi
  <2> DEFINE S == IF pc = "offsets" THEN Others(order) \ todo ELSE Others(order)
  <2>1. S \in SUBSET GotIds
    BY DEF Others, Base, Shape, Types
  <2>2. needed_relocs = SumOf(link, TlsOf(gots, S)) + RestOf(link, gots, S)
    BY <1>4 DEF Output, LaidOut
  <2> HIDE DEF S
  <2>3. SumOf(link, TlsOf(gots, S)) \in Nat /\ RestOf(link, gots, S) \in Nat
    BY <2>1, SumsOfGots
  <2>4. QED
    BY <2>2, <2>3
<1>5. QED
  BY <1>1, <1>2, <1>3, <1>4 DEF Base, Shape, Types, Late

\* In a single GOT room is made for each holder once.
LEMMA SingleBalance ==
  ASSUME Base, Output, LaidOut, ~multi
  PROVE  reloc_count \in Nat /\ reloc_count <= needed_relocs
         /\ (pc = "finished" => reloc_count = needed_relocs)
<1>1. pc \in Late /\ pc # "layout" /\ todo \subseteq Bfds
      /\ (pc = "finished" => todo = {})
  BY DEF LaidOut, Late, Base, Shape, InLine
<1>2. Others(order) = {}
  <2>1. order = <<OutputBfd>>
    BY <1>1 DEF Base, Shape, SingleShape
  <2>2. Len(order) = 1
    BY <2>1
  <2>3. QED
    BY <2>2 DEF Others
<1>3. FinishOf(link, gots, local_entries, Others(order)) = 0
  BY <1>2, SumEmpty DEF FinishOf
<1> DEFINE H(D) == HoldersOf(link, multi, gots, bfd2got, D)
           all == SumOf(link, H(Bfds))
           d == SumOf(link, done)
<1>4. /\ done = H(Bfds \ todo) /\ needed_relocs = all
  BY <1>1 DEF Output
<1>5. reloc_count = d + 0
  <2>1. reloc_count = d + (IF pc = "finished"
                           THEN FinishOf(link, gots, local_entries, Others(order)) ELSE 0)
    BY DEF Output
  <2> HIDE DEF d
  <2>2. QED
    BY <1>3, <2>1
<1>6. H(Bfds) \in SUBSET Entry /\ done \in SUBSET Entry
  BY <1>1, <1>4, HoldersEntry
<1>7. done \subseteq H(Bfds)
  BY <1>4 DEF HoldersOf
<1>8. todo = {} => done = H(Bfds)
  <2>1. todo = {} => Bfds \ todo = Bfds
    OBVIOUS
  <2>2. QED
    BY <1>4, <2>1
<1> HIDE DEF H
<1>9. d \in Nat /\ all \in Nat /\ d <= all /\ (todo = {} => d = all)
  BY <1>6, <1>7, <1>8, SumOfUnion
<1> HIDE DEF d, all
<1>10. QED
  BY <1>1, <1>4, <1>5, <1>9

\* With several GOTs, the TLS entries of the primary one excepted.
LEMMA MultiBalance ==
  ASSUME Base, Owned, Room, Output, LaidOut, multi
  PROVE  /\ reloc_count \in Nat /\ PrimaryTlsRelocs \in Nat
         /\ reloc_count <= needed_relocs + PrimaryTlsRelocs
         /\ pc = "finished" /\ ~link.shared => reloc_count = needed_relocs + PrimaryTlsRelocs
<1>1. pc = "finished" => todo = {}
  BY DEF Base, Shape, InLine, Late
<1> DEFINE d == SumOf(link, done)
           t == SumOf(link, TlsOf(gots, Others(order)))
           rest == RestOf(link, gots, Others(order))
           fin == FinishOf(link, gots, local_entries, Others(order))
           p == PrimaryTlsRelocs
<1>2. needed_relocs = t + rest /\ reloc_count = d + (IF pc = "finished" THEN fin ELSE 0)
  BY DEF Output
<1>3. /\ d \in Nat /\ t \in Nat /\ p \in Nat /\ d <= t + p
      /\ todo = {} => d = t + p
  BY TlsOutput
<1>4. /\ rest \in Nat /\ fin \in Nat /\ fin <= rest
      /\ ~link.shared => fin = rest
  BY FinishFits
<1> HIDE DEF d, t, rest, fin, p
<1>5. CASE pc = "finished"
  <2>1. reloc_count = d + fin /\ d = t + p
    BY <1>1, <1>2, <1>3, <1>5
  <2>2. /\ reloc_count \in Nat /\ reloc_count <= needed_relocs + p
        /\ ~link.shared => reloc_count = needed_relocs + p
    BY <1>2, <1>3, <1>4, <2>1
  <2>3. QED
    BY <1>3, <1>5, <2>2 DEF p
<1>6. CASE pc # "finished"
  <2>1. reloc_count = d
    BY <1>2, <1>3, <1>6
  <2>2. reloc_count \in Nat /\ reloc_count <= needed_relocs + p
    BY <1>2, <1>3, <1>4, <2>1
  <2>3. QED
    BY <1>3, <1>6, <2>2 DEF p
<1>7. QED
  BY <1>5, <1>6

\* What is output is a number, and never more than was reserved.
LEMMA Balanced == Base /\ Owned /\ Room /\ Output => reloc_count \in Nat /\ RelocsBalance
<1> SUFFICES ASSUME Base, Owned, Room, Output PROVE reloc_count \in Nat /\ RelocsBalance
  OBVIOUS
<1>1. CASE LaidOut /\ multi
  BY <1>1, MultiBalance DEF RelocsBalance
<1>2. CASE LaidOut /\ ~multi
  <2>1. PrimaryTlsRelocs = 0
    BY <1>2 DEF PrimaryTlsRelocs
  <2>2. QED
    BY <1>2, <2>1, SingleBalance, NeededNat DEF RelocsBalance
<1>3. CASE ~LaidOut
  <2>1. reloc_count = 0 /\ pc # "finished"
    BY <1>3 DEF Output, LaidOut
  <2>2. PrimaryTlsRelocs \in Nat
    <3> DEFINE P == {e \in gots[primary].entries : IsTls(e)}
    <3>1. P \in SUBSET Entry
      BY DEF Base, Shape, Types, GotInfo
    <3>2. PrimaryTlsRelocs = IF multi THEN SumTlsRelocs(P) ELSE 0
      BY DEF PrimaryTlsRelocs
    <3> HIDE DEF P
    <3>3. SumTlsRelocs(P) \in Nat
      BY <3>1, SumTlsRelocsIs
    <3>4. QED
      BY <3>2, <3>3
  <2>3. QED
    BY <2>1, <2>2, NeededNat DEF RelocsBalance
<1>4. QED
  BY <1>1, <1>2, <1>3

\* The dynamic relocations of GOT entries that are output, bfd by bfd and at
\* the end, are no more than those that were reserved when the table was laid
\* out, the ones of TLS entries of the primary GOT of several excepted, and
\* exactly as many unless local slots of a shared object stay unused.
THEOREM RelocsAgree == Spec => []RelocsBalance
<1>1. Base /\ Owned /\ Room /\ Output => RelocsBalance
  BY Balanced
<1>2. QED
  BY <1>1, BaseInvariance, OwnedInvariance, RoomInvariance, OutputInvariance, PTL

-----------------------------------------------------------------------------
(***************************************************************************)
(* What the variables hold.                                                *)
(***************************************************************************)
LocalsTyped == local_entries \subseteq GotIds \X (GotIds \X (Syms \cup LocalSyms \cup Nat))

\* A slot is taken for an address or a page.
LEMMA LocalsTypedInvariance == Spec => []LocalsTyped
<1>1. Init => LocalsTyped
  BY DEF Init, LocalsTyped
<1>2. ASSUME Base, LocalsTyped, NEW b \in Bfds, RelocateBfd(b)
      PROVE  LocalsTyped'
  <2>0. Shape
    BY <1>2 DEF Base
  <2> DEFINE g == bfd2got[b]
  <2>1. g = bfd2got[b]
    OBVIOUS
  <2> HIDE DEF g
  <2>2. PICK pages \in SUBSET (1..link.pages) :
          g \in GotIds /\ link \in Links /\ local_entries' = local_entries \cup NewLocals(b, pages)
    BY <1>2, <2>0, <2>1, RelocateBfdStep
  <2>3. \A e \in EntriesOf(b) : InLocalArea(e) =>
          Key(e) \in GotIds \X (Syms \cup LocalSyms \cup Nat)
    <3> SUFFICES ASSUME NEW e \in EntriesOf(b), InLocalArea(e)
                 PROVE  Key(e) \in GotIds \X (Syms \cup LocalSyms \cup Nat)
      OBVIOUS
    <3>1. e.abfd = b /\ e.sym \in Syms \cup LocalSyms
      BY DEF EntriesOf, InLocalArea
    <3>2. QED
      BY <3>1 DEF Key, GotIds
  <2>4. \A p \in pages : <<OutputBfd, p>> \in GotIds \X (Syms \cup LocalSyms \cup Nat)
    <3>1. \A p \in pages : p \in Nat
      BY <2>2, LinkFacts
    <3>2. QED
      BY <3>1 DEF GotIds
  <2>5. Addresses(b, pages) \subseteq GotIds \X (Syms \cup LocalSyms \cup Nat)
    BY <2>3, <2>4 DEF Addresses
  <2>6. NewLocals(b, pages) \subseteq GotIds \X (GotIds \X (Syms \cup LocalSyms \cup Nat))
    BY <2>1, <2>2, <2>5 DEF NewLocals
  <2>7. QED
    BY <1>2, <2>2, <2>6 DEF LocalsTyped
<1>3. Base /\ LocalsTyped /\ [Next]_vars => LocalsTyped'
  <2> SUFFICES ASSUME Base, LocalsTyped, [Next]_vars PROVE LocalsTyped'
    OBVIOUS
  <2>1. ASSUME UNCHANGED local_entries PROVE LocalsTyped'
    BY <2>1 DEF LocalsTyped
  <2>2. CASE LayOutSingle \/ SplitGot \/ MakeGotPerBfd \/ (\E b \in Bfds : MergeGot(b))
    BY <2>1, <2>2 DEF LayOutSingle, SplitGot, MakeGotPerBfd, MergeGot, MergeUnchanged
  <2>3. CASE ChoosePrimary \/ AssignRange \/ (\E e \in todo : InitializeTlsIndex(e)) \/ NextGot
    BY <2>1, <2>3 DEF ChoosePrimary, AssignRange, InitializeTlsIndex, NextGot
  <2>4. CASE (\E g \in GotIds : SetGlobalGotOffsets(g)) \/ SortDynsyms \/ FinishLink
    BY <2>1, <2>4 DEF SetGlobalGotOffsets, SortDynsyms, FinishLink
  <2>5. CASE UNCHANGED vars
    BY <2>1, <2>5 DEF vars
  <2>6. QED
    BY <1>2, <2>2, <2>3, <2>4, <2>5 DEF Next, GotIds
<1>4. QED
  BY <1>1, <1>3, BaseInvariance, PTL DEF Spec

\* What a traversal has yet to visit: entries while TLS indices are given, bfds
\* otherwise, as the GOT that is no bfd's own is the primary one or unused.
LEMMA TodoTyped == Base /\ Owned => todo \subseteq Bfds \/ todo \subseteq Entry
<1> SUFFICES ASSUME Base, Owned PROVE todo \subseteq Bfds \/ todo \subseteq Entry
  OBVIOUS
<1>1. CASE pc \in {"layout", "split", "assign", "relocate", "finished"}
  BY <1>1 DEF Base, Shape, Beginning, InLine, Late
<1>2. CASE pc = "merge"
  BY <1>2 DEF Base, Shape, Merging, WithGot
<1>3. CASE pc = "tls"
  <2>1. /\ todo \subseteq TlsIn(gots[order[Len(order)]].entries) /\ order # <<>>
        /\ order \in Seq(GotIds) /\ gots \in [GotIds -> GotInfo]
    BY <1>3 DEF Base, Shape, Types, InLine, Late
  <2>2. order[Len(order)] \in GotIds
    BY <2>1
  <2>3. TlsIn(gots[order[Len(order)]].entries) \subseteq Entry
    BY <2>1, <2>2 DEF TlsIn, GotInfo
  <2>4. QED
    BY <2>1, <2>3
<1>4. CASE pc = "offsets"
  <2>1. todo \subseteq Others(order) /\ pc \in Late /\ order # <<>> /\ pc # "layout"
    BY <1>4 DEF Base, Shape, InLine, Late, Others
  <2>2. CASE multi
    <3>1. /\ Others(order) \subseteq Range(order) /\ Others(order) \subseteq GotIds
          /\ primary \notin Others(order)
      BY <2>1, <2>2, OthersIs
    <3>2. OutputBfd \notin Others(order)
      BY <2>1, <2>2, <3>1 DEF Owned
    <3>3. QED
      BY <2>1, <3>1, <3>2 DEF GotIds
  <2>3. CASE ~multi
    <3>1. order = <<OutputBfd>>
      BY <2>1, <2>3 DEF Base, Shape, SingleShape
    <3>2. Len(order) = 1
      BY <3>1
    <3>3. Others(order) = {}
      BY <3>2 DEF Others
    <3>4. QED
      BY <2>1, <3>3
  <2>4. QED
    BY <2>2, <2>3
<1>5. QED
  BY <1>1, <1>2, <1>3, <1>4 DEF Base, Shape, Types, Early, Late

\* The TLS entries that are done are entries.
LEMMA DoneTyped == Base /\ Output => done \subseteq Entry
<1> SUFFICES ASSUME Base, Output PROVE done \subseteq Entry
  OBVIOUS
<1>1. CASE ~LaidOut
  BY <1>1 DEF Output
<1>2. CASE LaidOut
  <2>1. pc \in Late
    BY <1>2 DEF LaidOut, Late
  <2>2. QED
    BY <1>2, <2>1, HoldersEntry DEF Output
<1>3. QED
  BY <1>1, <1>2

\* Whatever the link, the order in which its GOTs are merged and the order of
\* every traversal, the counters stay natural numbers, the slots have the size
\* of an entry and belong to a GOT, and what is yet to be visited exists.
THEOREM TypeCorrect == Spec => []TypeOK
<1>1. /\ Base /\ AreasPlaced /\ StubsLost /\ Room /\ Placement
      /\ Owned /\ Output /\ LocalsTyped
      => TypeOK
  <2> SUFFICES ASSUME Base, AreasPlaced, StubsLost, Room, Placement, Owned, Output, LocalsTyped
               PROVE  TypeOK
    OBVIOUS
  <2>1. /\ pc \in {"layout", "split", "merge", "assign", "tls", "offsets",
                   "relocate", "finished"}
        /\ area \in [Syms -> {"NONE", "NORMAL", "RELOC_ONLY"}]
        /\ gots \in [GotIds -> GotInfo] /\ bfd2got \in [Bfds -> GotIds]
        /\ multi \in BOOLEAN /\ global_gotno \in Nat /\ primary \in GotIds
        /\ chain \in Seq(GotIds) /\ order \in Seq(GotIds)
    BY DEF Base, Shape, Types, Early, Late
  <2>2. link \in Link
    BY LinksAssumption DEF Base, Shape, Types
  <2>3. reloc_only_gotno \in Nat
    BY DEF AreasPlaced
  <2>4. slots \subseteq [got : GotIds, key : GotIds \X (Syms \cup LocalSyms \cup {LdmModule}),
                         first : Nat, size : 1..3]
    BY DEF Placement, SlotType, AllSyms
  <2>5. lazy \subseteq Syms /\ lazy_stub_count \in Nat
    BY NamesAssumption, FS_Subset, FS_CardinalityType DEF StubsLost
  <2>6. needed_relocs \in Nat /\ reloc_count \in Nat /\ done \subseteq Entry
    BY NeededNat, Balanced, DoneTyped
  <2>7. todo \subseteq Bfds \/ todo \subseteq Entry
    BY TodoTyped
  <2>8. local_entries \subseteq GotIds \X (GotIds \X (Syms \cup LocalSyms \cup Nat))
    BY DEF LocalsTyped
  <2>9. QED
    BY <2>1, <2>2, <2>3, <2>4, <2>5, <2>6, <2>7, <2>8 DEF TypeOK
<1>2. QED
  BY <1>1, BaseInvariance, AreasPlacedInvariance, StubsLostInvariance, RoomInvariance,
     PlacementInvariance, OwnedInvariance, OutputInvariance, LocalsTypedInvariance, PTL


-----------------------------------------------------------------------------
(***************************************************************************)
(* The contract: what TLS entries a GOT has, whether there is one GOT or   *)
(* several.                                                                *)
(***************************************************************************)

\* T has one entry for each TLS reference to a GOT.
HoldsTls(l, T) ==
  /\ KeysDiffer(T)
  /\ \A f \in T : \E e \in TlsIn(l.entries) : e.sym = f.sym
  /\ \A e \in TlsIn(l.entries) : \E f \in T : Key(f) = Key(e)

SingleHeld ==
  pc # "layout" /\ ~multi => HoldsTls(link, TlsIn(gots[OutputBfd].entries))

\* The TLS entries of a single GOT are one for each symbol.
LEMMA SingleTlsHeld ==
  ASSUME link \in Links, ~multi
  PROVE  HoldsTls(link, SingleTls)
<1>1. TlsIn(link.entries) = TlsEntries
  BY DEF TlsIn, TlsEntries
<1>2. \A e \in TlsEntries : Holder(e).sym = e.sym /\ Key(Holder(e)) = Key(e)
  BY SingleHolder
<1>3. ASSUME NEW f \in SingleTls
      PROVE  \E e \in TlsEntries : e.sym = f.sym /\ IF e.sym = LdmModule THEN f = LdmEntry
                                                    ELSE f = Holder(e)
  <2>1. CASE \E e \in TlsEntries : e.sym # LdmModule /\ f = Holder(e)
    BY <1>2, <2>1
  <2>2. CASE \E e \in TlsEntries : e.sym = LdmModule /\ f = LdmEntry
    BY <2>2 DEF LdmEntry
  <2>3. QED
    BY <1>3, <2>1, <2>2 DEF SingleTls, LdmEntry
<1>4. ASSUME NEW f \in SingleTls, NEW g \in SingleTls, Key(f) = Key(g) PROVE f = g
  <2>1. PICK e \in TlsEntries : e.sym = f.sym /\ IF e.sym = LdmModule THEN f = LdmEntry
                                                 ELSE f = Holder(e)
    BY <1>3
  <2>2. PICK d \in TlsEntries : d.sym = g.sym /\ IF d.sym = LdmModule THEN g = LdmEntry
                                                 ELSE g = Holder(d)
    BY <1>3
  <2>3. e \in link.entries /\ d \in link.entries /\ e \in Entry /\ d \in Entry
    BY LinkFacts DEF TlsEntries
  <2>4. f.sym = g.sym
    BY <1>4 DEF Key
  <2>5. CASE e.sym = LdmModule
    BY <2>1, <2>2, <2>4, <2>5
  <2>6. CASE e.sym \in Syms
    <3>1. f = Holder(e) /\ g = Holder(d) /\ d.sym = e.sym
      BY <2>1, <2>2, <2>4, <2>6, NamesAssumption
    <3>2. Holder(e) = Holder(d)
      <4> DEFINE types == UNION {h.tls : h \in {h \in link.entries : h.sym = e.sym}}
      <4>1. /\ Holder(e) = [e EXCEPT !.abfd = OutputBfd, !.tls = types]
            /\ Holder(d) = [d EXCEPT !.abfd = OutputBfd, !.tls = types]
        BY <2>6, <3>1 DEF Holder
      <4> HIDE DEF types
      <4>2. QED
        BY <2>3, <3>1, <4>1 DEF Entry
    <3>3. QED
      BY <3>1, <3>2
  <2>7. CASE e.sym \in LocalSyms
    <3>1. /\ f = Holder(e) /\ g = Holder(d) /\ d.sym = e.sym
          /\ e.sym \notin Syms /\ Key(e) = Key(d)
      BY <1>2, <1>4, <2>1, <2>2, <2>4, <2>7, NamesAssumption
    <3>2. f = e /\ g = d
      BY <3>1 DEF Holder
    <3>3. e.abfd = d.abfd
      BY <2>7, <3>1 DEF Key
    <3>4. QED
      BY <2>3, <3>1, <3>2, <3>3, EntriesAssumption
  <2>8. QED
    BY <2>3, <2>5, <2>6, <2>7 DEF Entry
<1>5. \A e \in TlsEntries : \E f \in SingleTls : Key(f) = Key(e)
  BY SingleTlsIs
<1>6. QED
  BY <1>1, <1>3, <1>4, <1>5 DEF HoldsTls, KeysDiffer

\* A single GOT keeps its entries.
LEMMA SingleHeldNext == Base /\ SingleHeld /\ [Next]_vars => SingleHeld'
<1> SUFFICES ASSUME Base, SingleHeld, [Next]_vars PROVE SingleHeld'
  OBVIOUS
<1>0. /\ Shape /\ link \in Links /\ gots \in [GotIds -> GotInfo] /\ OutputBfd \in GotIds
  BY DEF Base, Shape, Types, GotIds
<1>1. CASE LayOutSingle
  <2>1. /\ pc = "layout" /\ ~multi /\ link' = link
        /\ gots'[OutputBfd] = [SingleGot EXCEPT !.tls_assigned_gotno =
                                 SingleGot.local_gotno + SingleGot.global_gotno]
    BY <1>0, <1>1 DEF LayOutSingle, LayOutGot, Shape, Kind
  <2>2. SingleGot \in GotInfo
        /\ SingleGot.entries = {e \in link.entries : ~IsTls(e)} \cup SingleTls
    BY <1>0, <2>1, SingleGotIs
  <2>3. gots'[OutputBfd].entries = {e \in link.entries : ~IsTls(e)} \cup SingleTls
    BY <2>1, <2>2 DEF GotInfo
  <2>4. TlsIn(gots'[OutputBfd].entries) = SingleTls
    <3>1. \A e \in SingleTls : IsTls(e)
      BY <1>0, <2>1, SingleTlsIs
    <3>2. QED
      BY <2>3, <3>1 DEF TlsIn
  <2>5. QED
    BY <1>0, <2>1, <2>4, SingleTlsHeld DEF SingleHeld
<1>2. CASE SplitGot \/ MakeGotPerBfd \/ (\E b \in Bfds : MergeGot(b)) \/ ChoosePrimary
           \/ AssignRange
  <2>1. multi'
    BY <1>0, <1>2 DEF SplitGot, MakeGotPerBfd, MergeGot, MergeUnchanged, ChoosePrimary,
                      AssignRange, Shape, Kind
  <2>2. QED
    BY <2>1 DEF SingleHeld
<1>3. ASSUME pc \in Late, UNCHANGED <<link, multi>>,
             \A h \in GotIds : gots'[h].entries = gots[h].entries
      PROVE  SingleHeld'
  <2>1. gots'[OutputBfd].entries = gots[OutputBfd].entries /\ pc # "layout"
    BY <1>0, <1>3 DEF Late
  <2>2. QED
    BY <1>3, <2>1 DEF SingleHeld
<1>4. ASSUME NEW e \in todo, InitializeTlsIndex(e) PROVE SingleHeld'
  <2> DEFINE g == order[Len(order)]
  <2>1. g = order[Len(order)]
    OBVIOUS
  <2> HIDE DEF g
  <2>2. /\ pc = "tls" /\ UNCHANGED <<link, multi>>
        /\ \A h \in GotIds : h # g => gots'[h] = gots[h]
        /\ Same(gots[g], gots'[g])
    BY <1>0, <1>4, <2>1, InitializeTlsStep
  <2>3. \A h \in GotIds : gots'[h].entries = gots[h].entries
    BY <2>2 DEF Same
  <2>4. QED
    BY <1>3, <2>2, <2>3 DEF Late
<1>5. CASE NextGot \/ (\E g \in GotIds : SetGlobalGotOffsets(g)) \/ SortDynsyms \/ FinishLink
  BY <1>3, <1>5, BaseRest
<1>6. ASSUME NEW b \in Bfds, RelocateBfd(b) PROVE SingleHeld'
  <2> DEFINE g == bfd2got[b]
  <2>1. g = bfd2got[b]
    OBVIOUS
  <2> HIDE DEF g
  <2>2. /\ pc = "relocate" /\ UNCHANGED <<link, multi>>
        /\ \A h \in GotIds : h # g => gots'[h] = gots[h]
        /\ Same(gots[g], gots'[g])
    BY <1>0, <1>6, <2>1, RelocateBfdStep
  <2>3. \A h \in GotIds : gots'[h].entries = gots[h].entries
    BY <2>2 DEF Same
  <2>4. QED
    BY <1>3, <2>2, <2>3 DEF Late
<1>7. CASE UNCHANGED vars
  BY <1>7 DEF vars, SingleHeld
<1>8. QED
  BY <1>1, <1>2, <1>4, <1>5, <1>6, <1>7 DEF Next, GotIds

\* What the GOTs in use hold of the TLS references.
LEMMA TlsHeld ==
  ASSUME Base, SingleHeld, pc \in Late
  PROVE  /\ \A g \in Range(order) : /\ g \in GotIds /\ KeysDiffer(TlsIn(gots[g].entries))
                                    /\ TlsIn(gots[g].entries) \subseteq Entry
                                    /\ \A f \in TlsIn(gots[g].entries) :
                                         \E e \in TlsIn(link.entries) : e.sym = f.sym
         /\ \A e \in TlsIn(link.entries) :
              \E f \in TlsIn(gots[bfd2got[e.abfd]].entries) : Key(f) = Key(e)
<1>0. link \in Links /\ gots \in [GotIds -> GotInfo] /\ order \in Seq(GotIds)
  BY DEF Base, Shape, Types
<1>1. Range(order) \subseteq GotIds /\ \A g \in GotIds : TlsIn(gots[g].entries) \subseteq Entry
  BY <1>0, RangeIs DEF GotInfo, TlsIn
<1>2. CASE multi
  <2>1. ASSUME NEW g \in GotIds
        PROVE  /\ KeysDiffer(TlsIn(gots[g].entries))
               /\ \A f \in TlsIn(gots[g].entries) :
                    \E e \in TlsIn(link.entries) : e.sym = f.sym
    <3>1. KeysDiffer(gots[g].entries) /\ gots[g].entries \subseteq link.entries
      BY <1>2 DEF Base, Counts, LateCounts
    <3>2. QED
      BY <3>1 DEF KeysDiffer, TlsIn
  <2>2. ASSUME NEW e \in TlsIn(link.entries)
        PROVE  \E f \in TlsIn(gots[bfd2got[e.abfd]].entries) : Key(f) = Key(e)
    BY <1>2, HolderInGot DEF TlsIn
  <2>3. QED
    BY <1>1, <2>1, <2>2
<1>3. CASE ~multi
  <2>1. /\ order = <<OutputBfd>> /\ pc # "layout"
        /\ \A b \in Bfds : bfd2got[b] = OutputBfd
    BY <1>3 DEF Base, Shape, SingleShape, Late
  <2>2. Range(order) = {OutputBfd}
    <3>1. Range(order) = {order[i] : i \in 1..Len(order)}
      BY <1>0, RangeIs
    <3>2. Len(order) = 1 /\ order[1] = OutputBfd
      BY <2>1
    <3>3. QED
      BY <3>1, <3>2
  <2>3. HoldsTls(link, TlsIn(gots[OutputBfd].entries))
    BY <1>3, <2>1 DEF SingleHeld
  <2>4. \A e \in TlsIn(link.entries) : bfd2got[e.abfd] = OutputBfd
    BY <1>0, <2>1, LinkFacts DEF TlsIn
  <2>5. QED
    BY <1>1, <2>2, <2>3, <2>4 DEF HoldsTls
<1>4. QED
  BY <1>2, <1>3

\* SingleHeld is an invariant.
LEMMA SingleHeldInvariance == Spec => []SingleHeld
<1>1. Init => SingleHeld
  BY DEF Init, SingleHeld
<1>2. Base /\ SingleHeld /\ [Next]_vars => SingleHeld'
  BY SingleHeldNext
<1>3. QED
  BY <1>1, <1>2, BaseInvariance, PTL DEF Spec

-----------------------------------------------------------------------------
(***************************************************************************)
(* The contract: GOTs do not overlap.                                      *)
(***************************************************************************)
Line ==
  pc \in Late => \A i, j \in 1..Len(order) :
    i < j => EndIn(gots, order[i]) <= gots[order[j]].local_gotno

\* A new GOT comes after all others.
LEMMA LineAssign == Base /\ Line /\ AssignRange => Line'
<1> SUFFICES ASSUME Base, Line, AssignRange PROVE Line'
  OBVIOUS
<1>0. /\ Shape /\ gots \in [GotIds -> GotInfo] /\ order \in Seq(GotIds) /\ link \in Links
  BY DEF Base, Shape, Types
<1> DEFINE g == Head(chain)
           first == LastEnd + Reserved
<1>1. first = LastEnd + Reserved /\ g = Head(chain)
  OBVIOUS
<1> HIDE DEF g, first
<1>2. /\ pc = "assign" /\ g \in GotIds /\ g \notin Range(order)
      /\ first \in Nat /\ LastEnd \in Nat
      /\ order' # <<>> /\ order'[Len(order')] = g
      /\ Len(order') = Len(order) + 1 /\ \A i \in 1..Len(order) : order'[i] = order[i]
      /\ gots' \in [GotIds -> GotInfo]
      /\ \A h \in GotIds : h # g => gots'[h] = gots[h]
      /\ gots'[g].local_gotno
           = gots[g].local_gotno + first + PageEntries(gots[g].page_gotno)
  BY <1>0, <1>1, AssignRangeStep
<1>3. PageEntries(gots[g].page_gotno) \in Nat /\ gots[g].local_gotno \in Nat
  <2>1. link.pages \in Nat /\ gots[g].page_gotno \in Nat /\ gots[g].local_gotno \in Nat
    BY <1>0, <1>2, LinkFacts DEF GotInfo
  <2>2. QED
    BY <2>1 DEF PageEntries, Min2
<1> DEFINE n == Len(order)
<1>4. n \in Nat /\ \A i \in 1..n : order[i] \in GotIds /\ order[i] # g /\ order'[i] = order[i]
  BY <1>0, <1>2, RangeIs
<1>5. \A i \in 1..n : EndIn(gots', order'[i]) = EndIn(gots, order[i])
                      /\ gots'[order'[i]].local_gotno = gots[order[i]].local_gotno
  BY <1>2, <1>4 DEF EndIn
<1>6. LastEnd <= gots'[g].local_gotno /\ gots'[g].local_gotno \in Nat
  <2> DEFINE a == gots[g].local_gotno
             p == PageEntries(gots[g].page_gotno)
             r == gots'[g].local_gotno
  <2>1. r = a + first + p /\ a \in Nat /\ p \in Nat
    BY <1>2, <1>3
  <2> HIDE DEF a, p, r
  <2>2. LastEnd <= r /\ r \in Nat
    BY <1>1, <1>2, <2>1, SizesAssumption
  <2>3. QED
    BY <2>2 DEF r
<1>7. \A i \in 1..n : EndIn(gots, order[i]) <= LastEnd
  <2> SUFFICES ASSUME NEW i \in 1..n PROVE EndIn(gots, order[i]) <= LastEnd
    OBVIOUS
  <2>1. order # <<>> /\ n \in 1..n
    BY <1>0
  <2>2. LastEnd = EndIn(gots, order[n])
    BY <2>1 DEF LastEnd, EndOf, EndIn
  <2>3. CASE i = n
    BY <1>2, <2>2, <2>3
  <2>4. CASE i < n
    <3>1. EndIn(gots, order[i]) <= gots[order[n]].local_gotno
      BY <1>2, <2>1, <2>4 DEF Line, Late
    <3>2. order[n] \in GotIds /\ gots[order[n]] \in GotInfo /\ order[i] \in GotIds
      BY <1>0, <1>4, <2>1
    <3>3. EndIn(gots, order[n]) = gots[order[n]].local_gotno + gots[order[n]].global_gotno
                                    + gots[order[n]].tls_gotno
      BY DEF EndIn
    <3> DEFINE lo == gots[order[n]].local_gotno
               gl == gots[order[n]].global_gotno
               tl == gots[order[n]].tls_gotno
               ei == EndIn(gots, order[i])
               en == EndIn(gots, order[n])
    <3>4. lo \in Nat /\ gl \in Nat /\ tl \in Nat /\ en = lo + gl + tl /\ ei <= lo /\ ei \in Nat
      BY <1>0, <3>1, <3>2, <3>3, EndInNat DEF GotInfo
    <3> HIDE DEF lo, gl, tl, ei, en
    <3>5. ei <= en
      BY <3>4
    <3>6. QED
      BY <2>2, <3>5 DEF ei, en
  <2>5. QED
    BY <1>4, <2>3, <2>4
<1>8. \A i \in 1..n : EndIn(gots, order[i]) \in Nat
  BY <1>0, <1>4, EndInNat
<1>9. ASSUME NEW i \in 1..Len(order'), NEW j \in 1..Len(order'), i < j
      PROVE  EndIn(gots', order'[i]) <= gots'[order'[j]].local_gotno
  <2>1. i \in 1..n /\ (j \in 1..n \/ j = n + 1)
    BY <1>2, <1>4, <1>9
  <2>2. CASE j = n + 1
    <3>1. order'[j] = g
      BY <1>2, <2>2
    <3> DEFINE e == EndIn(gots, order[i])
               r == gots'[g].local_gotno
    <3>2. e <= LastEnd /\ LastEnd <= r /\ e \in Nat /\ r \in Nat
      BY <1>6, <1>7, <1>8, <2>1
    <3>3. EndIn(gots', order'[i]) = e
      BY <1>5, <2>1
    <3> HIDE DEF e, r
    <3>4. e <= r
      BY <1>2, <3>2
    <3>5. QED
      BY <3>1, <3>3, <3>4 DEF r
  <2>3. CASE j \in 1..n
    BY <1>2, <1>5, <1>9, <2>1, <2>3 DEF Line, Late
  <2>4. QED
    BY <2>1, <2>2, <2>3
<1>10. QED
  BY <1>9 DEF Line

\* GOTs in line in every step.
LEMMA LineNext == Base /\ Line /\ [Next]_vars => Line'
<1> SUFFICES ASSUME Base, Line, [Next]_vars PROVE Line'
  OBVIOUS
<1>0. /\ Shape /\ link \in Links /\ gots \in [GotIds -> GotInfo] /\ order \in Seq(GotIds)
  BY DEF Base, Shape, Types
<1>1. CASE LayOutSingle
  <2>1. order' = <<OutputBfd>>
    BY <1>1 DEF LayOutSingle
  <2>2. Len(order') = 1
    BY <2>1
  <2>3. \A i, j \in 1..Len(order') : ~(i < j)
    BY <2>2
  <2>4. QED
    BY <2>3 DEF Line
<1>2. CASE SplitGot \/ MakeGotPerBfd \/ (\E b \in Bfds : MergeGot(b))
  <2>1. pc' \in {"split", "merge"}
    BY <1>2 DEF SplitGot, LayOutGot, MakeGotPerBfd, MergeGot, MergeUnchanged
  <2>2. QED
    BY <2>1 DEF Line, Late
<1>3. CASE ChoosePrimary
  <2>1. order' = <<>>
    BY <1>0, <1>3, ChoosePrimaryStep
  <2>2. QED
    BY <2>1 DEF Line
<1>4. ASSUME pc \in Late, order' = order,
             \A h \in GotIds : Same(gots[h], gots'[h])
                               /\ gots'[h].local_gotno = gots[h].local_gotno
      PROVE  Line'
  <2>1. \A h \in GotIds : EndIn(gots', h) = EndIn(gots, h)
    BY <1>4 DEF EndIn, Same
  <2>2. \A i \in 1..Len(order) : order[i] \in GotIds
    BY <1>0
  <2>3. QED
    BY <1>4, <2>1, <2>2 DEF Line
<1>5. ASSUME NEW e \in todo, InitializeTlsIndex(e) PROVE Line'
  <2> DEFINE g == order[Len(order)]
  <2>1. g = order[Len(order)]
    OBVIOUS
  <2> HIDE DEF g
  <2>2. /\ pc = "tls" /\ order' = order
        /\ \A h \in GotIds : h # g => gots'[h] = gots[h]
        /\ Same(gots[g], gots'[g])
        /\ gots'[g].local_gotno = gots[g].local_gotno
    BY <1>0, <1>5, <2>1, InitializeTlsStep
  <2>3. \A h \in GotIds : Same(gots[h], gots'[h])
                          /\ gots'[h].local_gotno = gots[h].local_gotno
    BY <1>0, <2>2, SameRefl
  <2>4. QED
    BY <1>4, <2>2, <2>3 DEF Late
<1>6. CASE NextGot \/ (\E g \in GotIds : SetGlobalGotOffsets(g)) \/ SortDynsyms \/ FinishLink
  <2>1. pc \in Late /\ gots' = gots /\ order' = order
    BY <1>6, BaseRest
  <2>2. QED
    BY <1>0, <1>4, <2>1, SameRefl
<1>7. ASSUME NEW b \in Bfds, RelocateBfd(b) PROVE Line'
  <2> DEFINE g == bfd2got[b]
  <2>1. g = bfd2got[b]
    OBVIOUS
  <2> HIDE DEF g
  <2>2. /\ pc = "relocate" /\ order' = order
        /\ \A h \in GotIds : h # g => gots'[h] = gots[h]
        /\ Same(gots[g], gots'[g])
        /\ gots'[g].local_gotno = gots[g].local_gotno
    BY <1>0, <1>7, <2>1, RelocateBfdStep
  <2>3. \A h \in GotIds : Same(gots[h], gots'[h])
                          /\ gots'[h].local_gotno = gots[h].local_gotno
    BY <1>0, <2>2, SameRefl
  <2>4. QED
    BY <1>4, <2>2, <2>3 DEF Late
<1>8. CASE UNCHANGED vars
  BY <1>8 DEF vars, Line
<1>9. QED
  BY <1>1, <1>2, <1>3, <1>5, <1>6, <1>7, <1>8, LineAssign DEF Next, GotIds

\* Line is an invariant.
LEMMA LineInvariance == Spec => []Line
<1>1. Init => Line
  BY DEF Init, Line, Late
<1>2. Base /\ Line /\ [Next]_vars => Line'
  BY LineNext
<1>3. QED
  BY <1>1, <1>2, BaseInvariance, PTL DEF Spec

-----------------------------------------------------------------------------
(***************************************************************************)
(* The contract: no two slots overlap, and no GOT has two for one symbol.  *)
(***************************************************************************)
Beside(sl, tl) == sl.first + sl.size <= tl.first \/ tl.first + tl.size <= sl.first

PairApart(sl, tl) == sl = tl \/ (Beside(sl, tl) /\ ~(sl.got = tl.got /\ sl.key = tl.key))

\* The GOT has slots for TLS entries only.
Waits(g) == pc \in {"assign", "tls"} \/ (pc = "offsets" /\ (g = order[1] \/ g \in todo))

AllApart == \A sl, tl \in slots : PairApart(sl, tl)

OnlyTls ==
  \A sl \in slots : Waits(sl.got) =>
    /\ gots[sl.got].local_gotno + gots[sl.got].global_gotno <= sl.first
    /\ \E f \in TlsIn(gots[sl.got].entries) :
         /\ sl.key = Key(f)
         /\ pc = "tls" /\ sl.got = order[Len(order)] => f \notin todo

Filling ==
  pc = "tls" => \A g \in GotIds : g = order[Len(order)] =>
    /\ gots[g].local_gotno + gots[g].global_gotno <= gots[g].tls_assigned_gotno
    /\ \A sl \in slots : sl.got = g => sl.first + sl.size <= gots[g].tls_assigned_gotno

Apart == AllApart /\ OnlyTls /\ Filling

\* A slot beside those of the other GOTs: it is in its own.
LEMMA OtherGots ==
  ASSUME Base, Line, pc \in Late, NEW sl \in SlotType, NEW tl \in SlotType,
         sl.got \in Range(order), tl.got \in Range(order), sl.got # tl.got,
         SlotFits(gots, sl), SlotFits(gots, tl)
  PROVE  PairApart(sl, tl)
<1>1. order \in Seq(GotIds) /\ gots \in [GotIds -> GotInfo]
  BY DEF Base, Shape, Types
<1>2. PICK i \in 1..Len(order) : sl.got = order[i]
  BY <1>1, RangeIs
<1>3. PICK j \in 1..Len(order) : tl.got = order[j]
  BY <1>1, RangeIs
<1>4. /\ gots[sl.got].local_gotno <= sl.first /\ sl.first + sl.size <= EndIn(gots, sl.got)
      /\ gots[tl.got].local_gotno <= tl.first /\ tl.first + tl.size <= EndIn(gots, tl.got)
  BY DEF SlotFits
<1>5. /\ sl.first \in Nat /\ sl.size \in 1..3 /\ tl.first \in Nat /\ tl.size \in 1..3
      /\ sl.got \in GotIds /\ tl.got \in GotIds
  BY DEF SlotType
<1>6. /\ gots[sl.got].local_gotno \in Nat /\ gots[tl.got].local_gotno \in Nat
      /\ EndIn(gots, sl.got) \in Nat /\ EndIn(gots, tl.got) \in Nat
  BY <1>1, <1>5, EndInNat DEF GotInfo
<1>7. EndIn(gots, sl.got) <= gots[tl.got].local_gotno
      \/ EndIn(gots, tl.got) <= gots[sl.got].local_gotno
  <2>1. i < j \/ j < i
    BY <1>1, <1>2, <1>3
  <2>2. QED
    BY <1>2, <1>3, <2>1 DEF Line
<1> DEFINE a == sl.first
           b == sl.first + sl.size
           c == tl.first
           d == tl.first + tl.size
           ea == EndIn(gots, sl.got)
           ec == EndIn(gots, tl.got)
           la == gots[sl.got].local_gotno
           lc == gots[tl.got].local_gotno
<1>8. /\ a \in Nat /\ b \in Nat /\ c \in Nat /\ d \in Nat
      /\ ea \in Nat /\ ec \in Nat /\ la \in Nat /\ lc \in Nat
      /\ la <= a /\ b <= ea /\ lc <= c /\ d <= ec
      /\ ea <= lc \/ ec <= la
  <2>1. b \in Nat /\ d \in Nat
    BY <1>5
  <2>2. QED
    BY <1>4, <1>5, <1>6, <1>7, <2>1
<1> HIDE DEF a, b, c, d, ea, ec, la, lc
<1>9. b <= c \/ d <= a
  BY <1>8
<1>10. QED
  BY <1>9 DEF PairApart, Beside, a, b, c, d

\* New slots next to the old ones.
LEMMA PairsAdded ==
  ASSUME \A sl, tl \in slots : PairApart(sl, tl),
         NEW N, slots' = slots \cup N,
         \A sl, tl \in N : PairApart(sl, tl),
         \A sl \in N, tl \in slots : PairApart(sl, tl)
  PROVE  \A sl, tl \in slots' : PairApart(sl, tl)
<1>1. \A sl, tl : PairApart(sl, tl) <=> PairApart(tl, sl)
  BY DEF PairApart, Beside
<1>2. QED
  BY <1>1

\* Indices that are handed out differ.
LEMMA BijectionOneOne ==
  ASSUME NEW S, IsFiniteSet(S), NEW T, Cardinality(T) = Cardinality(S),
         NEW f \in Bijections(S, T)
  PROVE  \A s, t \in S : f[s] = f[t] => s = t
<1>1. f \in Surjection(S, T)
  BY DEF Bijections, Surjection
<1>2. f \in Injection(S, T)
  BY <1>1, FS_Surjection
<1>3. QED
  BY <1>2 DEF Injection, IsInjective

\* The numbers below n.
LEMMA NumbersBelow ==
  ASSUME NEW n \in Nat
  PROVE  Cardinality(0..(n - 1)) = n
<1>1. Cardinality(0..(n - 1)) = IF 0 > n - 1 THEN 0 ELSE (n - 1) - 0 + 1
  BY FS_Interval
<1>2. QED
  BY <1>1

\* The slots that a secondary GOT's global entries are given.
LEMMA GlobalSlots ==
  ASSUME Base, NEW g \in GotIds, SetGlobalGotOffsets(g)
  PROVE  /\ multi /\ g # order[1] /\ g \in Range(order) /\ order # <<>>
         /\ GlobalEntries(g) = GlobalIn(link, gots[g].entries)
         /\ \E pos : /\ \A e \in GlobalEntries(g) : pos[e] \in 0..(gots[g].global_gotno - 1)
                     /\ \A e, d \in GlobalEntries(g) : pos[e] = pos[d] => e = d
                     /\ slots' = slots \cup
                          {Slot(g, Key(e), gots[g].local_gotno + pos[e], 1) : e \in GlobalEntries(g)}
<1>0. /\ Shape /\ Counts /\ gots \in [GotIds -> GotInfo] /\ order \in Seq(GotIds)
      /\ link \in Links
  BY DEF Base, Shape, Types
<1>1. /\ pc = "offsets" /\ pc \in Late /\ g \in todo
      /\ \E pos \in Bijections(GlobalEntries(g), 0..(Cardinality(GlobalEntries(g)) - 1)) :
           slots' = slots \cup
             {Slot(g, Key(e), gots[g].local_gotno + pos[e], 1) : e \in GlobalEntries(g)}
  BY DEF SetGlobalGotOffsets, Late
<1>2. PICK pos \in Bijections(GlobalEntries(g), 0..(Cardinality(GlobalEntries(g)) - 1)) :
        slots' = slots \cup
          {Slot(g, Key(e), gots[g].local_gotno + pos[e], 1) : e \in GlobalEntries(g)}
  BY <1>1
<1>3. PICK i \in 2..Len(order) : g = order[i]
  BY <1>0, <1>1 DEF Shape, InLine
<1>4. g \in Range(order) /\ order # <<>> /\ g # order[1] /\ 1 \in 1..Len(order)
  <2>1. IsInjective(order)
    BY <1>0, <1>1 DEF Shape, InLine
  <2>2. i \in 1..Len(order) /\ 1 \in 1..Len(order) /\ i # 1
    BY <1>0, <1>3
  <2>3. QED
    BY <1>0, <1>3, <2>1, <2>2, RangeIs
<1>5. multi /\ g # primary
  <2>1. ~multi => order = <<OutputBfd>>
    BY <1>0, <1>1 DEF Shape, SingleShape
  <2>2. multi
    BY <1>3, <2>1
  <2>3. QED
    BY <1>0, <1>1, <1>4, <2>2 DEF Shape, InLine
<1>6. GlobalEntries(g) = GlobalIn(link, gots[g].entries)
  <2>1. AreasFinal(link, area)
    BY <1>0, <1>1 DEF Shape, AreaSettled
  <2>2. QED
    BY <2>1, AreaFacts DEF GlobalEntries, GlobalIn
<1>7. gots[g].global_gotno = Cardinality(GlobalEntries(g))
  BY <1>0, <1>1, <1>5, <1>6 DEF Counts, LateCounts
<1>8. IsFiniteSet(GlobalEntries(g)) /\ Cardinality(GlobalEntries(g)) \in Nat
  <2>1. gots[g].entries \in SUBSET Entry
    BY <1>0 DEF GotInfo
  <2>2. GlobalEntries(g) \subseteq Entry
    BY <2>1 DEF GlobalEntries
  <2>3. QED
    BY <2>2, EntryFinite, FS_Subset, FS_CardinalityType
<1>9. \A e, d \in GlobalEntries(g) : pos[e] = pos[d] => e = d
  <2>1. Cardinality(0..(Cardinality(GlobalEntries(g)) - 1)) = Cardinality(GlobalEntries(g))
    BY <1>8, NumbersBelow
  <2>2. QED
    BY <1>8, <2>1, BijectionOneOne
<1>10. \A e \in GlobalEntries(g) : pos[e] \in 0..(gots[g].global_gotno - 1)
  BY <1>7, BijectionValue
<1>11. QED
  BY <1>2, <1>4, <1>5, <1>6, <1>9, <1>10

\* The symbols with a global entry.
Tabled == {s \in Syms : area[s] # "NONE"}

\* The slots that the order of the dynamic symbols gives in the primary GOT.
LEMMA SortSlots ==
  ASSUME Base, AreasPlaced, Reach, SortDynsyms
  PROVE  /\ order # <<>> /\ order[1] = primary /\ primary \in Range(order)
         /\ \E pos : /\ \A s \in Tabled : pos[s] \in 0..(gots[primary].global_gotno - 1)
                     /\ \A s, t \in Tabled : pos[s] = pos[t] => s = t
                     /\ slots' = slots \cup
                          {Slot(primary, <<OutputBfd, s>>, gots[primary].local_gotno + pos[s], 1)
                             : s \in Tabled}
<1>0. /\ Shape /\ Counts /\ gots \in [GotIds -> GotInfo] /\ order \in Seq(GotIds)
      /\ link \in Links /\ area \in [Syms -> {"NONE", "NORMAL", "RELOC_ONLY"}]
  BY DEF Base, Shape, Types
<1> DEFINE n == Cardinality(Normal)
           r == Cardinality(RelocOnly)
           lo == gots[primary].local_gotno
<1>1. pc = "offsets" /\ pc \in Late
  BY DEF SortDynsyms, Late
<1>2. order # <<>> /\ order[1] = primary
  <2>1. order # <<>> /\ (IF order = <<>> THEN chain # <<>> /\ chain[1] = primary
                         ELSE order[1] = primary)
    BY <1>0, <1>1 DEF Shape, InLine
  <2>2. QED
    BY <2>1
<1>3. primary \in GotIds /\ primary \in Range(order)
  BY <1>0, <1>2, RangeIs
<1>4. PICK down \in Bijections(Normal, 1..n), up \in Bijections(RelocOnly, 0..(r - 1)) :
        slots' = slots
          \cup {Slot(primary, <<OutputBfd, s>>, (lo + n) - down[s], 1) : s \in Normal}
          \cup {Slot(primary, <<OutputBfd, s>>, (lo + n) + up[s], 1) : s \in RelocOnly}
  <2> DEFINE g == order[1]
             at == gots[g].local_gotno
  <2>1. g = primary /\ at = lo
    BY <1>2
  <2>2. \E down \in Bijections(Normal, 1..n), up \in Bijections(RelocOnly, 0..(r - 1)) :
          slots' = slots
            \cup {Slot(g, <<OutputBfd, s>>, (at + n) - down[s], 1) : s \in Normal}
            \cup {Slot(g, <<OutputBfd, s>>, (at + n) + up[s], 1) : s \in RelocOnly}
    BY DEF SortDynsyms
  <2>3. PICK down \in Bijections(Normal, 1..n), up \in Bijections(RelocOnly, 0..(r - 1)) :
          slots' = slots
            \cup {Slot(g, <<OutputBfd, s>>, (at + n) - down[s], 1) : s \in Normal}
            \cup {Slot(g, <<OutputBfd, s>>, (at + n) + up[s], 1) : s \in RelocOnly}
    BY <2>2
  <2> HIDE DEF g, n, r, lo, at
  <2>4. slots' = slots
          \cup {Slot(primary, <<OutputBfd, s>>, (lo + n) - down[s], 1) : s \in Normal}
          \cup {Slot(primary, <<OutputBfd, s>>, (lo + n) + up[s], 1) : s \in RelocOnly}
    BY <2>1, <2>3
  <2>5. QED
    BY <2>4
<1>5. IsFiniteSet(Normal) /\ IsFiniteSet(RelocOnly) /\ n \in Nat /\ r \in Nat
  <2>1. IsFiniteSet(Normal) /\ IsFiniteSet(RelocOnly)
    BY NamesAssumption, FS_Subset DEF Normal, RelocOnly
  <2>2. QED
    BY <2>1, FS_CardinalityType
<1>6. n + r = global_gotno
  BY <1>1, SortAssertsHold DEF SortAsserts
<1>7. gots[primary].global_gotno = global_gotno
  <2>1. CASE multi
    BY <1>0, <1>1, <1>3, <2>1 DEF Counts, LateCounts
  <2>2. CASE ~multi
    <3>1. order = <<OutputBfd>>
      BY <1>0, <1>1, <2>2 DEF Shape, SingleShape
    <3>2. primary = OutputBfd
      BY <1>2, <3>1
    <3>3. QED
      BY <1>1, <2>2, <3>2 DEF Reach
  <2>3. QED
    BY <2>1, <2>2
<1>8. \A s \in Normal : down[s] \in 1..n
  BY BijectionValue
<1>9. \A s \in RelocOnly : up[s] \in 0..(r - 1)
  BY BijectionValue
<1>10. \A s, t \in Normal : down[s] = down[t] => s = t
  <2>1. Cardinality(1..n) = n
    BY <1>5, Numbered
  <2>2. QED
    BY <1>5, <2>1, BijectionOneOne
<1>11. \A s, t \in RelocOnly : up[s] = up[t] => s = t
  <2>1. Cardinality(0..(r - 1)) = r
    BY <1>5, NumbersBelow
  <2>2. QED
    BY <1>5, <2>1, BijectionOneOne
<1>12. Tabled = Normal \cup RelocOnly /\ Normal \cap RelocOnly = {}
  BY <1>0 DEF Tabled, Normal, RelocOnly
<1>13. lo \in Nat
  BY <1>0, <1>3 DEF GotInfo
<1> HIDE DEF n, r, lo
<1> DEFINE pos == [s \in Tabled |-> IF s \in Normal THEN n - down[s] ELSE n + up[s]]
<1>14. /\ \A s \in Normal : pos[s] = n - down[s] /\ pos[s] \in 0..(n - 1)
                            /\ lo + pos[s] = (lo + n) - down[s]
       /\ \A s \in RelocOnly : pos[s] = n + up[s] /\ pos[s] \in n..(n + r - 1)
                               /\ lo + pos[s] = (lo + n) + up[s]
  <2>1. \A s \in Normal : pos[s] = n - down[s]
    BY <1>12
  <2>2. \A s \in RelocOnly : pos[s] = n + up[s]
    BY <1>12
  <2> HIDE DEF pos
  <2>3. \A d \in 1..n : n - d \in 0..(n - 1) /\ lo + (n - d) = (lo + n) - d
    BY <1>5, <1>13
  <2>4. \A d \in 0..(r - 1) : n + d \in n..(n + r - 1) /\ lo + (n + d) = (lo + n) + d
    BY <1>5, <1>13
  <2>5. QED
    BY <1>8, <1>9, <2>1, <2>2, <2>3, <2>4
<1> HIDE DEF pos
<1>15. \A s \in Tabled : pos[s] \in 0..(global_gotno - 1)
  <2>1. 0..(n - 1) \subseteq 0..(global_gotno - 1) /\ n..(n + r - 1) \subseteq 0..(global_gotno - 1)
    BY <1>5, <1>6
  <2>2. QED
    BY <1>12, <1>14, <2>1
<1>16. ASSUME NEW s \in Tabled, NEW t \in Tabled, pos[s] = pos[t] PROVE s = t
  <2>1. (0..(n - 1)) \cap (n..(n + r - 1)) = {}
    BY <1>5
  <2>2. CASE s \in Normal /\ t \in Normal
    <3>1. n - down[s] = n - down[t] /\ down[s] \in 1..n /\ down[t] \in 1..n
      BY <1>8, <1>14, <1>16, <2>2
    <3>2. down[s] = down[t]
      BY <1>5, <3>1
    <3>3. QED
      BY <1>10, <2>2, <3>2
  <2>3. CASE s \in RelocOnly /\ t \in RelocOnly
    <3>1. n + up[s] = n + up[t] /\ up[s] \in 0..(r - 1) /\ up[t] \in 0..(r - 1)
      BY <1>9, <1>14, <1>16, <2>3
    <3>2. up[s] = up[t]
      BY <1>5, <3>1
    <3>3. QED
      BY <1>11, <2>3, <3>2
  <2>4. ~(s \in Normal /\ t \in RelocOnly) /\ ~(s \in RelocOnly /\ t \in Normal)
    BY <1>14, <1>16, <2>1
  <2>5. QED
    BY <1>12, <2>2, <2>3, <2>4
<1> DEFINE A == {Slot(primary, <<OutputBfd, s>>, (lo + n) - down[s], 1) : s \in Normal}
           B == {Slot(primary, <<OutputBfd, s>>, (lo + n) + up[s], 1) : s \in RelocOnly}
           C == {Slot(primary, <<OutputBfd, s>>, lo + pos[s], 1) : s \in Tabled}
<1>17. C = A \cup B
  <2>1. A = {Slot(primary, <<OutputBfd, s>>, lo + pos[s], 1) : s \in Normal}
    BY <1>14
  <2>2. B = {Slot(primary, <<OutputBfd, s>>, lo + pos[s], 1) : s \in RelocOnly}
    BY <1>14
  <2>3. QED
    BY <1>12, <2>1, <2>2
<1>18. slots' = slots \cup C
  BY <1>4, <1>17
<1>19. QED
  BY <1>2, <1>3, <1>7, <1>15, <1>16, <1>18 DEF lo

\* Slots one apart, for one GOT and different keys.
LEMMA OneApart ==
  ASSUME NEW g, NEW k, NEW j, k # j, NEW lo \in Nat, NEW p \in Nat, NEW q \in Nat, p # q
  PROVE  PairApart(Slot(g, k, lo + p, 1), Slot(g, j, lo + q, 1))
<1> DEFINE a == lo + p
           b == lo + q
<1>1. a + 1 <= b \/ b + 1 <= a
  OBVIOUS
<1> HIDE DEF a, b
<1>2. Beside(Slot(g, k, a, 1), Slot(g, j, b, 1))
  BY <1>1 DEF Beside, Slot
<1>3. Slot(g, k, a, 1).key # Slot(g, j, b, 1).key
  BY DEF Slot
<1>4. QED
  BY <1>2, <1>3 DEF PairApart, a, b

\* A global slot of a GOT and the slots of its TLS entries.
LEMMA GlobalApart ==
  ASSUME Base, Line, Placement, Apart, pc \in Late,
         NEW g \in GotIds, g \in Range(order), Waits(g),
         NEW key \in GotIds \X AllSyms, NEW p \in 0..(gots[g].global_gotno - 1),
         \A f \in TlsIn(gots[g].entries) : key # Key(f),
         NEW tl \in slots
  PROVE  PairApart(Slot(g, key, gots[g].local_gotno + p, 1), tl)
<1> DEFINE at == gots[g].local_gotno + p
           sl == Slot(g, key, at, 1)
           lo == gots[g].local_gotno
           n == gots[g].global_gotno
           t == gots[g].tls_gotno
<1>1. lo \in Nat /\ n \in Nat /\ t \in Nat /\ p \in 0..(n - 1)
  BY DEF Base, Shape, Types, GotInfo
<1>2. at = lo + p /\ EndIn(gots, g) = lo + n + t
  BY DEF EndIn
<1> HIDE DEF lo, n, t, at
<1>3. at \in Nat /\ lo <= at /\ at + 1 <= lo + n /\ at + 1 <= lo + n + t
  BY <1>1, <1>2
<1>4. 1 \in 1..3
  OBVIOUS
<1>5. sl \in SlotType /\ sl.got = g /\ sl.key = key /\ sl.first = at /\ sl.size = 1
  BY <1>3, <1>4, SlotIs
<1> HIDE DEF sl
<1>6. tl \in SlotType /\ tl.got \in Range(order) /\ SlotFits(gots, tl)
  BY DEF Placement
<1>7. CASE tl.got # g
  <2>1. SlotFits(gots, sl)
    BY <1>2, <1>3, <1>5 DEF SlotFits, lo
  <2>2. PairApart(sl, tl)
    BY <1>5, <1>6, <1>7, <2>1, OtherGots
  <2>3. QED
    BY <2>2 DEF sl, at
<1>8. CASE tl.got = g
  <2>1. /\ lo + n <= tl.first
        /\ \E f \in TlsIn(gots[g].entries) : tl.key = Key(f)
    BY <1>8 DEF Apart, OnlyTls, lo, n
  <2>2. tl.first \in Nat
    BY <1>6 DEF SlotType
  <2>3. at + 1 <= tl.first
    BY <1>1, <1>3, <2>1, <2>2
  <2>4. Beside(sl, tl)
    BY <1>5, <2>3 DEF Beside
  <2>5. sl.key # tl.key
    BY <1>5, <2>1
  <2>6. PairApart(sl, tl)
    BY <2>4, <2>5 DEF PairApart
  <2>7. QED
    BY <2>6 DEF sl, at
<1>9. QED
  BY <1>7, <1>8

\* Slots that are added to GOTs that no longer wait.
LEMMA ApartAdds ==
  ASSUME Base, Placement, Apart, pc \in Late, pc' # "tls",
         \A h \in GotIds : Same(gots[h], gots'[h])
                           /\ gots'[h].local_gotno = gots[h].local_gotno,
         NEW N, slots' = slots \cup N, \A sl \in N : sl.got \in GotIds,
         \A sl, tl \in slots' : PairApart(sl, tl),
         \A g \in GotIds : Waits(g)' => Waits(g) /\ \A sl \in N : sl.got # g
  PROVE  Apart'
<1>1. AllApart'
  BY DEF AllApart
<1>2. ASSUME NEW sl \in slots', Waits(sl.got)'
      PROVE  /\ gots'[sl.got].local_gotno + gots'[sl.got].global_gotno <= sl.first
             /\ \E f \in TlsIn(gots'[sl.got].entries) : sl.key = Key(f)
  <2>1. CASE sl \in slots
    <3> DEFINE g == sl.got
    <3>1. g \in GotIds
      BY <2>1 DEF Placement, SlotType
    <3>2. Waits(g)
      BY <1>2, <3>1
    <3>3. /\ gots[g].local_gotno + gots[g].global_gotno <= sl.first
          /\ \E f \in TlsIn(gots[g].entries) : sl.key = Key(f)
      BY <2>1, <3>2 DEF Apart, OnlyTls
    <3>4. /\ gots'[g].entries = gots[g].entries
          /\ gots'[g].local_gotno = gots[g].local_gotno
          /\ gots'[g].global_gotno = gots[g].global_gotno
      BY <3>1 DEF Same
    <3>5. QED
      BY <3>3, <3>4
  <2>2. sl \in slots
    BY <1>2
  <2>3. QED
    BY <2>1, <2>2
<1>3. OnlyTls'
  BY <1>2 DEF OnlyTls
<1>4. Filling'
  BY DEF Filling
<1>5. QED
  BY <1>1, <1>3, <1>4 DEF Apart

\* A GOT that is assigned its range has no slots yet.
LEMMA ApartAssign == Base /\ Placement /\ Apart /\ AssignRange => Apart'
<1> SUFFICES ASSUME Base, Placement, Apart, AssignRange PROVE Apart'
  OBVIOUS
<1>0. Shape /\ gots \in [GotIds -> GotInfo] /\ order \in Seq(GotIds)
  BY DEF Base, Shape, Types
<1> DEFINE g == Head(chain)
           first == LastEnd + Reserved
<1>1. first = LastEnd + Reserved /\ g = Head(chain)
  OBVIOUS
<1> HIDE DEF g, first
<1>2. /\ pc = "assign" /\ pc' = "tls" /\ g \in GotIds /\ g \notin Range(order)
      /\ order'[Len(order')] = g
      /\ gots' \in [GotIds -> GotInfo]
      /\ \A h \in GotIds : h # g => gots'[h] = gots[h]
      /\ Same(gots[g], gots'[g])
      /\ gots'[g].tls_assigned_gotno = gots'[g].local_gotno + gots[g].global_gotno
      /\ slots' = slots
  BY <1>0, <1>1, AssignRangeStep
<1>3. \A sl \in slots : sl.got \in GotIds /\ sl.got # g
  BY <1>2 DEF Placement, SlotType
<1>4. AllApart'
  BY <1>2 DEF Apart, AllApart
<1>5. OnlyTls'
  <2> SUFFICES ASSUME NEW sl \in slots
               PROVE  /\ gots'[sl.got].local_gotno + gots'[sl.got].global_gotno <= sl.first
                      /\ \E f \in TlsIn(gots'[sl.got].entries) : sl.key = Key(f)
    BY <1>2, <1>3 DEF OnlyTls
  <2>1. Waits(sl.got)
    BY <1>2 DEF Waits
  <2>2. gots'[sl.got] = gots[sl.got]
    BY <1>2, <1>3
  <2>3. QED
    BY <2>1, <2>2 DEF Apart, OnlyTls
<1>6. Filling'
  <2>1. gots'[g].global_gotno = gots[g].global_gotno
    BY <1>2 DEF Same
  <2>2. gots'[g].local_gotno \in Nat /\ gots'[g].global_gotno \in Nat
    BY <1>2 DEF GotInfo
  <2>3. gots'[g].local_gotno + gots'[g].global_gotno <= gots'[g].tls_assigned_gotno
    BY <1>2, <2>1, <2>2
  <2>4. QED
    BY <1>2, <1>3, <2>3 DEF Filling
<1>7. QED
  BY <1>4, <1>5, <1>6 DEF Apart

\* A TLS entry's slots follow those that the GOT has.
LEMMA ApartTls ==
  ASSUME Base, SingleHeld, Line, Placement, Apart, NEW e \in todo, InitializeTlsIndex(e)
  PROVE  Apart'
<1>0. Shape /\ gots \in [GotIds -> GotInfo] /\ order \in Seq(GotIds)
  BY DEF Base, Shape, Types
<1> DEFINE g == order[Len(order)]
<1>1. g = order[Len(order)]
  OBVIOUS
<1> HIDE DEF g
<1> DEFINE size == TlsSize(e.tls)
           at == gots[g].tls_assigned_gotno
           new == Slot(g, Key(e), at, size)
           floor == gots[g].local_gotno + gots[g].global_gotno
<1>2. /\ pc = "tls" /\ link \in Links /\ g \in GotIds /\ g \in Range(order)
      /\ todo \subseteq TlsIn(gots[g].entries) /\ todo' = todo \ {e}
      /\ e \in Entry /\ size \in 1..3
      /\ slots' = slots \cup {new}
      /\ gots' \in [GotIds -> GotInfo]
      /\ \A h \in GotIds : h # g => gots'[h] = gots[h]
      /\ Same(gots[g], gots'[g])
      /\ gots'[g].local_gotno = gots[g].local_gotno
      /\ gots'[g].tls_assigned_gotno = at + size
      /\ UNCHANGED <<pc, link, area, multi, primary, order>>
  BY <1>0, <1>1, InitializeTlsStep
<1>3. \A h \in GotIds : /\ gots'[h].entries = gots[h].entries
                        /\ gots'[h].local_gotno = gots[h].local_gotno
                        /\ gots'[h].global_gotno = gots[h].global_gotno
                        /\ gots'[h].tls_gotno = gots[h].tls_gotno
  BY <1>2 DEF Same
<1>4. Placement'
  BY PlacementTls
<1>5. /\ new \in SlotType /\ new.got = g /\ new.first = at /\ new.size = size
      /\ new.key = Key(e) /\ at \in Nat
  <2>1. Key(e) \in GotIds \X AllSyms /\ at \in Nat
    BY <1>0, <1>2, KeyType DEF GotInfo
  <2> HIDE DEF at, size
  <2>2. QED
    BY <1>2, <2>1, SlotIs
<1>6. SlotFits(gots, new)
  <2>1. SlotFits(gots', new)
    BY <1>2, <1>4 DEF Placement
  <2>2. new.got \in GotIds
    BY <1>2, <1>5
  <2>3. EndIn(gots', new.got) = EndIn(gots, new.got)
    BY <1>3, <2>2 DEF EndIn
  <2>4. QED
    BY <1>3, <2>1, <2>2, <2>3 DEF SlotFits
<1>7. floor <= at /\ floor \in Nat /\ \A sl \in slots : sl.got = g => sl.first + sl.size <= at
  <2>1. floor \in Nat
    BY <1>0, <1>2 DEF GotInfo
  <2>2. QED
    BY <1>1, <1>2, <2>1 DEF Apart, Filling
<1>8. KeysDiffer(TlsIn(gots[g].entries)) /\ e \in TlsIn(gots[g].entries)
  BY <1>2, TlsHeld DEF Late
<1>9. ASSUME NEW sl \in slots
      PROVE  /\ sl \in SlotType /\ sl.got \in Range(order) /\ SlotFits(gots, sl)
             /\ gots[sl.got].local_gotno + gots[sl.got].global_gotno <= sl.first
             /\ \E f \in TlsIn(gots[sl.got].entries) :
                  sl.key = Key(f) /\ (sl.got = g => f \notin todo)
  BY <1>1, <1>2 DEF Placement, Apart, OnlyTls, Waits
<1> HIDE DEF at, size, new, floor
<1>10. ASSUME NEW tl \in slots PROVE PairApart(new, tl)
  <2>1. CASE tl.got # g
    BY <1>2, <1>5, <1>6, <1>9, <2>1, OtherGots DEF Late
  <2>2. CASE tl.got = g
    <3>1. Beside(new, tl)
      BY <1>5, <1>7, <2>2 DEF Beside
    <3>2. PICK f \in TlsIn(gots[g].entries) : tl.key = Key(f) /\ f \notin todo
      BY <1>9, <2>2
    <3>3. Key(f) # Key(e)
      BY <1>8, <3>2 DEF KeysDiffer
    <3>4. QED
      BY <1>5, <3>1, <3>2, <3>3 DEF PairApart
  <2>3. QED
    BY <2>1, <2>2
<1>11. AllApart'
  <2> DEFINE N == {new}
  <2>1. /\ slots' = slots \cup N
        /\ \A sl, tl \in N : PairApart(sl, tl)
        /\ \A sl \in N, tl \in slots : PairApart(sl, tl)
        /\ \A sl, tl \in slots : PairApart(sl, tl)
    BY <1>2, <1>10 DEF PairApart, Apart, AllApart
  <2> HIDE DEF N
  <2>2. QED
    BY <2>1, PairsAdded DEF AllApart
<1>12. \A sl \in slots' : sl \in slots \/ sl = new
  BY <1>2
<1>13. OnlyTls'
  <2> SUFFICES ASSUME NEW sl \in slots'
               PROVE  /\ gots'[sl.got].local_gotno + gots'[sl.got].global_gotno <= sl.first
                      /\ \E f \in TlsIn(gots'[sl.got].entries) :
                           sl.key = Key(f) /\ (sl.got = g => f \notin todo')
    BY <1>1, <1>2 DEF OnlyTls
  <2>1. CASE sl \in slots
    <3>1. sl.got \in GotIds
      BY <1>9, <2>1 DEF SlotType
    <3>2. PICK f \in TlsIn(gots[sl.got].entries) :
            sl.key = Key(f) /\ (sl.got = g => f \notin todo)
      BY <1>9, <2>1
    <3>3. sl.got = g => f \notin todo'
      BY <1>2, <3>2
    <3>4. gots[sl.got].local_gotno + gots[sl.got].global_gotno <= sl.first
      BY <1>9, <2>1
    <3>5. f \in TlsIn(gots'[sl.got].entries)
      BY <1>3, <3>1
    <3>6. QED
      BY <1>3, <3>1, <3>2, <3>3, <3>4, <3>5
  <2>2. CASE sl = new
    <3>1. gots'[g].local_gotno + gots'[g].global_gotno <= new.first
      BY <1>2, <1>3, <1>5, <1>7 DEF floor
    <3>2. e \in TlsIn(gots'[g].entries) /\ e \notin todo'
      BY <1>2, <1>3, <1>8
    <3>3. QED
      BY <1>5, <2>2, <3>1, <3>2
  <2>3. QED
    BY <1>12, <2>1, <2>2
<1>14. Filling'
  <2>1. floor <= at + size /\ at <= at + size
    BY <1>2, <1>5, <1>7
  <2>2. \A sl \in slots' : sl.got = g => sl.first + sl.size <= at + size
    <3> SUFFICES ASSUME NEW sl \in slots', sl.got = g PROVE sl.first + sl.size <= at + size
      OBVIOUS
    <3>1. CASE sl \in slots
      <4>1. sl.first + sl.size <= at /\ sl.first \in Nat /\ sl.size \in 1..3
        BY <1>7, <1>9, <3>1 DEF SlotType
      <4>2. QED
        BY <1>2, <1>5, <4>1
    <3>2. CASE sl = new
      BY <1>2, <1>5, <3>2
    <3>3. QED
      BY <1>12, <3>1, <3>2
  <2>3. gots'[g].local_gotno + gots'[g].global_gotno <= gots'[g].tls_assigned_gotno
    BY <1>2, <1>3, <2>1 DEF floor
  <2>4. order'[Len(order')] = g
    BY <1>1, <1>2
  <2>5. QED
    BY <1>2, <2>2, <2>3, <2>4 DEF Filling
<1>15. QED
  BY <1>11, <1>13, <1>14 DEF Apart

\* The global entries of a secondary GOT come before its TLS entries.
LEMMA ApartGlobals ==
  ASSUME Base, SingleHeld, Line, Placement, Apart, NEW g \in GotIds, SetGlobalGotOffsets(g)
  PROVE  Apart'
<1>0. Shape /\ gots \in [GotIds -> GotInfo] /\ order \in Seq(GotIds) /\ link \in Links
  BY DEF Base, Shape, Types
<1> DEFINE E == GlobalEntries(g)
           lo == gots[g].local_gotno
<1>1. /\ pc = "offsets" /\ pc \in Late /\ pc' = pc /\ g \in todo /\ todo' = todo \ {g}
      /\ UNCHANGED <<gots, order>>
  BY DEF SetGlobalGotOffsets, Late
<1>2. /\ multi /\ g # order[1] /\ g \in Range(order)
      /\ E = GlobalIn(link, gots[g].entries)
  BY GlobalSlots
<1>3. PICK pos : /\ \A e \in E : pos[e] \in 0..(gots[g].global_gotno - 1)
                 /\ \A e, d \in E : pos[e] = pos[d] => e = d
                 /\ slots' = slots \cup {Slot(g, Key(e), lo + pos[e], 1) : e \in E}
  BY GlobalSlots
<1>4. KeysDiffer(gots[g].entries) /\ gots[g].entries \subseteq link.entries /\ E \subseteq Entry
      /\ E \subseteq gots[g].entries
  <2>1. KeysDiffer(gots[g].entries) /\ gots[g].entries \subseteq link.entries
    BY <1>1, <1>2 DEF Base, Counts, LateCounts
  <2>2. QED
    BY <1>0, <1>2, <2>1, LinkFacts DEF GlobalIn
<1>5. lo \in Nat /\ gots[g].global_gotno \in Nat
  BY <1>0 DEF GotInfo
<1>6. Waits(g)
  BY <1>1 DEF Waits
<1> HIDE DEF E, lo
<1> DEFINE N == {Slot(g, Key(e), lo + pos[e], 1) : e \in E}
<1>7. ASSUME NEW e \in E, NEW d \in E
      PROVE  PairApart(Slot(g, Key(e), lo + pos[e], 1), Slot(g, Key(d), lo + pos[d], 1))
  <2>1. CASE e = d
    BY <2>1 DEF PairApart
  <2>2. CASE e # d
    <3>1. Key(e) # Key(d)
      BY <1>4, <2>2 DEF KeysDiffer
    <3>2. pos[e] # pos[d] /\ pos[e] \in Nat /\ pos[d] \in Nat
      BY <1>3, <1>5, <2>2
    <3>3. QED
      BY <1>5, <3>1, <3>2, OneApart
  <2>3. QED
    BY <2>1, <2>2
<1>8. ASSUME NEW e \in E, NEW tl \in slots
      PROVE  PairApart(Slot(g, Key(e), lo + pos[e], 1), tl)
  <2>1. Key(e) \in GotIds \X AllSyms
    BY <1>4, KeyType
  <2>2. \A f \in TlsIn(gots[g].entries) : Key(e) # Key(f)
    <3>1. ~IsTls(e)
      BY <1>2 DEF GlobalIn, GlobalOf
    <3>2. QED
      BY <1>4, <3>1 DEF KeysDiffer, TlsIn
  <2>3. pos[e] \in 0..(gots[g].global_gotno - 1)
    BY <1>3
  <2>4. QED
    BY <1>1, <1>2, <1>6, <2>1, <2>2, <2>3, GlobalApart DEF lo
<1>9. slots' = slots \cup N
  BY <1>3
<1>10. /\ \A sl, tl \in N : PairApart(sl, tl)
       /\ \A sl \in N, tl \in slots : PairApart(sl, tl)
       /\ \A sl \in N : sl.got = g
  BY <1>7, <1>8 DEF Slot
<1> HIDE DEF N
<1>11. \A sl, tl \in slots' : PairApart(sl, tl)
  BY <1>9, <1>10, PairsAdded DEF Apart, AllApart
<1>12. \A h \in GotIds : Waits(h)' => Waits(h) /\ \A sl \in N : sl.got # h
  <2> SUFFICES ASSUME NEW h \in GotIds, Waits(h)' PROVE Waits(h) /\ \A sl \in N : sl.got # h
    OBVIOUS
  <2>1. h = order[1] \/ h \in todo \ {g}
    BY <1>1 DEF Waits
  <2>2. h # g /\ Waits(h)
    BY <1>1, <1>2, <2>1 DEF Waits
  <2>3. QED
    BY <1>10, <2>2
<1>13. \A h \in GotIds : Same(gots[h], gots'[h])
                         /\ gots'[h].local_gotno = gots[h].local_gotno
  BY <1>0, <1>1, SameRefl
<1>14. pc' # "tls" /\ \A sl \in N : sl.got \in GotIds
  BY <1>1, <1>10
<1>15. QED
  BY <1>1, <1>9, <1>11, <1>12, <1>13, <1>14, ApartAdds

\* A symbol with a global entry is no symbol of a TLS entry.
LEMMA TabledNotTls ==
  ASSUME Base, SingleHeld, pc \in Late, NEW g \in Range(order), NEW s \in Tabled,
         NEW f \in TlsIn(gots[g].entries)
  PROVE  <<OutputBfd, s>> # Key(f)
<1>1. link \in Links /\ AreasFinal(link, area) /\ s \in Syms /\ AreaOf(link, s) # "NONE"
  <2>1. link \in Links /\ AreasFinal(link, area)
    BY DEF Base, Shape, Types, AreaSettled, Late
  <2>2. QED
    BY <2>1 DEF Tabled, AreasFinal
<1>2. PICK e \in TlsIn(link.entries) : e.sym = f.sym
  BY TlsHeld
<1>3. f \in Entry /\ e \in link.entries /\ IsTls(e)
  BY <1>2, TlsHeld DEF TlsIn
<1>4. ASSUME f.sym = s PROVE FALSE
  <2>1. e.sym = s /\ e.sym \notin link.reloc_only /\ \A d \in link.entries : d.sym = s => IsTls(d)
    BY <1>1, <1>2, <1>3, <1>4, EntriesAssumption
  <2>2. QED
    BY <1>1, <2>1 DEF AreaOf
<1>5. QED
  BY <1>4 DEF Key

\* The global entries of the primary GOT come before its TLS entries.
LEMMA ApartSort ==
  Base /\ AreasPlaced /\ Reach /\ SingleHeld /\ Line /\ Placement /\ Apart /\ SortDynsyms
    => Apart'
<1> SUFFICES ASSUME Base, AreasPlaced, Reach, SingleHeld, Line, Placement, Apart, SortDynsyms
             PROVE  Apart'
  OBVIOUS
<1>0. Shape /\ gots \in [GotIds -> GotInfo] /\ primary \in GotIds
  BY DEF Base, Shape, Types
<1> DEFINE lo == gots[primary].local_gotno
<1>1. pc = "offsets" /\ pc \in Late /\ pc' = "relocate" /\ UNCHANGED <<gots, order>>
  BY DEF SortDynsyms, Late
<1>2. order[1] = primary /\ primary \in Range(order)
  BY SortSlots
<1>3. PICK pos : /\ \A s \in Tabled : pos[s] \in 0..(gots[primary].global_gotno - 1)
                 /\ \A s, t \in Tabled : pos[s] = pos[t] => s = t
                 /\ slots' = slots \cup
                      {Slot(primary, <<OutputBfd, s>>, lo + pos[s], 1) : s \in Tabled}
  BY SortSlots
<1>4. lo \in Nat /\ gots[primary].global_gotno \in Nat
  BY <1>0 DEF GotInfo
<1>5. Waits(primary)
  BY <1>1, <1>2 DEF Waits
<1> HIDE DEF lo
<1> DEFINE N == {Slot(primary, <<OutputBfd, s>>, lo + pos[s], 1) : s \in Tabled}
<1>6. ASSUME NEW s \in Tabled, NEW t \in Tabled
      PROVE  PairApart(Slot(primary, <<OutputBfd, s>>, lo + pos[s], 1),
                       Slot(primary, <<OutputBfd, t>>, lo + pos[t], 1))
  <2>1. CASE s = t
    BY <2>1 DEF PairApart
  <2>2. CASE s # t
    <3>1. <<OutputBfd, s>> # <<OutputBfd, t>>
      BY <2>2
    <3>2. pos[s] # pos[t] /\ pos[s] \in Nat /\ pos[t] \in Nat
      BY <1>3, <1>4, <2>2
    <3>3. QED
      BY <1>4, <3>1, <3>2, OneApart
  <2>3. QED
    BY <2>1, <2>2
<1>7. ASSUME NEW s \in Tabled, NEW tl \in slots
      PROVE  PairApart(Slot(primary, <<OutputBfd, s>>, lo + pos[s], 1), tl)
  <2>1. <<OutputBfd, s>> \in GotIds \X AllSyms
    BY DEF Tabled, GotIds, AllSyms
  <2>2. \A f \in TlsIn(gots[primary].entries) : <<OutputBfd, s>> # Key(f)
    BY <1>1, <1>2, TabledNotTls
  <2>3. pos[s] \in 0..(gots[primary].global_gotno - 1)
    BY <1>3
  <2>4. QED
    BY <1>0, <1>1, <1>2, <1>5, <2>1, <2>2, <2>3, GlobalApart DEF lo
<1>8. slots' = slots \cup N
  BY <1>3
<1>9. /\ \A sl, tl \in N : PairApart(sl, tl)
      /\ \A sl \in N, tl \in slots : PairApart(sl, tl)
      /\ \A sl \in N : sl.got \in GotIds
  BY <1>0, <1>6, <1>7 DEF Slot
<1> HIDE DEF N
<1>10. \A sl, tl \in slots' : PairApart(sl, tl)
  BY <1>8, <1>9, PairsAdded DEF Apart, AllApart
<1>11. \A h \in GotIds : Waits(h)' => Waits(h) /\ \A sl \in N : sl.got # h
  BY <1>1 DEF Waits
<1>12. \A h \in GotIds : Same(gots[h], gots'[h])
                         /\ gots'[h].local_gotno = gots[h].local_gotno
  BY <1>0, <1>1, SameRefl
<1>13. QED
  BY <1>1, <1>8, <1>9, <1>10, <1>11, <1>12, ApartAdds

\* Slots stay apart in every step.
LEMMA ApartNext ==
  Base /\ AreasPlaced /\ Reach /\ SingleHeld /\ Line /\ Placement /\ Apart /\ [Next]_vars
    => Apart'
<1> SUFFICES ASSUME Base, AreasPlaced, Reach, SingleHeld, Line, Placement, Apart, [Next]_vars
             PROVE  Apart'
  OBVIOUS
<1>0. /\ Shape /\ gots \in [GotIds -> GotInfo] /\ OutputBfd \in GotIds
  BY DEF Base, Shape, Types, GotIds
<1>1. CASE SplitGot \/ MakeGotPerBfd \/ (\E b \in Bfds : MergeGot(b)) \/ ChoosePrimary
  <2>1. pc \in Early /\ pc' # "tls" /\ slots' = slots
    BY <1>1 DEF SplitGot, MakeGotPerBfd, MergeGot, MergeUnchanged, ChoosePrimary, LayOutGot,
                Early
  <2>2. slots' = {}
    BY <2>1, NoSlotsEarly
  <2>3. QED
    BY <2>1, <2>2 DEF Apart, AllApart, OnlyTls, Filling
<1>2. CASE LayOutSingle
  <2> DEFINE end == SingleGot.local_gotno + SingleGot.global_gotno
  <2>1. /\ pc = "layout" /\ ~multi /\ order' = <<OutputBfd>> /\ slots' = slots
        /\ gots' = [gots EXCEPT ![OutputBfd] = [SingleGot EXCEPT !.tls_assigned_gotno = end]]
    BY <1>0, <1>2 DEF LayOutSingle, LayOutGot, Shape, Kind
  <2>2. slots' = {}
    BY <2>1, NoSlotsEarly DEF Early
  <2>3. SingleGot \in GotInfo
    BY <1>0, <2>1, SingleGotIs DEF Shape, Types
  <2> DEFINE lo == SingleGot.local_gotno
             gl == SingleGot.global_gotno
  <2>4. lo \in Nat /\ gl \in Nat /\ end = lo + gl
    BY <2>3 DEF GotInfo
  <2> HIDE DEF end, lo, gl
  <2>5. /\ gots'[OutputBfd].local_gotno = lo /\ gots'[OutputBfd].global_gotno = gl
        /\ gots'[OutputBfd].tls_assigned_gotno = end
    BY <1>0, <2>1, <2>3 DEF GotInfo, lo, gl
  <2>6. order'[Len(order')] = OutputBfd
    BY <2>1
  <2>7. gots'[OutputBfd].local_gotno + gots'[OutputBfd].global_gotno
          <= gots'[OutputBfd].tls_assigned_gotno
    BY <2>4, <2>5
  <2>8. QED
    BY <2>2, <2>6, <2>7 DEF Apart, AllApart, OnlyTls, Filling
<1>3. ASSUME pc \in Late, pc' # "tls", slots' = slots,
             \A h \in GotIds : Same(gots[h], gots'[h])
                               /\ gots'[h].local_gotno = gots[h].local_gotno,
             \A h \in GotIds : Waits(h)' => Waits(h)
      PROVE  Apart'
  <2> DEFINE N == {}
  <2>1. slots' = slots \cup N /\ \A sl \in N : sl.got \in GotIds
    BY <1>3
  <2>2. \A h \in GotIds : Waits(h)' => Waits(h) /\ \A sl \in N : sl.got # h
    BY <1>3
  <2>3. \A sl, tl \in slots' : PairApart(sl, tl)
    BY <1>3 DEF Apart, AllApart
  <2> HIDE DEF N
  <2>4. QED
    BY <1>3, <2>1, <2>2, <2>3, ApartAdds
<1>4. CASE NextGot \/ FinishLink
  <2>1. pc \in Late /\ gots' = gots
    BY <1>4, BaseRest
  <2>2. pc' # "tls" /\ slots' = slots /\ \A h \in GotIds : Waits(h)' => Waits(h)
    BY <1>4 DEF NextGot, FinishLink, Waits
  <2>3. QED
    BY <1>0, <1>3, <2>1, <2>2, SameRefl
<1>5. ASSUME NEW b \in Bfds, RelocateBfd(b) PROVE Apart'
  <2> DEFINE g == bfd2got[b]
  <2>1. g = bfd2got[b]
    OBVIOUS
  <2> HIDE DEF g
  <2>2. /\ pc = "relocate" /\ pc' = pc /\ slots' = slots
        /\ \A h \in GotIds : h # g => gots'[h] = gots[h]
        /\ gots'[g].local_gotno = gots[g].local_gotno
        /\ Same(gots[g], gots'[g])
    BY <1>0, <1>5, <2>1, RelocateBfdStep
  <2>3. \A h \in GotIds : Same(gots[h], gots'[h])
                          /\ gots'[h].local_gotno = gots[h].local_gotno
    BY <1>0, <2>2, SameRefl
  <2>4. \A h \in GotIds : Waits(h)' => Waits(h)
    BY <2>2 DEF Waits
  <2>5. QED
    BY <1>3, <2>2, <2>3, <2>4 DEF Late
<1>6. CASE UNCHANGED vars
  BY <1>6 DEF vars, Apart, AllApart, OnlyTls, Filling, Waits
<1>7. QED
  BY <1>1, <1>2, <1>4, <1>5, <1>6, ApartAssign, ApartTls, ApartGlobals, ApartSort
     DEF Next, GotIds

\* Apart is an invariant.
LEMMA ApartInvariance == Spec => []Apart
<1>1. Init => Apart
  BY DEF Init, Apart, AllApart, OnlyTls, Filling
<1>2. Base /\ AreasPlaced /\ Reach /\ SingleHeld /\ Line /\ Placement /\ Apart /\ [Next]_vars
        => Apart'
  BY ApartNext
<1>3. QED
  BY <1>1, <1>2, BaseInvariance, AreasPlacedInvariance, ReachInvariance, SingleHeldInvariance,
     LineInvariance, PlacementInvariance, PTL DEF Spec

-----------------------------------------------------------------------------
(***************************************************************************)
(* The contract: what has slots at which point of the link.                *)
(***************************************************************************)
HasSlot(g, key) == \E sl \in slots : sl.got = g /\ sl.key = key

HasTls ==
  pc \in Late => \A g \in Range(order) : \A f \in TlsIn(gots[g].entries) :
    (pc = "tls" /\ g = order[Len(order)] /\ f \in todo) \/ HasSlot(g, Key(f))

HasGlobals ==
  pc \in {"offsets", "relocate", "finished"} /\ multi =>
    \A g \in Others(order) : \A f \in GlobalIn(link, gots[g].entries) :
      (pc = "offsets" /\ g \in todo) \/ HasSlot(g, Key(f))

HasTable ==
  pc \in {"relocate", "finished"} => \A s \in Tabled : HasSlot(primary, <<OutputBfd, s>>)

Complete == HasTls /\ HasGlobals /\ HasTable

\* GOTs that are not the primary one are in line.
LEMMA OthersInLine ==
  ASSUME order \in Seq(GotIds)
  PROVE  Others(order) \subseteq Range(order) /\ Others(order) \subseteq GotIds
<1>1. \A i \in 2..Len(order) : i \in 1..Len(order)
  OBVIOUS
<1>2. QED
  BY <1>1, RangeIs DEF Others

\* A slot stays the slot of its entry.
LEMMA CompleteNext ==
  Base /\ AreasPlaced /\ Reach /\ Complete /\ [Next]_vars => Complete'
<1> SUFFICES ASSUME Base, AreasPlaced, Reach, Complete, [Next]_vars PROVE Complete'
  OBVIOUS
<1>0. /\ Shape /\ gots \in [GotIds -> GotInfo] /\ OutputBfd \in GotIds
      /\ order \in Seq(GotIds) /\ link \in Links
      /\ Range(order) \subseteq GotIds
      /\ Others(order) \subseteq Range(order) /\ Others(order) \subseteq GotIds
  BY RangeIs, OthersInLine DEF Base, Shape, Types, GotIds
<1>1. CASE SplitGot \/ MakeGotPerBfd \/ (\E b \in Bfds : MergeGot(b))
  <2>1. pc' \in {"split", "merge"}
    BY <1>1 DEF SplitGot, LayOutGot, MakeGotPerBfd, MergeGot, MergeUnchanged
  <2>2. QED
    BY <2>1 DEF Complete, HasTls, HasGlobals, HasTable, Late
<1>2. CASE ChoosePrimary
  <2>1. order' = <<>> /\ pc' = "assign"
    BY <1>0, <1>2, ChoosePrimaryStep
  <2>2. Range(order') = {}
    BY <2>1 DEF Range
  <2>3. QED
    BY <2>1, <2>2 DEF Complete, HasTls, HasGlobals, HasTable
<1>3. CASE LayOutSingle
  <2>1. /\ pc = "layout" /\ pc' = "tls" /\ ~multi /\ link' = link
        /\ order' = <<OutputBfd>> /\ todo' = SingleTls
        /\ gots'[OutputBfd] = [SingleGot EXCEPT !.tls_assigned_gotno =
                                 SingleGot.local_gotno + SingleGot.global_gotno]
    BY <1>0, <1>3 DEF LayOutSingle, LayOutGot, Shape, Kind
  <2>2. SingleGot \in GotInfo
        /\ SingleGot.entries = {e \in link.entries : ~IsTls(e)} \cup SingleTls
    BY <1>0, <2>1, SingleGotIs
  <2>3. gots'[OutputBfd].entries = {e \in link.entries : ~IsTls(e)} \cup SingleTls
    BY <2>1, <2>2 DEF GotInfo
  <2>4. TlsIn(gots'[OutputBfd].entries) \subseteq todo'
    BY <2>1, <2>3 DEF TlsIn
  <2>5. Range(order') = {OutputBfd} /\ order'[Len(order')] = OutputBfd
    <3>1. Len(order') = 1 /\ order'[1] = OutputBfd
      BY <2>1
    <3>2. order' \in Seq(GotIds)
      BY <1>0, <2>1
    <3>3. Range(order') = {order'[i] : i \in 1..Len(order')}
      BY <3>2, RangeIs
    <3>4. QED
      BY <3>1, <3>3
  <2>6. HasTls'
    BY <2>1, <2>4, <2>5 DEF HasTls
  <2>7. QED
    BY <2>1, <2>6 DEF Complete, HasGlobals, HasTable
<1>4. ASSUME slots \subseteq slots', NEW g, NEW k, HasSlot(g, k) PROVE HasSlot(g, k)'
  BY <1>4 DEF HasSlot
<1>5. CASE AssignRange
  <2> DEFINE g == Head(chain)
             first == LastEnd + Reserved
  <2>1. first = LastEnd + Reserved /\ g = Head(chain)
    OBVIOUS
  <2> HIDE DEF g, first
  <2>2. /\ pc = "assign" /\ pc' = "tls" /\ g \in GotIds /\ g \notin Range(order)
        /\ Range(order') = Range(order) \cup {g} /\ order'[Len(order')] = g
        /\ todo' = TlsIn(gots[g].entries)
        /\ \A h \in GotIds : h # g => gots'[h] = gots[h]
        /\ Same(gots[g], gots'[g]) /\ slots' = slots
    BY <1>0, <1>5, <2>1, AssignRangeStep
  <2>3. ASSUME NEW h \in Range(order'), NEW f \in TlsIn(gots'[h].entries)
        PROVE  (h = order'[Len(order')] /\ f \in todo') \/ HasSlot(h, Key(f))'
    <3>1. CASE h = g
      BY <2>2, <2>3, <3>1 DEF Same
    <3>2. CASE h # g
      <4>1. h \in Range(order) /\ f \in TlsIn(gots[h].entries)
        BY <1>0, <2>2, <2>3, <3>2
      <4>2. HasSlot(h, Key(f))
        BY <2>2, <4>1 DEF Complete, HasTls, Late
      <4>3. QED
        BY <1>4, <2>2, <4>2
    <3>3. QED
      BY <3>1, <3>2
  <2>4. HasTls'
    BY <2>2, <2>3 DEF HasTls
  <2>5. QED
    BY <2>2, <2>4 DEF Complete, HasGlobals, HasTable
<1>6. ASSUME NEW e \in todo, InitializeTlsIndex(e) PROVE Complete'
  <2> DEFINE g == order[Len(order)]
             sl == Slot(g, Key(e), gots[g].tls_assigned_gotno, TlsSize(e.tls))
  <2>1. g = order[Len(order)]
    OBVIOUS
  <2> HIDE DEF g
  <2>2. /\ pc = "tls" /\ pc' = pc /\ order' = order /\ todo' = todo \ {e}
        /\ g \in GotIds /\ slots' = slots \cup {sl}
        /\ \A h \in GotIds : h # g => gots'[h] = gots[h]
        /\ Same(gots[g], gots'[g])
    BY <1>0, <1>6, <2>1, InitializeTlsStep
  <2>3. \A h \in GotIds : gots'[h].entries = gots[h].entries
    BY <2>2 DEF Same
  <2>4. ASSUME NEW h, h = g PROVE HasSlot(h, Key(e))'
    <3>1. sl.got = g /\ sl.key = Key(e)
      BY DEF Slot
    <3> HIDE DEF sl
    <3>2. QED
      BY <2>2, <2>4, <3>1 DEF HasSlot
  <2> HIDE DEF sl
  <2>5. ASSUME NEW h \in Range(order), NEW f \in TlsIn(gots[h].entries)
        PROVE  (h = order[Len(order)] /\ f \in todo') \/ HasSlot(h, Key(f))'
    <3>1. CASE h = g /\ f = e
      BY <2>4, <3>1
    <3>2. CASE HasSlot(h, Key(f))
      BY <1>4, <2>2, <3>2
    <3>3. CASE h = g /\ f \in todo /\ f # e
      BY <2>1, <2>2, <3>3
    <3>4. QED
      BY <2>1, <2>2, <3>1, <3>2, <3>3 DEF Complete, HasTls, Late
  <2>6. HasTls'
    BY <1>0, <2>2, <2>3, <2>5 DEF HasTls
  <2>7. QED
    BY <2>2, <2>6 DEF Complete, HasGlobals, HasTable
<1>7. CASE NextGot
  <2>1. /\ pc = "tls" /\ todo = {} /\ pc' \in {"assign", "offsets"} /\ slots' = slots
        /\ UNCHANGED <<order, gots, link, multi>>
        /\ pc' = "offsets" => todo' = Others(order)
    BY <1>7 DEF NextGot, Secondary, Others
  <2>2. \A g \in Range(order) : \A f \in TlsIn(gots[g].entries) : HasSlot(g, Key(f))
    BY <2>1 DEF Complete, HasTls, Late
  <2>3. HasTls'
    BY <1>4, <2>1, <2>2 DEF HasTls
  <2>4. QED
    BY <2>1, <2>3 DEF Complete, HasGlobals, HasTable
<1>8. ASSUME pc \in Late, pc # "tls", pc' # "tls", slots \subseteq slots', order' = order,
             \A h \in GotIds : gots'[h].entries = gots[h].entries
      PROVE  HasTls'
  <2>1. \A g \in Range(order) : \A f \in TlsIn(gots[g].entries) : HasSlot(g, Key(f))
    BY <1>8 DEF Complete, HasTls
  <2>2. QED
    BY <1>0, <1>4, <1>8, <2>1 DEF HasTls
<1>9. ASSUME NEW g \in GotIds, SetGlobalGotOffsets(g) PROVE Complete'
  <2>1. /\ pc = "offsets" /\ pc' = pc /\ todo' = todo \ {g}
        /\ UNCHANGED <<link, multi, order, gots>>
    BY <1>9 DEF SetGlobalGotOffsets
  <2>2. GlobalEntries(g) = GlobalIn(link, gots[g].entries)
    BY <1>9, GlobalSlots
  <2>3. PICK pos : slots' = slots \cup
          {Slot(g, Key(e), gots[g].local_gotno + pos[e], 1) : e \in GlobalEntries(g)}
    BY <1>9, GlobalSlots
  <2>4. slots \subseteq slots'
    BY <2>3
  <2>5. ASSUME NEW e \in GlobalEntries(g) PROVE HasSlot(g, Key(e))'
    <3> DEFINE sl == Slot(g, Key(e), gots[g].local_gotno + pos[e], 1)
    <3>1. sl \in slots'
      BY <2>3
    <3>2. sl.got = g /\ sl.key = Key(e)
      BY DEF Slot
    <3> HIDE DEF sl
    <3>3. QED
      BY <3>1, <3>2 DEF HasSlot
  <2>6. ASSUME multi, NEW h \in Others(order), NEW f \in GlobalIn(link, gots[h].entries)
        PROVE  h \in todo' \/ HasSlot(h, Key(f))'
    <3>1. CASE h = g
      BY <2>2, <2>5, <2>6, <3>1
    <3>2. CASE HasSlot(h, Key(f))
      BY <1>4, <2>4, <3>2
    <3>3. QED
      BY <2>1, <2>6, <3>1, <3>2 DEF Complete, HasGlobals
  <2>7. HasGlobals'
    BY <2>1, <2>6 DEF HasGlobals
  <2>8. HasTls'
    BY <1>8, <2>1, <2>4 DEF Late
  <2>9. QED
    BY <2>1, <2>7, <2>8 DEF Complete, HasTable
<1>10. CASE SortDynsyms
  <2>1. /\ pc = "offsets" /\ pc' = "relocate" /\ todo = {}
        /\ UNCHANGED <<link, multi, order, gots, primary, area>>
    BY <1>10 DEF SortDynsyms
  <2>2. PICK pos : slots' = slots \cup
          {Slot(primary, <<OutputBfd, s>>, gots[primary].local_gotno + pos[s], 1) : s \in Tabled}
    BY <1>10, SortSlots
  <2>3. slots \subseteq slots'
    BY <2>2
  <2>4. ASSUME NEW s \in Tabled PROVE HasSlot(primary, <<OutputBfd, s>>)'
    <3> DEFINE sl == Slot(primary, <<OutputBfd, s>>, gots[primary].local_gotno + pos[s], 1)
    <3>1. sl \in slots'
      BY <2>2
    <3>2. sl.got = primary /\ sl.key = <<OutputBfd, s>>
      BY DEF Slot
    <3> HIDE DEF sl
    <3>3. QED
      BY <2>1, <3>1, <3>2 DEF HasSlot
  <2>5. HasTable'
    BY <2>1, <2>4 DEF HasTable, Tabled
  <2>6. HasGlobals'
    <3>1. multi => \A g \in Others(order) : \A f \in GlobalIn(link, gots[g].entries) :
                     HasSlot(g, Key(f))
      BY <2>1 DEF Complete, HasGlobals
    <3>2. QED
      BY <1>4, <2>1, <2>3, <3>1 DEF HasGlobals
  <2>7. HasTls'
    BY <1>8, <2>1, <2>3 DEF Late
  <2>8. QED
    BY <2>5, <2>6, <2>7 DEF Complete
<1>11. ASSUME pc = "relocate", pc' \in {"relocate", "finished"}, slots' = slots,
              UNCHANGED <<link, multi, order, primary, area>>,
              \A h \in GotIds : gots'[h].entries = gots[h].entries
       PROVE  Complete'
  <2>1. HasTls'
    BY <1>8, <1>11 DEF Late
  <2>2. HasGlobals'
    <3>1. multi => \A g \in Others(order) : \A f \in GlobalIn(link, gots[g].entries) :
                     HasSlot(g, Key(f))
      BY <1>11 DEF Complete, HasGlobals
    <3>2. QED
      BY <1>0, <1>4, <1>11, <3>1 DEF HasGlobals
  <2>3. HasTable'
    BY <1>4, <1>11 DEF Complete, HasTable, Tabled
  <2>4. QED
    BY <2>1, <2>2, <2>3 DEF Complete
<1>12. ASSUME NEW b \in Bfds, RelocateBfd(b) PROVE Complete'
  <2> DEFINE g == bfd2got[b]
  <2>1. g = bfd2got[b]
    OBVIOUS
  <2> HIDE DEF g
  <2>2. /\ pc = "relocate" /\ pc' = pc /\ slots' = slots
        /\ UNCHANGED <<link, multi, order, primary, area>>
        /\ \A h \in GotIds : h # g => gots'[h] = gots[h]
        /\ Same(gots[g], gots'[g])
    BY <1>0, <1>12, <2>1, RelocateBfdStep
  <2>3. \A h \in GotIds : gots'[h].entries = gots[h].entries
    BY <2>2 DEF Same
  <2>4. QED
    BY <1>11, <2>2, <2>3
<1>13. CASE FinishLink
  BY <1>11, <1>13 DEF FinishLink
<1>14. CASE UNCHANGED vars
  BY <1>14 DEF vars, Complete, HasTls, HasGlobals, HasTable, HasSlot, Tabled
<1>15. QED
  BY <1>1, <1>2, <1>3, <1>5, <1>6, <1>7, <1>9, <1>10, <1>12, <1>13, <1>14 DEF Next, GotIds

\* Complete is an invariant.
LEMMA CompleteInvariance == Spec => []Complete
<1>1. Init => Complete
  BY DEF Init, Complete, HasTls, HasGlobals, HasTable, Late
<1>2. Base /\ AreasPlaced /\ Reach /\ Complete /\ [Next]_vars => Complete'
  BY CompleteNext
<1>3. QED
  BY <1>1, <1>2, BaseInvariance, AreasPlacedInvariance, ReachInvariance, PTL DEF Spec

-----------------------------------------------------------------------------
(***************************************************************************)
(* The contract is kept: each step of the link maps to one of it, or to    *)
(* none.                                                                   *)
(***************************************************************************)
Recorded == pc = "layout" => area = [s \in Syms |-> RecordedArea(s)]

\* Recorded is an invariant: the layout is the first step.
LEMMA RecordedInvariance == Spec => []Recorded
<1>1. Init => Recorded
  BY DEF Init, Recorded
<1>2. Base /\ Recorded /\ [Next]_vars => Recorded'
  <2> SUFFICES ASSUME Base, Recorded, [Next]_vars PROVE Recorded'
    OBVIOUS
  <2>0. Shape /\ pc \in Early \cup Late
    BY DEF Base, Shape, Types
  <2>1. CASE UNCHANGED vars
    BY <2>1 DEF vars, Recorded, RecordedArea
  <2>2. CASE Next
    <3>1. CASE \E e \in todo : InitializeTlsIndex(e)
      BY <3>1 DEF InitializeTlsIndex, Recorded
    <3>2. CASE LayOutSingle \/ SplitGot \/ MakeGotPerBfd \/ (\E b \in Bfds : MergeGot(b))
               \/ ChoosePrimary
      BY <3>2 DEF LayOutSingle, SplitGot, MakeGotPerBfd, MergeGot, MergeUnchanged,
                  ChoosePrimary, Recorded
    <3>3. CASE AssignRange \/ NextGot \/ (\E g \in GotIds : SetGlobalGotOffsets(g))
      BY <3>3 DEF AssignRange, NextGot, SetGlobalGotOffsets, Recorded
    <3>4. CASE SortDynsyms \/ (\E b \in Bfds : RelocateBfd(b)) \/ FinishLink
      BY <3>4 DEF SortDynsyms, RelocateBfd, FinishLink, Recorded
    <3>5. QED
      BY <2>2, <3>1, <3>2, <3>3, <3>4 DEF Next, GotIds
  <2>3. QED
    BY <2>1, <2>2
<1>3. QED
  BY <1>1, <1>2, BaseInvariance, PTL DEF Spec

\* Once the areas are final, the link determines what has no entry of its own.
LEMMA LocalIs ==
  ASSUME NEW l, NEW a, AreasFinal(l, a), NEW e
  PROVE  LocalOf(l, e) <=>
           ~IsTls(e) /\ (e.sym \in LocalSyms \/ (e.sym \in Syms /\ a[e.sym] = "NONE"))
BY DEF LocalOf, AreasFinal

\* Bfds refer to keys.
LEMMA ReferencesTyped ==
  ASSUME link \in Links
  PROVE  References \subseteq Bfds \X (GotIds \X AllSyms)
<1> SUFFICES ASSUME NEW e \in link.entries
             PROVE  <<e.abfd, Key(e)>> \in Bfds \X (GotIds \X AllSyms)
  BY DEF References
<1>1. e \in Entry /\ e.abfd \in Bfds
  BY LinkFacts
<1>2. QED
  BY <1>1, KeyType

\* What references R use, when the bfds have GOTs B with slots S.
UsesOf(R, B, S) ==
  UNION {{<<r[1], r[2], i>> :
            i \in UNION {sl.first..(sl.first + sl.size - 1) :
                           sl \in {sl \in S : sl.got = B[r[1]] /\ sl.key = r[2]}}} : r \in R}

Uses(R, B, S, u) ==
  \E b \in Bfds, k \in GotIds \X AllSyms, sl \in S :
    /\ <<b, k>> \in R
    /\ sl.got = B[b] /\ sl.key = k
    /\ \E i \in sl.first..(sl.first + sl.size - 1) : u = <<b, k, i>>

\* The uses one by one.
LEMMA UsedIs ==
  ASSUME NEW R \in SUBSET (Bfds \X (GotIds \X AllSyms)), NEW B, NEW S, NEW u
  PROVE  u \in UsesOf(R, B, S) <=> Uses(R, B, S, u)
<1> DEFINE Has(r) == UNION {sl.first..(sl.first + sl.size - 1) :
                              sl \in {sl \in S : sl.got = B[r[1]] /\ sl.key = r[2]}}
<1>1. \A r \in R : r = <<r[1], r[2]>> /\ r[1] \in Bfds /\ r[2] \in GotIds \X AllSyms
  OBVIOUS
<1>2. u \in UsesOf(R, B, S) <=> \E r \in R : \E i \in Has(r) : u = <<r[1], r[2], i>>
  BY DEF UsesOf
<1>3. ASSUME NEW r \in R, NEW i
      PROVE  i \in Has(r) <=> \E sl \in S : sl.got = B[r[1]] /\ sl.key = r[2]
                                            /\ i \in sl.first..(sl.first + sl.size - 1)
  OBVIOUS
<1> HIDE DEF Has
<1>4. ASSUME u \in UsesOf(R, B, S)
      PROVE  \E b \in Bfds, k \in GotIds \X AllSyms, sl \in S :
               /\ <<b, k>> \in R
               /\ sl.got = B[b] /\ sl.key = k
               /\ \E i \in sl.first..(sl.first + sl.size - 1) : u = <<b, k, i>>
  <2>1. PICK r \in R : \E i \in Has(r) : u = <<r[1], r[2], i>>
    BY <1>2, <1>4
  <2>2. PICK i \in Has(r) : u = <<r[1], r[2], i>>
    BY <2>1
  <2>3. PICK sl \in S : sl.got = B[r[1]] /\ sl.key = r[2]
                        /\ i \in sl.first..(sl.first + sl.size - 1)
    BY <1>3, <2>2
  <2>4. r[1] \in Bfds /\ r[2] \in GotIds \X AllSyms /\ <<r[1], r[2]>> \in R
    BY <1>1, <2>1
  <2>5. QED
    BY <2>2, <2>3, <2>4
<1>5. ASSUME NEW b \in Bfds, NEW k \in GotIds \X AllSyms, NEW sl \in S,
             <<b, k>> \in R, sl.got = B[b], sl.key = k,
             NEW i \in sl.first..(sl.first + sl.size - 1), u = <<b, k, i>>
      PROVE  u \in UsesOf(R, B, S)
  <2> DEFINE r == <<b, k>>
  <2>1. r \in R /\ r[1] = b /\ r[2] = k
    BY <1>5
  <2> HIDE DEF r
  <2>2. i \in Has(r)
    BY <1>3, <1>5, <2>1
  <2>3. QED
    BY <1>2, <1>5, <2>1, <2>2
<1>6. QED
  BY <1>4, <1>5 DEF Uses

\* No slots, no uses.
LEMMA NoUses == slots = {} => SlotsUsed = {}
BY DEF SlotsUsed, SlotsOf

\* Uses depend on slots, references and the GOTs of the bfds only.
LEMMA UsesKept ==
  ASSUME slots' = slots, bfd2got' = bfd2got, References' = References
  PROVE  SlotsUsed' = SlotsUsed
BY DEF SlotsUsed, SlotsOf

\* The references stay.
LEMMA ReferencesKept ==
  ASSUME Base, Base', pc # "layout", pc' # "layout", link' = link
  PROVE  References' = References
<1>1. link \in Links /\ AreasFinal(link, area) /\ AreasFinal(link', area') /\ link' \in Links
  BY DEF Base, Shape, Types, AreaSettled
<1>2. \A e : /\ LocalOf(link, e) <=> InLocalArea(e)
             /\ LocalOf(link', e) <=> InLocalArea(e)'
  BY <1>1, LocalIs DEF InLocalArea
<1>3. QED
  BY <1>2 DEF References

\* New slots for references that have none.
LEMMA PlaceStep ==
  ASSUME Base, Base', Placement', Apart', link' = link, pc # "layout", pc' # "layout",
         slots \subseteq slots', bfd2got' = bfd2got, Relocated = {}, Relocated' = {}
  PROVE  Contract!Place
<1>1. link \in Links /\ link' \in Links /\ References' = References
  BY ReferencesKept DEF Base, Shape, Types
<1>2. \A u : /\ u \in SlotsUsed <=> Uses(References, bfd2got, slots, u)
             /\ u \in SlotsUsed' <=> Uses(References, bfd2got, slots', u)
  <2>1. SlotsUsed = UsesOf(References, bfd2got, slots)
    BY DEF SlotsUsed, SlotsOf, UsesOf
  <2>2. SlotsUsed' = UsesOf(References, bfd2got, slots')
    BY <1>1 DEF SlotsUsed, SlotsOf, UsesOf
  <2>3. References \in SUBSET (Bfds \X (GotIds \X AllSyms))
    BY <1>1, ReferencesTyped
  <2>4. QED
    BY <2>1, <2>2, <2>3, UsedIs
<1>3. \A sl \in slots' : sl.first \in Nat /\ sl.size \in 1..3
  BY DEF Placement, SlotType
<1>4. SlotsUsed \subseteq SlotsUsed'
  BY <1>2 DEF Uses
<1>5. ASSUME NEW u \in SlotsUsed' \ SlotsUsed
      PROVE  /\ <<u[1], u[2]>> \in References
             /\ u[3] \in Nat
             /\ \A v \in SlotsUsed : <<u[1], u[2]>> # <<v[1], v[2]>>
             /\ \A v \in SlotsUsed' : u[3] = v[3] => u[2] = v[2]
  <2>1. PICK b \in Bfds, k \in GotIds \X AllSyms, sl \in slots' :
          /\ <<b, k>> \in References
          /\ sl.got = bfd2got[b] /\ sl.key = k
          /\ \E i \in sl.first..(sl.first + sl.size - 1) : u = <<b, k, i>>
    BY <1>2, <1>5 DEF Uses
  <2>2. PICK i \in sl.first..(sl.first + sl.size - 1) : u = <<b, k, i>>
    BY <2>1
  <2>3. u[1] = b /\ u[2] = k /\ u[3] = i /\ i \in Nat
    BY <1>3, <2>2
  <2>4. sl \notin slots
    BY <1>2, <1>5, <2>1 DEF Uses
  <2>5. ASSUME NEW v \in SlotsUsed PROVE <<u[1], u[2]>> # <<v[1], v[2]>>
    <3> Uses(References, bfd2got, slots, v)
      BY <1>2
    <3>1. PICK c \in Bfds, j \in GotIds \X AllSyms, tl \in slots :
            /\ <<c, j>> \in References
            /\ tl.got = bfd2got[c] /\ tl.key = j
            /\ \E n \in tl.first..(tl.first + tl.size - 1) : v = <<c, j, n>>
      BY DEF Uses
    <3>2. v[1] = c /\ v[2] = j
      BY <3>1
    <3>3. PairApart(sl, tl) /\ sl # tl
      BY <2>4 DEF Apart, AllApart
    <3>4. ~(sl.got = tl.got /\ sl.key = tl.key)
      BY <3>3 DEF PairApart
    <3>5. QED
      BY <2>1, <2>3, <3>1, <3>2, <3>4
  <2>6. ASSUME NEW v \in SlotsUsed', u[3] = v[3] PROVE u[2] = v[2]
    <3> Uses(References, bfd2got, slots', v)
      BY <1>2
    <3>1. PICK c \in Bfds, j \in GotIds \X AllSyms, tl \in slots' :
            /\ <<c, j>> \in References
            /\ tl.got = bfd2got[c] /\ tl.key = j
            /\ \E n \in tl.first..(tl.first + tl.size - 1) : v = <<c, j, n>>
      BY DEF Uses
    <3>2. v[2] = j /\ v[3] \in tl.first..(tl.first + tl.size - 1)
      BY <3>1
    <3>3. i \in tl.first..(tl.first + tl.size - 1) /\ i \in sl.first..(sl.first + sl.size - 1)
      BY <2>2, <2>3, <2>6, <3>2
    <3>4. ~Beside(sl, tl)
      BY <1>3, <3>3 DEF Beside
    <3>5. sl = tl
      BY <3>4 DEF Apart, AllApart, PairApart
    <3>6. QED
      BY <2>1, <2>3, <3>1, <3>2, <3>5
  <2>7. QED
    BY <2>1, <2>3, <2>5, <2>6
<1>6. QED
  BY <1>1, <1>4, <1>5 DEF Contract!Place

\* The layout settles which references need entries.
LEMMA SettleStep == Base /\ Recorded /\ (LayOutSingle \/ SplitGot) => Contract!Settle
<1> SUFFICES ASSUME Base, Recorded, LayOutSingle \/ SplitGot PROVE Contract!Settle
  OBVIOUS
<1>1. /\ pc = "layout" /\ pc' \notin {"relocate", "finished"} /\ area' = FinalArea
      /\ link' = link /\ slots' = slots
  BY DEF LayOutSingle, SplitGot, LayOutGot
<1>2. slots = {}
  BY <1>1, NoSlotsEarly DEF Early
<1>3. SlotsUsed = {} /\ SlotsUsed' = {}
  <2>1. SlotsUsed = {}
    BY <1>2, NoUses
  <2>2. slots' = {}
    BY <1>1, <1>2
  <2>3. SlotsUsed' = {}
    BY <2>2 DEF SlotsUsed, SlotsOf
  <2>4. QED
    BY <2>1, <2>3
<1>4. Relocated = {} /\ Relocated' = {}
  BY <1>1 DEF Relocated
<1>5. \A e : InLocalArea(e) => InLocalArea(e)'
  <2>1. \A s \in Syms : area[s] = "NONE" => area'[s] = "NONE"
    BY <1>1 DEF Recorded, FinalArea
  <2>2. QED
    BY <2>1 DEF InLocalArea
<1>6. References' \subseteq References
  BY <1>1, <1>5 DEF References
<1>7. QED
  BY <1>3, <1>4, <1>6 DEF Contract!Settle

\* Steps that the contract does not see.
LEMMA SilentSteps ==
  Base /\ Base'
    /\ (MakeGotPerBfd \/ (\E b \in Bfds : MergeGot(b)) \/ ChoosePrimary \/ AssignRange
        \/ NextGot \/ FinishLink)
    => UNCHANGED <<References, SlotsUsed, Relocated>>
<1> SUFFICES ASSUME Base, Base',
                    MakeGotPerBfd \/ (\E b \in Bfds : MergeGot(b)) \/ ChoosePrimary
                      \/ AssignRange \/ NextGot \/ FinishLink
             PROVE  UNCHANGED <<References, SlotsUsed, Relocated>>
  OBVIOUS
<1>1. CASE MakeGotPerBfd \/ (\E b \in Bfds : MergeGot(b)) \/ ChoosePrimary
  <2>1. /\ pc \in {"split", "merge"} /\ pc' \in {"merge", "assign"}
        /\ link' = link /\ slots' = slots
    BY <1>1 DEF MakeGotPerBfd, MergeGot, MergeUnchanged, ChoosePrimary
  <2>2. slots = {} /\ slots' = {}
    BY <2>1, NoSlotsEarly DEF Early
  <2>3. SlotsUsed = {} /\ SlotsUsed' = {}
    BY <2>2 DEF SlotsUsed, SlotsOf
  <2>4. Relocated = {} /\ Relocated' = {}
    BY <2>1 DEF Relocated
  <2>5. References' = References
    BY <2>1, ReferencesKept
  <2>6. QED
    BY <2>3, <2>4, <2>5
<1>2. CASE AssignRange \/ NextGot \/ FinishLink
  <2>1. /\ pc \in Late /\ pc' \in Late /\ Relocated' = Relocated
        /\ link' = link /\ slots' = slots /\ bfd2got' = bfd2got
    BY <1>2 DEF AssignRange, NextGot, FinishLink, Relocated, Late
  <2>2. References' = References
    BY <2>1, ReferencesKept DEF Late
  <2>3. SlotsUsed' = SlotsUsed
    BY <2>1, <2>2, UsesKept
  <2>4. QED
    BY <2>1, <2>2, <2>3
<1>3. QED
  BY <1>1, <1>2

\* What the code of a bfd refers to has its slots when it is relocated.
LEMMA AllPlaced ==
  ASSUME Base, SingleHeld, Complete, pc = "relocate", NEW e \in link.entries,
         ~InLocalArea(e)
  PROVE  HasSlot(bfd2got[e.abfd], Key(e))
<1> DEFINE g == bfd2got[e.abfd]
<1>0. /\ Shape /\ link \in Links /\ AreasFinal(link, area) /\ pc \in Late
      /\ order \in Seq(GotIds)
  BY DEF Base, Shape, Types, AreaSettled, Late
<1>1. e \in Entry /\ e.abfd \in Bfds
  BY <1>0, LinkFacts
<1>2. g \in Range(order)
  <2>1. chain = <<>>
    BY <1>0 DEF Shape, InLine
  <2>2. Range(chain) = {}
    BY <2>1 DEF Range
  <2>3. QED
    BY <1>0, <1>1, <2>2 DEF Shape, InLine
<1>3. CASE IsTls(e)
  <2>1. PICK f \in TlsIn(gots[g].entries) : Key(f) = Key(e)
    BY <1>0, <1>3, TlsHeld DEF TlsIn
  <2>2. HasSlot(g, Key(f))
    BY <1>0, <1>2 DEF Complete, HasTls
  <2>3. QED
    BY <2>1, <2>2
<1>4. CASE ~IsTls(e)
  <2>1. e.sym \in Syms /\ area[e.sym] # "NONE" /\ ~LocalOf(link, e)
    <3>1. e.sym # LdmModule
      BY <1>0, <1>4, EntriesAssumption DEF IsTls
    <3>2. e.sym \notin LocalSyms
      BY <1>4 DEF InLocalArea
    <3>3. e.sym \in Syms
      BY <1>1, <3>1, <3>2 DEF Entry
    <3>4. QED
      BY <1>0, <1>4, <3>3, AreaFacts DEF InLocalArea
  <2>2. Key(e) = <<OutputBfd, e.sym>>
    BY <2>1, NamesAssumption DEF Key
  <2>3. order # <<>> /\ order[1] = primary
    <3>1. order # <<>> /\ (IF order = <<>> THEN chain # <<>> /\ chain[1] = primary
                           ELSE order[1] = primary)
      BY <1>0 DEF Shape, InLine
    <3>2. QED
      BY <3>1
  <2>4. CASE g = primary
    <3>1. e.sym \in Tabled
      BY <2>1 DEF Tabled
    <3>2. HasSlot(primary, <<OutputBfd, e.sym>>)
      BY <3>1 DEF Complete, HasTable
    <3>3. QED
      BY <2>2, <2>4, <3>2
  <2>5. CASE g # primary
    <3>1. multi
      <4>1. ~multi => primary = OutputBfd /\ \A b \in Bfds : bfd2got[b] = OutputBfd
        BY <1>0 DEF Shape, SingleShape
      <4>2. QED
        BY <1>1, <2>5, <4>1
    <3>2. g \in Others(order)
      <4>1. PICK i \in 1..Len(order) : g = order[i]
        BY <1>0, <1>2, RangeIs
      <4>2. i # 1
        BY <2>3, <2>5, <4>1
      <4>3. i \in 2..Len(order)
        BY <1>0, <4>2
      <4>4. QED
        BY <4>1, <4>3 DEF Others
    <3>3. PICK f \in gots[g].entries : Key(f) = Key(e)
      <4>1. e \in EntriesIn(link, e.abfd)
        BY DEF EntriesIn
      <4>2. QED
        BY <1>0, <1>1, <3>1, <4>1 DEF Base, Counts, Covered, Covers
    <3>4. gots[g].entries \subseteq link.entries
      <4>1. g \in GotIds
        BY <1>0, <1>1 DEF Shape, Types
      <4>2. QED
        BY <1>0, <3>1, <4>1 DEF Base, Counts, LateCounts
    <3>5. f.sym = e.sym
      BY <2>2, <3>3 DEF Key
    <3>6. ~IsTls(f)
      BY <1>0, <1>4, <2>1, <3>3, <3>4, <3>5, EntriesAssumption
    <3>7. f \in GlobalIn(link, gots[g].entries)
      <4>1. AreaOf(link, e.sym) # "NONE"
        BY <1>0, <2>1 DEF AreasFinal
      <4>2. QED
        BY <2>1, <3>3, <3>5, <3>6, <4>1 DEF GlobalIn, GlobalOf
    <3>8. HasSlot(g, Key(f))
      BY <3>1, <3>2, <3>7 DEF Complete, HasGlobals
    <3>9. QED
      BY <3>3, <3>8
  <2>6. QED
    BY <2>4, <2>5
<1>5. QED
  BY <1>3, <1>4

\* The code of a bfd is relocated once, and finds all its slots.
LEMMA RelocateStep ==
  ASSUME Base, Base', SingleHeld, Placement, Complete, NEW b \in Bfds, RelocateBfd(b)
  PROVE  Contract!Relocate(b)
<1>0. Shape /\ link \in Links
  BY DEF Base, Shape, Types
<1>1. /\ pc = "relocate" /\ pc' = pc /\ b \in todo /\ todo' = todo \ {b}
      /\ link' = link /\ slots' = slots /\ bfd2got' = bfd2got
  BY DEF RelocateBfd
<1>2. b \notin Relocated /\ Relocated' = Relocated \cup {b}
  BY <1>1 DEF Relocated
<1>3. References' = References
  BY <1>1, ReferencesKept
<1>4. SlotsUsed' = SlotsUsed
  BY <1>1, <1>3, UsesKept
<1>5. ASSUME NEW r \in References, r[1] = b
      PROVE  \E u \in SlotsUsed : <<u[1], u[2]>> = r
  <2>1. PICK e \in link.entries : ~InLocalArea(e) /\ r = <<e.abfd, Key(e)>>
    BY DEF References
  <2>2. PICK sl \in slots : sl.got = bfd2got[e.abfd] /\ sl.key = Key(e)
    BY <1>1, <2>1, AllPlaced DEF HasSlot
  <2>3. sl.first \in sl.first..(sl.first + sl.size - 1)
    BY DEF Placement, SlotType
  <2> DEFINE u == <<r[1], r[2], sl.first>>
  <2>4. sl.first \in SlotsOf(r)
    BY <2>1, <2>2, <2>3 DEF SlotsOf
  <2>5. u \in SlotsUsed
    BY <2>4 DEF SlotsUsed
  <2>6. <<u[1], u[2]>> = r
    BY <2>1
  <2>7. QED
    BY <2>5, <2>6
<1>6. QED
  BY <1>2, <1>3, <1>4, <1>5 DEF Contract!Relocate

\* The inductive invariant that the contract follows from.
ContractInv ==
  Base /\ SingleHeld /\ Placement /\ Apart /\ Complete /\ Recorded

\* The recorded references are what the contract begins with.
LEMMA ContractInit == Init => Contract!Init
<1> SUFFICES ASSUME Init PROVE Contract!Init
  OBVIOUS
<1>1. link \in Links /\ pc = "layout" /\ slots = {}
  BY DEF Init
<1>2. References \subseteq Bfds \X (GotIds \X AllSyms)
  BY <1>1, ReferencesTyped
<1>3. SlotsUsed = {} /\ Relocated = {}
  BY <1>1, NoUses DEF Relocated
<1>4. QED
  BY <1>2, <1>3 DEF Contract!Init, AllSyms

\* Each step of the link is a step of the contract, or none.
LEMMA ContractNext ==
  ContractInv /\ ContractInv' /\ [Next]_vars => [Contract!Next]_(Contract!contractVars)
<1> SUFFICES ASSUME ContractInv, ContractInv', [Next]_vars
             PROVE  Contract!Next \/ UNCHANGED <<References, SlotsUsed, Relocated>>
  BY DEF Contract!contractVars
<1> USE DEF ContractInv
<1>1. CASE LayOutSingle \/ SplitGot
  BY <1>1, SettleStep DEF Contract!Next
<1>2. CASE MakeGotPerBfd \/ (\E b \in Bfds : MergeGot(b)) \/ ChoosePrimary \/ AssignRange
           \/ NextGot \/ FinishLink
  BY <1>2, SilentSteps
<1>3. CASE (\E e \in todo : InitializeTlsIndex(e)) \/ (\E g \in GotIds : SetGlobalGotOffsets(g))
           \/ SortDynsyms
  <2>1. /\ pc \notin {"layout", "relocate", "finished"} /\ pc' # "layout"
        /\ link' = link /\ bfd2got' = bfd2got /\ slots \subseteq slots'
        /\ pc' = pc \/ (pc' = "relocate" /\ todo' = Bfds)
    <3>1. CASE \E e \in todo : InitializeTlsIndex(e)
      BY <3>1 DEF InitializeTlsIndex
    <3>2. CASE \E g \in GotIds : SetGlobalGotOffsets(g)
      BY <3>2 DEF SetGlobalGotOffsets
    <3>3. CASE SortDynsyms
      BY <3>3 DEF SortDynsyms
    <3>4. QED
      BY <1>3, <3>1, <3>2, <3>3
  <2>2. Relocated = {} /\ Relocated' = {}
    BY <2>1 DEF Relocated
  <2>3. Contract!Place
    BY <2>1, <2>2, PlaceStep
  <2>4. QED
    BY <2>3 DEF Contract!Next
<1>4. CASE \E b \in Bfds : RelocateBfd(b)
  BY <1>4, RelocateStep DEF Contract!Next
<1>5. CASE UNCHANGED vars
  <2>1. UNCHANGED <<References, SlotsUsed, Relocated>>
    BY <1>5 DEF vars, References, InLocalArea, SlotsUsed, SlotsOf, Relocated
  <2>2. QED
    BY <2>1
<1>6. QED
  BY <1>1, <1>2, <1>3, <1>4, <1>5 DEF Next, GotIds

\* The table keeps its contract, split or not: slots are given out before code
\* is relocated, are never moved or shared by different symbols, and every
\* reference has its own when the code that it is in is relocated
\* (mips_elf_initialize_tls_index, mips_elf_set_global_got_offset and
\* mips_elf_sort_hash_table against mips_elf_relocate_section).
THEOREM TableKeepsContract == Spec => KeepsContract
<1>1. Init => Contract!Init
  BY ContractInit
<1>2. ContractInv /\ ContractInv' /\ [Next]_vars => [Contract!Next]_(Contract!contractVars)
  BY ContractNext
<1>3. Spec => []ContractInv
  BY BaseInvariance, SingleHeldInvariance, PlacementInvariance, ApartInvariance,
     CompleteInvariance, RecordedInvariance, PTL DEF ContractInv
<1>4. QED
  BY <1>1, <1>2, <1>3, PTL DEF Spec, KeepsContract, Contract!Spec

=============================================================================
