------------------------- MODULE HeaderMergeProofs -------------------------
(***************************************************************************)
(* Proofs about HeaderMerge, for any inputs, as many as there are, in any  *)
(* order: what the flags of the output say of all inputs before, that its  *)
(* machine runs their code and that none was refused without a reason.     *)
(* For the machines, that the one pass of mips_mach_extends_p over its     *)
(* sorted table finds all that a machine runs.                             *)
(***************************************************************************)
EXTENDS HeaderMerge, SumTheorems

\* The flags are those of inputs merged so far.
Started ==
  \A b \in Bfds \ todo : input[b].fits => e_flags # None /\ fp # None

\* The attribute of the output is that of every input that did not warn.
FloatKept ==
  \A b \in Bfds \ todo : input[b].fits => input[b].fp \in {0, fp} \/ b \in warned

\* As long as nothing was refused, the ASEs of the output are those of its inputs
\* and can be together.
AsesKept ==
  refused = {} =>
    /\ \A b \in Contained : input[b].flags.ase \subseteq e_flags.ase
    /\ e_flags # None => ~({"m16", "micro"} \subseteq e_flags.ase)

IInv == TypeOK /\ Started /\ FloatKept /\ AsesKept /\ PicOfAll

-----------------------------------------------------------------------------
(***************************************************************************)
(* The operators.                                                          *)
(***************************************************************************)
\* An input has flags and an attribute.
LEMMA InputType ==
  ASSUME TypeOK, NEW b \in Bfds
  PROVE  /\ input[b] \in Input
         /\ input[b].flags \in Flags /\ input[b].flags \in FlagsWith(SUBSET Ases)
         /\ ~({"m16", "micro"} \subseteq input[b].flags.ase)
<1>1. input[b] \in Input
  BY InputsAssumption DEF TypeOK
<1>2. QED
  BY <1>1 DEF Input, Flags, FlagsWith

\* What is compared differs from the flags of the input in the convention.
LEMMA NewFlagsType ==
  ASSUME TypeOK, NEW b \in Bfds
  PROVE  /\ NewFlags(b) \in FlagsWith(SUBSET Ases)
         /\ NewFlags(b).ase = input[b].flags.ase
         /\ input[b].flags.cpic => NewFlags(b).cpic
BY InputType DEF NewFlags, FlagsWith, Input

\* What the flags of the output are, the machine and the ABI apart.
MergedFrom(m, old, new) ==
  /\ m \in FlagsWith(SUBSET Ases)
  /\ m.ase = old.ase \cup new.ase
  /\ m.pic = (old.pic /\ new.pic)
  /\ m.cpic = (old.cpic \/ new.pic \/ new.cpic)

\* Fields that a step does not mean to change stay.
LEMMA MergedFlags ==
  ASSUME NEW old \in FlagsWith(SUBSET Ases), NEW new \in FlagsWith(SUBSET Ases)
  PROVE  /\ MergedFrom(WithAses(WithConvention(old, new), new), old, new)
         /\ MergedFrom(WithMachine(WithAses(WithConvention(old, new), new), new), old, new)
<1> DEFINE c == WithConvention(old, new)
           a == WithAses(c, new)
<1>1. c \in FlagsWith(SUBSET Ases) /\ c.ase = old.ase
      /\ c.pic = (old.pic /\ new.pic) /\ c.cpic = (old.cpic \/ new.pic \/ new.cpic)
  BY DEF WithConvention, FlagsWith
<1> HIDE DEF c
<1>2. a \in FlagsWith(SUBSET Ases) /\ a.ase = old.ase \cup new.ase
      /\ a.pic = c.pic /\ a.cpic = c.cpic
  BY <1>1 DEF WithAses, FlagsWith
<1> HIDE DEF a
<1>3. /\ WithMachine(a, new) \in FlagsWith(SUBSET Ases)
      /\ WithMachine(a, new).ase = a.ase
      /\ WithMachine(a, new).pic = a.pic /\ WithMachine(a, new).cpic = a.cpic
  BY <1>2 DEF WithMachine, FlagsWith
<1>4. MergedFrom(a, old, new) /\ MergedFrom(WithMachine(a, new), old, new)
  BY <1>1, <1>2, <1>3 DEF MergedFrom
<1>5. QED
  BY <1>4 DEF a, c

-----------------------------------------------------------------------------
(***************************************************************************)
(* The invariant is inductive.                                             *)
(***************************************************************************)
LEMMA InitInv == Init => IInv
BY DEF Init, IInv, TypeOK, Started, FloatKept, AsesKept, PicOfAll, Contained

\* The attribute, whatever becomes of the flags.
LEMMA FloatStep ==
  ASSUME IInv, NEW b \in Bfds, Take(b), MergeAttributes(b)
  PROVE  /\ fp' \in 0..5 /\ warned' \subseteq Bfds
         /\ FloatKept'
<1>1. input[b].fp \in 0..5
  BY InputType DEF IInv, Input
<1>2. fp' \in 0..5 /\ warned' \subseteq Bfds
  BY <1>1 DEF MergeAttributes, IInv, TypeOK
<1>3. \A a \in Bfds \ todo : input[a].fits => input[a].fp \in {0, fp'} \/ a \in warned'
  BY DEF MergeAttributes, IInv, FloatKept, Started
<1>4. input[b].fp \in {0, fp'} \/ b \in warned'
  BY DEF MergeAttributes
<1>5. QED
  BY <1>2, <1>3, <1>4 DEF FloatKept, Take

LEMMA RefuseTargetInv ==
  ASSUME IInv, NEW b \in Bfds, RefuseTarget(b)
  PROVE  IInv'
<1> USE DEF RefuseTarget, Take
<1>1. Contained' = Contained
  BY DEF Contained
<1>2. TypeOK'
  BY DEF IInv, TypeOK
<1>3. Started' /\ FloatKept' /\ AsesKept'
  BY <1>1 DEF IInv, Started, FloatKept, AsesKept
<1>4. PicOfAll'
  BY <1>1 DEF IInv, PicOfAll, NewFlags
<1>5. QED
  BY <1>2, <1>3, <1>4 DEF IInv

LEMMA MergeFirstInv ==
  ASSUME IInv, NEW b \in Bfds, MergeFirst(b)
  PROVE  IInv'
<1> USE DEF MergeFirst
<1>1. Contained' \subseteq {b}
  BY DEF Contained, IInv, Started, Take
<1>2. input[b].flags \in FlagsWith(SUBSET Ases) /\ input[b].flags \in Flags
  BY InputType DEF IInv
<1>3. fp' \in 0..5 /\ warned' \subseteq Bfds /\ FloatKept'
  BY FloatStep
<1>4. TypeOK'
  BY <1>2, <1>3, NoneAssumption DEF IInv, TypeOK, Take
<1>5. Started'
  BY <1>2, <1>3, NoneAssumption DEF IInv, Started, Take
<1>6. AsesKept'
  BY <1>1, InputType DEF IInv, AsesKept, Take
<1>7. PicOfAll'
  BY <1>1, <1>2 DEF PicOfAll, NewFlags, Take, FlagsWith
<1>8. QED
  BY <1>3, <1>4, <1>5, <1>6, <1>7 DEF IInv

LEMMA MergeAlikeInv ==
  ASSUME IInv, NEW b \in Bfds, MergeAlike(b)
  PROVE  IInv'
<1> USE DEF MergeAlike
<1>1. Contained' \subseteq Contained \cup {b}
  BY DEF Contained, Take
<1>2. b \in Contained' => NewFlags(b) = e_flags
  BY DEF Contained, Take
<1>3. fp' \in 0..5 /\ warned' \subseteq Bfds /\ FloatKept'
  BY FloatStep
<1>4. TypeOK'
  BY <1>3 DEF IInv, TypeOK, Take
<1>5. Started'
  BY <1>3, NoneAssumption DEF IInv, Started, Take
<1>6. AsesKept'
  BY <1>1, <1>2, NewFlagsType DEF IInv, AsesKept, Take
<1>7. \A a : NewFlags(a)' = NewFlags(a)
  BY DEF NewFlags, Take
<1>8. PicOfAll'
  BY <1>1, <1>2, <1>7, NewFlagsType DEF IInv, PicOfAll, Take
<1>9. QED
  BY <1>3, <1>4, <1>5, <1>6, <1>8 DEF IInv

LEMMA MergeComparedInv ==
  ASSUME IInv, NEW b \in Bfds, MergeCompared(b)
  PROVE  IInv'
<1> DEFINE new == NewFlags(b)
<1> USE DEF MergeCompared
<1>1. Contained' \subseteq Contained \cup {b}
  BY DEF Contained, Take
<1>2. /\ e_flags \in FlagsWith(SUBSET Ases) /\ new \in FlagsWith(SUBSET Ases)
      /\ new.ase = input[b].flags.ase
      /\ input[b].flags.cpic => new.cpic
  BY NewFlagsType DEF IInv, TypeOK
<1>3. e_flags' \in {WithAses(WithConvention(e_flags, new), new),
                    WithMachine(WithAses(WithConvention(e_flags, new), new), new)}
  OBVIOUS
<1>4. refused' = IF Clash(new) THEN refused \cup {b} ELSE refused
  OBVIOUS
<1>5. e_flags'.mach = machine'
  BY <1>2 DEF IInv, TypeOK, WithMachine, WithAses, WithConvention, FlagsWith
<1> HIDE DEF new
<1>6. /\ e_flags' \in FlagsWith(SUBSET Ases)
      /\ e_flags'.ase = e_flags.ase \cup new.ase
      /\ e_flags'.pic = (e_flags.pic /\ new.pic)
      /\ e_flags'.cpic = (e_flags.cpic \/ new.pic \/ new.cpic)
  <2>1. MergedFrom(e_flags', e_flags, new)
    BY <1>2, <1>3, MergedFlags
  <2>2. QED
    BY <2>1 DEF MergedFrom
<1>7. fp' \in 0..5 /\ warned' \subseteq Bfds /\ FloatKept'
  BY FloatStep
<1>8. e_flags' # None
  BY <1>6, NoneAssumption
<1>9. TypeOK'
  BY <1>5, <1>6, <1>7, <1>8 DEF IInv, TypeOK, Take
<1>10. Started'
  BY <1>7, <1>8, NoneAssumption DEF IInv, Started, Take
<1>11. AsesKept'
  <2> SUFFICES ASSUME refused' = {}
               PROVE  /\ \A a \in Contained' : input[a].flags.ase \subseteq e_flags'.ase
                      /\ ~({"m16", "micro"} \subseteq e_flags'.ase)
    BY DEF AsesKept, Take
  <2>1. refused = {} /\ ~AseClash(new)
    BY <1>4 DEF Clash
  <2>2. \A a \in Contained' : input[a].flags.ase \subseteq e_flags'.ase
    BY <1>1, <1>2, <1>6, <2>1 DEF IInv, AsesKept
  <2>3. ~({"m16", "micro"} \subseteq e_flags.ase) /\ ~({"m16", "micro"} \subseteq new.ase)
    BY <1>2, <2>1, InputType DEF IInv, AsesKept
  <2>4. QED
    BY <1>6, <2>1, <2>2, <2>3 DEF AseClash
<1>12. PicOfAll'
  <2>1. \A a : NewFlags(a)' = NewFlags(a)
    BY DEF NewFlags, Take
  <2>2. QED
    BY <1>1, <1>2, <1>6, <2>1 DEF IInv, PicOfAll, Take, new
<1>13. QED
  BY <1>7, <1>9, <1>10, <1>11, <1>12 DEF IInv

LEMMA StutterInv ==
  ASSUME IInv, UNCHANGED vars
  PROVE  IInv'
BY DEF vars, IInv, TypeOK, Started, FloatKept, AsesKept, PicOfAll, Contained, NewFlags

LEMMA Invariance == Spec => []IInv
<1>1. Init => IInv
  BY InitInv
<1>2. IInv /\ [Next]_vars => IInv'
  BY RefuseTargetInv, MergeFirstInv, MergeAlikeInv, MergeComparedInv, StutterInv
  DEF Next
<1>3. QED
  BY <1>1, <1>2, PTL DEF Spec

-----------------------------------------------------------------------------
\* Every variable keeps its type and the flags name the machine, for any inputs.
THEOREM TypeCorrect == Spec => []TypeOK
<1>1. IInv => TypeOK
  BY DEF IInv
<1>2. QED
  BY <1>1, Invariance, PTL

\* A link that succeeds has no MIPS16 code beside microMIPS code, and names all ASEs.
THEOREM AsesStayApart == Spec => []AsesApart
<1>1. IInv => AsesApart
  BY DEF IInv, AsesKept, AsesApart, Contained, Started
<1>2. QED
  BY <1>1, Invariance, PTL

\* The output is only PIC if all of its code is, and uses abicalls if any does.
THEOREM ConventionOfAll == Spec => []PicOfAll
<1>1. IInv => PicOfAll
  BY DEF IInv
<1>2. QED
  BY <1>1, Invariance, PTL

\* No two floating point ABIs are mixed without a warning.
THEOREM FloatMixIsWarned == Spec => []FloatMixWarned
<1>1. IInv => FloatMixWarned
  BY DEF IInv, FloatKept, FloatMixWarned
<1>2. QED
  BY <1>1, Invariance, PTL

-----------------------------------------------------------------------------
(***************************************************************************)
(* The table of machines.                                                  *)
(***************************************************************************)
Rows == mips_mach_extensions

RowNumbers == 1..34

\* The table has a row for every machine but the oldest.
LEMMA RowsAre ==
  /\ DOMAIN Rows = RowNumbers
  /\ \A i \in RowNumbers : Rows[i] = <<Rows[i][1], Rows[i][2]>>
  /\ \A i \in RowNumbers : Rows[i][1] \in Machines /\ Rows[i][2] \in Machines
BY DEF Rows, mips_mach_extensions, RowNumbers, Machines

\* "They are grouped by extension": a machine comes after those that extend it, so
\* that one pass is enough.
LEMMA RowsSorted ==
  \A i, j \in RowNumbers : Rows[i][2] = Rows[j][1] => i < j
BY DEF Rows, mips_mach_extensions, RowNumbers

\* Every machine but the oldest has a row.
LEMMA EachHasRow ==
  \A m \in Machines : m = "3000" \/ \E i \in RowNumbers : Rows[i][1] = m
BY DEF Rows, mips_mach_extensions, RowNumbers, Machines

\* What comes after the row of a machine.
LEMMA BasesType ==
  \A m : Bases(m) \subseteq Machines
BY RowsAre DEF Bases, ToSet, Rows, Machines

\* The rows of the machines that one runs are behind its own.
LEMMA BasesLater ==
  \A i, j \in RowNumbers : Rows[j][1] \in Bases(Rows[i][1]) => i < j
<1>1. \A i, j \in RowNumbers : Rows[i][1] = "isa64" /\ Rows[j][1] = "isa32" => i < j
  BY DEF Rows, mips_mach_extensions, RowNumbers
<1>2. \A i, j \in RowNumbers : Rows[i][1] = "isa64r2" /\ Rows[j][1] = "isa32r2" => i < j
  BY DEF Rows, mips_mach_extensions, RowNumbers
<1>3. ASSUME NEW i \in RowNumbers, NEW j \in RowNumbers, NEW k \in RowNumbers,
             Rows[k][1] = Rows[i][1], Rows[j][1] = Rows[k][2]
      PROVE  i < j
   <2>1. \A p, q \in RowNumbers : Rows[p][1] = Rows[q][1] => p = q
     BY DEF Rows, mips_mach_extensions, RowNumbers
   <2>2. QED
     BY <1>3, <2>1, RowsSorted
<1>4. QED
  BY <1>1, <1>2, <1>3, RowsAre DEF Bases, ToSet, Rows

-----------------------------------------------------------------------------
(***************************************************************************)
(* One pass over the table.                                                *)
(***************************************************************************)
\* What row i makes of the machines met so far.
Meet(on, i) == IF Rows[i][1] \in on THEN on \cup {Rows[i][2]} ELSE on

\* g does so for each set of rows in D, in order.
IsPass(g, m, D) ==
  g = [s \in SUBSET D |-> IF s = {} THEN {m} ELSE Meet(g[s \ {Max(s)}], Max(s))]

Pass(m, D) == CHOOSE g : IsPass(g, m, D)

\* Chain is the fold of Meet.
LEMMA ChainUnfold ==
  ASSUME NEW m \in Machines
  PROVE  Chain[m] = Pass(m, RowNumbers)[RowNumbers]
<1>1. Chain[m] = FoldLeft(LAMBDA on, row : IF row[1] \in on THEN on \cup {row[2]} ELSE on,
                          {m}, mips_mach_extensions)
  BY DEF Chain
<1>2. DOMAIN mips_mach_extensions = RowNumbers
  BY RowsAre DEF Rows
<1>3. QED
  BY <1>1, <1>2 DEF FoldLeft, MapThenFoldSet, Pass, IsPass, Meet, Rows

\* The table is finite.
LEMMA RowNumbersFinite == IsFiniteSet(RowNumbers)
BY FiniteInterval, 1 \in Int, 34 \in Int DEF RowNumbers

\* Max is the greatest.
LEMMA MaxIn ==
  ASSUME NEW n \in Nat, NEW s \in SUBSET (1..n), s # {}
  PROVE  Max(s) \in s /\ \A x \in s : x <= Max(s)
<1>1. IsFiniteSet(1..n)
  BY FiniteInterval, 1 \in Int
<1>2. \E x \in s : \A y \in s : y <= x
  <2>1. 1..n \subseteq Int
    OBVIOUS
  <2>2. QED
    BY <1>1, <2>1, Extremes
<1>3. QED
  BY <1>2 DEF Max

\* What holds at 0 and is kept by each step up to n holds up to n.
LEMMA UpTo ==
  ASSUME NEW n \in Nat, NEW S, 0 \in S, \A k \in 1..n : k - 1 \in S => k \in S
  PROVE  \A k \in 0..n : k \in S
<1> DEFINE T == (0..n) \ S
<1>1. SUFFICES ASSUME T # {} PROVE FALSE
  OBVIOUS
<1>2. IsFiniteSet(0..n)
  BY FiniteInterval, 0 \in Int
<1>3. PICK y \in T : \A z \in T : y <= z
  <2>1. T \in SUBSET (0..n) /\ 0..n \subseteq Int
    OBVIOUS
  <2> HIDE DEF T
  <2>2. QED
    BY <1>1, <1>2, <2>1, Extremes
<1>4. y \in 1..n /\ y - 1 \in 0..n /\ ~(y <= y - 1)
  BY <1>3
<1>5. y - 1 \in S
  BY <1>3, <1>4
<1>6. QED
  BY <1>3, <1>4, <1>5

\* Solutions for a set and for a subset of it agree.
LEMMA PassUnique ==
  ASSUME NEW m, NEW D \in SUBSET RowNumbers, NEW T \in SUBSET D, NEW g, NEW h,
         IsPass(g, m, D), IsPass(h, m, T)
  PROVE  \A s \in SUBSET T : g[s] = h[s]
<1> DEFINE Good == {s \in SUBSET T : g[s] = h[s]}
<1>1. ASSUME NEW s \in SUBSET T, \A u \in SUBSET s : u # s => u \in Good
      PROVE  s \in Good
  <2>1. CASE s = {}
    BY <2>1 DEF IsPass
  <2>2. CASE s # {}
    <3>1. Max(s) \in s
      BY <2>2, MaxIn DEF RowNumbers
    <3>2. s \ {Max(s)} \in Good
      BY <3>1, <1>1
    <3>3. g[s] = Meet(g[s \ {Max(s)}], Max(s)) /\ h[s] = Meet(h[s \ {Max(s)}], Max(s))
      BY <2>2 DEF IsPass
    <3>4. QED
      BY <3>2, <3>3
  <2>3. QED
    BY <2>1, <2>2
<1>2. IsFiniteSet(T)
  BY RowNumbersFinite, FS_Subset
<1> HIDE DEF Good
<1>3. \A s \in SUBSET T : s \in Good
  BY <1>1, <1>2, SetInduction
<1>4. QED
  BY <1>3 DEF Good

\* There is a solution.
LEMMA PassExists ==
  ASSUME NEW m
  PROVE  IsPass(Pass(m, RowNumbers), m, RowNumbers)
<1> DEFINE Good == {T \in SUBSET RowNumbers : \E g : IsPass(g, m, T)}
<1>1. ASSUME NEW T \in SUBSET RowNumbers, \A U \in SUBSET T : U # T => U \in Good
      PROVE  T \in Good
  <2>1. CASE T = {}
    <3>1. IsPass([s \in SUBSET {} |-> {m}], m, {})
      BY DEF IsPass
    <3>2. QED
      BY <2>1, <3>1
  <2>2. CASE T # {}
    <3> DEFINE g == [s \in SUBSET T |-> Pass(m, s)[s]]
               k == [s \in SUBSET T |->
                       IF s = T THEN Meet(g[T \ {Max(T)}], Max(T)) ELSE g[s]]
    <3>1. \A s \in SUBSET T : s # {} => Max(s) \in s
      BY MaxIn DEF RowNumbers
    <3>2. \A s \in SUBSET T : s # T => IsPass(Pass(m, s), m, s)
      BY <1>1 DEF Pass
    <3>3. ASSUME NEW s \in SUBSET T, s # T, s # {}
          PROVE  g[s] = Meet(g[s \ {Max(s)}], Max(s))
      <4> DEFINE t == s \ {Max(s)}
      <4>1. Max(s) \in s
        BY <3>1, <3>3
      <4>2. IsPass(Pass(m, s), m, s) /\ IsPass(Pass(m, t), m, t)
        BY <3>2, <3>3, <4>1
      <4>3. Pass(m, s)[t] = Pass(m, t)[t]
        BY <4>2, PassUnique
      <4>4. Pass(m, s)[s] = Meet(Pass(m, s)[t], Max(s))
        BY <4>2, <3>3 DEF IsPass
      <4>5. QED
        BY <4>3, <4>4
    <3>4. g[{}] = {m}
      <4>1. IsPass(Pass(m, {}), m, {})
        BY <3>2, <2>2
      <4>2. QED
        BY <4>1, <2>2 DEF IsPass
    <3>5. IsPass(k, m, T)
      <4> SUFFICES ASSUME NEW s \in SUBSET T
                   PROVE  k[s] = IF s = {} THEN {m} ELSE Meet(k[s \ {Max(s)}], Max(s))
        BY DEF IsPass
      <4>1. CASE s = {}
        BY <4>1, <3>4, <2>2
      <4>2. CASE s # {} /\ s # T
        BY <4>2, <3>3
      <4>3. CASE s = T
        BY <4>3, <2>2, <3>1
      <4>4. QED
        BY <4>1, <4>2, <4>3
    <3>6. QED
      BY <3>5
  <2>3. QED
    BY <2>1, <2>2
<1>2. IsFiniteSet(RowNumbers)
  BY RowNumbersFinite
<1> HIDE DEF Good
<1>3. RowNumbers \in Good
  BY <1>1, <1>2, SetInduction
<1>4. QED
  BY <1>3 DEF Good, Pass

\* on[k]: the machines met when k rows have been seen.
IsMet(on, m) ==
  /\ on \in [0..34 -> SUBSET Machines]
  /\ on[0] = {m}
  /\ \A k \in RowNumbers : on[k] = Meet(on[k - 1], k)

\* The pass over the table, row by row.
LEMMA ChainSteps ==
  ASSUME NEW m \in Machines
  PROVE  \E on : IsMet(on, m) /\ Chain[m] = on[34]
<1> DEFINE g == Pass(m, RowNumbers)
           on == [k \in 0..34 |-> g[1..k]]
           S == {k \in 0..34 : g[1..k] \subseteq Machines}
<1>1. IsPass(g, m, RowNumbers)
  BY PassExists
<1>2. \A k \in 0..34 : 1..k \in SUBSET RowNumbers
  BY DEF RowNumbers
<1>3. on[0] = {m}
  <2>1. 1..0 = {}
    OBVIOUS
  <2>2. QED
    BY <1>1, <1>2, <2>1 DEF IsPass
<1>4. ASSUME NEW k \in RowNumbers
      PROVE  on[k] = Meet(on[k - 1], k)
  <2>1. k \in 1..34 /\ k \in 0..34 /\ k - 1 \in 0..34
    BY DEF RowNumbers
  <2>2. Max(1..k) = k
    <3>1. 1..k \in SUBSET (1..k) /\ 1..k # {} /\ k \in 1..k /\ k \in Nat
      BY <2>1
    <3>2. Max(1..k) \in 1..k /\ \A x \in 1..k : x <= Max(1..k)
      BY <3>1, MaxIn
    <3>3. QED
      BY <3>1, <3>2
  <2>3. (1..k) \ {k} = 1..(k - 1)
    BY <2>1
  <2>4. 1..k # {} /\ 1..k \in SUBSET RowNumbers
    BY <2>1, <1>2
  <2>5. g[1..k] = Meet(g[(1..k) \ {Max(1..k)}], Max(1..k))
    BY <1>1, <2>4 DEF IsPass
  <2>6. QED
    BY <2>1, <2>2, <2>3, <2>5
<1>5. 0 \in S
  BY <1>3
<1>6. ASSUME NEW k \in 1..34, k - 1 \in S
      PROVE  k \in S
  <2>1. on[k] = Meet(on[k - 1], k) /\ k \in RowNumbers
    BY <1>4 DEF RowNumbers
  <2>2. g[1..k] = Meet(g[1..(k - 1)], k)
    BY <2>1
  <2>3. Rows[k][2] \in Machines
    BY <2>1, RowsAre
  <2>4. g[1..k] \subseteq Machines
    BY <1>6, <2>2, <2>3 DEF Meet
  <2>5. QED
    BY <2>4
<1> HIDE DEF S
<1>7. \A k \in 0..34 : k \in S
  BY <1>5, <1>6, UpTo
<1>8. on \in [0..34 -> SUBSET Machines]
  BY <1>7 DEF S
<1>9. Chain[m] = on[34]
  BY ChainUnfold DEF RowNumbers
<1> HIDE DEF on
<1>10. QED
  BY <1>3, <1>4, <1>8, <1>9 DEF IsMet

\* A machine stays met.
LEMMA MetGrows ==
  ASSUME NEW m, NEW on, IsMet(on, m), NEW i \in 0..34, NEW j \in i..34
  PROVE  on[i] \subseteq on[j]
<1> DEFINE S == {k \in 0..34 : k < i \/ on[i] \subseteq on[k]}
<1>1. 0 \in S
  BY DEF IsMet
<1>2. ASSUME NEW k \in 1..34, k - 1 \in S  PROVE k \in S
  <2>1. on[k] = Meet(on[k - 1], k)
    BY DEF IsMet, RowNumbers
  <2>2. on[k - 1] \subseteq on[k]
    BY <2>1 DEF Meet
  <2>3. k - 1 < i => k < i \/ k = i
    OBVIOUS
  <2>4. QED
    BY <1>2, <2>2, <2>3
<1> HIDE DEF S
<1>3. j \in S
  <2>1. \A k \in 0..34 : k \in S
    BY <1>1, <1>2, UpTo
  <2>2. QED
    BY <2>1
<1>4. QED
  BY <1>3 DEF S

\* One that was met has been met before row i + 1, or comes after a later row.
LEMMA MetFrom ==
  ASSUME NEW m, NEW on, IsMet(on, m), NEW i \in 0..34, NEW x \in on[34], x \notin on[i]
  PROVE  \E k \in RowNumbers : k > i /\ x = Rows[k][2]
<1> DEFINE Late == \E l \in RowNumbers : l > i /\ x = Rows[l][2]
           S == {k \in 0..34 : k <= i \/ x \notin on[k] \/ Late}
<1>1. 0 \in S
  OBVIOUS
<1>2. ASSUME NEW k \in 1..34, k - 1 \in S  PROVE k \in S
  <2>1. on[k] = Meet(on[k - 1], k) /\ k \in RowNumbers
    BY DEF IsMet, RowNumbers
  <2>2. CASE k <= i
    BY <2>2
  <2>3. CASE k > i /\ x \notin on[k - 1]
    <3>1. x \in on[k] => x = Rows[k][2]
      BY <2>1, <2>3 DEF Meet
    <3>2. QED
      BY <2>1, <2>3, <3>1
  <2>4. CASE k > i /\ x \in on[k - 1]
    <3>1. Late \/ k - 1 <= i
      BY <1>2, <2>4
    <3>2. k - 1 <= i => k - 1 = i
      BY <2>4
    <3>3. QED
      BY <2>4, <3>1, <3>2
  <2>5. QED
    BY <2>2, <2>3, <2>4
<1> HIDE DEF S
<1>3. 34 \in S
  BY <1>1, <1>2, UpTo
<1>4. QED
  BY <1>3, i = 34 \/ i < 34 DEF S

\* The pass is complete: a machine that was met is followed along the table,
LEMMA ChainClosed ==
  ASSUME NEW m \in Machines, NEW i \in RowNumbers, Rows[i][1] \in Chain[m]
  PROVE  Rows[i][2] \in Chain[m]
<1>1. PICK on : IsMet(on, m) /\ Chain[m] = on[34]
  BY ChainSteps
<1>2. i \in 0..34 /\ i - 1 \in 0..34 /\ 34 \in i..34
  BY DEF RowNumbers
<1>3. Rows[i][1] \in on[i - 1]
  <2>1. SUFFICES ASSUME Rows[i][1] \notin on[i - 1] PROVE FALSE
    OBVIOUS
  <2>2. PICK k \in RowNumbers : k > i - 1 /\ Rows[i][1] = Rows[k][2]
    BY <1>1, <1>2, <2>1, MetFrom
  <2>3. k < i
    BY <2>2, RowsSorted
  <2>4. QED
    BY <2>2, <2>3 DEF RowNumbers
<1>4. Rows[i][2] \in on[i]
  BY <1>1, <1>3 DEF IsMet, Meet
<1>5. on[i] \subseteq on[34]
  BY <1>1, <1>2, MetGrows
<1>6. QED
  BY <1>1, <1>4, <1>5

\* and meets no others.
LEMMA ChainLeast ==
  ASSUME NEW m \in Machines, NEW T, m \in T,
         \A i \in RowNumbers : Rows[i][1] \in T => Rows[i][2] \in T
  PROVE  Chain[m] \subseteq T
<1>1. PICK on : IsMet(on, m) /\ Chain[m] = on[34]
  BY ChainSteps
<1> DEFINE S == {k \in 0..34 : on[k] \subseteq T}
<1>2. 0 \in S
  BY <1>1 DEF IsMet
<1>3. ASSUME NEW k \in 1..34, k - 1 \in S  PROVE k \in S
  <2>1. on[k] = Meet(on[k - 1], k) /\ k \in RowNumbers
    BY <1>1 DEF IsMet, RowNumbers
  <2>2. QED
    BY <1>3, <2>1 DEF Meet
<1> HIDE DEF S
<1>4. 34 \in S
  BY <1>2, <1>3, UpTo
<1>5. QED
  BY <1>1, <1>4 DEF S

\* The pass starts with the machine and meets machines.
LEMMA ChainType ==
  ASSUME NEW m \in Machines
  PROVE  m \in Chain[m] /\ Chain[m] \subseteq Machines
<1>1. PICK on : IsMet(on, m) /\ Chain[m] = on[34]
  BY ChainSteps
<1>2. on[0] \subseteq on[34]
  BY <1>1, MetGrows
<1>3. QED
  BY <1>1, <1>2 DEF IsMet

-----------------------------------------------------------------------------
(***************************************************************************)
(* What mips_mach_extends_p answers is what the machines run.              *)
(***************************************************************************)
Extended(m) == {x \in Machines : MachExtends(x, m)}

Closed(T) == \A x \in T : Bases(x) \subseteq T

\* A base is in a row, or the 32-bit form of a machine.
LEMMA BasesAre ==
  ASSUME NEW x, NEW y \in Bases(x)
  PROVE  \/ \E i \in RowNumbers : x = Rows[i][1] /\ y = Rows[i][2]
         \/ x = "isa64" /\ y = "isa32"
         \/ x = "isa64r2" /\ y = "isa32r2"
BY RowsAre DEF Bases, ToSet, Rows

\* A row says that a machine runs the code of another.
LEMMA RowIsBase ==
  ASSUME NEW i \in RowNumbers
  PROVE  Rows[i][2] \in Bases(Rows[i][1])
BY RowsAre DEF Bases, ToSet, Rows

\* The 32-bit forms lead to machines that the table has behind the 64-bit ones.
LEMMA Forms32 ==
  ASSUME NEW m \in Machines
  PROVE  /\ "isa64" \in Chain[m] => "6000" \in Chain[m]
         /\ "isa64r2" \in Chain[m] => "isa64" \in Chain[m]
<1>1. \A i \in RowNumbers : Rows[i][1] \in Chain[m] => Rows[i][2] \in Chain[m]
  BY ChainClosed
<1>2. /\ Rows[4] = <<"isa64r2", "isa64">> /\ Rows[8] = <<"isa64", "5">>
      /\ Rows[14] = <<"5", "8000">> /\ Rows[23] = <<"8000", "4000">>
      /\ Rows[31] = <<"4000", "6000">>
  BY DEF Rows, mips_mach_extensions
<1>3. {4, 8, 14, 23, 31} \subseteq RowNumbers
  BY DEF RowNumbers
<1>4. QED
  BY <1>1, <1>2, <1>3

\* What a machine extends includes what those extend.
LEMMA ExtendedClosed ==
  ASSUME NEW m \in Machines
  PROVE  Closed(Extended(m)) /\ m \in Extended(m)
<1>1. m \in Extended(m)
  BY ChainType DEF Extended, MachExtends
<1>2. ASSUME NEW x \in Extended(m), NEW y \in Bases(x)
      PROVE  y \in Extended(m)
  <2>1. y \in Machines
    BY BasesType
  <2>2. ASSUME x \in Chain[m], NEW i \in RowNumbers, x = Rows[i][1], y = Rows[i][2]
        PROVE  y \in Extended(m)
    BY <2>1, <2>2, ChainClosed DEF Extended, MachExtends
  <2>3. CASE x \in Chain[m] /\ ((x = "isa64" /\ y = "isa32") \/ (x = "isa64r2" /\ y = "isa32r2"))
    BY <2>1, <2>3 DEF Extended, MachExtends
  <2>4. CASE x = "isa32" /\ "isa64" \in Chain[m]
    <3>1. \A i \in RowNumbers : Rows[i][1] = "isa32" => Rows[i][2] = "6000"
      BY DEF Rows, mips_mach_extensions, RowNumbers
    <3>2. y = "6000"
      BY <2>4, <3>1, BasesAre
    <3>3. QED
      BY <2>1, <2>4, <3>2, Forms32 DEF Extended, MachExtends
  <2>5. CASE x = "isa32r2" /\ "isa64r2" \in Chain[m]
    <3>1. \A i \in RowNumbers : Rows[i][1] = "isa32r2" => Rows[i][2] = "isa32"
      BY DEF Rows, mips_mach_extensions, RowNumbers
    <3>2. y = "isa32"
      BY <2>5, <3>1, BasesAre
    <3>3. QED
      BY <2>1, <2>5, <3>2, Forms32 DEF Extended, MachExtends
  <2>6. \/ x \in Chain[m]
        \/ x = "isa32" /\ "isa64" \in Chain[m]
        \/ x = "isa32r2" /\ "isa64r2" \in Chain[m]
    BY DEF Extended, MachExtends
  <2>7. \/ \E i \in RowNumbers : x = Rows[i][1] /\ y = Rows[i][2]
        \/ x = "isa64" /\ y = "isa32"
        \/ x = "isa64r2" /\ y = "isa32r2"
    BY BasesAre
  <2>8. CASE x \in Chain[m]
    BY <2>2, <2>3, <2>7, <2>8
  <2>9. QED
    BY <2>4, <2>5, <2>6, <2>8
<1>3. QED
  BY <1>1, <1>2 DEF Closed

\* Nothing else is in it.
LEMMA ExtendedLeast ==
  ASSUME NEW m \in Machines, NEW T, Closed(T), m \in T
  PROVE  Extended(m) \subseteq T
<1>1. \A i \in RowNumbers : Rows[i][1] \in T => Rows[i][2] \in T
  BY RowIsBase DEF Closed
<1>2. Chain[m] \subseteq T
  BY <1>1, ChainLeast
<1>3. "isa32" \in Bases("isa64") /\ "isa32r2" \in Bases("isa64r2")
  BY DEF Bases
<1>4. QED
  BY <1>2, <1>3 DEF Extended, MachExtends, Closed

\* The recursion that Runs is defined by.
IsRuns(r) == r = [m \in Machines |-> {m} \cup UNION {r[base] : base \in Bases(m)}]

\* What one pass finds satisfies the recursion,
LEMMA RunsExists == IsRuns([m \in Machines |-> Extended(m)])
<1> DEFINE r == [m \in Machines |-> Extended(m)]
<1> SUFFICES ASSUME NEW m \in Machines
             PROVE  Extended(m) = {m} \cup UNION {r[base] : base \in Bases(m)}
  BY DEF IsRuns
<1> DEFINE U == {m} \cup UNION {r[base] : base \in Bases(m)}
<1>1. \A base \in Bases(m) : r[base] = Extended(base) /\ base \in Machines
  BY BasesType
<1>2. U \subseteq Extended(m)
  <2>1. ASSUME NEW base \in Bases(m)
        PROVE  r[base] \subseteq Extended(m)
    <3>1. Closed(Extended(m)) /\ base \in Extended(m)
      BY ExtendedClosed DEF Closed
    <3>2. QED
      BY <1>1, <3>1, ExtendedLeast
  <2>2. m \in Extended(m)
    BY ExtendedClosed
  <2>3. QED
    BY <2>1, <2>2
<1>3. Closed(U)
  <2>1. ASSUME NEW base \in Bases(m), NEW x \in r[base]
        PROVE  Bases(x) \subseteq U
    <3>1. Bases(x) \subseteq r[base]
      BY <1>1, <2>1, ExtendedClosed DEF Closed
    <3>2. QED
      BY <3>1
  <2>2. Bases(m) \subseteq U
    BY <1>1, ExtendedClosed
  <2>3. QED
    BY <2>1, <2>2 DEF Closed
<1>4. Extended(m) \subseteq U
  <2>1. m \in U
    OBVIOUS
  <2> HIDE DEF U
  <2>2. QED
    BY <1>3, <2>1, ExtendedLeast
<1>5. QED
  BY <1>2, <1>4

\* and nothing else does.
LEMMA RunsUnique ==
  ASSUME NEW r, NEW q, IsRuns(r), IsRuns(q), NEW m \in Machines
  PROVE  r[m] = q[m]
<1> DEFINE Bad == {i \in RowNumbers : r[Rows[i][1]] # q[Rows[i][1]]}
<1>1. ASSUME NEW n \in Machines, \A base \in Bases(n) : r[base] = q[base]
      PROVE  r[n] = q[n]
  <2>1. {r[base] : base \in Bases(n)} = {q[base] : base \in Bases(n)}
    BY <1>1
  <2>2. r[n] = {n} \cup UNION {r[base] : base \in Bases(n)}
    BY DEF IsRuns
  <2>3. q[n] = {n} \cup UNION {q[base] : base \in Bases(n)}
    BY DEF IsRuns
  <2>4. QED
    BY <2>1, <2>2, <2>3
<1>2. r["3000"] = q["3000"]
  <2>1. \A i \in RowNumbers : Rows[i][1] # "3000"
    BY DEF Rows, mips_mach_extensions, RowNumbers
  <2>2. Bases("3000") = {}
    BY <2>1, BasesAre
  <2>3. "3000" \in Machines
    BY DEF Machines
  <2>4. QED
    BY <1>1, <2>2, <2>3
<1>3. Bad = {}
  <2>1. SUFFICES ASSUME Bad # {} PROVE FALSE
    OBVIOUS
  <2>2. PICK i \in Bad : \A j \in Bad : j <= i
    <3>1. Bad \in SUBSET RowNumbers /\ RowNumbers \subseteq Int
      BY DEF RowNumbers
    <3> HIDE DEF Bad
    <3>2. QED
      BY <2>1, <3>1, RowNumbersFinite, Extremes
  <2>3. i \in RowNumbers /\ r[Rows[i][1]] # q[Rows[i][1]]
    OBVIOUS
  <2>4. ASSUME NEW base \in Bases(Rows[i][1])
        PROVE  r[base] = q[base]
    <3>1. base \in Machines
      BY BasesType
    <3>2. CASE base = "3000"
      BY <1>2, <3>2
    <3>3. ASSUME NEW j \in RowNumbers, base = Rows[j][1]
          PROVE  r[base] = q[base]
      <4>1. i < j
        BY <2>3, <3>3, BasesLater
      <4>2. j \notin Bad
        BY <2>2, <2>3, <4>1 DEF RowNumbers
      <4>3. QED
        BY <3>3, <4>2
    <3>4. QED
      BY <3>1, <3>2, <3>3, EachHasRow
  <2>5. QED
    BY <1>1, <2>3, <2>4, RowsAre
<1>4. QED
  BY <1>2, <1>3, EachHasRow

\* mips_mach_extends_p is right about any two machines.
LEMMA ExtendsIsRuns ==
  ASSUME NEW m \in Machines, NEW x
  PROVE  x \in Machines /\ MachExtends(x, m) <=> x \in Runs[m]
<1> DEFINE r == CHOOSE r : IsRuns(r)
<1>1. Runs[m] = r[m]
  BY DEF Runs, IsRuns
<1>2. IsRuns(r)
  BY RunsExists
<1> HIDE DEF r
<1>3. r[m] = Extended(m)
  BY <1>2, RunsExists, RunsUnique
<1>4. QED
  BY <1>1, <1>3 DEF Extended

\* A machine runs its own code, and what the machines run whose code it runs.
LEMMA RunsOrder ==
  /\ \A x \in Machines : x \in Runs[x] /\ Runs[x] \subseteq Machines
  /\ \A x, y, z \in Machines : x \in Runs[y] /\ y \in Runs[z] => x \in Runs[z]
<1>1. \A m \in Machines : Runs[m] = Extended(m)
  BY ExtendsIsRuns DEF Extended
<1>2. QED
  BY <1>1, ExtendedClosed, ExtendedLeast DEF Extended

-----------------------------------------------------------------------------
(***************************************************************************)
(* Sizes and machines of the output.                                       *)
(***************************************************************************)
\* The flags that are compared have the machine, the size and the ABI of the input.
LEMMA NewFlagsSame ==
  ASSUME TypeOK, NEW b \in Bfds
  PROVE  /\ NewFlags(b).mach = input[b].flags.mach
         /\ NewFlags(b).abi = input[b].flags.abi
         /\ NewFlags(b).rest = input[b].flags.rest
         /\ Is32(NewFlags(b)) = Is32(input[b].flags)
         /\ input[b].flags.mach \in Machines
<1>1. input[b].flags \in FlagsWith(SUBSET Ases)
  BY InputType
<1>2. /\ NewFlags(b).mach = input[b].flags.mach /\ NewFlags(b).abi = input[b].flags.abi
      /\ NewFlags(b).mode32 = input[b].flags.mode32 /\ NewFlags(b).arch = input[b].flags.arch
      /\ NewFlags(b).rest = input[b].flags.rest
  BY <1>1 DEF NewFlags, FlagsWith
<1>3. input[b].flags.mach \in Machines
  BY <1>1 DEF FlagsWith
<1>4. QED
  BY <1>2, <1>3 DEF Is32

\* What a comparison leaves of the machine, the size and the ABI.
LEMMA SizeOfMerged ==
  ASSUME NEW old \in FlagsWith(SUBSET Ases), NEW new \in FlagsWith(SUBSET Ases)
  PROVE  LET kept == WithAses(WithConvention(old, new), new)
             taken == WithMachine(kept, new)
         IN
         /\ kept.mach = old.mach /\ kept.abi = old.abi /\ kept.rest = old.rest
         /\ Is32(kept) = Is32(old)
         /\ taken.mach = new.mach /\ taken.rest = old.rest
         /\ taken.abi = old.abi \/ (Is32(new) /\ taken.abi = new.abi)
         /\ /\ Is32(new) = Is32(old)
            /\ "none" \in {new.abi, old.abi} \/ new.abi = old.abi
               \/ (AbiFits(new) /\ AbiFits(old))
            => Is32(taken) = Is32(old)
<1> DEFINE c == WithConvention(old, new)
           kept == WithAses(c, new)
           taken == WithMachine(kept, new)
<1>1. c \in FlagsWith(SUBSET Ases) /\ c.mach = old.mach /\ c.abi = old.abi
      /\ c.mode32 = old.mode32 /\ c.arch = old.arch /\ c.rest = old.rest
  BY DEF WithConvention, FlagsWith
<1> HIDE DEF c
<1>2. kept \in FlagsWith(SUBSET Ases) /\ kept.mach = old.mach /\ kept.abi = old.abi
      /\ kept.mode32 = old.mode32 /\ kept.arch = old.arch /\ kept.rest = old.rest
  BY <1>1 DEF WithAses, FlagsWith, c
<1> HIDE DEF kept
<1>3. Is32(kept) = Is32(old)
  BY <1>2 DEF Is32
<1>4. /\ taken.mach = new.mach /\ taken.arch = new.arch /\ taken.rest = old.rest
      /\ taken.mode32 = (old.mode32 \/ new.mode32)
      /\ taken.abi = IF old.abi = "none" /\ Is32(new) /\ ~Is32([new EXCEPT !.abi = "none"])
                     THEN new.abi ELSE old.abi
  BY <1>2 DEF WithMachine, FlagsWith
<1> HIDE DEF taken
<1>5. ~Is32([new EXCEPT !.abi = "none"])
        <=> ~new.mode32 /\ new.arch \notin {"1", "2", "32", "32r2"}
  BY DEF Is32, FlagsWith
<1>6. old.abi \in {"none", "o32", "o64", "eabi32", "eabi64"}
      /\ new.abi \in {"none", "o32", "o64", "eabi32", "eabi64"}
  BY DEF FlagsWith
<1>7. ASSUME Is32(new) = Is32(old),
             "none" \in {new.abi, old.abi} \/ new.abi = old.abi \/ (AbiFits(new) /\ AbiFits(old))
      PROVE  Is32(taken) = Is32(old)
  <2>1. CASE ~Is32(new)
    BY <1>4, <1>7, <2>1 DEF Is32
  <2>2. CASE Is32(new) /\ (new.mode32 \/ new.arch \in {"1", "2", "32", "32r2"})
    BY <1>4, <1>7, <2>2 DEF Is32
  <2>3. CASE Is32(new) /\ new.abi \in {"o32", "eabi32"} /\ ~new.mode32
             /\ new.arch \notin {"1", "2", "32", "32r2"}
    <3>1. taken.abi = IF old.abi = "none" THEN new.abi ELSE old.abi
      BY <1>4, <1>5, <2>3
    <3>2. old.abi \in {"none", "o32", "eabi32"}
      BY <1>6, <1>7, <2>3 DEF AbiFits
    <3>3. taken.abi \in {"o32", "eabi32"}
      BY <2>3, <3>1, <3>2
    <3>4. Is32(taken)
      BY <3>3 DEF Is32
    <3>5. QED
      BY <1>7, <2>3, <3>4 DEF Is32
  <2>4. QED
    BY <2>1, <2>2, <2>3 DEF Is32
<1>8. QED
  <2>1. /\ kept.mach = old.mach /\ kept.abi = old.abi /\ kept.rest = old.rest
        /\ Is32(kept) = Is32(old)
        /\ taken.mach = new.mach /\ taken.rest = old.rest
        /\ taken.abi = old.abi \/ (Is32(new) /\ taken.abi = new.abi)
    BY <1>2, <1>3, <1>4
  <2>2. QED
    BY <2>1, <1>7 DEF c, kept, taken

\* The flags that a comparison leaves.
LEMMA ComparedFlags ==
  ASSUME IInv, NEW b \in Bfds, MergeCompared(b), NEW new, new = NewFlags(b)
  PROVE  /\ e_flags \in FlagsWith(SUBSET Ases) /\ new \in FlagsWith(SUBSET Ases)
         /\ machine \in Machines /\ machine = e_flags.mach
         /\ machine' = IF TakesMachine(new) THEN new.mach ELSE machine
         /\ e_flags'.rest = e_flags.rest
         /\ e_flags'.ase = e_flags.ase \cup new.ase
         /\ e_flags'.abi = e_flags.abi
            \/ (TakesMachine(new) /\ Is32(new) /\ e_flags'.abi = new.abi)
         /\ ~AbiClash(new) \/ (AbiFits(new) /\ AbiFits(e_flags))
              => Is32(e_flags') = Is32(e_flags)
<1>1. e_flags \in FlagsWith(SUBSET Ases) /\ new \in FlagsWith(SUBSET Ases)
  BY NewFlagsType DEF IInv, TypeOK, MergeCompared
<1>2. machine \in Machines /\ machine = e_flags.mach
  BY <1>1 DEF IInv, TypeOK, MergeCompared, FlagsWith
<1>3. PICK old \in FlagsWith(SUBSET Ases) : old = e_flags
  BY <1>1
<1>4. PICK kept : kept = WithAses(WithConvention(old, new), new)
  OBVIOUS
<1>5. PICK taken : taken = WithMachine(kept, new)
  OBVIOUS
<1>6. /\ e_flags' = IF TakesMachine(new) THEN taken ELSE kept
      /\ machine' = IF TakesMachine(new) THEN new.mach ELSE machine
  BY <1>3, <1>4, <1>5 DEF MergeCompared
<1>7. kept.ase = old.ase \cup new.ase /\ taken.ase = old.ase \cup new.ase
  BY <1>1, <1>4, <1>5, MergedFlags DEF MergedFrom
<1>8. /\ kept.abi = old.abi /\ kept.rest = old.rest
      /\ Is32(kept) = Is32(old)
      /\ taken.rest = old.rest
      /\ taken.abi = old.abi \/ (Is32(new) /\ taken.abi = new.abi)
      /\ /\ Is32(new) = Is32(old)
         /\ "none" \in {new.abi, old.abi} \/ new.abi = old.abi
            \/ (AbiFits(new) /\ AbiFits(old))
         => Is32(taken) = Is32(old)
  BY <1>1, <1>4, <1>5, SizeOfMerged
<1>9. TakesMachine(new) => Is32(new) = Is32(old)
  BY <1>3 DEF TakesMachine, SizeClash
<1>10. ~AbiClash(new) => "none" \in {new.abi, old.abi} \/ new.abi = old.abi
  BY <1>3 DEF AbiClash
<1>11. QED
  BY <1>1, <1>2, <1>3, <1>6, <1>7, <1>8, <1>9, <1>10

\* Contained inputs run on the machine of the output after each step.
LEMMA CodeRunsStep ==
  ASSUME IInv, CodeRuns, [Next]_vars
  PROVE  CodeRuns'
<1>1. ASSUME NEW b \in Bfds, RefuseTarget(b)  PROVE CodeRuns'
  BY <1>1 DEF RefuseTarget, Take, CodeRuns
<1>2. ASSUME NEW b \in Bfds, MergeFirst(b)  PROVE CodeRuns'
  <2>1. Contained' \subseteq {b}
    BY <1>2 DEF MergeFirst, Contained, IInv, Started, Take
  <2>2. input[b].flags.mach \in Runs[input[b].flags.mach]
    BY NewFlagsSame, RunsOrder DEF IInv
  <2>3. QED
    BY <1>2, <2>1, <2>2 DEF MergeFirst, CodeRuns, Take
<1>3. ASSUME NEW b \in Bfds, MergeAlike(b)  PROVE CodeRuns'
  <2>1. Contained' \subseteq Contained \cup {b} /\ (b \in Contained' => NewFlags(b) = e_flags)
    BY <1>3 DEF MergeAlike, Contained, Take
  <2>2. /\ NewFlags(b) = e_flags => input[b].flags.mach = machine
                                    /\ Is32(input[b].flags) = Is32(e_flags)
        /\ input[b].flags.mach \in Runs[input[b].flags.mach]
    BY <1>3, NewFlagsSame, RunsOrder DEF IInv, TypeOK, MergeAlike
  <2>3. QED
    BY <1>3, <2>1, <2>2 DEF MergeAlike, CodeRuns, Take
<1>4. ASSUME NEW b \in Bfds, MergeCompared(b)  PROVE CodeRuns'
  <2> DEFINE new == NewFlags(b)
  <2> SUFFICES ASSUME refused' = {}, NEW a \in Contained'
               PROVE  /\ input[a].flags.mach \in Runs[machine']
                      /\ Is32(input[a].flags) = Is32(e_flags')
    BY <1>4 DEF CodeRuns, MergeCompared, Take
  <2>1. refused = {} /\ ~Clash(new)
    BY <1>4 DEF MergeCompared
  <2>2. /\ machine \in Machines /\ new.mach = input[b].flags.mach
        /\ new.mach \in Machines /\ Is32(new) = Is32(input[b].flags)
        /\ machine' = IF TakesMachine(new) THEN new.mach ELSE machine
        /\ Is32(e_flags') = Is32(e_flags)
    BY <1>4, <2>1, ComparedFlags, NewFlagsSame DEF IInv, Clash
  <2> HIDE DEF new
  <2>3. Is32(new) = Is32(e_flags)
    BY <2>1 DEF Clash, SizeClash
  <2>4. new.mach \in Runs[machine'] /\ machine \in Runs[machine']
    <3>1. new.mach \in Runs[machine] \/ (TakesMachine(new) /\ machine \in Runs[new.mach])
      BY <2>1, <2>2, ExtendsIsRuns DEF Clash, MachineClash, TakesMachine
    <3>2. machine \in Runs[machine] /\ new.mach \in Runs[new.mach]
      BY <2>2, RunsOrder
    <3>3. TakesMachine(new) => machine \in Runs[new.mach]
      BY <2>2, ExtendsIsRuns DEF TakesMachine
    <3>4. QED
      BY <2>2, <3>1, <3>2, <3>3
  <2>5. CASE a = b
    BY <2>2, <2>3, <2>4, <2>5
  <2>6. CASE a # b
    <3>1. a \in Contained /\ a \in Bfds
      BY <1>4, <2>6 DEF MergeCompared, Contained, Take
    <3>2. input[a].flags.mach \in Runs[machine] /\ Is32(input[a].flags) = Is32(e_flags)
      BY <2>1, <3>1 DEF CodeRuns
    <3>3. input[a].flags.mach \in Machines /\ machine' \in Machines
      BY <2>2, <3>1, NewFlagsSame DEF IInv
    <3>4. QED
      BY <2>2, <2>4, <3>2, <3>3, RunsOrder
  <2>7. QED
    BY <2>5, <2>6
<1>5. CASE UNCHANGED vars
  BY <1>5 DEF vars, CodeRuns, Contained
<1>6. QED
  BY <1>1, <1>2, <1>3, <1>4, <1>5 DEF Next

-----------------------------------------------------------------------------
(***************************************************************************)
(* What the flags of the output were taken from.                           *)
(***************************************************************************)
Merged == {b \in Bfds \ todo : input[b].fits}

\* Each thing that an input is compared with was that of an input before it.
Reasons ==
  e_flags # None =>
    /\ \E a \in Merged : NewFlags(a).mach = machine
    /\ \E a \in Merged : Is32(NewFlags(a)) = Is32(e_flags)
    /\ \E a \in Merged : NewFlags(a).rest = e_flags.rest
    /\ e_flags.abi = "none" \/ \E a \in Merged : NewFlags(a).abi = e_flags.abi
    /\ \A ase \in e_flags.ase : \E a \in Merged : ase \in NewFlags(a).ase
    /\ AbiFits(e_flags)

\* An input that is refused is not compatible with one that was merged before it.
LEMMA ClashHasReason ==
  ASSUME IInv, Reasons, NEW b \in Bfds, MergeCompared(b), Clash(NewFlags(b))
  PROVE  \E a \in Merged : Incompatible(a, b)
<1> DEFINE new == NewFlags(b)
<1>1. /\ machine \in Machines /\ new.mach \in Machines /\ machine = e_flags.mach
      /\ e_flags # None
  BY ComparedFlags, NewFlagsSame DEF IInv, MergeCompared
<1>2. \A a \in Merged : NewFlags(a).mach \in Machines
  BY NewFlagsSame DEF IInv, Merged
<1>3. CASE SizeClash(new)
  BY <1>1, <1>3 DEF Reasons, SizeClash, Incompatible
<1>4. CASE MachineClash(new)
  <2>1. PICK a \in Merged : NewFlags(a).mach = machine
    BY <1>1 DEF Reasons
  <2>2. machine \notin Runs[new.mach] /\ new.mach \notin Runs[machine]
    BY <1>1, <1>4, ExtendsIsRuns DEF MachineClash
  <2>3. QED
    BY <2>1, <2>2 DEF Incompatible
<1>5. CASE AbiClash(new)
  BY <1>1, <1>5 DEF Reasons, AbiClash, Incompatible
<1>6. CASE AseClash(new)
  <2>1. PICK ase \in e_flags.ase : {"m16", "micro"} \subseteq {ase} \cup new.ase
    BY <1>6 DEF AseClash
  <2>2. PICK a \in Merged : ase \in NewFlags(a).ase
    BY <1>1, <2>1 DEF Reasons
  <2>3. QED
    BY <2>1, <2>2 DEF Incompatible
<1>7. CASE RestClash(new)
  BY <1>1, <1>7 DEF Reasons, RestClash, Incompatible
<1>8. QED
  BY <1>3, <1>4, <1>5, <1>6, <1>7 DEF Clash

\* What was a reason stays one.
LEMMA MergedGrows ==
  ASSUME NEW b \in Bfds, Take(b)
  PROVE  /\ Merged \subseteq Merged'
         /\ input[b].fits => b \in Merged'
         /\ b \in todo => b \notin Merged
         /\ \A a : NewFlags(a)' = NewFlags(a)
         /\ \A a, c : Incompatible(a, c)' = Incompatible(a, c)
BY DEF Take, Merged, NewFlags, Incompatible

\* Reasons stay when the flags do.
LEMMA ReasonsKept ==
  ASSUME Reasons, NEW b \in Bfds, Take(b), UNCHANGED <<e_flags, machine>>
  PROVE  Reasons'
<1>1. Merged \subseteq Merged' /\ \A a : NewFlags(a)' = NewFlags(a)
  BY MergedGrows
<1>2. AbiFits(e_flags)' = AbiFits(e_flags)
  BY DEF AbiFits
<1>3. QED
  BY <1>1, <1>2 DEF Reasons

\* A reason that an input was refused for is not lost when more are merged.
LEMMA RefusedKept ==
  ASSUME RefusedForReason, NEW b \in Bfds, Take(b),
         \A c \in refused' \ refused :
           c = b /\ (~input[b].fits \/ \E a \in Merged : Incompatible(a, b))
  PROVE  RefusedForReason'
<1> SUFFICES ASSUME NEW c \in refused', input[c].fits
             PROVE  \E a \in (Bfds \ todo') \ {c} : input[a].fits /\ Incompatible(a, c)
  BY MergedGrows DEF RefusedForReason, Take
<1>1. CASE c \in refused
  BY <1>1 DEF RefusedForReason, Take
<1>2. CASE c \notin refused
  BY <1>2, MergedGrows DEF Merged, Take
<1>3. QED
  BY <1>1, <1>2

\* The reasons after each step.
LEMMA ReasonsStep ==
  ASSUME AbisFit, IInv, Reasons, RefusedForReason, [Next]_vars
  PROVE  Reasons' /\ RefusedForReason'
<1>1. ASSUME NEW b \in Bfds, RefuseTarget(b)  PROVE Reasons' /\ RefusedForReason'
  <2>1. Take(b) /\ UNCHANGED <<e_flags, machine>> /\ ~input[b].fits /\ refused' = refused \cup {b}
    BY <1>1 DEF RefuseTarget
  <2>2. QED
    BY <2>1, ReasonsKept, RefusedKept
<1>2. ASSUME NEW b \in Bfds, MergeFirst(b)  PROVE Reasons' /\ RefusedForReason'
  <2>1. /\ Take(b) /\ refused' = refused /\ input[b].fits
        /\ e_flags' = input[b].flags /\ machine' = input[b].flags.mach
    BY <1>2 DEF MergeFirst
  <2>2. b \in Merged' /\ \A a : NewFlags(a)' = NewFlags(a)
    BY <2>1, MergedGrows
  <2>3. /\ NewFlags(b).mach = input[b].flags.mach /\ NewFlags(b).abi = input[b].flags.abi
        /\ NewFlags(b).rest = input[b].flags.rest /\ NewFlags(b).ase = input[b].flags.ase
        /\ Is32(NewFlags(b)) = Is32(input[b].flags)
    BY NewFlagsSame, NewFlagsType DEF IInv
  <2>4. AbiFits(e_flags')
    BY <2>1 DEF AbisFit, IInv, TypeOK
  <2>5. Reasons'
    BY <2>1, <2>2, <2>3, <2>4 DEF Reasons
  <2>6. QED
    BY <2>1, <2>5, RefusedKept
<1>3. ASSUME NEW b \in Bfds, MergeAlike(b)  PROVE Reasons' /\ RefusedForReason'
  <2>1. Take(b) /\ UNCHANGED <<e_flags, machine>> /\ refused' = refused
    BY <1>3 DEF MergeAlike
  <2>2. QED
    BY <2>1, ReasonsKept, RefusedKept
<1>4. ASSUME NEW b \in Bfds, MergeCompared(b)  PROVE Reasons' /\ RefusedForReason'
  <2> DEFINE new == NewFlags(b)
  <2>1. /\ Take(b) /\ input[b].fits /\ e_flags # None
        /\ refused' = IF Clash(new) THEN refused \cup {b} ELSE refused
    BY <1>4 DEF MergeCompared
  <2>2. RefusedForReason'
    <3>1. Clash(new) => \E a \in Merged : Incompatible(a, b)
      BY <1>4, ClashHasReason
    <3> HIDE DEF new
    <3>2. QED
      BY <2>1, <3>1, RefusedKept
  <2>3. AbiFits(new) /\ AbiFits(e_flags)
    <3>1. AbiFits(input[b].flags)
      BY DEF AbisFit, IInv, TypeOK
    <3>2. QED
      BY <2>1, <3>1, NewFlagsSame DEF AbiFits, IInv, Reasons
  <2>4. /\ machine' = IF TakesMachine(new) THEN new.mach ELSE machine
        /\ e_flags'.rest = e_flags.rest
        /\ e_flags'.ase = e_flags.ase \cup new.ase
        /\ e_flags'.abi = e_flags.abi
           \/ (TakesMachine(new) /\ Is32(new) /\ e_flags'.abi = new.abi)
        /\ Is32(e_flags') = Is32(e_flags)
    BY <1>4, <2>3, ComparedFlags
  <2>5. Merged \subseteq Merged' /\ b \in Merged' /\ \A a : NewFlags(a)' = NewFlags(a)
    BY <2>1, MergedGrows
  <2>6. AbiFits(e_flags')
    BY <2>3, <2>4 DEF AbiFits
  <2> HIDE DEF new
  <2>7. NewFlags(b) = new
    BY DEF new
  <2>8. \E a \in Merged' : NewFlags(a)' .mach = machine'
    BY <2>1, <2>4, <2>5, <2>7 DEF Reasons
  <2>9. \E a \in Merged' : Is32(NewFlags(a)') = Is32(e_flags')
    BY <2>1, <2>4, <2>5 DEF Reasons
  <2>10. \E a \in Merged' : NewFlags(a)' .rest = e_flags'.rest
    BY <2>1, <2>4, <2>5 DEF Reasons
  <2>11. e_flags'.abi = "none" \/ \E a \in Merged' : NewFlags(a)' .abi = e_flags'.abi
    BY <2>1, <2>4, <2>5, <2>7 DEF Reasons
  <2>12. \A ase \in e_flags'.ase : \E a \in Merged' : ase \in NewFlags(a)' .ase
    BY <2>1, <2>4, <2>5, <2>7 DEF Reasons
  <2>13. Reasons'
    BY <2>6, <2>8, <2>9, <2>10, <2>11, <2>12 DEF Reasons
  <2>14. QED
    BY <2>2, <2>13
<1>5. CASE UNCHANGED vars
  <2>1. /\ input' = input /\ todo' = todo /\ e_flags' = e_flags
        /\ machine' = machine /\ refused' = refused
    BY <1>5 DEF vars
  <2>2. Merged' = Merged
    BY <2>1 DEF Merged
  <2>3. \A a : NewFlags(a)' = NewFlags(a)
    BY <2>1 DEF NewFlags
  <2>4. Reasons'
    BY <2>1, <2>2, <2>3 DEF Reasons
  <2>5. \A a, b : Incompatible(a, b)' = Incompatible(a, b)
    BY <2>3 DEF Incompatible
  <2>6. RefusedForReason'
    BY <2>1, <2>5 DEF RefusedForReason
  <2>7. QED
    BY <2>4, <2>6
<1>6. QED
  BY <1>1, <1>2, <1>3, <1>4, <1>5 DEF Next

-----------------------------------------------------------------------------
\* The machine of an output runs all of the code that a successful link puts into it,
\* whatever the order of the inputs, and 32-bit code stays recognised as such.
THEOREM OutputRunsCode == Spec => []CodeRuns
<1>1. Init => CodeRuns
  BY DEF Init, CodeRuns, Contained
<1>2. CodeRuns /\ IInv /\ [Next]_vars => CodeRuns'
  BY CodeRunsStep
<1>3. QED
  BY <1>1, <1>2, Invariance, PTL DEF Spec

\* An input is refused for what one input before it is, not for a mixture of several;
\* for all inputs of which 32-bit ones have no 64-bit ABI.
THEOREM RefusalsHaveReason ==
  ASSUME AbisFit
  PROVE  Spec => []RefusedForReason
<1>1. Init => Reasons /\ RefusedForReason
  BY DEF Init, Reasons, RefusedForReason
<1>2. Reasons /\ RefusedForReason /\ IInv /\ [Next]_vars => Reasons' /\ RefusedForReason'
  BY ReasonsStep
<1>3. QED
  BY <1>1, <1>2, Invariance, PTL DEF Spec
=============================================================================
